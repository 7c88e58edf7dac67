---------------------------- MODULE PartsProofs ----------------------------
(***************************************************************************)
(* TLAPS proofs about the parts that work alone, for every value of their  *)
(* constants: the ARP table, the forwarding cache, the serial line, the    *)
(* Ethernet driver, the small libraries of uIP, the memory partitions, the *)
(* round trip of TCP, the ports, the software timers, the kernel heap.     *)
(***************************************************************************)
EXTENDS UipArp, UipFw, Board, Enc28j60, UipLib, CoHeap, UipRtt, UipPorts, CoTmr, TLAPS,
        FiniteSetTheorems, WellFoundedInduction, SequenceTheorems

---------------------------------------------------------------------------
(* The ARP table.  LatestClaim is inductive with the shape of the table:   *)
(* where an address has no entry it does not matter which one is given to  *)
(* it, and where it has one that entry is the only one it could be found   *)
(* in.                                                                     *)

\* The shape of the variables that the invariant needs.
ArpShape ==
  /\ arp_table \in [Entries -> [ipaddr : Hosts \union {Zero}, ethaddr : Macs \union {ZeroMac}, time : Int]]
  /\ arptime \in Int
  /\ claims \in [Hosts -> Macs \union {ZeroMac}]

\* The two parts of LatestClaim: the table and the frame.
TableAgrees ==
  \A i \in Entries : arp_table[i].ipaddr \in Hosts \ HalfZero =>
    /\ arp_table[i].ethaddr = claims[arp_table[i].ipaddr]
    /\ \A j \in Entries : arp_table[j].ipaddr = arp_table[i].ipaddr => j = i
FrameAgrees == frame.kind = "ip" /\ frame.hop \notin HalfZero => frame.to = claims[frame.hop]

ArpInv == ArpShape /\ TableAgrees /\ FrameAgrees

\* The least element of a set of one number is that number (Min, by which the
\* loops over the table that stop at the first match are modelled).
LEMMA MinOfOne == ASSUME NEW i, NEW S, S = {i}, i <= i PROVE Min(S) = i
  BY DEF Min

\* An address without a zero half is looked for where its entry is
\* (uip_arp_update's first loop).
LEMMA PlaceOfKnown ==
  ASSUME ArpInv, NEW ip \in Hosts \ HalfZero, NEW i \in Entries, arp_table[i].ipaddr = ip
  PROVE Place(ip) = i
<1>1. ip # Zero BY ArpAssumption
<1>2. Known(ip) = {i} BY <1>1 DEF Known, ArpInv, TableAgrees
<1>3. i \in Int BY ArpAssumption DEF Entries
<1>4. Min(Known(ip)) = i BY <1>2, <1>3, MinOfOne
<1> QED BY <1>2, <1>4 DEF Place

\* The table after uip_arp_update, wherever the claim was put.
LEMMA UpdatedTable ==
  ASSUME ArpShape, NEW ip, NEW mac, uip_arp_update(ip, mac), NEW i \in Entries
  PROVE arp_table'[i] = IF i = Place(ip)
                        THEN [ipaddr |-> ip, ethaddr |-> mac, time |-> arptime] ELSE arp_table[i]
  BY DEF uip_arp_update, ArpShape

\* A claim to us leaves one entry for each address, with who claimed it last.
LEMMA ArpinAgrees ==
  ASSUME ArpInv, NEW opcode, NEW ip \in Hosts \union {Zero}, NEW mac \in Macs,
         uip_arp_arpin(opcode, ip, mac)
  PROVE ArpInv'
<1> USE DEF ArpInv
<1> DEFINE new == [ipaddr |-> ip, ethaddr |-> mac, time |-> arptime]
<1>1. uip_arp_update(ip, mac) /\ Claim(ip, mac) /\ arptime' = arptime
  BY DEF uip_arp_arpin
<1>2. \A i \in Entries : arp_table'[i] = IF i = Place(ip) THEN new ELSE arp_table[i]
  BY <1>1, UpdatedTable
<1>3. ArpShape'
  <2>1. new \in [ipaddr : Hosts \union {Zero}, ethaddr : Macs \union {ZeroMac}, time : Int]
    BY DEF ArpShape
  <2>2. arp_table' \in [Entries -> [ipaddr : Hosts \union {Zero}, ethaddr : Macs \union {ZeroMac}, time : Int]]
    BY <1>1, <2>1 DEF uip_arp_update, ArpShape
  <2>3. claims' \in [Hosts -> Macs \union {ZeroMac}]
    BY <1>1 DEF Claim, ArpShape
  <2> QED BY <1>1, <2>2, <2>3 DEF ArpShape, Entries
<1>4. ASSUME NEW i \in Entries, arp_table'[i].ipaddr \in Hosts \ HalfZero
      PROVE /\ arp_table'[i].ethaddr = claims'[arp_table'[i].ipaddr]
            /\ \A j \in Entries : arp_table'[j].ipaddr = arp_table'[i].ipaddr => j = i
  <2>1. \A h \in Hosts : claims'[h] = IF h = ip THEN mac ELSE claims[h]
    BY <1>1 DEF Claim
  <2>2. CASE arp_table'[i].ipaddr = ip
    <3>1. \A j \in Entries : arp_table[j].ipaddr = ip => j = Place(ip)
      BY <2>2, <1>4, PlaceOfKnown
    <3>2. \A j \in Entries : arp_table'[j].ipaddr = ip => j = Place(ip)
      BY <1>2, <3>1
    <3>3. i = Place(ip) /\ arp_table'[i] = new
      BY <1>2, <2>2, <3>2
    <3> QED BY <1>4, <2>1, <2>2, <3>2, <3>3
  <2>3. CASE arp_table'[i].ipaddr # ip
    <3>1. arp_table'[i] = arp_table[i] BY <1>2, <2>3
    <3>2. \A j \in Entries : arp_table'[j].ipaddr = arp_table'[i].ipaddr =>
            arp_table'[j] = arp_table[j]
      BY <1>2, <2>3
    <3> QED BY <1>4, <2>1, <2>3, <3>1, <3>2 DEF TableAgrees
  <2> QED BY <2>2, <2>3
<1>5. TableAgrees' BY <1>4 DEF TableAgrees, Entries
<1>6. frame'.kind # "ip" BY DEF uip_arp_arpin, Nobody
<1> QED BY <1>3, <1>5, <1>6 DEF FrameAgrees

\* Entries that are only cleared or left alone stay right (uip_arp_init,
\* uip_arp_timer).
LEMMA ClearingAgrees ==
  ASSUME ArpInv, ArpShape', UNCHANGED claims, frame'.kind # "ip",
         \A i \in Entries : arp_table'[i] = arp_table[i] \/ arp_table'[i].ipaddr = Zero
  PROVE ArpInv'
<1>1. Zero \notin Hosts BY ArpAssumption
<1>2. TableAgrees'
  <2> SUFFICES ASSUME NEW i \in Entries, arp_table'[i].ipaddr \in Hosts \ HalfZero
               PROVE /\ arp_table'[i].ethaddr = claims'[arp_table'[i].ipaddr]
                     /\ \A j \in Entries : arp_table'[j].ipaddr = arp_table'[i].ipaddr => j = i
    BY DEF TableAgrees, Entries
  <2>1. arp_table'[i] = arp_table[i] BY <1>1
  <2>2. \A j \in Entries : arp_table'[j].ipaddr = arp_table'[i].ipaddr => arp_table'[j] = arp_table[j]
    BY <1>1
  <2> QED BY <2>1, <2>2 DEF ArpInv, TableAgrees
<1> QED BY <1>2 DEF ArpInv, FrameAgrees

LEMMA InitAgrees ==
  ASSUME uip_arp_init, ArpInv PROVE ArpInv'
<1>1. ArpShape' BY DEF uip_arp_init, ArpInv, ArpShape, Entries
<1>2. \A i \in Entries : arp_table'[i].ipaddr = Zero BY DEF uip_arp_init, ArpInv, ArpShape
<1>3. UNCHANGED claims /\ frame'.kind # "ip" BY DEF uip_arp_init, Nobody
<1> QED BY <1>1, <1>2, <1>3, ClearingAgrees

LEMMA TimerAgrees ==
  ASSUME uip_arp_timer, ArpInv PROVE ArpInv'
<1>1. arptime' \in Int BY ArpAssumption DEF uip_arp_timer, ArpInv, ArpShape
<1>2. ArpShape' BY <1>1 DEF uip_arp_timer, ArpInv, ArpShape, Entries
<1>3. \A i \in Entries : arp_table'[i] = arp_table[i] \/ arp_table'[i].ipaddr = Zero
  BY DEF uip_arp_timer, ArpInv, ArpShape
<1>4. UNCHANGED claims /\ frame'.kind # "ip" BY DEF uip_arp_timer, Nobody
<1> QED BY <1>2, <1>3, <1>4, ClearingAgrees

\* A packet leaves for the one entry of its next hop (uip_arp_out).
LEMMA OutAgrees ==
  ASSUME ArpInv, NEW dest \in Hosts \union {Remote}, uip_arp_out(dest) PROVE ArpInv'
<1> DEFINE hop == NextHop(dest)
<1>1. UNCHANGED <<arp_table, arptime, claims>> BY DEF uip_arp_out
<1>2. ArpShape' /\ TableAgrees' BY <1>1 DEF ArpInv, ArpShape, TableAgrees, Entries
<1>3. FrameAgrees'
  <2> SUFFICES ASSUME frame'.kind = "ip", frame'.hop \notin HalfZero
               PROVE frame'.to = claims[frame'.hop]
    BY <1>1 DEF FrameAgrees
  <2>1. Reached(hop) # {} BY DEF uip_arp_out
  <2>2. frame' = [kind |-> "ip", hop |-> hop, to |-> arp_table[Min(Reached(hop))].ethaddr]
    BY <2>1 DEF uip_arp_out
  <2>3. hop \in Hosts \ HalfZero BY <2>2, ArpAssumption DEF NextHop
  <2>4. PICK i \in Entries : arp_table[i].ipaddr = hop BY <2>1 DEF Reached
  <2>5. Reached(hop) = {i} BY <2>3, <2>4 DEF Reached, ArpInv, TableAgrees
  <2>6. i <= i BY ArpAssumption DEF Entries
  <2>7. Min(Reached(hop)) = i BY <2>5, <2>6, MinOfOne
  <2> QED BY <2>2, <2>3, <2>4, <2>7 DEF ArpInv, TableAgrees
<1> QED BY <1>2, <1>3 DEF ArpInv

LEMMA OthersAgree ==
  ASSUME ArpInv, ArpIgnored \/ ArpOutBroadcast \/ UNCHANGED arpVars PROVE ArpInv'
<1>1. UNCHANGED <<arp_table, arptime, claims>> BY DEF ArpIgnored, ArpOutBroadcast, arpVars
<1>2. UNCHANGED frame \/ frame'.kind # "ip" BY DEF ArpIgnored, ArpOutBroadcast, arpVars, Nobody
<1> QED BY <1>1, <1>2 DEF ArpInv, ArpShape, TableAgrees, FrameAgrees, Entries

\* An address without a zero half has one entry, with who claimed it last, and
\* packets to it leave for that one: whatever refreshes, evictions, probes,
\* expiries and wraps of the age come in between.
THEOREM ArpLatestClaim == ArpSpec => []LatestClaim
<1>1. ArpInit => ArpInv
  <2> SUFFICES ASSUME ArpInit PROVE ArpInv OBVIOUS
  <2>1. ArpShape BY DEF ArpInit, ArpShape
  <2>2. \A i \in Entries : arp_table[i].ipaddr \notin Hosts BY ArpAssumption DEF ArpInit
  <2>3. frame.kind # "ip" BY DEF ArpInit, Nobody
  <2> QED BY <2>1, <2>2, <2>3 DEF ArpInv, TableAgrees, FrameAgrees
<1>2. ArpInv /\ [ArpNext]_arpVars => ArpInv'
  <2> SUFFICES ASSUME ArpInv, [ArpNext]_arpVars PROVE ArpInv' OBVIOUS
  <2>1. CASE uip_arp_init BY <2>1, InitAgrees
  <2>2. CASE uip_arp_timer BY <2>2, TimerAgrees
  <2>3. CASE ArpIgnored \/ ArpOutBroadcast \/ UNCHANGED arpVars BY <2>3, OthersAgree
  <2>4. ASSUME NEW opcode \in {"request", "reply"}, NEW ip \in Hosts \union {Zero}, NEW mac \in Macs,
               uip_arp_arpin(opcode, ip, mac)
        PROVE ArpInv'
    BY <2>4, ArpinAgrees
  <2>5. ASSUME NEW dest \in Hosts \union {Remote}, uip_arp_out(dest) PROVE ArpInv'
    BY <2>5, OutAgrees
  <2> QED BY <2>1, <2>2, <2>3, <2>4, <2>5 DEF ArpNext
<1>3. ArpInv => LatestClaim BY DEF ArpInv, TableAgrees, FrameAgrees, LatestClaim
<1> QED BY <1>1, <1>2, <1>3, PTL DEF ArpSpec

---------------------------------------------------------------------------
(* The forwarding cache.  RemembersTheYoung is inductive with its types:   *)
(* an entry is overwritten only when it is free, or when no entry has less *)
(* time left.                                                              *)

FwShape ==
  /\ fwcache \in [Slots -> [timer : 0 .. FW_TIME, packet : FwPackets \union {NoPacket}]]
  /\ remaining \in [FwPackets -> 0 .. FW_TIME]

FwInv == FwShape /\ RemembersTheYoung

\* A set of numbers that is not empty has a least one.
LEMMA LeastNumber ==
  ASSUME NEW T \in SUBSET Nat, T # {}
  PROVE  Min(T) \in T /\ \A y \in T : Min(T) <= y
<1>. DEFINE R == OpToRel(<, Nat)
<1>1. IsWellFoundedOn(R, Nat) BY NatLessThanWellFounded
<1>2. \A x, y \in Nat : y < x => <<y, x>> \in R BY DEF OpToRel
<1>. HIDE DEF R
<1>3. PICK x \in T : \A y \in T : ~(<<y, x>> \in R) BY <1>1, WFMin
<1>4. ASSUME NEW y \in T PROVE x <= y
  <2>1. ~(y < x) /\ x \in Nat /\ y \in Nat BY <1>2, <1>3
  <2> QED BY <2>1
<1> QED BY <1>3, <1>4 DEF Min

\* A set with 0 and, with each of its numbers, the next, has them all.  The library's
\* induction theorems take an operator, which the provers cannot instantiate: that a
\* set of numbers that is not empty has a least one serves as well.
LEMMA SetInduction ==
  ASSUME NEW S, 0 \in S, \A n \in Nat : n \in S => n + 1 \in S
  PROVE  Nat \subseteq S
<1> SUFFICES ASSUME Nat \ S # {} PROVE FALSE OBVIOUS
<1> DEFINE T == Nat \ S
<1>1. T \in SUBSET Nat /\ T # {} OBVIOUS
<1> HIDE DEF T
<1>2. Min(T) \in T /\ \A y \in T : Min(T) <= y BY <1>1, LeastNumber
<1> DEFINE n == Min(T)
<1> HIDE DEF n
<1>3. n \in Nat /\ n \notin S /\ \A y \in Nat : y \notin S => n <= y BY <1>2 DEF T, n
<1>4. n # 0 BY <1>3
<1>5. n - 1 \in Nat /\ ~(n <= n - 1) BY <1>3, <1>4
<1>6. n - 1 \in S BY <1>3, <1>5
<1>7. (n - 1) + 1 \in S BY <1>5, <1>6
<1>8. (n - 1) + 1 = n BY <1>3
<1> QED BY <1>3, <1>7, <1>8

\* And one whose members are all below some bound has a greatest one.
LEMMA GreatestNumber ==
  ASSUME NEW n \in Nat, NEW T \in SUBSET (1 .. n), T # {}
  PROVE  Max(T) \in T
<1>. DEFINE U == {n - x : x \in T}
<1>1. U \in SUBSET Nat /\ U # {}
  <2>1. ASSUME NEW x \in T PROVE n - x \in Nat
    <3>1. x \in 1 .. n OBVIOUS
    <3> QED BY <3>1
  <2>2. PICK x \in T : TRUE OBVIOUS
  <2>3. n - x \in U OBVIOUS
  <2> QED BY <2>1, <2>3
<1>2. Min(U) \in U /\ \A y \in U : Min(U) <= y BY <1>1, LeastNumber
<1>3. PICK x \in T : Min(U) = n - x BY <1>2
<1>4. \A y \in T : n - x <= n - y BY <1>2, <1>3
<1>5. \A y \in T : y <= x BY <1>4
<1> QED BY <1>3, <1>5 DEF Max

\* fwcache_register overwrites a free entry, or one with the least time left.
LEMMA VictimIsOldest ==
  ASSUME FwShape
  PROVE  /\ Victim \in Slots
         /\ fwcache[Victim].timer = 0 \/ \A i \in Slots : fwcache[Victim].timer <= fwcache[i].timer
<1>1. FWCACHE_SIZE \in Nat /\ Slots \in SUBSET Nat /\ Slots # {}
  <2>1. FWCACHE_SIZE \in Nat /\ FWCACHE_SIZE >= 1 BY FwAssumption
  <2>2. 1 \in Slots BY <2>1 DEF Slots
  <2> QED BY <2>1, <2>2 DEF Slots
<1>2. CASE FreeSlots # {}
  <2>1. FreeSlots \in SUBSET Nat BY <1>1 DEF FreeSlots
  <2>2. Victim \in FreeSlots BY <1>2, <2>1, LeastNumber DEF Victim
  <2> QED BY <2>2 DEF FreeSlots
<1>3. CASE FreeSlots = {}
  <2>. DEFINE T == {fwcache[i].timer : i \in Slots}
  <2>1. T \in SUBSET Nat /\ T # {}
    <3>1. FW_TIME \in Nat BY FwAssumption
    <3>2. \A i \in Slots : fwcache[i].timer \in Nat BY <3>1 DEF FwShape
    <3>3. PICK i \in Slots : TRUE BY <1>1
    <3>4. fwcache[i].timer \in T OBVIOUS
    <3> QED BY <3>2, <3>4
  <2>2. PICK i \in Slots : Min(T) = fwcache[i].timer BY <2>1, LeastNumber
  <2>3. \A j \in Slots : Min(T) <= fwcache[j].timer BY <2>1, LeastNumber
  <2>4. i \in Least BY <2>2, <2>3 DEF Least
  <2>5. Least \in SUBSET (1 .. FWCACHE_SIZE) BY DEF Least, Slots
  <2>6. Max(Least) \in Least BY <1>1, <2>4, <2>5, GreatestNumber
  <2>7. Victim \in Least BY <1>3, <2>6 DEF Victim
  <2> QED BY <2>7 DEF Least
<1> QED BY <1>2, <1>3

\* What is registered is the youngest, and what it overwrites is remembered by
\* the entries that are no older.
LEMMA RegisterRemembers ==
  ASSUME FwInv, NEW p \in FwPackets, fwcache_register(p)
  PROVE  FwInv'
<1>1. PICK v \in Slots : /\ fwcache' = [fwcache EXCEPT ![v] = [timer |-> FW_TIME, packet |-> p]]
                         /\ fwcache[v].timer = 0 \/ \A i \in Slots : fwcache[v].timer <= fwcache[i].timer
  BY VictimIsOldest DEF FwInv, fwcache_register
<1>2. FW_TIME \in Nat /\ remaining' = [remaining EXCEPT ![p] = FW_TIME]
  BY FwAssumption DEF fwcache_register
<1>3. FwShape' BY <1>1, <1>2 DEF FwInv, FwShape
<1>4. fwcache'[v] = [timer |-> FW_TIME, packet |-> p] /\ \A i \in Slots \ {v} : fwcache'[i] = fwcache[i]
  BY <1>1 DEF FwInv, FwShape
<1>5. remaining'[p] = FW_TIME BY <1>2 DEF FwInv, FwShape
<1>6. ASSUME NEW q \in FwPackets \ {p}, remaining'[q] > 0
      PROVE  \/ \E i \in Slots : fwcache'[i] = [timer |-> remaining'[q], packet |-> q]
             \/ \A i \in Slots : fwcache'[i].timer >= remaining'[q]
  <2>1. remaining'[q] = remaining[q] /\ remaining[q] \in 0 .. FW_TIME BY <1>2 DEF FwInv, FwShape
  <2>2. CASE \E i \in Slots \ {v} : fwcache[i] = [timer |-> remaining[q], packet |-> q]
    BY <1>4, <2>1, <2>2
  <2>3. CASE \A i \in Slots : fwcache[i].timer >= remaining[q]
    BY <1>2, <1>4, <2>1, <2>3
  <2>4. CASE fwcache[v] = [timer |-> remaining[q], packet |-> q]
    <3>1. \A i \in Slots : remaining[q] <= fwcache[i].timer BY <1>1, <1>6, <2>1, <2>4
    <3>2. \A i \in Slots : fwcache[i].timer \in Int BY <1>2 DEF FwInv, FwShape
    <3> QED BY <1>2, <1>4, <2>1, <3>1, <3>2
  <2> QED BY <1>6, <2>1, <2>2, <2>3, <2>4 DEF FwInv, RemembersTheYoung
<1>7. RemembersTheYoung' BY <1>4, <1>5, <1>6 DEF RemembersTheYoung
<1> QED BY <1>3, <1>7 DEF FwInv

\* The times of the entries and of the history count down together.
LEMMA PeriodicRemembers ==
  ASSUME FwInv, uip_fw_periodic
  PROVE  FwInv'
<1>1. FW_TIME \in Nat BY FwAssumption
<1>2. \A i \in Slots : /\ fwcache'[i].packet = fwcache[i].packet
                       /\ fwcache'[i].timer = IF fwcache[i].timer > 0 THEN fwcache[i].timer - 1 ELSE 0
                       /\ fwcache'[i] \in [timer : 0 .. FW_TIME, packet : FwPackets \union {NoPacket}]
  BY <1>1 DEF FwInv, FwShape, uip_fw_periodic
<1>3. \A p \in FwPackets : /\ remaining'[p] = IF remaining[p] > 0 THEN remaining[p] - 1 ELSE 0
                           /\ remaining'[p] \in 0 .. FW_TIME
  BY <1>1 DEF FwInv, FwShape, uip_fw_periodic
<1>4. FwShape' BY <1>2, <1>3 DEF uip_fw_periodic, FwShape
<1>5. ASSUME NEW p \in FwPackets, remaining'[p] > 0
      PROVE  \/ \E i \in Slots : fwcache'[i] = [timer |-> remaining'[p], packet |-> p]
             \/ \A i \in Slots : fwcache'[i].timer >= remaining'[p]
  <2>1. remaining[p] \in Int /\ remaining[p] > 0 /\ remaining'[p] = remaining[p] - 1
    BY <1>1, <1>3, <1>5 DEF FwInv, FwShape
  <2>2. ASSUME NEW i \in Slots, fwcache[i] = [timer |-> remaining[p], packet |-> p]
        PROVE  fwcache'[i] = [timer |-> remaining'[p], packet |-> p]
    BY <1>2, <2>1, <2>2
  <2>3. ASSUME \A i \in Slots : fwcache[i].timer >= remaining[p]
        PROVE  \A i \in Slots : fwcache'[i].timer >= remaining'[p]
    <3>1. \A i \in Slots : fwcache[i].timer \in Int BY <1>1 DEF FwInv, FwShape
    <3> QED BY <1>2, <2>1, <2>3, <3>1
  <2> QED BY <2>1, <2>2, <2>3 DEF FwInv, RemembersTheYoung
<1> QED BY <1>4, <1>5 DEF FwInv, RemembersTheYoung

\* A packet that was sent less than FW_TIME calls of uip_fw_periodic ago is in
\* the cache, or the cache is full of packets that are no older
\* (uip_fw_forward, uip_fw_output, uip_fw_periodic).
THEOREM CacheRemembers == FwSpec => []RemembersTheYoung
<1>1. FwInit => FwInv
  <2>1. FW_TIME \in Nat BY FwAssumption
  <2> QED BY <2>1 DEF FwInit, FwInv, FwShape, RemembersTheYoung
<1>2. FwInv /\ [FwNext]_fwVars => FwInv'
  <2> SUFFICES ASSUME FwInv, [FwNext]_fwVars PROVE FwInv' OBVIOUS
  <2>1. CASE UNCHANGED <<fwcache, remaining>>
    BY <2>1 DEF FwInv, FwShape, RemembersTheYoung
  <2>2. ASSUME NEW p \in FwPackets, NEW status, uip_fw_output(p, status) PROVE FwInv'
    BY <2>2, RegisterRemembers DEF uip_fw_output
  <2>3. ASSUME NEW p \in FwPackets, NEW expired \in BOOLEAN, uip_fw_forward(p, expired) PROVE FwInv'
    <3>1. TimeExceeded[p] \in FwPackets BY FwAssumption
    <3> QED BY <2>1, <2>2, <2>3, <3>1 DEF uip_fw_forward, Keep, Drop
  <2>4. CASE uip_fw_periodic BY <2>4, PeriodicRemembers
  <2> QED BY <2>1, <2>2, <2>3, <2>4
          DEF FwNext, fwVars, uip_fw_init, uip_fw_register, uip_fw_default, Output
<1>3. FwInv => RemembersTheYoung BY DEF FwInv
<1> QED BY <1>1, <1>2, <1>3, PTL DEF FwSpec

---------------------------------------------------------------------------
(* The serial line loses and garbles nothing, whatever the crystal does.   *)

\* The steps of the start, in order.
Early == {"init", "hse", "chosen", "pll"}
Steady == {"main", "pins", "usart", "enable", "send"}
Stages == Early \union {"switch"} \union Steady

\* Nothing but SelectPll asks for another clock, and main begins when it is in use.
ClockInv ==
  /\ bootPc \in Stages
  /\ bootPc \in Early => SW = "hsi" /\ SWS = "hsi"
  /\ bootPc = "switch" => SW = "pll"
  /\ bootPc \in Steady => SW = SWS

\* What usartInit has done at each of its steps.
SetUpInv ==
  /\ usart \in [UE : BOOLEAN, TE : BOOLEAN, BRR : Int]
  /\ bootPc \in {"pins", "usart", "enable", "send"} => {"GPIOA", "USART2"} \subseteq clocked
  /\ bootPc \in {"usart", "enable", "send"} => pinAF
  /\ bootPc \in {"enable", "send"} => usart.BRR = Rounded(SYSCLK)

\* Nothing is on its way before the USART is enabled, which is before the first byte.
QuietInv ==
  bootPc # "send" => usart.UE = FALSE /\ TDR = NoByte /\ shift = NoByte

LineTypes ==
  /\ TDR \in Data \union {NoByte} /\ shift \in Data \union {NoByte}
  /\ handed \in Seq(Data) /\ heard \in Seq(Data)

LineInv == ClockInv /\ SetUpInv /\ QuietInv /\ LineTypes /\ LineIsRight

\* The divider is a number, for whatever clock is in use.
LEMMA RoundedIsInt == ASSUME NEW source PROVE Rounded(Frequency(source)) \in Int
<1>1. Frequency(source) \in Nat BY BoardAssumption DEF Frequency
<1> QED BY <1>1, BoardAssumption DEF Rounded

\* What is on its way, oldest first.
OnTheWay(line, register) ==
  (IF line = NoByte THEN <<>> ELSE <<line>>) \o (IF register = NoByte THEN <<>> ELSE <<register>>)

\* A byte put into the empty data register comes behind all that is on its way.
LEMMA ByteEntersLine ==
  ASSUME NEW byte \in Data, shift \in Data \union {NoByte}, heard \in Seq(Data)
  PROVE  Append(heard \o OnTheWay(shift, NoByte), byte) = heard \o OnTheWay(shift, byte)
<1>1. byte # NoByte BY BoardAssumption
<1>2. CASE shift = NoByte BY <1>1, <1>2 DEF OnTheWay
<1>3. CASE shift # NoByte BY <1>1, <1>3 DEF OnTheWay
<1> QED BY <1>2, <1>3

\* A byte that leaves the line is the first of those on their way.
LEMMA ByteLeavesLine ==
  ASSUME shift \in Data, TDR \in Data \union {NoByte}, heard \in Seq(Data)
  PROVE  heard \o OnTheWay(shift, TDR) = Append(heard, shift) \o OnTheWay(NoByte, TDR)
<1>1. shift # NoByte BY BoardAssumption
<1>2. CASE TDR = NoByte BY <1>1, <1>2 DEF OnTheWay
<1>3. CASE TDR # NoByte BY <1>1, <1>3 DEF OnTheWay
<1> QED BY <1>2, <1>3

LEMMA BoardInitInv == BoardInit => LineInv
<1> SUFFICES ASSUME BoardInit PROVE LineInv OBVIOUS
<1> USE DEF BoardInit
<1>1. ClockInv BY DEF ClockInv, Stages, Early, Steady
<1>2. SetUpInv BY DEF SetUpInv, UsartOff
<1>3. QuietInv BY DEF QuietInv, UsartOff
<1>4. LineTypes BY DEF LineTypes
<1>5. LineIsRight BY DEF LineIsRight
<1> QED BY <1>1, <1>2, <1>3, <1>4, <1>5 DEF LineInv

---------------------------------------------------------------------------
(* The hardware *)

LEMMA OscillatorsKeepLineInv ==
  ASSUME LineInv, HseStarts \/ PllLocks \/ Switches PROVE LineInv'
<1> USE DEF LineInv
<1>0. UNCHANGED <<bootPc, SW, ioVars, lineVars>> BY DEF HseStarts, PllLocks, Switches
<1>1. SWS' = SWS \/ (SWS' = SW /\ SW # SWS) BY DEF HseStarts, PllLocks, Switches
<1>2. ClockInv' BY <1>0, <1>1 DEF ClockInv, Stages, Early, Steady
<1>3. SetUpInv'
  <2>1. bootPc \in {"enable", "send"} => SWS' = SWS BY <1>1 DEF ClockInv, Steady
  <2> QED BY <2>1, <1>0 DEF SetUpInv, ioVars, SYSCLK
<1>4. QuietInv' BY <1>0 DEF QuietInv, ioVars, lineVars
<1>5. LineTypes' /\ LineIsRight' BY <1>0 DEF LineTypes, LineIsRight, lineVars
<1> QED BY <1>2, <1>3, <1>4, <1>5

LEMMA LineIsRightMeans == LineIsRight <=> handed = heard \o OnTheWay(shift, TDR)
BY DEF LineIsRight, OnTheWay

LEMMA ShiftsKeepsLineInv == ASSUME LineInv, Shifts PROVE LineInv'
<1> USE DEF LineInv
<1>0. UNCHANGED <<bootPc, clockVars, ioVars, handed, heard>> BY DEF Shifts
<1>1. TDR \in Data /\ shift = NoByte /\ shift' = TDR /\ TDR' = NoByte BY DEF Shifts, LineTypes
<1>2. bootPc = "send" BY DEF Shifts, Sending, QuietInv
<1>3. ClockInv' /\ SetUpInv' BY <1>0 DEF ClockInv, SetUpInv, clockVars, ioVars, SYSCLK
<1>4. QuietInv' BY <1>0, <1>2 DEF QuietInv
<1>5. LineTypes' BY <1>0, <1>1 DEF LineTypes
<1>6. LineIsRight'
  <2>1. handed = heard \o OnTheWay(NoByte, TDR) BY <1>1, LineIsRightMeans
  <2>2. OnTheWay(NoByte, TDR) = OnTheWay(TDR, NoByte) BY <1>1, BoardAssumption DEF OnTheWay
  <2>3. OnTheWay(shift', TDR') = OnTheWay(TDR, NoByte) BY <1>1
  <2> QED BY <2>1, <2>2, <2>3, <1>0 DEF LineIsRight, OnTheWay
<1> QED BY <1>3, <1>4, <1>5, <1>6

LEMMA LeavesKeepsLineInv == ASSUME LineInv, Leaves PROVE LineInv'
<1> USE DEF LineInv
<1>0. UNCHANGED <<bootPc, clockVars, ioVars, TDR, handed>> BY DEF Leaves
<1>1. shift \in Data /\ shift' = NoByte BY DEF Leaves, LineTypes
<1>2. bootPc = "send" BY DEF Leaves, Sending, QuietInv
<1>3. heard' = Append(heard, shift)
  <2>1. pinAF /\ usart.BRR = Rounded(SYSCLK) BY <1>2 DEF SetUpInv
  <2> QED BY <2>1 DEF Leaves
<1>4. ClockInv' /\ SetUpInv' BY <1>0 DEF ClockInv, SetUpInv, clockVars, ioVars, SYSCLK
<1>5. QuietInv' BY <1>0, <1>2 DEF QuietInv
<1>6. LineTypes' BY <1>0, <1>1, <1>3 DEF LineTypes
<1>7. LineIsRight'
  <2>1. handed = heard' \o OnTheWay(NoByte, TDR)
    BY <1>1, <1>3, LineIsRightMeans, ByteLeavesLine DEF LineTypes
  <2> QED BY <2>1, <1>0, <1>1 DEF LineIsRight, OnTheWay
<1> QED BY <1>4, <1>5, <1>6, <1>7

---------------------------------------------------------------------------
(* The start, the set-up and the sender *)

LEMMA ClockSetUpKeepsLineInv ==
  ASSUME LineInv,
         SystemInit \/ WaitHse \/ UseCrystal \/ KeepHsi \/ SelectPll \/ PllInUse
  PROVE  LineInv'
<1> USE DEF LineInv, AtBoot
<1>0. UNCHANGED <<ioVars, lineVars>>
  BY DEF SystemInit, WaitHse, UseCrystal, KeepHsi, SelectPll, PllInUse
<1>1. /\ bootPc \in {"init", "hse", "chosen", "pll", "switch"}
      /\ bootPc' \in {"hse", "chosen", "pll", "switch", "main"}
  BY DEF SystemInit, WaitHse, UseCrystal, KeepHsi, SelectPll, PllInUse
<1>2. ClockInv'
  <2>1. CASE SystemInit BY <2>1 DEF SystemInit, ClockInv, Stages, Early, Steady
  <2>2. CASE WaitHse BY <2>2 DEF WaitHse, clockVars, ClockInv, Stages, Early, Steady
  <2>3. CASE UseCrystal BY <2>3 DEF UseCrystal, ClockInv, Stages, Early, Steady
  <2>4. CASE KeepHsi BY <2>4 DEF KeepHsi, clockVars, ClockInv, Stages, Early, Steady
  <2>5. CASE SelectPll BY <2>5 DEF SelectPll, ClockInv, Stages, Early, Steady
  <2>6. CASE PllInUse
    <3>1. SW = "pll"
      BY <2>6, <1>1 DEF PllInUse, ClockInv, Stages, Early, Steady
    <3> QED BY <3>1, <2>6 DEF PllInUse, clockVars, ClockInv, Stages, Early, Steady
  <2> QED BY <2>1, <2>2, <2>3, <2>4, <2>5, <2>6
<1>3. SetUpInv' BY <1>0, <1>1 DEF SetUpInv, ioVars
<1>4. QuietInv' BY <1>0, <1>1 DEF QuietInv, ioVars, lineVars
<1>5. LineTypes' /\ LineIsRight' BY <1>0 DEF LineTypes, LineIsRight, lineVars
<1> QED BY <1>2, <1>3, <1>4, <1>5

LEMMA UsartInitKeepsLineInv ==
  ASSUME LineInv, ClocksOn \/ Pins \/ USART_Init \/ USART_Cmd PROVE LineInv'
<1> USE DEF LineInv, AtBoot
<1>0. UNCHANGED <<clockVars, lineVars>> BY DEF ClocksOn, Pins, USART_Init, USART_Cmd
<1>1. /\ bootPc \in {"main", "pins", "usart", "enable"}
      /\ bootPc' \in {"pins", "usart", "enable", "send"}
  BY DEF ClocksOn, Pins, USART_Init, USART_Cmd
<1>2. ClockInv' BY <1>0, <1>1 DEF ClockInv, Stages, Early, Steady, clockVars
<1>3. SetUpInv' /\ QuietInv'
  <2>0. SYSCLK' = SYSCLK BY <1>0 DEF SYSCLK, clockVars
  <2>1. CASE ClocksOn
    <3>1. /\ bootPc' = "pins" /\ usart' = usart /\ TDR' = TDR /\ shift' = shift
          /\ {"GPIOA", "USART2"} \subseteq clocked'
      BY <2>1 DEF ClocksOn, lineVars
    <3> QED BY <2>1, <3>1 DEF SetUpInv, QuietInv, ClocksOn
  <2>2. CASE Pins
    <3>1. /\ bootPc' = "usart" /\ UNCHANGED <<usart, clocked, TDR, shift>> /\ pinAF'
      BY <2>2 DEF Pins, lineVars, SetUpInv
    <3> QED BY <2>2, <3>1 DEF SetUpInv, QuietInv, Pins
  <2>3. CASE USART_Init
    <3>1. /\ bootPc' = "enable" /\ UNCHANGED <<clocked, pinAF, TDR, shift>>
          /\ usart' = [UE |-> FALSE, TE |-> TRUE, BRR |-> Rounded(SYSCLK)]
      BY <2>3 DEF USART_Init, lineVars, SetUpInv, RCC_GetClocksFreq, SYSCLK
    <3>2. Rounded(SYSCLK) \in Int BY RoundedIsInt DEF SYSCLK
    <3>3. SetUpInv' BY <2>0, <2>3, <3>1, <3>2 DEF SetUpInv, USART_Init
    <3>4. QuietInv' BY <2>3, <3>1 DEF QuietInv, USART_Init
    <3> QED BY <3>3, <3>4
  <2>4. CASE USART_Cmd
    <3>1. /\ bootPc' = "send" /\ UNCHANGED <<clocked, pinAF>>
          /\ usart'.BRR = usart.BRR /\ usart' \in [UE : BOOLEAN, TE : BOOLEAN, BRR : Int]
      BY <2>4 DEF USART_Cmd, SetUpInv
    <3> QED BY <2>0, <2>4, <3>1 DEF SetUpInv, QuietInv, USART_Cmd
  <2> QED BY <2>1, <2>2, <2>3, <2>4
<1>4. LineTypes' /\ LineIsRight' BY <1>0 DEF LineTypes, LineIsRight, lineVars
<1> QED BY <1>2, <1>3, <1>4

LEMMA usartSendKeepsLineInv ==
  ASSUME LineInv, NEW byte \in Data, usartSend(byte) PROVE LineInv'
<1> USE DEF LineInv
<1>0. UNCHANGED <<bootPc, clockVars, ioVars, shift, heard>> BY DEF usartSend
<1>1. /\ bootPc = "send" /\ TDR = NoByte /\ TDR' = byte /\ handed' = Append(handed, byte)
  BY DEF usartSend
<1>2. ClockInv' /\ SetUpInv' BY <1>0 DEF ClockInv, SetUpInv, clockVars, ioVars, SYSCLK
<1>3. QuietInv' BY <1>0, <1>1 DEF QuietInv
<1>4. LineTypes' BY <1>0, <1>1 DEF LineTypes
<1>5. LineIsRight'
  <2>1. handed' = heard \o OnTheWay(shift, byte)
    BY <1>1, LineIsRightMeans, ByteEntersLine DEF LineTypes
  <2> QED BY <2>1, <1>0, <1>1 DEF LineIsRight, OnTheWay
<1> QED BY <1>2, <1>3, <1>4, <1>5

LEMMA PowerCycleKeepsLineInv == PowerCycle => LineInv'
<1> SUFFICES ASSUME PowerCycle PROVE LineInv' OBVIOUS
<1> USE DEF PowerCycle
<1>1. ClockInv' BY DEF ClockInv, Stages, Early, Steady
<1>2. SetUpInv' BY DEF SetUpInv, UsartOff
<1>3. QuietInv' BY DEF QuietInv, UsartOff
<1>4. LineTypes' BY DEF LineTypes
<1>5. LineIsRight' BY DEF LineIsRight
<1> QED BY <1>1, <1>2, <1>3, <1>4, <1>5 DEF LineInv

LEMMA BoardNextKeepsLineInv == LineInv /\ [BoardNext]_boardVars => LineInv'
<1> SUFFICES ASSUME LineInv, [BoardNext]_boardVars PROVE LineInv' OBVIOUS
<1>1. CASE HseStarts \/ PllLocks \/ Switches BY <1>1, OscillatorsKeepLineInv
<1>2. CASE Shifts BY <1>2, ShiftsKeepsLineInv
<1>3. CASE Leaves BY <1>3, LeavesKeepsLineInv
<1>4. CASE PowerCycle BY <1>4, PowerCycleKeepsLineInv
<1>5. CASE SystemInit \/ WaitHse \/ UseCrystal \/ KeepHsi \/ SelectPll \/ PllInUse
  BY <1>5, ClockSetUpKeepsLineInv
<1>6. CASE ClocksOn \/ Pins \/ USART_Init \/ USART_Cmd BY <1>6, UsartInitKeepsLineInv
<1>7. CASE \E byte \in Data : usartSend(byte) BY <1>7, usartSendKeepsLineInv
<1>8. CASE UNCHANGED boardVars
  <2>1. ClockInv' /\ SetUpInv'
    BY <1>8 DEF boardVars, LineInv, ClockInv, SetUpInv, SYSCLK
  <2>2. QuietInv' /\ LineTypes' /\ LineIsRight'
    BY <1>8 DEF boardVars, LineInv, QuietInv, LineTypes, LineIsRight
  <2> QED BY <2>1, <2>2 DEF LineInv
<1> QED BY <1>1, <1>2, <1>3, <1>4, <1>5, <1>6, <1>7, <1>8 DEF BoardNext

\* Every byte handed to usartSend is received, in order and at the rate asked for,
\* or is still in one of the two registers: with any frequencies, any rate, any
\* number of restarts, and a crystal that starts in time, late or never.
THEOREM SerialLineIsRight == BoardSpec => []LineIsRight
<1>1. LineInv => LineIsRight BY DEF LineInv
<1> QED BY <1>1, BoardInitInv, BoardNextKeepsLineInv, PTL DEF BoardSpec

---------------------------------------------------------------------------
(* The Ethernet driver.  DriverAgrees is inductive with what lies between  *)
(* the read pointer and the write pointer: the frames that wait, one       *)
(* behind the other, each with cells of its own.                           *)

Ring == 0 .. RingSize - 1
EncTypes ==
  /\ EPKTCNT \in Int /\ ERXWRPT \in Ring /\ enc28j60_rxrdpt \in Ring /\ ERXRDPT \in Ring \union {BUFEND}
  /\ RXEN \in BOOLEAN /\ TXRTS \in BOOLEAN /\ TXERIF \in BOOLEAN /\ cut \in BOOLEAN /\ exposed \in BOOLEAN
  /\ unread \in Seq([at : Ring, frame : Frames])

\* The cell that counts as read last: outside the ring it is the ring's last one.
Base == IF InRing(ERXRDPT) THEN ERXRDPT ELSE RingSize - 1
\* How far p is ahead of the cell from.
Ahead(from, p) == IF p >= from THEN p - from ELSE p - from + RingSize
Taken(i) == SizeOf[unread[i].frame]

\* While no frame came in unguarded, the frames that wait lie one behind the other
\* between the read pointer and the write pointer, and each has cells of its own.
Lined ==
  ~exposed =>
    /\ \A i \in 1 .. Len(unread) :
         Ahead(Base, unread[i].at) + Taken(i) <= Ahead(Base, ERXWRPT)
    /\ \A i, j \in 1 .. Len(unread) :
         i < j => Ahead(Base, unread[i].at) + Taken(i) <= Ahead(Base, unread[j].at)
Apart == ~cut => \A i, j \in 1 .. Len(unread) : unread[i].at = unread[j].at => i = j
\* Each frame starts where the one before it ends.
Chained ==
  /\ \A i \in 1 .. Len(unread) - 1 : unread[i + 1].at = Forward(unread[i].at, Taken(i))
  /\ unread # <<>> => ERXWRPT = Forward(unread[Len(unread)].at, Taken(Len(unread)))

\* How far the driver is ahead of the read pointer.
Gap == Ahead(Base, enc28j60_rxrdpt)
GapInv ==
  Running => /\ encPc = "free" => Gap > 0
             /\ encPc # "free" => Gap \in {0, 1}

\* The rest of what is so while the driver is set up.
SetUpEnc ==
  /\ encPc \in {"setup", "mac"} =>
       /\ ~RXEN /\ unread = <<>> /\ EPKTCNT = 0 /\ ~TXRTS /\ ~cut
       /\ BSEL = enc28j60_current_bank
  /\ encPc = "read" => unread # <<>>
  /\ encPc \in {"load", "go"} => ~TXRTS

EncInv == EncTypes /\ Lined /\ Apart /\ Chained /\ GapInv /\ SetUpEnc /\ DriverAgrees

LEMMA SmallRemainder ==
  ASSUME NEW d \in Nat, NEW n \in Nat, n < d
  PROVE  n % d = n
OBVIOUS
LEMMA OneTurn ==
  ASSUME NEW d \in Nat, NEW n \in Nat, d <= n, n < d + d
  PROVE  n % d = n - d
OBVIOUS

\* One turn of the ring at most.
LEMMA ForwardIs ==
  ASSUME NEW p \in Ring, NEW n \in 0 .. RingSize - 1
  PROVE  Forward(p, n) = (IF p + n < RingSize THEN p + n ELSE p + n - RingSize) /\ Forward(p, n) \in Ring
<1>1. RingSize \in Nat /\ RingSize >= 2 BY EncAssumption
<1>2. PICK q \in Nat : q = p + n BY <1>1 DEF Ring
<1>3. q < RingSize + RingSize BY <1>1, <1>2 DEF Ring
<1>4. Forward(p, n) = q % RingSize BY <1>2 DEF Forward
<1>5. q < RingSize => q % RingSize = q BY <1>1, SmallRemainder
<1>6. q >= RingSize => q % RingSize = q - RingSize BY <1>1, <1>3, OneTurn
<1>7. Forward(p, n) = IF q < RingSize THEN q ELSE q - RingSize BY <1>1, <1>4, <1>5, <1>6
<1> QED BY <1>1, <1>2, <1>3, <1>7 DEF Ring

\* What Ahead counts.
LEMMA AheadIs ==
  ASSUME NEW b \in Ring, NEW p \in Ring
  PROVE  /\ Ahead(b, p) \in Ring
         /\ Ahead(b, p) = 0 <=> p = b
         /\ \A n \in 0 .. RingSize - 1 :
              Ahead(b, Forward(p, n)) = IF Ahead(b, p) + n < RingSize THEN Ahead(b, p) + n
                                        ELSE Ahead(b, p) + n - RingSize
<1>1. RingSize \in Nat /\ RingSize >= 2 BY EncAssumption
<1>2. Ahead(b, p) \in Ring /\ (Ahead(b, p) = 0 <=> p = b) BY <1>1 DEF Ahead, Ring
<1>3. ASSUME NEW n \in 0 .. RingSize - 1
          PROVE  Ahead(b, Forward(p, n)) = IF Ahead(b, p) + n < RingSize THEN Ahead(b, p) + n
                                       ELSE Ahead(b, p) + n - RingSize
  <2>1. Forward(p, n) = (IF p + n < RingSize THEN p + n ELSE p + n - RingSize) BY <1>3, ForwardIs
  <2>2. CASE p + n < RingSize BY <1>1, <1>3, <2>1, <2>2 DEF Ahead, Ring
  <2>3. CASE ~(p + n < RingSize) BY <1>1, <1>3, <2>1, <2>3 DEF Ahead, Ring
  <2> QED BY <2>2, <2>3
<1> QED BY <1>2, <1>3

LEMMA BaseIs ==
  ASSUME EncTypes
  PROVE  /\ Base \in Ring /\ Gap \in Ring
         /\ RingSize \in Nat /\ RingSize >= 2 /\ BUFEND \notin Ring /\ BUFEND \in Int
         /\ InRing(ERXRDPT) <=> ERXRDPT # BUFEND
<1>1. RingSize \in Nat /\ RingSize >= 2 /\ BUFEND \in Int /\ BUFEND >= RingSize BY EncAssumption DEF BUFEND
<1>2. Base \in Ring BY <1>1 DEF Base, InRing, Ring
<1>3. BUFEND \notin Ring BY <1>1 DEF Ring
<1>4. InRing(ERXRDPT) <=> ERXRDPT # BUFEND BY <1>3 DEF EncTypes, InRing, Ring
<1>5. Gap \in Ring BY <1>2, AheadIs DEF Gap, EncTypes
<1> QED BY <1>1, <1>2, <1>3, <1>4, <1>5

LEMMA TakenIs ==
  ASSUME EncTypes, NEW i \in 1 .. Len(unread)
  PROVE  /\ unread[i] \in [at : Ring, frame : Frames] /\ unread[i].at \in Ring
         /\ Taken(i) \in 1 .. RingSize - 2 /\ Taken(i) = SizeOf[unread[i].frame]
<1>1. unread[i] \in [at : Ring, frame : Frames] BY ElementOfSeq DEF EncTypes
<1> QED BY <1>1, EncAssumption DEF Taken

---------------------------------------------------------------------------
(* A frame comes in *)

\* With room and the read pointer in the ring the write pointer does not pass it.
LEMMA RoomAhead ==
  ASSUME EncTypes, InRing(ERXRDPT), NEW n \in 1 .. RingSize - 2, Room(n)
  PROVE  Ahead(Base, ERXWRPT) + n < RingSize
<1>1. /\ Base = ERXRDPT /\ Base \in Ring /\ ERXWRPT \in Ring /\ RingSize \in Nat /\ RingSize >= 2
  BY BaseIs DEF Base, EncTypes
<1> DEFINE w == Ahead(Base, ERXWRPT)
<1>2. w \in Ring BY <1>1, AheadIs
<1>3. ASSUME w + n >= RingSize PROVE FALSE
  <2> DEFINE k == RingSize - w
  <2>1. k \in 1 .. n /\ k \in 0 .. RingSize - 1 BY <1>1, <1>2, <1>3 DEF Ring
  <2>2. Ahead(Base, Forward(ERXWRPT, k)) = 0
    <3>1. w + k = RingSize BY <1>1, <1>2 DEF Ring
    <3>2. Ahead(Base, Forward(ERXWRPT, k)) = IF w + k < RingSize THEN w + k ELSE w + k - RingSize
      BY <1>1, <2>1, AheadIs
    <3> HIDE DEF k, w
    <3> QED BY <1>1, <1>2, <2>1, <3>1, <3>2 DEF Ring
  <2>3. Forward(ERXWRPT, k) \in Ring BY <1>1, <2>1, ForwardIs
  <2>4. Forward(ERXWRPT, k) = Base BY <1>1, <2>2, <2>3, AheadIs
  <2> QED BY <1>1, <2>1, <2>4 DEF Room
<1> QED BY <1>1, <1>2, <1>3 DEF Ring

\* Frames that lie one behind the other have no cell in common.
LEMMA NothingOverwritten ==
  ASSUME EncTypes, Lined, ~exposed, NEW n \in 1 .. RingSize - 2, Ahead(Base, ERXWRPT) + n < RingSize
  PROVE  ~Overwrites(n)
<1>1. Base \in Ring /\ ERXWRPT \in Ring /\ RingSize \in Nat /\ RingSize >= 2 BY BaseIs DEF EncTypes
<1>2. SUFFICES ASSUME NEW i \in 1 .. Len(unread), NEW x,
                      x \in Cells(unread[i].at, SizeOf[unread[i].frame]), x \in Cells(ERXWRPT, n)
               PROVE  FALSE
  BY DEF Overwrites, EncTypes
<1>3. unread[i].at \in Ring /\ Taken(i) \in 1 .. RingSize - 2 /\ Taken(i) = SizeOf[unread[i].frame] BY TakenIs
<1>4. PICK k \in 0 .. Taken(i) - 1 : x = Forward(unread[i].at, k) BY <1>2, <1>3 DEF Cells
<1>5. PICK l \in 0 .. n - 1 : x = Forward(ERXWRPT, l) BY <1>2 DEF Cells
<1>6. Ahead(Base, unread[i].at) + Taken(i) <= Ahead(Base, ERXWRPT) BY DEF Lined
<1>7. k \in 0 .. RingSize - 1 /\ l \in 0 .. RingSize - 1 BY <1>1, <1>3
<1>8. Ahead(Base, unread[i].at) \in Ring /\ Ahead(Base, ERXWRPT) \in Ring BY <1>1, <1>3, AheadIs
<1>9. Ahead(Base, x) = Ahead(Base, unread[i].at) + k
  <2>1. k < Taken(i) /\ k \in Int /\ Taken(i) \in Int BY <1>3
  <2>2. Ahead(Base, unread[i].at) \in Int /\ Ahead(Base, ERXWRPT) \in Int /\ Ahead(Base, ERXWRPT) < RingSize
    BY <1>1, <1>8 DEF Ring
  <2>3. Ahead(Base, unread[i].at) + k < RingSize BY <1>1, <1>6, <2>1, <2>2
  <2> QED BY <1>1, <1>3, <1>4, <1>7, <2>3, AheadIs
<1>10. Ahead(Base, x) = Ahead(Base, ERXWRPT) + l
  <2>1. Ahead(Base, ERXWRPT) + l < RingSize BY <1>1, <1>8 DEF Ring
  <2> QED BY <1>1, <1>5, <1>7, <2>1, AheadIs
<1>11. /\ Ahead(Base, unread[i].at) \in Int /\ Ahead(Base, ERXWRPT) \in Int
       /\ k < Taken(i) /\ k \in Int /\ Taken(i) \in Int /\ l >= 0 /\ l \in Int
  BY <1>1, <1>3, <1>8 DEF Ring
<1> QED BY <1>6, <1>9, <1>10, <1>11

\* The one place of the frame that came in last is the write pointer.
LEMMA FrameInKeeps == ASSUME EncInv, NEW f \in Frames, FrameIn(f) PROVE EncInv'
<1> DEFINE n == SizeOf[f]
<1> DEFINE new == [at |-> ERXWRPT, frame |-> f]
<1>1. /\ n \in 1 .. RingSize - 2 /\ RingSize \in Nat /\ RingSize >= 2
      /\ ERXWRPT \in Ring /\ Base \in Ring /\ n \in 0 .. RingSize - 1 /\ Len(unread) \in Nat
      /\ unread \in Seq([at : Ring, frame : Frames])
  BY EncAssumption, BaseIs DEF EncInv, EncTypes
<1>2. /\ RXEN /\ ~cut /\ Room(n) /\ unread' = Append(unread, new)
      /\ ERXWRPT' = Forward(ERXWRPT, n) /\ EPKTCNT' = EPKTCNT + 1
      /\ cut' = Overwrites(n) /\ exposed' = (exposed \/ ~InRing(ERXRDPT))
      /\ UNCHANGED <<BSEL, RXEN, ERXRDPT, TXRTS, TXERIF, txbuf, driverVars>>
  BY DEF FrameIn
<1>3. /\ new \in [at : Ring, frame : Frames] /\ Len(unread') = Len(unread) + 1
      /\ unread' \in Seq([at : Ring, frame : Frames]) /\ unread'[Len(unread) + 1] = new
      /\ \A i \in 1 .. Len(unread) : unread'[i] = unread[i]
  BY <1>1, <1>2, AppendProperties
<1>4. /\ Base' = Base /\ SizeOf[unread'[Len(unread')].frame] = n
      /\ \A i \in 1 .. Len(unread) : Taken(i)' = Taken(i)
  BY <1>2, <1>3 DEF Base, Taken, InRing
<1>5. ERXWRPT' \in Ring BY <1>1, <1>2, ForwardIs
<1> HIDE DEF n, new
<1>6. ~exposed' => /\ ~exposed /\ ~Overwrites(n)
                   /\ Ahead(Base, ERXWRPT) + n < RingSize
                   /\ Ahead(Base, ERXWRPT') = Ahead(Base, ERXWRPT) + n
  <2> SUFFICES ASSUME ~exposed' PROVE /\ ~exposed /\ ~Overwrites(n)
                   /\ Ahead(Base, ERXWRPT) + n < RingSize
                   /\ Ahead(Base, ERXWRPT') = Ahead(Base, ERXWRPT) + n
    OBVIOUS
  <2>1. ~exposed /\ InRing(ERXRDPT) BY <1>2
  <2>2. Ahead(Base, ERXWRPT) + n < RingSize BY <1>1, <1>2, <2>1, RoomAhead DEF EncInv
  <2>3. ~Overwrites(n) BY <1>1, <2>1, <2>2, NothingOverwritten DEF EncInv
  <2> QED BY <1>1, <1>2, <2>1, <2>2, <2>3, AheadIs
<1>7. EncTypes'
  <2>1. exposed' \in BOOLEAN /\ cut' \in BOOLEAN BY <1>2 DEF Overwrites
  <2> QED BY <1>2, <1>3, <1>5, <2>1 DEF EncInv, EncTypes, driverVars
<1>8. Lined'
  <2> SUFFICES ASSUME ~exposed' PROVE Lined' BY DEF Lined
  <2>1. \A i \in 1 .. Len(unread) :
          Ahead(Base, unread[i].at) + Taken(i) <= Ahead(Base, ERXWRPT)
    BY <1>6 DEF EncInv, Lined
  <2>2. Ahead(Base, ERXWRPT) \in Int BY <1>1, AheadIs DEF Ring
  <2>3. ASSUME NEW i \in 1 .. Len(unread')
        PROVE  (Ahead(Base, unread[i].at) + Taken(i) <= Ahead(Base, ERXWRPT))'
    <3>1. CASE i = Len(unread) + 1
      <4>1. unread'[i].at = ERXWRPT /\ Taken(i)' = n BY <1>3, <1>4, <3>1 DEF new, Taken
      <4>2. (Ahead(Base, unread[i].at) + Taken(i))' = Ahead(Base, ERXWRPT) + n
        BY <1>4, <4>1 DEF Ahead
      <4>3. Ahead(Base, ERXWRPT)' = Ahead(Base, ERXWRPT) + n BY <1>4, <1>6 DEF Ahead
      <4> QED BY <1>1, <2>2, <4>2, <4>3
    <3>2. CASE i \in 1 .. Len(unread)
      <4>1. Ahead(Base, unread[i].at) + Taken(i) <= Ahead(Base, ERXWRPT) BY <2>1, <3>2
      <4>2. Ahead(Base, unread[i].at) \in Int /\ Taken(i) \in Int
        <5>1. unread[i].at \in Ring /\ Taken(i) \in 1 .. RingSize - 2 BY <3>2, TakenIs DEF EncInv
        <5>2. Ahead(Base, unread[i].at) \in Ring BY <1>1, <5>1, AheadIs
        <5> QED BY <1>1, <5>1, <5>2 DEF Ring
      <4>3. Base' = Base /\ unread'[i] = unread[i] /\ Taken(i)' = Taken(i) BY <1>3, <1>4, <3>2
      <4>4. (Ahead(Base, unread[i].at) + Taken(i))' = Ahead(Base, unread[i].at) + Taken(i)
        BY <4>3 DEF Ahead
      <4>5. Ahead(Base, ERXWRPT)' = Ahead(Base, ERXWRPT) + n BY <1>4, <1>6 DEF Ahead
      <4> QED BY <1>1, <2>2, <4>1, <4>2, <4>4, <4>5
    <3> QED BY <1>1, <1>3, <3>1, <3>2
  <2>4. ASSUME NEW i \in 1 .. Len(unread'), NEW j \in 1 .. Len(unread'), i < j
        PROVE  (Ahead(Base, unread[i].at) + Taken(i) <= Ahead(Base, unread[j].at))'
    <3>1. i \in 1 .. Len(unread) BY <1>1, <1>3, <2>4
    <3>2. (Ahead(Base, unread[i].at) + Taken(i))' = Ahead(Base, unread[i].at) + Taken(i)
      BY <1>3, <1>4, <3>1 DEF Ahead
    <3>3. CASE j = Len(unread) + 1
      <4>1. Ahead(Base, unread[j].at)' = Ahead(Base, ERXWRPT) BY <1>3, <1>4, <3>3 DEF Ahead, new
      <4> QED BY <2>1, <3>1, <3>2, <4>1
    <3>4. CASE j \in 1 .. Len(unread)
      <4>1. Ahead(Base, unread[j].at)' = Ahead(Base, unread[j].at) BY <1>3, <1>4, <3>4 DEF Ahead
      <4>2. Ahead(Base, unread[i].at) + Taken(i) <= Ahead(Base, unread[j].at)
        BY <1>6, <2>4, <3>1, <3>4 DEF EncInv, Lined
      <4> QED BY <3>2, <4>1, <4>2
    <3> QED BY <1>1, <1>3, <3>3, <3>4
  <2> QED BY <2>3, <2>4 DEF Lined
<1>9. Apart'
  <2>1. SUFFICES ASSUME ~cut', NEW i \in 1 .. Len(unread'), NEW j \in 1 .. Len(unread'),
                        unread'[i].at = unread'[j].at, i < j
                 PROVE  FALSE
    BY <1>1, <1>3 DEF Apart
  <2>2. i \in 1 .. Len(unread) BY <1>1, <1>3, <2>1
  <2>3. CASE j \in 1 .. Len(unread) BY <1>2, <1>3, <2>1, <2>2, <2>3 DEF EncInv, Apart
  <2>4. CASE j = Len(unread) + 1
    <3>1. unread[i].at = ERXWRPT BY <1>3, <2>1, <2>2, <2>4 DEF new
    <3>2. Forward(ERXWRPT, 0) = ERXWRPT BY <1>1, ForwardIs DEF Ring
    <3>3. SizeOf[unread[i].frame] \in 1 .. RingSize - 2 BY <2>2, TakenIs DEF EncInv
    <3>4. ERXWRPT \in Cells(unread[i].at, SizeOf[unread[i].frame]) BY <3>1, <3>2, <3>3 DEF Cells
    <3>5. ERXWRPT \in Cells(ERXWRPT, n) BY <1>1, <3>2 DEF Cells
    <3>6. i \in DOMAIN unread BY <1>1, <2>2
    <3>7. Overwrites(n) BY <3>4, <3>5, <3>6 DEF Overwrites
    <3> QED BY <1>2, <2>1, <3>7
  <2> QED BY <1>1, <1>3, <2>3, <2>4
<1>10. Chained'
  <2>1. ASSUME NEW i \in 1 .. Len(unread') - 1
        PROVE  unread'[i + 1].at = Forward(unread'[i].at, Taken(i)')
    <3>1. i \in 1 .. Len(unread) BY <1>1, <1>3
    <3>2. unread'[i] = unread[i] /\ Taken(i)' = Taken(i) BY <1>3, <1>4, <3>1
    <3>3. CASE i = Len(unread)
      <4>1. unread # <<>> BY <1>1, <3>1
      <4>2. ERXWRPT = Forward(unread[i].at, Taken(i)) BY <3>3, <4>1 DEF EncInv, Chained
      <4> QED BY <1>3, <3>2, <3>3, <4>2 DEF new
    <3>4. CASE i \in 1 .. Len(unread) - 1
      <4>1. unread'[i + 1] = unread[i + 1] BY <1>1, <1>3, <3>4
      <4> QED BY <3>2, <3>4, <4>1 DEF EncInv, Chained
    <3> QED BY <1>1, <3>1, <3>3, <3>4
  <2>2. ERXWRPT' = Forward(unread'[Len(unread')].at, Taken(Len(unread))')
    <3>1. Taken(Len(unread))' = n BY <1>4 DEF Taken
    <3> QED BY <1>2, <1>3, <3>1 DEF new
  <2> QED BY <2>1, <2>2 DEF Chained, Forward
<1>11. GapInv' BY <1>2, <1>4 DEF EncInv, GapInv, Gap, Ahead, Running, driverVars
<1>12. SetUpEnc' BY <1>1, <1>2, <1>3 DEF EncInv, SetUpEnc, driverVars
<1>13. DriverAgrees'
  <2>1. cut' => exposed' BY <1>2, <1>6
  <2>2. Head(unread') = IF unread = <<>> THEN new ELSE Head(unread) BY <1>1, <1>2, <1>3
  <2>3. unread' # <<>> BY <1>1, <1>3
  <2> QED BY <1>1, <1>2, <1>3, <2>1, <2>2, <2>3 DEF EncInv, DriverAgrees, Running, driverVars, new
<1> QED BY <1>7, <1>8, <1>9, <1>10, <1>11, <1>12, <1>13 DEF EncInv

---------------------------------------------------------------------------
(* The driver *)

\* What the frames in the ring say of each other holds while they, the pointers
\* and the two marks stay.
LEMMA RingKept ==
  ASSUME EncInv, UNCHANGED <<ERXWRPT, ERXRDPT, unread, cut, exposed>>
  PROVE  Lined' /\ Apart' /\ Chained' /\ Base' = Base
<1>1. Base' = Base /\ \A i : Taken(i)' = Taken(i) BY DEF Base, Taken
<1>2. Lined' BY <1>1 DEF EncInv, Lined, Ahead
<1>3. Apart' BY DEF EncInv, Apart
<1>4. Chained' BY <1>1 DEF EncInv, Chained, Forward
<1> QED BY <1>1, <1>2, <1>3, <1>4

\* The steps in which nobody touches the ring.
LEMMA QuietKeeps ==
  ASSUME EncInv,
         Sent \/ SendFails \/ McuRestarts \/ SetupMac \/ Poll \/ CountOff \/ Wait \/ Load \/ Go
  PROVE  EncInv'
<1>1. UNCHANGED <<ERXWRPT, ERXRDPT, unread, cut, exposed>>
  BY DEF Sent, SendFails, McuRestarts, SetupMac, Poll, CountOff, Wait, Load, Go, controllerVars
<1>2. Lined' /\ Apart' /\ Chained' /\ Base' = Base BY <1>1, RingKept
<1>3. RingSize \in Nat /\ RingSize >= 2 /\ Len(unread) \in Nat /\ (unread = <<>> <=> Len(unread) = 0)
  BY BaseIs, EmptySeq DEF EncInv, EncTypes
<1> USE DEF EncInv, EncTypes, GapInv, Gap, Ahead, SetUpEnc, DriverAgrees, Running
<1>4. ASSUME Sent PROVE EncInv'
  <2>1. TXRTS' = FALSE /\ UNCHANGED <<BSEL, RXEN, EPKTCNT, TXERIF, txbuf, driverVars>> BY <1>4 DEF Sent
  <2>2. EncTypes' /\ GapInv' BY <1>1, <1>2, <2>1 DEF driverVars
  <2>3. SetUpEnc' BY <1>1, <2>1 DEF driverVars
  <2>4. DriverAgrees' BY <1>1, <2>1 DEF driverVars
  <2> QED BY <1>2, <2>2, <2>3, <2>4
<1>5. ASSUME SendFails PROVE EncInv' BY <1>1, <1>2, <1>5 DEF SendFails, driverVars
<1>6. ASSUME McuRestarts PROVE EncInv' BY <1>1, <1>2, <1>3, <1>6 DEF McuRestarts, controllerVars, Ring
<1>7. ASSUME SetupMac PROVE EncInv' BY <1>1, <1>2, <1>3, <1>7 DEF SetupMac, AtEnc, enc28j60_set_bank
<1>8. ASSUME Poll PROVE EncInv' BY <1>1, <1>2, <1>3, <1>8 DEF Poll, AtEnc, enc28j60_set_bank
<1>9. ASSUME CountOff PROVE EncInv' BY <1>1, <1>2, <1>3, <1>9 DEF CountOff, AtEnc
<1>10. ASSUME Wait PROVE EncInv' BY <1>1, <1>2, <1>10 DEF Wait, AtEnc
<1>11. ASSUME Load PROVE EncInv' BY <1>1, <1>2, <1>11 DEF Load, AtEnc, enc28j60_set_bank
<1>12. ASSUME Go PROVE EncInv' BY <1>1, <1>2, <1>12 DEF Go, AtEnc
<1> QED BY <1>4, <1>5, <1>6, <1>7, <1>8, <1>9, <1>10, <1>11, <1>12

\* The driver's and the controller's set-up empty the ring.
LEMMA SetUpKeeps == ASSUME EncInv, Reset \/ SetupRing PROVE EncInv'
<1>1. RingSize \in Nat /\ RingSize >= 2 BY EncAssumption
<1>2. unread' = <<>> /\ ERXWRPT' = 0 /\ ERXRDPT' = 0
  BY DEF Reset, SetupRing, AtEnc, EncInv, SetUpEnc, enc28j60_soft_reset, Cleared
<1>3. Lined' /\ Apart' /\ Chained' BY <1>2 DEF Lined, Apart, Chained
<1>4. Base' = 0 BY <1>1, <1>2 DEF Base, InRing
<1> USE DEF EncInv, EncTypes, GapInv, Gap, Ahead, SetUpEnc, DriverAgrees, Running, Ring
<1>5. ASSUME Reset PROVE EncInv'
  <2> HIDE DEF EncInv, EncTypes, Ring
  <2>1. /\ RXEN' = FALSE /\ EPKTCNT' = 0 /\ TXRTS' = FALSE /\ TXERIF' = FALSE /\ cut' = FALSE
        /\ exposed' = FALSE /\ enc28j60_rxrdpt' = enc28j60_rxrdpt
    BY <1>5 DEF Reset, enc28j60_soft_reset, Cleared
  <2>2. 0 \in Ring BY <1>1 DEF Ring
  <2>3. unread' \in Seq([at : Ring, frame : Frames]) BY <1>2, EmptySeq
  <2>4. enc28j60_rxrdpt \in Ring BY DEF EncInv, EncTypes
  <2>5. RXEN' \in BOOLEAN /\ TXRTS' \in BOOLEAN /\ TXERIF' \in BOOLEAN /\ cut' \in BOOLEAN
        /\ exposed' \in BOOLEAN
    BY <2>1
  <2>6. EncTypes' BY <1>2, <2>1, <2>2, <2>3, <2>4, <2>5 DEF EncTypes
  <2>7. GapInv' /\ SetUpEnc' BY <1>2, <1>5 DEF Reset, enc28j60_soft_reset, Cleared
  <2>8. DriverAgrees' BY <1>5 DEF Reset, enc28j60_soft_reset, Cleared
  <2> QED BY <1>3, <2>6, <2>7, <2>8 DEF EncInv
<1>6. ASSUME SetupRing PROVE EncInv'
  BY <1>1, <1>2, <1>3, <1>4, <1>6 DEF SetupRing, AtEnc, enc28j60_set_bank
<1> QED BY <1>5, <1>6

\* The frame the driver reads is the one that came in first.
LEMMA HereIs ==
  ASSUME EncInv, AtEnc("read")
  PROVE  /\ Here = 1 /\ 1 \in 1 .. Len(unread) /\ enc28j60_rxrdpt = unread[1].at
         /\ unread # <<>> /\ Len(unread) \in Nat \ {0}
<1>1. unread # <<>> BY DEF EncInv, SetUpEnc, AtEnc
<1>2. Len(unread) \in Nat \ {0} /\ Head(unread) = unread[1]
  BY <1>1, EmptySeq, HeadTailProperties DEF EncInv, EncTypes
<1>3. enc28j60_rxrdpt = unread[1].at BY <1>1, <1>2 DEF EncInv, DriverAgrees, Running, AtEnc
<1>4. \A i \in 1 .. Len(unread) : unread[i].at = enc28j60_rxrdpt => i = 1
  BY <1>2, <1>3 DEF EncInv, Apart, AtEnc
<1>5. DOMAIN unread = 1 .. Len(unread) BY LenProperties DEF EncInv, EncTypes
<1> QED BY <1>1, <1>2, <1>3, <1>4, <1>5 DEF Here

LEMMA ReadKeeps == ASSUME EncInv, Read PROVE EncInv'
<1> DEFINE n == Taken(1)
<1>1. /\ RingSize \in Nat /\ RingSize >= 2 /\ ERXWRPT \in Ring /\ Base \in Ring
      /\ enc28j60_rxrdpt \in Ring
  BY BaseIs DEF EncInv, EncTypes
<1>2. AtEnc("read") BY DEF Read
<1>3. Here = 1 /\ enc28j60_rxrdpt = unread[1].at /\ unread # <<>> /\ Len(unread) \in Nat \ {0}
  BY <1>2, HereIs
<1>4. n \in 1 .. RingSize - 2 /\ n = SizeOf[unread[1].frame] BY <1>3, TakenIs DEF EncInv
<1>5. /\ encPc' = "free" /\ enc28j60_set_bank(0) /\ enc28j60_rxrdpt' = Forward(enc28j60_rxrdpt, n)
      /\ unread' = Tail(unread) /\ exposed' = (exposed /\ Tail(unread) # <<>>)
      /\ UNCHANGED <<RXEN, EPKTCNT, ERXWRPT, ERXRDPT, TXRTS, TXERIF, txbuf, cut, sending>>
  BY <1>3, <1>4 DEF Read
<1>6. /\ unread' \in Seq([at : Ring, frame : Frames]) /\ Len(unread') = Len(unread) - 1
      /\ \A i \in 1 .. Len(unread') : unread'[i] = unread[i + 1] /\ i + 1 \in 1 .. Len(unread)
  BY <1>3, <1>5, HeadTailProperties DEF EncInv, EncTypes
<1>7. /\ Base' = Base /\ enc28j60_rxrdpt' \in Ring
      /\ \A i \in 1 .. Len(unread') : Taken(i)' = Taken(i + 1)
  BY <1>1, <1>4, <1>5, <1>6, ForwardIs DEF Base, Taken
<1> HIDE DEF n
<1>8. EncTypes'
  <2>1. exposed' \in BOOLEAN BY <1>5
  <2> QED BY <1>5, <1>6, <1>7, <2>1 DEF EncInv, EncTypes
<1>9. Lined'
  <2> SUFFICES ASSUME ~exposed', unread' # <<>> PROVE Lined'
    <3>1. CASE exposed' BY <3>1 DEF Lined
    <3>2. CASE unread' = <<>> BY <3>2 DEF Lined
    <3> QED BY <3>1, <3>2
  <2>1. ~exposed BY <1>5
  <2>2. \A i \in 1 .. Len(unread') : (Ahead(Base, unread[i].at) + Taken(i) <= Ahead(Base, ERXWRPT))'
    BY <1>5, <1>6, <1>7, <2>1 DEF EncInv, Lined, Ahead
  <2>3. ASSUME NEW i \in 1 .. Len(unread'), NEW j \in 1 .. Len(unread'), i < j
        PROVE  (Ahead(Base, unread[i].at) + Taken(i) <= Ahead(Base, unread[j].at))'
    <3>1. i + 1 \in 1 .. Len(unread) /\ j + 1 \in 1 .. Len(unread) /\ i + 1 < j + 1 BY <1>6, <2>3
    <3>2. Ahead(Base, unread[i + 1].at) + Taken(i + 1) <= Ahead(Base, unread[j + 1].at)
      BY <2>1, <3>1 DEF EncInv, Lined
    <3> QED BY <1>6, <1>7, <3>2 DEF Ahead
  <2> QED BY <2>2, <2>3 DEF Lined
<1>10. Apart'
  <2> SUFFICES ASSUME ~cut', NEW i \in 1 .. Len(unread'), NEW j \in 1 .. Len(unread'),
                      unread'[i].at = unread'[j].at
               PROVE  i = j
    BY DEF Apart
  <2>1. i + 1 \in 1 .. Len(unread) /\ j + 1 \in 1 .. Len(unread) /\ unread[i + 1].at = unread[j + 1].at
    BY <1>6
  <2>2. i + 1 = j + 1 BY <1>5, <2>1 DEF EncInv, Apart
  <2> QED BY <2>2
<1>11. Chained'
  <2>1. ASSUME NEW i \in 1 .. Len(unread') - 1
        PROVE  unread'[i + 1].at = Forward(unread'[i].at, Taken(i)')
    <3>1. i \in 1 .. Len(unread') /\ i + 1 \in 1 .. Len(unread') /\ i + 1 \in 1 .. Len(unread) - 1
      BY <1>3, <1>6
    <3>2. unread[(i + 1) + 1].at = Forward(unread[i + 1].at, Taken(i + 1)) BY <3>1 DEF EncInv, Chained
    <3> QED BY <1>6, <1>7, <3>1, <3>2
  <2>2. ASSUME unread' # <<>> PROVE ERXWRPT' = Forward(unread'[Len(unread')].at, Taken(Len(unread))')
    <3>1. Len(unread') \in 1 .. Len(unread') /\ Len(unread') + 1 = Len(unread)
      BY <1>3, <1>6, <2>2, EmptySeq
    <3>2. unread'[Len(unread')] = unread[Len(unread)] BY <1>6, <3>1
    <3>3. Taken(Len(unread))' = Taken(Len(unread)) BY <3>2 DEF Taken
    <3> QED BY <1>3, <1>5, <3>2, <3>3 DEF EncInv, Chained
  <2> QED BY <2>1, <2>2 DEF Chained, Forward
<1>12. GapInv'
  <2>1. Gap \in {0, 1} BY <1>2 DEF EncInv, GapInv, Running, AtEnc
  <2>2. n \in 0 .. RingSize - 1 BY <1>1, <1>4
  <2>3. Ahead(Base, Forward(enc28j60_rxrdpt, n)) = IF Gap + n < RingSize THEN Gap + n ELSE Gap + n - RingSize
    BY <1>1, <2>2, AheadIs DEF Gap
  <2>4. Gap + n \in 1 .. RingSize - 1 BY <1>1, <1>4, <2>1
  <2>5. Ahead(Base, Forward(enc28j60_rxrdpt, n)) > 0 BY <1>1, <2>3, <2>4
  <2>6. Gap' = Ahead(Base, Forward(enc28j60_rxrdpt, n)) BY <1>5, <1>7 DEF Gap, Ahead
  <2> QED BY <1>5, <2>5, <2>6 DEF GapInv
<1>13. SetUpEnc' BY <1>5 DEF SetUpEnc
<1>14. DriverAgrees'
  <2>1. cut' = cut /\ ~cut BY <1>2, <1>5 DEF AtEnc
  <2>2. /\ BSEL = enc28j60_current_bank /\ EPKTCNT = Len(unread) /\ (TXRTS => txbuf = sending)
    BY <1>2 DEF EncInv, DriverAgrees, Running, AtEnc
  <2>3. BSEL' = enc28j60_current_bank' BY <1>5, <2>2 DEF enc28j60_set_bank
  <2>4. enc28j60_rxrdpt' = IF unread' = <<>> THEN ERXWRPT' ELSE Head(unread').at
    <3>1. CASE unread' = <<>>
      <4>1. Len(unread) = 1 BY <1>3, <1>6, <3>1, EmptySeq
      <4> QED BY <1>3, <1>4, <1>5, <3>1, <4>1 DEF EncInv, Chained, n
    <3>2. CASE unread' # <<>>
      <4>1. 1 \in 1 .. Len(unread') /\ Head(unread') = unread'[1]
        BY <1>3, <1>6, <3>2, EmptySeq, HeadTailProperties
      <4>2. Head(unread') = unread[2] /\ 1 \in 1 .. Len(unread) - 1 BY <1>3, <1>6, <4>1
      <4>3. unread[1 + 1].at = Forward(unread[1].at, Taken(1)) BY <4>2 DEF EncInv, Chained
      <4> QED BY <1>3, <1>5, <3>2, <4>2, <4>3 DEF n
    <3> QED BY <3>1, <3>2
  <2> QED BY <1>3, <1>5, <1>6, <2>1, <2>2, <2>3, <2>4 DEF DriverAgrees
<1> QED BY <1>8, <1>9, <1>10, <1>11, <1>12, <1>13, <1>14 DEF EncInv

\* The read pointer goes to the cell before r: whatever lies from r on keeps its
\* distance from r.
LEMMA MovedOn ==
  ASSUME NEW b \in Ring, NEW r \in Ring, NEW p \in Ring, Ahead(b, r) > 0, Ahead(b, r) <= Ahead(b, p)
  PROVE  Ahead(IF r = 0 THEN RingSize - 1 ELSE r - 1, p) = Ahead(b, p) - Ahead(b, r) + 1
<1>1. RingSize \in Nat /\ RingSize >= 2 BY EncAssumption
<1>2. CASE r = 0 BY <1>1, <1>2 DEF Ahead, Ring
<1>3. CASE r # 0 BY <1>1, <1>3 DEF Ahead, Ring
<1> QED BY <1>2, <1>3

LEMMA FreeCellsKeeps == ASSUME EncInv, FreeCells PROVE EncInv'
<1> DEFINE r == enc28j60_rxrdpt
<1>1. /\ RingSize \in Nat /\ RingSize >= 2 /\ BUFEND \notin Ring /\ Base \in Ring
      /\ r \in Ring /\ ERXWRPT \in Ring /\ Len(unread) \in Nat
  BY BaseIs DEF EncInv, EncTypes
<1>2. /\ AtEnc("free") /\ encPc' = "count" /\ enc28j60_set_bank(0) /\ ERXRDPT' = LastRead(r)
      /\ UNCHANGED <<RXEN, EPKTCNT, ERXWRPT, TXRTS, TXERIF, txbuf, unread, cut, exposed,
                     enc28j60_rxrdpt, uip_buf, sending>>
  BY DEF FreeCells
<1>3. Gap > 0 /\ Gap = Ahead(Base, r) BY <1>2 DEF EncInv, GapInv, Running, AtEnc, Gap
<1>4. Base' = (IF r = 0 THEN RingSize - 1 ELSE r - 1) /\ ERXRDPT' \in Ring \union {BUFEND}
  BY <1>1, <1>2 DEF Base, LastRead, InRing, Ring
<1>5. r = IF unread = <<>> THEN ERXWRPT ELSE Head(unread).at
  BY <1>2 DEF EncInv, DriverAgrees, Running, AtEnc
<1>6. ASSUME NEW p \in Ring, Gap <= Ahead(Base, p)
      PROVE  Ahead(Base', p) = Ahead(Base, p) - Gap + 1
  BY <1>1, <1>3, <1>4, <1>6, MovedOn
<1> HIDE DEF r
<1>7. EncTypes' BY <1>2, <1>4 DEF EncInv, EncTypes, r
<1>8. Lined'
  <2> SUFFICES ASSUME ~exposed' PROVE Lined' BY DEF Lined
  <2>1. ASSUME NEW i \in 1 .. Len(unread)
        PROVE  /\ unread[i].at \in Ring /\ Taken(i) \in Int /\ Taken(i) >= 0 /\ Taken(i)' = Taken(i)
               /\ Ahead(Base, unread[i].at) \in Int /\ Ahead(Base, ERXWRPT) \in Int
               /\ Gap <= Ahead(Base, unread[i].at)
               /\ Ahead(Base, unread[i].at) + Taken(i) <= Ahead(Base, ERXWRPT)
    <3>1. unread[i].at \in Ring /\ Taken(i) \in 1 .. RingSize - 2 BY TakenIs DEF EncInv
    <3>2. Ahead(Base, unread[i].at) \in Ring /\ Ahead(Base, ERXWRPT) \in Ring BY <1>1, <3>1, AheadIs
    <3>3. Ahead(Base, unread[i].at) + Taken(i) <= Ahead(Base, ERXWRPT) BY <1>2 DEF EncInv, Lined
    <3>4. Gap <= Ahead(Base, unread[i].at)
      <4>1. unread # <<>> /\ Head(unread) = unread[1] /\ 1 \in 1 .. Len(unread)
        BY <1>1, EmptySeq, HeadTailProperties DEF EncInv, EncTypes
      <4>2. Gap = Ahead(Base, unread[1].at) BY <1>3, <1>5, <4>1
      <4>3. CASE i = 1 BY <3>2, <4>2, <4>3 DEF Ring
      <4>4. CASE 1 < i
        <5>1. Ahead(Base, unread[1].at) + Taken(1) <= Ahead(Base, unread[i].at)
          BY <1>2, <4>1, <4>4 DEF EncInv, Lined
        <5>2. Taken(1) \in 1 .. RingSize - 2 /\ unread[1].at \in Ring BY <4>1, TakenIs DEF EncInv
        <5>3. Ahead(Base, unread[1].at) \in Ring BY <1>1, <5>2, AheadIs
        <5> QED BY <1>1, <3>2, <4>2, <5>1, <5>2, <5>3 DEF Ring
      <4> QED BY <4>3, <4>4
    <3>5. Taken(i)' = Taken(i) BY <1>2 DEF Taken
    <3> QED BY <1>1, <3>1, <3>2, <3>3, <3>4, <3>5 DEF Ring
  <2>2. Gap \in Int BY BaseIs DEF EncInv, Ring
  <2>3. ASSUME NEW i \in 1 .. Len(unread)
        PROVE  /\ Ahead(Base', unread[i].at) = Ahead(Base, unread[i].at) - Gap + 1
               /\ Ahead(Base', ERXWRPT) = Ahead(Base, ERXWRPT) - Gap + 1
    <3>1. Gap <= Ahead(Base, ERXWRPT) BY <2>1, <2>2
    <3> QED BY <1>1, <1>6, <2>1, <3>1
  <2>4. ASSUME NEW i \in 1 .. Len(unread)
        PROVE  Ahead(Base', unread[i].at) + Taken(i) <= Ahead(Base', ERXWRPT)
    BY <2>1, <2>2, <2>3
  <2>5. ASSUME NEW i \in 1 .. Len(unread), NEW j \in 1 .. Len(unread), i < j
        PROVE  Ahead(Base', unread[i].at) + Taken(i) <= Ahead(Base', unread[j].at)
    <3>1. Ahead(Base, unread[i].at) + Taken(i) <= Ahead(Base, unread[j].at)
      BY <1>2, <2>5 DEF EncInv, Lined
    <3>2. /\ Ahead(Base', unread[i].at) = Ahead(Base, unread[i].at) - Gap + 1
          /\ Ahead(Base', unread[j].at) = Ahead(Base, unread[j].at) - Gap + 1
      BY <2>3
    <3>3. Ahead(Base, unread[i].at) \in Int /\ Ahead(Base, unread[j].at) \in Int /\ Taken(i) \in Int
      BY <2>1
    <3> QED BY <2>2, <3>1, <3>2, <3>3
  <2> QED BY <1>2, <2>1, <2>4, <2>5 DEF Lined, Ahead
<1>9. Apart' BY <1>2 DEF EncInv, Apart
<1>10. Chained'
  <2>1. \A i : Taken(i)' = Taken(i) BY <1>2 DEF Taken
  <2> QED BY <1>2, <2>1 DEF EncInv, Chained, Forward
<1>11. GapInv'
  <2>1. Gap' = Ahead(Base', r) BY <1>2 DEF Gap, Ahead, r
  <2>2. Gap \in Int BY BaseIs DEF EncInv, Ring
  <2>3. Ahead(Base', r) = Gap - Gap + 1 BY <1>1, <1>3, <1>6, <2>2
  <2> QED BY <1>2, <2>1, <2>2, <2>3 DEF GapInv
<1>12. SetUpEnc' BY <1>2 DEF SetUpEnc
<1>13. DriverAgrees'
  <2>1. /\ BSEL = enc28j60_current_bank /\ EPKTCNT = Len(unread) + 1 /\ (TXRTS => txbuf = sending)
        /\ ~cut
    BY <1>2 DEF EncInv, DriverAgrees, Running, AtEnc
  <2>2. BSEL' = enc28j60_current_bank' BY <1>2, <2>1 DEF enc28j60_set_bank
  <2> QED BY <1>2, <1>5, <2>1, <2>2 DEF DriverAgrees, r
<1> QED BY <1>7, <1>8, <1>9, <1>10, <1>11, <1>12, <1>13 DEF EncInv

---------------------------------------------------------------------------
\* The state after power-up.
LEMMA EncStarts == EncInit => EncInv
<1> SUFFICES ASSUME EncInit PROVE EncInv OBVIOUS
<1>1. RingSize \in Nat /\ RingSize >= 2 BY EncAssumption
<1>2. unread = <<>> /\ unread \in Seq([at : Ring, frame : Frames]) /\ 0 \in Ring
  BY <1>1, EmptySeq DEF EncInit, Ring
<1>3. EncTypes
  <2>1. RXEN \in BOOLEAN /\ TXRTS \in BOOLEAN /\ TXERIF \in BOOLEAN /\ cut \in BOOLEAN
        /\ exposed \in BOOLEAN
    BY DEF EncInit
  <2> QED BY <1>2, <2>1 DEF EncInit, EncTypes
<1>4. Lined /\ Apart /\ Chained BY <1>2 DEF Lined, Apart, Chained
<1>5. GapInv /\ SetUpEnc /\ DriverAgrees BY DEF EncInit, GapInv, SetUpEnc, DriverAgrees, Running
<1> QED BY <1>3, <1>4, <1>5 DEF EncInv

\* The driver reads where the oldest unread frame starts, in the bank it thinks it
\* is in, for as many frames as are counted, and a frame is overwritten only after
\* one came in while the read pointer was outside the ring (enc28j60.c).
THEOREM DriverFollowsTheChip == EncSpec => []DriverAgrees
<1>1. EncInv /\ [EncNext]_encVars => EncInv'
  <2> SUFFICES ASSUME EncInv, [EncNext]_encVars PROVE EncInv' OBVIOUS
  <2>1. ASSUME NEW f \in Frames, FrameIn(f) PROVE EncInv' BY <2>1, FrameInKeeps
  <2>2. CASE Sent \/ SendFails \/ McuRestarts \/ SetupMac \/ Poll \/ CountOff \/ Wait \/ Load \/ Go
    BY <2>2, QuietKeeps
  <2>3. CASE Reset \/ SetupRing BY <2>3, SetUpKeeps
  <2>4. CASE Read BY <2>4, ReadKeeps
  <2>5. CASE FreeCells BY <2>5, FreeCellsKeeps
  <2>6. CASE UNCHANGED encVars
    <3>1. UNCHANGED <<ERXWRPT, ERXRDPT, unread, cut, exposed>> BY <2>6 DEF encVars, controllerVars
    <3>2. Lined' /\ Apart' /\ Chained' /\ Base' = Base BY <3>1, RingKept
    <3> QED BY <2>6, <3>2 DEF EncInv, EncTypes, GapInv, Gap, Ahead, SetUpEnc, DriverAgrees, Running,
                              encVars, controllerVars, driverVars
  <2> QED BY <2>1, <2>2, <2>3, <2>4, <2>5, <2>6 DEF EncNext
<1>2. EncInv => DriverAgrees BY DEF EncInv
<1> QED BY <1>1, <1>2, EncStarts, PTL DEF EncSpec

---------------------------------------------------------------------------
(* The small libraries.  The clock is where the timer started and what has *)
(* gone by since, but for whole ranges of the clock.                       *)

\* The remainder of a number that lies a number of whole clock ranges away.
LEMMA RemainderOf ==
  ASSUME NEW m \in Nat, NEW q \in Int, NEW r \in Nat, r < m, NEW a \in Int, a = m * q + r
  PROVE  a % m = r
OBVIOUS

\* How far the clock is ahead of a timer's start is what the history says, but for
\* whole ranges of the clock.
Turns == \E k \in Int : clock - timer.start = lapse + timer.interval + ClockRange * k
LibInv ==
  /\ clock \in 0 .. ClockRange - 1
  /\ timer \in [start : 0 .. ClockRange - 1, interval : 0 .. ClockRange \div 2]
  /\ lapse \in Int
  /\ Turns
  /\ SplitIsWhole

\* The remainder of a number, and of its successor, within one range of the clock.
LEMMA OneRange ==
  ASSUME NEW n \in Nat, n < ClockRange + ClockRange
  PROVE  n % ClockRange = (IF n < ClockRange THEN n ELSE n - ClockRange)
         /\ n % ClockRange \in 0 .. ClockRange - 1
<1>1. ClockRange \in Nat /\ ClockRange > 0 BY LibAssumption
<1>2. CASE n < ClockRange
  <2>1. n = ClockRange * 0 + n BY <1>1
  <2>2. n % ClockRange = n BY <1>1, <1>2, <2>1, RemainderOf
  <2> QED BY <1>1, <1>2, <2>2
<1>3. CASE n >= ClockRange
  <2>1. n = ClockRange * 1 + (n - ClockRange) /\ n - ClockRange \in Nat /\ n - ClockRange < ClockRange
    BY <1>1, <1>3
  <2>2. n % ClockRange = n - ClockRange BY <1>1, <2>1, RemainderOf
  <2> QED BY <1>1, <1>3, <2>1, <2>2
<1> QED BY <1>1, <1>2, <1>3

\* Reading the difference as a signed number undoes the wrap.
LEMMA SignedIs ==
  ASSUME NEW d \in -(ClockRange \div 2) .. ClockRange \div 2 - 1, NEW k \in Int, NEW n \in Int,
         n = d + ClockRange * k
  PROVE  Signed(n) = d
<1> DEFINE h == ClockRange \div 2
<1>1. ClockRange \in Nat /\ ClockRange > 0 /\ h \in Nat /\ h + h <= ClockRange /\ d \in Int
  BY LibAssumption
<1>2. CASE d >= 0
  <2>1. d \in Nat /\ d < h /\ d < ClockRange BY <1>1, <1>2
  <2>2. n % ClockRange = d
    <3>1. n = ClockRange * k + d BY <1>1
    <3>2. ClockRange \in Nat /\ k \in Int /\ d \in Nat /\ d < ClockRange /\ n \in Int BY <1>1, <2>1
    <3> HIDE DEF h
    <3> QED BY <3>1, <3>2, RemainderOf, ZenonT(90)
  <2> QED BY <1>1, <2>1, <2>2 DEF Signed
<1>3. CASE d < 0
  <2>1. d + ClockRange \in Nat /\ d + ClockRange < ClockRange /\ d + ClockRange >= h BY <1>1, <1>3
  <2>2. n = ClockRange * (k - 1) + (d + ClockRange) BY <1>1
  <2>3. k - 1 \in Int OBVIOUS
  <2> DEFINE r == d + ClockRange
  <2>4. r \in Nat /\ r < ClockRange /\ n = ClockRange * (k - 1) + r BY <2>1, <2>2
  <2> HIDE DEF r
  <2>5. n % ClockRange = r
    <3> HIDE DEF h
    <3>1. ClockRange \in Nat /\ n \in Int BY <1>1
    <3> QED BY <2>3, <2>4, <3>1, RemainderOf, ZenonT(90)
  <2> USE DEF r
  <2>6. ~(r < h) BY <1>1, <2>1
  <2> QED BY <1>1, <2>5, <2>6 DEF Signed
<1> QED BY <1>1, <1>2, <1>3

LEMMA LibStarts == LibInit => LibInv
<1> SUFFICES ASSUME LibInit PROVE LibInv OBVIOUS
<1>1. ClockRange \in Nat /\ ClockRange > 0 BY LibAssumption
<1>2. clock - timer.start = lapse + timer.interval + ClockRange * 0 BY <1>1 DEF LibInit
<1>3. Turns BY <1>2 DEF Turns
<1>4. SplitIsWhole BY DEF LibInit, SplitIsWhole
<1>5. 0 \in 0 .. ClockRange - 1 /\ 0 \in 0 .. ClockRange \div 2 BY <1>1
<1> QED BY <1>1, <1>3, <1>4, <1>5 DEF LibInit, LibInv

\* A timer is started, one way or another: the clock, the start, the interval and
\* the history agree as before.
LEMMA LibKeeps == ASSUME LibInv, [LibNext]_libVars PROVE LibInv'
<1>1. ClockRange \in Nat /\ ClockRange > 0 /\ Intervals \subseteq 0 .. ClockRange \div 2 - 1
  BY LibAssumption
<1>2. /\ clock \in 0 .. ClockRange - 1 /\ timer.start \in 0 .. ClockRange - 1
      /\ timer.interval \in 0 .. ClockRange \div 2 /\ lapse \in Int
      /\ timer = [start |-> timer.start, interval |-> timer.interval]
  BY DEF LibInv
<1>3. PICK k \in Int : clock - timer.start = lapse + timer.interval + ClockRange * k BY DEF LibInv, Turns
<1>4. ASSUME Tick PROVE LibInv'
  <2>1. clock' = (clock + 1) % ClockRange /\ lapse' = lapse + 1 /\ timer' = timer /\ packets' = packets
    BY <1>4 DEF Tick
  <2>2. clock + 1 \in Nat /\ clock + 1 < ClockRange + ClockRange BY <1>1, <1>2
  <2> DEFINE next == clock + 1
  <2>3. /\ clock' = (IF next < ClockRange THEN next ELSE next - ClockRange)
        /\ clock' \in 0 .. ClockRange - 1
    <3> HIDE DEF next
    <3> QED BY <2>1, <2>2, OneRange DEF next
  <2>4. Turns'
    <3>1. CASE next < ClockRange
      <4>1. clock' = clock + 1 /\ timer' = timer /\ lapse' = lapse + 1 BY <2>1, <2>3, <3>1
      <4>2. ClockRange * k \in Int BY <1>1
      <4>3. clock' - timer'.start = lapse' + timer'.interval + ClockRange * k BY <1>2, <1>3, <4>1, <4>2
      <4> QED BY <4>3 DEF Turns
    <3>2. CASE ~(next < ClockRange)
      <4>1. clock' - timer'.start = lapse' + timer'.interval + ClockRange * k - ClockRange
        BY <1>1, <1>2, <1>3, <2>1, <2>3, <3>2
      <4>2. ClockRange * (k - 1) = ClockRange * k - ClockRange /\ k - 1 \in Int BY <1>1
      <4>3. clock' - timer'.start = lapse' + timer'.interval + ClockRange * (k - 1)
        BY <1>1, <1>2, <2>1, <4>1, <4>2
      <4> QED BY <4>2, <4>3 DEF Turns
    <3> QED BY <3>1, <3>2
  <2> QED BY <1>2, <2>1, <2>3, <2>4 DEF LibInv, SplitIsWhole
<1>5. ASSUME NEW n \in Intervals, timer_set(n) PROVE LibInv'
  <2>1. timer' = [interval |-> n, start |-> clock] /\ lapse' = -n /\ clock' = clock /\ packets' = packets
    BY <1>5 DEF timer_set
  <2>2. clock' - timer'.start = lapse' + timer'.interval + ClockRange * 0 BY <1>1, <1>2, <2>1
  <2>3. Turns' BY <2>2 DEF Turns
  <2> QED BY <1>1, <1>2, <2>1, <2>3 DEF LibInv, SplitIsWhole
<1>6. ASSUME timer_restart PROVE LibInv'
  <2>1. /\ timer' = [start |-> clock, interval |-> timer.interval] /\ lapse' = -timer.interval
        /\ clock' = clock /\ packets' = packets
    BY <1>2, <1>6 DEF timer_restart
  <2>2. clock' - timer'.start = lapse' + timer'.interval + ClockRange * 0 BY <1>1, <1>2, <2>1
  <2>3. Turns' BY <2>2 DEF Turns
  <2> QED BY <1>1, <1>2, <2>1, <2>3 DEF LibInv, SplitIsWhole
<1>7. ASSUME timer_reset PROVE LibInv'
  <2> DEFINE next == timer.start + timer.interval
  <2>1. /\ timer' = [start |-> next % ClockRange, interval |-> timer.interval]
        /\ lapse' = lapse - timer.interval /\ clock' = clock /\ packets' = packets
    BY <1>2, <1>7 DEF timer_reset
  <2>2. next \in Nat /\ next < ClockRange + ClockRange BY <1>1, <1>2
  <2>3. /\ timer'.start = (IF next < ClockRange THEN next ELSE next - ClockRange)
        /\ timer'.start \in 0 .. ClockRange - 1
    BY <2>1, <2>2, OneRange
  <2>4. Turns'
    <3>1. CASE next < ClockRange
      <4>1. clock' - timer'.start = lapse' + timer'.interval + ClockRange * k BY <1>1, <1>2, <1>3, <2>1, <2>3, <3>1
      <4> QED BY <4>1 DEF Turns
    <3>2. CASE ~(next < ClockRange)
      <4>1. clock' - timer'.start = lapse' + timer'.interval + ClockRange * k + ClockRange
        BY <1>1, <1>2, <1>3, <2>1, <2>3, <3>2
      <4>2. ClockRange * (k + 1) = ClockRange * k + ClockRange /\ k + 1 \in Int BY <1>1
      <4>3. clock' - timer'.start = lapse' + timer'.interval + ClockRange * (k + 1)
        BY <1>1, <1>2, <2>1, <4>1, <4>2
      <4> QED BY <4>2, <4>3 DEF Turns
    <3> QED BY <3>1, <3>2
  <2> QED BY <1>2, <2>1, <2>3, <2>4 DEF LibInv, SplitIsWhole
<1>8. ASSUME NEW s \in 0 .. SeqRange - 1, NEW n \in TcpLengths, Split(s, n) PROVE LibInv'
  <2>1. UNCHANGED <<clock, timer, lapse>> /\ uip_split_output(s, n) BY <1>8 DEF Split
  <2> DEFINE len1 == FullSegment \div 2
  <2> DEFINE len2 == FullSegment - len1
  <2>2. len1 \in Nat /\ len2 \in Nat /\ len1 + len2 = FullSegment /\ TCPIP_HLEN \in Nat BY LibAssumption
  <2>3. SplitIsWhole'
    <3>1. CASE n = FullSegment
      <4>1. packets' = << [seqno |-> s, len |-> len1 + TCPIP_HLEN, from |-> 0],
                          [seqno |-> (s + len1) % SeqRange, len |-> len2 + TCPIP_HLEN, from |-> len1] >>
        BY <2>1, <3>1 DEF uip_split_output, Halves
      <4> HIDE DEF len1, len2
      <4>2. /\ Len(packets') = 2
            /\ packets'[1] = [seqno |-> s, len |-> len1 + TCPIP_HLEN, from |-> 0]
            /\ packets'[2] = [seqno |-> (s + len1) % SeqRange, len |-> len2 + TCPIP_HLEN, from |-> len1]
        BY <4>1
      <4>3. s + (len1 + TCPIP_HLEN) - TCPIP_HLEN = s + len1 /\ 0 + (len1 + TCPIP_HLEN) - TCPIP_HLEN = len1
        BY <2>2
      <4>4. (len1 + TCPIP_HLEN) + (len2 + TCPIP_HLEN) = FullSegment + 2 * TCPIP_HLEN BY <2>2
      <4>5. \A i \in 1 .. Len(packets') - 1 : i = 1 BY <4>2
      <4>6. /\ packets'[1 + 1].from = packets'[1].from + packets'[1].len - TCPIP_HLEN
            /\ packets'[1 + 1].seqno = (packets'[1].seqno + packets'[1].len - TCPIP_HLEN) % SeqRange
            /\ packets'[1].len + packets'[1 + 1].len = FullSegment + 2 * TCPIP_HLEN
        BY <4>2, <4>3, <4>4
      <4> QED BY <4>5, <4>6 DEF SplitIsWhole
    <3>2. CASE n # FullSegment
      <4>1. packets' = << [seqno |-> s, len |-> n + TCPIP_HLEN, from |-> 0] >>
        BY <2>1, <3>2 DEF uip_split_output
      <4>2. Len(packets') = 1 BY <4>1
      <4> QED BY <4>2 DEF SplitIsWhole
    <3> QED BY <3>1, <3>2
  <2> QED BY <1>3, <2>1, <2>3 DEF LibInv, Turns
<1>9. CASE UNCHANGED libVars BY <1>9 DEF LibInv, Turns, SplitIsWhole, libVars
<1> QED BY <1>4, <1>5, <1>6, <1>7, <1>8, <1>9 DEF LibNext

\* A timer has expired exactly when its interval is over, however often its clock
\* wrapped (uip-timer.c), and the packets a full segment is split into are the
\* segment (uip-split.c).
THEOREM SmallLibraries == LibSpec => []LibraryIsRight
<1>1. LibInv => LibraryIsRight
  <2> SUFFICES ASSUME LibInv, lapse + timer.interval \in -(ClockRange \div 2) .. ClockRange \div 2 - 1
               PROVE  timer_expired <=> lapse >= 0
    BY DEF LibraryIsRight, ExpiresInTime, LibInv
  <2>1. PICK k \in Int : clock - timer.start = lapse + timer.interval + ClockRange * k BY DEF LibInv, Turns
  <2>2. clock \in Int /\ timer.start \in Int /\ timer.interval \in Int /\ lapse \in Int
    BY LibAssumption DEF LibInv
  <2>3. Signed(clock - timer.start) = lapse + timer.interval BY <2>1, <2>2, SignedIs
  <2> QED BY <2>2, <2>3 DEF timer_expired
<1> QED BY <1>1, LibStarts, LibKeeps, PTL DEF LibSpec

---------------------------------------------------------------------------
(* The memory partitions.  PartitionsExact is inductive with what is left  *)
(* of a manager's call.  It needs one manager: a control block is cleared  *)
(* after its id is free again, so a second one could have built a          *)
(* partition in it by then.                                                *)

\* One task makes the partitions and deletes them.
OneManager == \A c, d \in Managers : c = d

Addr(mm) == MemoryTbl[mm].memAddr
Free(mm) == MemoryTbl[mm].freeBlock

MemoryTypes ==
  /\ MemoryTbl \in [Partitions -> [memAddr : Areas \union {NoArea}, freeBlock : Seq(AllBlocks)]]
  /\ MemoryIDVessel \subseteq Partitions
  /\ todo \in [Managers -> [op : {"done", "build", "clear"}, mm : Partitions, area : Areas \union {NoArea}]]
  /\ held \in [Users -> SUBSET AllBlocks]

\* What is left of a manager's call: a list to build on an area nobody has, or a
\* control block to clear whose id is free.
TodoAgrees ==
  \A c \in Managers :
    /\ todo[c].op = "done" => todo[c] = Done
    /\ todo[c].op = "build" =>
         /\ todo[c].area \in Areas /\ todo[c].mm \in MemoryIDVessel
         /\ \A mm \in Ready : Addr(mm) # todo[c].area
    /\ todo[c].op = "clear" => todo[c].area = NoArea /\ todo[c].mm \notin MemoryIDVessel

\* No area is two partitions, and a block that is out is one of a partition's.
AreasApart == \A mm, nn \in Ready : Addr(mm) = Addr(nn) => mm = nn
HeldKnown == \A u \in Users : \A b \in held[u] : \E mm \in Ready : b \in BlocksOf(Addr(mm))

MemoryInv == MemoryTypes /\ TodoAgrees /\ AreasApart /\ HeldKnown /\ PartitionsExact

\* A block is of one area.
LEMMA BlockIsOfOne ==
  /\ \A area, other : \A b \in BlocksOf(area) : b[1] = area /\ (b \in BlocksOf(other) => area = other)
  /\ \A b \in AllBlocks : b[1] \in Areas /\ b \in BlocksOf(b[1])
  BY DEF BlocksOf, AllBlocks

LEMMA MemoryStarts == MemoryInit => MemoryInv
<1> SUFFICES ASSUME MemoryInit PROVE MemoryInv OBVIOUS
<1>1. Ready = {} BY DEF MemoryInit, Ready
<1>2. 0 \in Partitions BY MemoryAssumption DEF Partitions
<1>3. MemoryTypes BY <1>2, EmptySeq DEF MemoryInit, MemoryTypes, NoPartition, Done
<1>4. TodoAgrees BY DEF TodoAgrees, MemoryInit, Done
<1>5. AreasApart /\ HeldKnown BY <1>1 DEF AreasApart, HeldKnown, MemoryInit
<1>6. PartitionsExact BY <1>1 DEF PartitionsExact, MemoryInit
<1> QED BY <1>3, <1>4, <1>5, <1>6 DEF MemoryInv

\* What a partition is, apart from the rest.
Exact(mm) ==
  /\ Addr(mm) \in Areas
  /\ \A i, j \in DOMAIN Free(mm) : Free(mm)[i] = Free(mm)[j] => i = j
  /\ FreeBlocks(mm) \intersect Handed(mm) = {}
  /\ FreeBlocks(mm) \union Handed(mm) = BlocksOf(Addr(mm))
Disjoint == \A u, v \in Users : u # v => held[u] \intersect held[v] = {}
LEMMA ExactIs == PartitionsExact <=> Disjoint /\ \A mm \in Ready : Exact(mm)
  BY DEF PartitionsExact, Disjoint, Exact, Addr, Free

\* A partition whose control block stays and of whose blocks none comes or goes.
LEMMA ExactStays ==
  ASSUME NEW mm, Exact(mm), MemoryTbl'[mm] = MemoryTbl[mm],
         \A b \in BlocksOf(Addr(mm)) : (\E u \in Users : b \in held[u]) <=> (\E u \in Users : b \in held'[u])
  PROVE  Exact(mm)'
<1>1. Addr(mm)' = Addr(mm) /\ Free(mm)' = Free(mm) BY DEF Addr, Free
<1>2. FreeBlocks(mm)' = FreeBlocks(mm) BY DEF FreeBlocks
<1>3. Handed(mm)' = Handed(mm) BY <1>1 DEF Handed, Addr
<1> QED BY <1>1, <1>2, <1>3 DEF Exact

LEMMA CreateKeeps ==
  ASSUME MemoryInv, OneManager, NEW c \in Managers, NEW area \in Areas, CoCreateMemPartition(c, area)
  PROVE  MemoryInv'
<1>1. PICK mm \in Partitions \ MemoryIDVessel :
        /\ MemoryIDVessel' = MemoryIDVessel \union {mm}
        /\ todo' = [todo EXCEPT ![c] = [op |-> "build", mm |-> mm, area |-> area]]
  BY DEF CoCreateMemPartition
<1>2. todo[c] = Done /\ ~InUse(area) /\ UNCHANGED <<MemoryTbl, held>> BY DEF CoCreateMemPartition
<1>3. todo'[c] = [op |-> "build", mm |-> mm, area |-> area] BY <1>1 DEF MemoryInv, MemoryTypes
<1>4. Managers = {c} BY DEF OneManager
<1>5. Ready = MemoryIDVessel BY <1>2, <1>4 DEF Ready, BeingBuilt, Done
<1>6. Ready' = Ready BY <1>1, <1>3, <1>4, <1>5 DEF Ready, BeingBuilt
<1>7. MemoryTypes' BY <1>1, <1>2 DEF MemoryInv, MemoryTypes
<1>8. TodoAgrees'
  <2>1. \A nn \in Ready : Addr(nn) # area BY <1>2, <1>5 DEF InUse, Addr
  <2>2. \A nn : Addr(nn)' = Addr(nn) BY <1>2 DEF Addr
  <2> QED BY <1>1, <1>3, <1>4, <1>6, <2>1, <2>2 DEF TodoAgrees
<1>9. AreasApart' /\ HeldKnown' BY <1>2, <1>6 DEF MemoryInv, AreasApart, HeldKnown, Addr
<1>10. PartitionsExact'
  <2>1. Disjoint' BY <1>2, ExactIs DEF MemoryInv, Disjoint
  <2>2. \A nn \in Ready : Exact(nn)' BY <1>2, ExactIs, ExactStays DEF MemoryInv
  <2> QED BY <1>6, <2>1, <2>2 DEF PartitionsExact, Disjoint, Exact, Addr, Free
<1> QED BY <1>7, <1>8, <1>9, <1>10 DEF MemoryInv

\* The calls, and what is left of a manager's, keep the invariant.
LEMMA BuildKeeps ==
  ASSUME MemoryInv, OneManager, NEW c \in Managers, Build(c)
  PROVE  MemoryInv'
<1>a. PICK area : area = todo[c].area OBVIOUS
<1>b. PICK mm : mm = todo[c].mm OBVIOUS
<1>c. PICK list : list = [i \in 1 .. blockNum[area] |-> <<area, i>>] OBVIOUS
<1>1. Managers = {c} BY DEF OneManager
<1>2. /\ area \in Areas /\ mm \in MemoryIDVessel /\ mm \in Partitions
      /\ \A nn \in Ready : Addr(nn) # area
  BY <1>a, <1>b DEF MemoryInv, TodoAgrees, Build, MemoryTypes
<1>3. /\ MemoryTbl' = [MemoryTbl EXCEPT ![mm] = [memAddr |-> area, freeBlock |-> list]]
      /\ todo' = [todo EXCEPT ![c] = Done] /\ UNCHANGED <<MemoryIDVessel, held>>
      /\ todo[c].op = "build"
  BY <1>a, <1>b, <1>c DEF Build
<1>4. todo'[c] = Done BY <1>3 DEF MemoryInv, MemoryTypes
<1>5. Ready = MemoryIDVessel \ {mm} BY <1>1, <1>b, <1>3 DEF Ready, BeingBuilt
<1>6. Ready' = Ready \union {mm}
  <2>1. Ready' = MemoryIDVessel BY <1>1, <1>3, <1>4 DEF Ready, BeingBuilt, Done
  <2> QED BY <1>2, <1>5, <2>1
<1>7. blockNum[area] \in Nat BY <1>2, MemoryAssumption
<1>8. list \in Seq(AllBlocks) /\ DOMAIN list = 1 .. blockNum[area]
  <2>1. \A i \in 1 .. blockNum[area] : <<area, i>> \in AllBlocks BY <1>2 DEF AllBlocks, BlocksOf
  <2> QED BY <1>7, <1>c, <2>1
<1>9. MemoryTbl'[mm] = [memAddr |-> area, freeBlock |-> list] BY <1>2, <1>3 DEF MemoryInv, MemoryTypes
<1>10. \A nn \in Ready : MemoryTbl'[nn] = MemoryTbl[nn] BY <1>3, <1>5 DEF MemoryInv, MemoryTypes
<1>11. Addr(mm)' = area /\ Free(mm)' = list BY <1>9 DEF Addr, Free
<1>12. MemoryTypes'
  <2>1. [memAddr |-> area, freeBlock |-> list] \in [memAddr : Areas \union {NoArea}, freeBlock : Seq(AllBlocks)]
    BY <1>2, <1>8
  <2>2. MemoryTbl' \in [Partitions -> [memAddr : Areas \union {NoArea}, freeBlock : Seq(AllBlocks)]]
    BY <1>3, <2>1 DEF MemoryInv, MemoryTypes
  <2>3. Done \in [op : {"done", "build", "clear"}, mm : Partitions, area : Areas \union {NoArea}]
    BY MemoryAssumption DEF Done, Partitions
  <2> QED BY <1>3, <2>2, <2>3 DEF MemoryInv, MemoryTypes
<1>13. TodoAgrees' BY <1>1, <1>4 DEF TodoAgrees, Done
<1>14. \A nn \in Ready : Addr(nn)' = Addr(nn) BY <1>10 DEF Addr
<1>15. AreasApart' BY <1>2, <1>6, <1>11, <1>14 DEF MemoryInv, AreasApart
<1>16. HeldKnown' BY <1>3, <1>6, <1>14 DEF MemoryInv, HeldKnown
<1>17. \A u \in Users : \A b \in held[u] : b \notin BlocksOf(area)
  BY <1>2, BlockIsOfOne DEF MemoryInv, HeldKnown
<1>18. Exact(mm)'
  <2>1. FreeBlocks(mm)' = BlocksOf(area)
    <3>1. FreeBlocks(mm)' = {list[i] : i \in DOMAIN list} BY <1>11 DEF FreeBlocks, Free
    <3>2. \A i \in DOMAIN list : list[i] = <<area, i>> BY <1>8, <1>c
    <3> QED BY <1>8, <3>1, <3>2 DEF BlocksOf
  <2>2. Handed(mm)' = {} BY <1>3, <1>11, <1>17 DEF Handed, Addr
  <2>3. \A i, j \in DOMAIN list : list[i] = list[j] => i = j BY <1>c
  <2> QED BY <1>2, <1>11, <2>1, <2>2, <2>3 DEF Exact
<1>19. \A nn \in Ready : Exact(nn)' BY <1>3, <1>10, ExactIs, ExactStays DEF MemoryInv
<1>20. Disjoint' BY <1>3, ExactIs DEF MemoryInv, Disjoint
<1>21. PartitionsExact' BY <1>6, <1>18, <1>19, <1>20 DEF PartitionsExact, Disjoint, Exact, Addr, Free
<1> QED BY <1>12, <1>13, <1>15, <1>16, <1>21 DEF MemoryInv

LEMMA DeleteKeeps ==
  ASSUME MemoryInv, OneManager, NEW c \in Managers, NEW mm \in Partitions, CoDelMemoryPartition(c, mm)
  PROVE  MemoryInv'
<1>1. Managers = {c} BY DEF OneManager
<1>2. /\ todo[c] = Done /\ mm \in Ready /\ Handed(mm) = {} /\ MemoryIDVessel' = MemoryIDVessel \ {mm}
      /\ todo' = [todo EXCEPT ![c] = [op |-> "clear", mm |-> mm, area |-> NoArea]]
      /\ UNCHANGED <<MemoryTbl, held>>
  BY DEF CoDelMemoryPartition
<1>3. todo'[c] = [op |-> "clear", mm |-> mm, area |-> NoArea] BY <1>2 DEF MemoryInv, MemoryTypes
<1>4. Ready = MemoryIDVessel BY <1>1, <1>2 DEF Ready, BeingBuilt, Done
<1>5. Ready' = Ready \ {mm} BY <1>1, <1>2, <1>3, <1>4 DEF Ready, BeingBuilt
<1>6. MemoryTypes' BY <1>2 DEF MemoryInv, MemoryTypes
<1>7. TodoAgrees' BY <1>1, <1>2, <1>3 DEF TodoAgrees
<1>8. AreasApart' BY <1>2, <1>5 DEF MemoryInv, AreasApart, Addr
<1>9. HeldKnown'
  <2>1. \A u \in Users : \A b \in held[u] : b \notin BlocksOf(Addr(mm)) BY <1>2 DEF Handed, Addr
  <2> QED BY <1>2, <1>5, <2>1 DEF MemoryInv, HeldKnown, Addr
<1>10. \A nn \in Ready : Exact(nn)' BY <1>2, ExactIs, ExactStays DEF MemoryInv
<1>11. Disjoint' BY <1>2, ExactIs DEF MemoryInv, Disjoint
<1>12. PartitionsExact' BY <1>5, <1>10, <1>11 DEF PartitionsExact, Disjoint, Exact, Addr, Free
<1> QED BY <1>6, <1>7, <1>8, <1>9, <1>12 DEF MemoryInv

LEMMA ClearKeeps ==
  ASSUME MemoryInv, OneManager, NEW c \in Managers, Clear(c)
  PROVE  MemoryInv'
<1>1. Managers = {c} BY DEF OneManager
<1>2. /\ todo[c].op = "clear" /\ todo' = [todo EXCEPT ![c] = Done] /\ UNCHANGED <<MemoryIDVessel, held>>
      /\ MemoryTbl' = [MemoryTbl EXCEPT ![todo[c].mm] = NoPartition]
  BY DEF Clear
<1>3. todo[c].mm \notin MemoryIDVessel BY <1>2 DEF MemoryInv, TodoAgrees
<1>4. todo'[c] = Done BY <1>2 DEF MemoryInv, MemoryTypes
<1>5. Ready = MemoryIDVessel /\ Ready' = Ready BY <1>1, <1>2, <1>4 DEF Ready, BeingBuilt, Done
<1>6. \A nn \in Ready : MemoryTbl'[nn] = MemoryTbl[nn] BY <1>2, <1>3, <1>5 DEF MemoryInv, MemoryTypes
<1>7. MemoryTypes'
  <2>1. NoPartition \in [memAddr : Areas \union {NoArea}, freeBlock : Seq(AllBlocks)]
    BY EmptySeq DEF NoPartition
  <2>2. MemoryTbl' \in [Partitions -> [memAddr : Areas \union {NoArea}, freeBlock : Seq(AllBlocks)]]
    BY <1>2, <2>1 DEF MemoryInv, MemoryTypes
  <2>3. Done \in [op : {"done", "build", "clear"}, mm : Partitions, area : Areas \union {NoArea}]
    BY MemoryAssumption DEF Done, Partitions
  <2> QED BY <1>2, <2>2, <2>3 DEF MemoryInv, MemoryTypes
<1>8. TodoAgrees' BY <1>1, <1>4 DEF TodoAgrees, Done
<1>9. \A nn \in Ready : Addr(nn)' = Addr(nn) BY <1>6 DEF Addr
<1>10. AreasApart' /\ HeldKnown' BY <1>2, <1>5, <1>9 DEF MemoryInv, AreasApart, HeldKnown
<1>11. \A nn \in Ready : Exact(nn)' BY <1>2, <1>6, ExactIs, ExactStays DEF MemoryInv
<1>12. Disjoint' BY <1>2, ExactIs DEF MemoryInv, Disjoint
<1>13. PartitionsExact' BY <1>5, <1>11, <1>12 DEF PartitionsExact, Disjoint, Exact, Addr, Free
<1> QED BY <1>7, <1>8, <1>10, <1>13 DEF MemoryInv

\* Taking a block off the front of the free list, and putting one there.
LEMMA GetKeeps ==
  ASSUME MemoryInv, NEW u \in Users, NEW mm \in Partitions, CoGetMemoryBuffer(u, mm)
  PROVE  MemoryInv'
<1>1. /\ mm \in Ready /\ Free(mm) # <<>>
      /\ MemoryTbl' = [MemoryTbl EXCEPT ![mm].freeBlock = Tail(Free(mm))]
      /\ held' = [held EXCEPT ![u] = @ \union {Head(Free(mm))}]
      /\ UNCHANGED <<MemoryIDVessel, todo>>
  BY DEF CoGetMemoryBuffer, Free, Unlinked
<1>2. PICK head : head = Head(Free(mm)) OBVIOUS
<1>3. PICK rest : rest = Tail(Free(mm)) OBVIOUS
<1>4. Exact(mm) /\ Free(mm) \in Seq(AllBlocks) BY <1>1, ExactIs DEF MemoryInv, MemoryTypes, Free
<1>5. /\ rest \in Seq(AllBlocks) /\ Len(rest) = Len(Free(mm)) - 1 /\ Len(Free(mm)) > 0
      /\ \A i \in 1 .. Len(rest) : rest[i] = Free(mm)[i + 1]
      /\ head = Free(mm)[1] /\ head \in AllBlocks
  BY <1>1, <1>2, <1>3, <1>4
<1>6. /\ DOMAIN Free(mm) = 1 .. Len(Free(mm)) /\ DOMAIN rest = 1 .. Len(rest)
      /\ Len(rest) \in Nat /\ Len(Free(mm)) \in Nat
  BY <1>4, <1>5
<1>7. head \in FreeBlocks(mm) BY <1>5, <1>6 DEF FreeBlocks, Free
<1>8. head \in BlocksOf(Addr(mm)) /\ head \notin Handed(mm) BY <1>4, <1>7 DEF Exact
<1>9. \A v \in Users : head \notin held[v] BY <1>8 DEF Handed, Addr
<1>10. \A v \in Users : held'[v] = IF v = u THEN held[v] \union {head} ELSE held[v]
  BY <1>1, <1>2 DEF MemoryInv, MemoryTypes
<1>11. \A nn \in Partitions : MemoryTbl'[nn] = IF nn = mm THEN [MemoryTbl[mm] EXCEPT !.freeBlock = rest] ELSE MemoryTbl[nn]
  BY <1>1, <1>3 DEF MemoryInv, MemoryTypes
<1>12. \A nn \in Partitions : Addr(nn)' = Addr(nn) BY <1>11 DEF MemoryInv, MemoryTypes, Addr
<1>13. Free(mm)' = rest BY <1>11 DEF MemoryInv, MemoryTypes, Free
<1>14. Ready' = Ready /\ Ready \subseteq Partitions BY <1>1 DEF Ready, BeingBuilt, MemoryInv, MemoryTypes
<1>15. MemoryTypes'
  <2>1. MemoryTbl' \in [Partitions -> [memAddr : Areas \union {NoArea}, freeBlock : Seq(AllBlocks)]]
    BY <1>1, <1>3, <1>5 DEF MemoryInv, MemoryTypes
  <2>2. held' \in [Users -> SUBSET AllBlocks] BY <1>1, <1>2, <1>5 DEF MemoryInv, MemoryTypes
  <2> QED BY <1>1, <2>1, <2>2 DEF MemoryInv, MemoryTypes
<1>16. TodoAgrees'
  <2>1. \A nn \in Ready : Addr(nn)' = Addr(nn) BY <1>12, <1>14
  <2> QED BY <1>1, <1>14, <2>1 DEF MemoryInv, TodoAgrees
<1>17. AreasApart' BY <1>12, <1>14 DEF MemoryInv, AreasApart
<1>18. HeldKnown'
  <2>1. \A nn \in Ready : Addr(nn)' = Addr(nn) BY <1>12, <1>14
  <2>2. \A v \in Users : \A b \in held'[v] : \E nn \in Ready : b \in BlocksOf(Addr(nn))
    <3>1. TAKE v \in Users
    <3>2. TAKE b \in held'[v]
    <3>3. CASE b = head BY <1>1, <1>8, <3>3
    <3>4. CASE b # head
      <4>1. b \in held[v] BY <1>10, <3>4
      <4> QED BY <4>1 DEF MemoryInv, HeldKnown
    <3> QED BY <3>3, <3>4
  <2> QED BY <1>14, <2>1, <2>2 DEF HeldKnown
<1>19. Disjoint' BY <1>9, <1>10, ExactIs DEF MemoryInv, Disjoint
<1>20. Exact(mm)'
  <2>1. FreeBlocks(mm)' = {rest[i] : i \in DOMAIN rest} BY <1>13 DEF FreeBlocks, Free
  <2>2. FreeBlocks(mm) = {Free(mm)[i] : i \in DOMAIN Free(mm)} BY DEF FreeBlocks, Free
  <2>3. \A i, j \in DOMAIN rest : rest[i] = rest[j] => i = j BY <1>4, <1>5, <1>6 DEF Exact
  <2>4. FreeBlocks(mm)' = FreeBlocks(mm) \ {head}
    <3>1. \A i \in DOMAIN rest : rest[i] \in FreeBlocks(mm) /\ rest[i] # head
      BY <1>4, <1>5, <1>6, <2>2 DEF Exact
    <3>2. \A b \in FreeBlocks(mm) : b # head => \E i \in DOMAIN rest : rest[i] = b
      <4>1. TAKE b \in FreeBlocks(mm)
      <4>2. HAVE b # head
      <4>3. PICK j \in DOMAIN Free(mm) : b = Free(mm)[j] BY <2>2
      <4>4. j # 1 /\ j - 1 \in DOMAIN rest BY <1>5, <1>6, <4>2, <4>3
      <4>5. rest[j - 1] = b BY <1>5, <1>6, <4>3, <4>4
      <4> QED BY <4>4, <4>5
    <3> QED BY <2>1, <3>1, <3>2
  <2>5. Addr(mm)' = Addr(mm) BY <1>12
  <2>6. Handed(mm)' = Handed(mm) \union {head}
    <3>1. Handed(mm) = {b \in BlocksOf(Addr(mm)) : \E v \in Users : b \in held[v]} BY DEF Handed, Addr
    <3>2. Handed(mm)' = {b \in BlocksOf(Addr(mm)) : \E v \in Users : b \in held'[v]} BY <2>5 DEF Handed, Addr
    <3> QED BY <1>8, <1>10, <3>1, <3>2
  <2> QED BY <1>4, <1>8, <1>13, <2>3, <2>4, <2>5, <2>6 DEF Exact
<1>21. \A nn \in Ready : nn # mm => Exact(nn)'
  <2>1. TAKE nn \in Ready
  <2>2. HAVE nn # mm
  <2>3. head \notin BlocksOf(Addr(nn)) BY <1>1, <1>8, <2>2, BlockIsOfOne DEF MemoryInv, AreasApart
  <2>4. Exact(nn) /\ MemoryTbl'[nn] = MemoryTbl[nn] BY <1>11, <1>14, <2>2, ExactIs DEF MemoryInv
  <2> QED BY <1>10, <2>3, <2>4, ExactStays
<1>22. PartitionsExact' BY <1>14, <1>19, <1>20, <1>21 DEF PartitionsExact, Disjoint, Exact, Addr, Free
<1> QED BY <1>15, <1>16, <1>17, <1>18, <1>22 DEF MemoryInv

LEMMA FreeKeeps ==
  ASSUME MemoryInv, NEW u \in Users, NEW mm \in Partitions, NEW buf \in held[u],
         CoFreeMemoryBuffer(u, mm, buf)
  PROVE  MemoryInv'
<1>1. /\ mm \in Ready /\ buf[1] = Addr(mm)
      /\ MemoryTbl' = [MemoryTbl EXCEPT ![mm].freeBlock = <<buf>> \o Free(mm)]
      /\ held' = [held EXCEPT ![u] = @ \ {buf}]
      /\ UNCHANGED <<MemoryIDVessel, todo>>
  BY DEF CoFreeMemoryBuffer, Free, Addr, MemoryInv, MemoryTypes
<1>2. PICK list : list = <<buf>> \o Free(mm) OBVIOUS
<1>3. Exact(mm) /\ Free(mm) \in Seq(AllBlocks) BY <1>1, ExactIs DEF MemoryInv, MemoryTypes, Free
<1>4. buf \in AllBlocks /\ buf \in BlocksOf(Addr(mm)) BY <1>1, BlockIsOfOne DEF MemoryInv, MemoryTypes
<1>5. /\ list \in Seq(AllBlocks) /\ Len(list) = Len(Free(mm)) + 1
      /\ \A i \in 1 .. Len(Free(mm)) : list[i + 1] = Free(mm)[i]
      /\ list[1] = buf
  BY <1>2, <1>3, <1>4
<1>6. /\ DOMAIN Free(mm) = 1 .. Len(Free(mm)) /\ DOMAIN list = 1 .. Len(list)
      /\ Len(list) \in Nat /\ Len(Free(mm)) \in Nat
  BY <1>3, <1>5
<1>7. buf \in Handed(mm) /\ buf \notin FreeBlocks(mm)
  <2>1. buf \in Handed(mm) BY <1>4 DEF Handed, Addr
  <2> QED BY <1>3, <2>1 DEF Exact
<1>8. \A v \in Users : buf \in held[v] => v = u BY ExactIs DEF MemoryInv, Disjoint
<1>9. \A v \in Users : held'[v] = IF v = u THEN held[v] \ {buf} ELSE held[v]
  BY <1>1 DEF MemoryInv, MemoryTypes
<1>10. \A v \in Users : buf \notin held'[v] /\ held'[v] \subseteq held[v] BY <1>8, <1>9
<1>11. \A nn \in Partitions : MemoryTbl'[nn] = IF nn = mm THEN [MemoryTbl[mm] EXCEPT !.freeBlock = list] ELSE MemoryTbl[nn]
  BY <1>1, <1>2 DEF MemoryInv, MemoryTypes
<1>12. \A nn \in Partitions : Addr(nn)' = Addr(nn) BY <1>11 DEF MemoryInv, MemoryTypes, Addr
<1>13. Free(mm)' = list BY <1>11 DEF MemoryInv, MemoryTypes, Free
<1>14. Ready' = Ready /\ Ready \subseteq Partitions BY <1>1 DEF Ready, BeingBuilt, MemoryInv, MemoryTypes
<1>15. MemoryTypes'
  <2>1. MemoryTbl' \in [Partitions -> [memAddr : Areas \union {NoArea}, freeBlock : Seq(AllBlocks)]]
    BY <1>1, <1>2, <1>5 DEF MemoryInv, MemoryTypes
  <2>2. held' \in [Users -> SUBSET AllBlocks] BY <1>1 DEF MemoryInv, MemoryTypes
  <2> QED BY <1>1, <2>1, <2>2 DEF MemoryInv, MemoryTypes
<1>16. \A nn \in Ready : Addr(nn)' = Addr(nn) BY <1>12, <1>14
<1>17. TodoAgrees' BY <1>1, <1>14, <1>16 DEF MemoryInv, TodoAgrees
<1>18. AreasApart' BY <1>12, <1>14 DEF MemoryInv, AreasApart
<1>19. HeldKnown' BY <1>10, <1>14, <1>16 DEF MemoryInv, HeldKnown
<1>20. Disjoint' BY <1>10, ExactIs DEF MemoryInv, Disjoint
<1>21. Exact(mm)'
  <2>1. FreeBlocks(mm)' = {list[i] : i \in DOMAIN list} BY <1>13 DEF FreeBlocks, Free
  <2>2. FreeBlocks(mm) = {Free(mm)[i] : i \in DOMAIN Free(mm)} BY DEF FreeBlocks, Free
  <2>3. \A i \in DOMAIN list : i # 1 => i - 1 \in DOMAIN Free(mm) /\ list[i] = Free(mm)[i - 1]
    BY <1>5, <1>6
  <2>4. \A i, j \in DOMAIN list : list[i] = list[j] => i = j
    <3>1. \A i \in DOMAIN list : i # 1 => list[i] # buf BY <1>7, <2>2, <2>3
    <3>2. \A i, j \in DOMAIN Free(mm) : Free(mm)[i] = Free(mm)[j] => i = j BY <1>3 DEF Exact
    <3>3. \A i, j \in DOMAIN list : i # 1 /\ j # 1 /\ list[i] = list[j] => i = j
      BY <1>6, <2>3, <3>2
    <3> QED BY <1>5, <3>1, <3>3
  <2>5. FreeBlocks(mm)' = FreeBlocks(mm) \union {buf}
    <3>1. \A i \in DOMAIN list : list[i] \in FreeBlocks(mm) \union {buf} BY <1>5, <2>2, <2>3
    <3>2. \A i \in DOMAIN Free(mm) : i + 1 \in DOMAIN list /\ list[i + 1] = Free(mm)[i] BY <1>5, <1>6
    <3>3. 1 \in DOMAIN list BY <1>5, <1>6
    <3>4. FreeBlocks(mm)' \subseteq FreeBlocks(mm) \union {buf} BY <2>1, <3>1
    <3>5. \A b \in FreeBlocks(mm) : b \in FreeBlocks(mm)' BY <2>1, <2>2, <3>2
    <3>6. buf \in FreeBlocks(mm)' BY <1>5, <2>1, <3>3
    <3> QED BY <3>4, <3>5, <3>6
  <2>6. Addr(mm)' = Addr(mm) BY <1>12
  <2>7. Handed(mm)' = Handed(mm) \ {buf}
    <3>1. Handed(mm) = {b \in BlocksOf(Addr(mm)) : \E v \in Users : b \in held[v]} BY DEF Handed, Addr
    <3>2. Handed(mm)' = {b \in BlocksOf(Addr(mm)) : \E v \in Users : b \in held'[v]} BY <2>6 DEF Handed, Addr
    <3> QED BY <1>9, <1>10, <3>1, <3>2
  <2> QED BY <1>3, <1>7, <1>13, <2>4, <2>5, <2>6, <2>7 DEF Exact
<1>22. \A nn \in Ready : nn # mm => Exact(nn)'
  <2>1. TAKE nn \in Ready
  <2>2. HAVE nn # mm
  <2>3. buf \notin BlocksOf(Addr(nn)) BY <1>1, <1>4, <2>2, BlockIsOfOne DEF MemoryInv, AreasApart
  <2>4. Exact(nn) /\ MemoryTbl'[nn] = MemoryTbl[nn] BY <1>11, <1>14, <2>2, ExactIs DEF MemoryInv
  <2> QED BY <1>9, <2>3, <2>4, ExactStays
<1>23. PartitionsExact' BY <1>14, <1>20, <1>21, <1>22 DEF PartitionsExact, Disjoint, Exact, Addr, Free
<1> QED BY <1>15, <1>17, <1>18, <1>19, <1>23 DEF MemoryInv

LEMMA MemoryKeeps == MemoryInv /\ OneManager /\ [MemoryNext]_memoryVars => MemoryInv'
<1> SUFFICES ASSUME MemoryInv, OneManager, [MemoryNext]_memoryVars PROVE MemoryInv' OBVIOUS
<1>1. CASE \E c \in Managers : Build(c) BY <1>1, BuildKeeps
<1>2. CASE \E c \in Managers : Clear(c) BY <1>2, ClearKeeps
<1>3. CASE \E c \in Managers, area \in Areas : CoCreateMemPartition(c, area) BY <1>3, CreateKeeps
<1>4. CASE \E c \in Managers, mm \in Partitions : CoDelMemoryPartition(c, mm) BY <1>4, DeleteKeeps
<1>5. CASE \E u \in Users, mm \in Partitions : CoGetMemoryBuffer(u, mm) BY <1>5, GetKeeps
<1>6. CASE \E u \in Users, mm \in Partitions : \E buf \in held[u] : CoFreeMemoryBuffer(u, mm, buf)
  BY <1>6, FreeKeeps
<1>7. CASE UNCHANGED memoryVars
  <2> USE <1>7 DEF memoryVars
  <2>1. Ready' = Ready BY DEF Ready, BeingBuilt
  <2>2. \A nn : Addr(nn)' = Addr(nn) BY DEF Addr
  <2>3. MemoryTypes' /\ TodoAgrees' BY <2>1, <2>2 DEF MemoryInv, MemoryTypes, TodoAgrees
  <2>4. AreasApart' /\ HeldKnown' BY <2>1, <2>2 DEF MemoryInv, AreasApart, HeldKnown
  <2>5. Disjoint' BY ExactIs DEF MemoryInv, Disjoint
  <2>6. \A nn \in Ready : Exact(nn)' BY ExactIs, ExactStays DEF MemoryInv
  <2>7. PartitionsExact' BY <2>1, <2>5, <2>6 DEF PartitionsExact, Disjoint, Exact, Addr, Free
  <2> QED BY <2>3, <2>4, <2>7 DEF MemoryInv
<1> QED BY <1>1, <1>2, <1>3, <1>4, <1>5, <1>6, <1>7 DEF MemoryNext

\* With one task that makes and deletes partitions, every block of a partition is
\* on its free list once or with one task, whatever the tasks take and return, and
\* though a control block is built and cleared after the lock (mm.c).
THEOREM BlocksAreExact == OneManager => (MemorySpec => []PartitionsExact)
<1> SUFFICES ASSUME OneManager PROVE MemorySpec => []PartitionsExact OBVIOUS
<1>1. MemoryInv /\ [MemoryNext]_memoryVars => MemoryInv' BY MemoryKeeps
<1>2. MemoryInv => PartitionsExact BY DEF MemoryInv
<1> QED BY <1>1, <1>2, MemoryStarts, PTL DEF MemorySpec

---------------------------------------------------------------------------
(* The round trip.  That the bytes never wrap follows from the numbers of  *)
(* the code: with answers within 31 calls of the timer the mean and the    *)
(* deviation stay inside a polygon, whose three sides every sample keeps,  *)
(* and inside it nothing reaches 128.                                      *)

\* The numbers of the code (uipopt.h, uip-conf.h), or any for which the polygon fits.
RttRules ==
  /\ ByteRange \in Nat /\ ByteRange >= 256 /\ UIP_RTO = 3 /\ MaxRtt \in 0..31
  /\ UIP_TIME_WAIT_TIMEOUT \in Nat /\ UIP_TIME_WAIT_TIMEOUT > 103

\* What sa and sv stay inside.
Polygon(mean, dev) ==
  /\ mean \in 0..248 /\ dev \in 3..107
  /\ dev <= mean + 4 /\ 8 * dev + mean <= 828 /\ 8 * dev + 6 * mean <= 1734

RttInv ==
  /\ nrtx \in Nat
  /\ phase # "closed" =>
       /\ Polygon(sa, sv) /\ est = [sa |-> sa, sv |-> sv]
       /\ rto \in {UIP_RTO, sa \div 8 + sv}
  /\ phase = "idle" => retimer = rto
  /\ phase = "sent" /\ nrtx = 0 => retimer \in 0..rto
  /\ phase \in {"closed", "idle", "sent"}

\* A number of a byte is kept in a byte, and a small one in a signed char (u8_t and
\* signed char of uip.c).
LEMMA FitsByte ==
  ASSUME RttRules, NEW n \in Int
  PROVE  /\ n \in 0..255 => Byte(n) = n
         /\ n \in -128..127 => SChar(n) = n
<1>1. ASSUME n \in 0..255 PROVE Byte(n) = n
  BY <1>1 DEF RttRules, Byte
<1>2. ASSUME n \in -128..-1 PROVE Byte(n) = n + ByteRange
  BY <1>2 DEF RttRules, Byte
<1>3. ByteRange \div 2 >= 128 /\ ByteRange \div 2 <= ByteRange - 128
  BY DEF RttRules
<1> QED BY <1>1, <1>2, <1>3 DEF RttRules, SChar

\* A sample moves the mean and the deviation inside the polygon.
LEMMA SampleStays ==
  ASSUME NEW mean, NEW dev, Polygon(mean, dev), NEW sample \in 0..31
  PROVE  LET m == sample - mean \div 8 IN
         /\ m \in -31..31 /\ Abs(m) \in 0..31 /\ Abs(m) - dev \div 4 \in -26..31
         /\ Polygon(mean + m, dev + (Abs(m) - dev \div 4))
  BY DEF Polygon, Abs

\* The bytes hold what the integers would.
LEMMA EstimateIsExact ==
  ASSUME RttRules, Polygon(sa, sv), NEW sample \in 0..31
  PROVE  /\ Estimate(sample) = Jacobson([sa |-> sa, sv |-> sv], sample)
         /\ Polygon(Estimate(sample).sa, Estimate(sample).sv)
<1> DEFINE m == sample - sa \div 8
           dev == Abs(m) - sv \div 4
<1>1. m \in -31..31 /\ Abs(m) \in 0..31 /\ dev \in -26..31 /\ Polygon(sa + m, sv + dev)
  BY SampleStays
<1>2. sa + m \in 0..255 /\ sv + dev \in 0..255 /\ sa \in Int /\ sv \in Int
  BY <1>1 DEF Polygon
<1>3. SChar(sample) = sample BY FitsByte
<1>4. SChar(m) = m BY <1>1, FitsByte
<1>5. SChar(Abs(m)) = Abs(m) BY <1>1, FitsByte
<1>6. SChar(dev) = dev BY <1>1, FitsByte
<1>7. Byte(sa + m) = sa + m /\ Byte(sv + dev) = sv + dev BY <1>2, FitsByte
<1> HIDE DEF m, dev
<1>8. Estimate(sample) = [sa |-> sa + m, sv |-> sv + dev]
  BY <1>3, <1>4, <1>5, <1>6, <1>7 DEF Estimate, m, dev
<1>9. Jacobson([sa |-> sa, sv |-> sv], sample) = [sa |-> sa + m, sv |-> sv + Abs(m) - sv \div 4]
  BY DEF Jacobson, m
<1>10. sv + Abs(m) - sv \div 4 = sv + dev BY <1>1, <1>2 DEF dev
<1> QED BY <1>1, <1>8, <1>9, <1>10

\* A time-out inside it.
LEMMA TimeOutFits ==
  ASSUME NEW mean, NEW dev, Polygon(mean, dev) PROVE mean \div 8 + dev \in 3..103
  BY DEF Polygon

LEMMA RttStarts == RttInit => RttInv
  BY DEF RttInit, RttInv

LEMMA RttStep == ASSUME RttRules, RttInv, [RttNext]_rttVars PROVE RttInv'
<1>1. CASE RttSyn
  BY <1>1 DEF RttSyn, RttInv, RttRules, Polygon
<1>0. phase # "closed" => rto \in Nat
  BY TimeOutFits DEF RttInv, RttRules
<1>2. CASE RttSend
  <2>1. phase' = "sent" /\ nrtx' = 0 /\ UNCHANGED <<sa, sv, rto, retimer, est>> BY <1>2 DEF RttSend
  <2>2. phase = "idle" BY <1>2 DEF RttSend
  <2>3. retimer = rto /\ rto \in Nat BY <1>0, <2>2 DEF RttInv
  <2>4. retimer' \in 0..rto' BY <2>1, <2>3
  <2> QED BY <2>1, <2>2, <2>4 DEF RttInv
<1>3. CASE RttTimer
  <2> PICK left : left = retimer OBVIOUS
  <2>1. UNCHANGED <<sa, sv, rto, est>> /\ phase = "sent" BY <1>3 DEF RttTimer
  <2>2. CASE retimer > 0 /\ retimer' = retimer - 1 /\ UNCHANGED <<phase, nrtx>>
    <3>1. rto \in Nat BY <1>0, <2>1
    <3>2. nrtx = 0 => retimer \in 0..rto BY <2>1 DEF RttInv
    <3>3. nrtx' = 0 => retimer' \in 0..rto' BY <2>1, <2>2, <3>1, <3>2
    <3> QED BY <2>1, <2>2, <3>3 DEF RttInv
  <2>3. CASE nrtx' = nrtx + 1 /\ UNCHANGED phase
    <3>1. nrtx' \in Nat /\ nrtx' # 0 BY <2>3 DEF RttInv
    <3> QED BY <2>1, <2>3, <3>1 DEF RttInv
  <2>4. CASE phase' = "closed" /\ UNCHANGED nrtx
    BY <2>4 DEF RttInv
  <2> QED BY <1>3, <2>2, <2>3, <2>4 DEF RttTimer
<1>4. CASE RttAck
  <2> DEFINE sample == rto - retimer
  <2>1. phase = "sent" /\ phase' = "idle" /\ nrtx' = nrtx /\ retimer' = rto' BY <1>4 DEF RttAck
  <2>2. CASE /\ nrtx = 0 /\ sample <= MaxRtt
             /\ sa' = Estimate(sample).sa /\ sv' = Estimate(sample).sv
             /\ rto' = Byte(sa' \div 8 + sv') /\ est' = Jacobson(est, sample)
    <3>1. Polygon(sa, sv) /\ est = [sa |-> sa, sv |-> sv] BY <2>1 DEF RttInv
    <3>2. sample \in 0..31
      <4>1. rto \in Int BY <2>1, <3>1, TimeOutFits DEF RttInv, RttRules
      <4>2. retimer \in 0..rto BY <2>1, <2>2 DEF RttInv
      <4> QED BY <2>2, <4>1, <4>2 DEF RttRules
    <3> HIDE DEF sample
    <3>3. Estimate(sample) = est' /\ Polygon(sa', sv') BY <2>2, <3>1, <3>2, EstimateIsExact
    <3>4. est' = [sa |-> sa', sv |-> sv'] BY <2>2, <3>1, <3>3 DEF Jacobson
    <3>5. sa' \div 8 + sv' \in 0..255 BY <3>3, TimeOutFits
    <3>6. rto' = sa' \div 8 + sv'
      <4> DEFINE n == sa' \div 8 + sv'
      <4>1. n \in 0..255 /\ rto' = Byte(n) BY <2>2, <3>5
      <4> HIDE DEF n
      <4>2. rto' = n BY <4>1, FitsByte
      <4> QED BY <4>2 DEF n
    <3> QED BY <2>1, <3>3, <3>4, <3>6 DEF RttInv
  <2>3. CASE nrtx > 0 /\ UNCHANGED <<sa, sv, rto, est>>
    BY <2>1, <2>3 DEF RttInv
  <2> QED BY <1>4, <2>2, <2>3 DEF RttAck
<1>5. CASE UNCHANGED rttVars
  BY <1>5 DEF rttVars, RttInv, Polygon
<1> QED BY <1>1, <1>2, <1>3, <1>4, <1>5 DEF RttNext

LEMMA RttFits == ASSUME RttRules, RttInv PROVE EstimateFits
  BY TimeOutFits DEF RttRules, RttInv, EstimateFits

\* While answers come in time the bytes of the estimate never wrap, the time-out is
\* never shorter than the first one, and a connection in FIN_WAIT_2 is closed in
\* time (uip_process and uip_periodic in uip.c), however many samples there are.
THEOREM EstimateStaysExact == RttRules => (RttSpec => []EstimateFits)
<1> SUFFICES ASSUME RttRules PROVE RttSpec => []EstimateFits OBVIOUS
<1>1. RttInit => RttInv BY RttStarts
<1>2. RttInv /\ [RttNext]_rttVars => RttInv' BY RttStep
<1>3. RttInv => EstimateFits BY RttFits
<1> QED BY <1>1, <1>2, <1>3, PTL DEF RttSpec

---------------------------------------------------------------------------
(* The ports.  OneOwner is inductive with the types: a connection the      *)
(* application opens gets a number nobody has, and there is always one,    *)
(* because the numbers tried are all different and one more than those in  *)
(* use; one that comes in is opened only when no live one has its ports    *)
(* and its host.                                                           *)

\* The shape of the variables.
PortsStates == {"CLOSED", "SYN_SENT", "SYN_RCVD", "TIME_WAIT"}
PortsSlot ==
  [state : PortsStates, lport : Nat, rport : RemotePorts \union {0}, ripaddr : Remotes \union {"none"}, timer : Nat]
PortsShape ==
  /\ conns \in [Conns -> PortsSlot]
  /\ udpPorts \in [UdpConns -> Nat]
  /\ lastport \in 1 .. LastPort - 1

PortsInv == PortsShape /\ OneOwner

\* The n-th number after p: behind the last they go on from WrapPort.
PortAfter(p, n) == IF p + n < LastPort THEN p + n ELSE WrapPort + (p + n - LastPort)

\* A search that is not longer than a round finds them in this order (the loop back to
\* again: in uip_connect and uip_udp_new).
LEMMA TriedInTurn ==
  ASSUME PortsAssumption, NEW p \in 1 .. LastPort - 1, NEW k \in Nat, WrapPort + k < LastPort
  PROVE  \A n \in 0 .. k + 1 : Tried(p, k + 1)[n] = PortAfter(p, n)
<1> DEFINE Is(f) == f = [n \in 0 .. k + 1 |-> IF n = 0 THEN p ELSE NextPort(f[n - 1])]
           g == [n \in 0 .. k + 1 |-> PortAfter(p, n)]
           after == CHOOSE f : Is(f)
           S == {n \in Nat : n \in 0 .. k + 1 => after[n] = PortAfter(p, n)}
<1>1. PortAfter(p, 0) = p BY DEF PortsAssumption, PortAfter
<1>2. \A n \in 1 .. k + 1 : PortAfter(p, n) = NextPort(PortAfter(p, n - 1))
  BY DEF PortsAssumption, PortAfter, NextPort
<1>3. Is(g)
  <2>1. ASSUME NEW n \in 0 .. k + 1 PROVE g[n] = IF n = 0 THEN p ELSE NextPort(g[n - 1])
    <3>1. n # 0 => n \in 1 .. k + 1 /\ n - 1 \in 0 .. k + 1 OBVIOUS
    <3>2. g[n] = PortAfter(p, n) OBVIOUS
    <3>3. n # 0 => g[n - 1] = PortAfter(p, n - 1) BY <3>1
    <3> QED BY <1>1, <1>2, <3>1, <3>2, <3>3
  <2> DEFINE G(n) == IF n = 0 THEN p ELSE NextPort(g[n - 1])
  <2>2. \A n \in 0 .. k + 1 : g[n] = G(n) BY <2>1
  <2> HIDE DEF G
  <2>3. g = [n \in 0 .. k + 1 |-> G(n)] BY <2>2
  <2> QED BY <2>3 DEF G
<1>4. Is(after)
  <2>1. \E f : Is(f) BY <1>3
  <2> HIDE DEF Is
  <2> QED BY <2>1
<1>5. Tried(p, k + 1) = after BY DEF Tried
<1> HIDE DEF after, g
<1>6. 0 \in S BY <1>1, <1>4
<1>7. ASSUME NEW n \in Nat, n \in S PROVE n + 1 \in S
  <2> SUFFICES ASSUME n + 1 \in 0 .. k + 1 PROVE after[n + 1] = PortAfter(p, n + 1) OBVIOUS
  <2>1. n \in 0 .. k + 1 /\ n + 1 \in 1 .. k + 1 /\ n + 1 # 0 /\ (n + 1) - 1 = n OBVIOUS
  <2>2. after[n + 1] = NextPort(after[n]) BY <1>4, <2>1
  <2>3. after[n] = PortAfter(p, n) BY <1>7, <2>1
  <2>4. PortAfter(p, n + 1) = NextPort(PortAfter(p, n)) BY <1>2, <2>1
  <2> QED BY <2>2, <2>3, <2>4
<1> HIDE DEF S
<1>8. Nat \subseteq S BY <1>6, <1>7, SetInduction
<1>9. \A n \in 0 .. k + 1 : n \in S BY <1>8
<1> QED BY <1>5, <1>9 DEF S

\* It tries no number twice.
LEMMA TriedOnce ==
  ASSUME PortsAssumption, NEW p \in 1 .. LastPort - 1, NEW k \in Nat, WrapPort + k < LastPort,
         NEW n \in 1 .. k + 1
  PROVE  /\ PortAfter(p, n) \in 1 .. LastPort - 1
         /\ \A m \in 1 .. k + 1 : PortAfter(p, m) = PortAfter(p, n) => m = n
  BY DEF PortsAssumption, PortAfter

\* It ends at a number that is not in use.
LEMMA UnusedIsFree ==
  ASSUME PortsAssumption, NEW p \in 1 .. LastPort - 1, NEW used, IsFiniteSet(used),
         NEW k \in Nat, WrapPort + k < LastPort, Cardinality(used) <= k
  PROVE  Unused(p, used) \in (1 .. LastPort - 1) \ used
<1> DEFINE c == Cardinality(used)
           tries == 1 .. c + 1
           after == Tried(p, c + 1)
           free == {n \in tries : after[n] \notin used}
<1>1. c \in Nat /\ WrapPort + c < LastPort
  BY FS_CardinalityType DEF PortsAssumption
<1>2. Unused(p, used) = after[Min(free)] BY DEF Unused
<1> HIDE DEF c, after
<1>3. \A n \in tries : after[n] = PortAfter(p, n)
  <2>1. \A n \in 0 .. c + 1 : after[n] = PortAfter(p, n) BY <1>1, TriedInTurn DEF after
  <2>2. \A n \in tries : n \in 0 .. c + 1 BY <1>1
  <2> QED BY <2>1, <2>2
<1>4. \A n \in tries : /\ PortAfter(p, n) \in 1 .. LastPort - 1
                       /\ \A m \in tries : PortAfter(p, m) = PortAfter(p, n) => m = n
  BY <1>1, TriedOnce
<1>5. free # {}
  <2> SUFFICES ASSUME \A n \in tries : after[n] \in used PROVE FALSE OBVIOUS
  <2> DEFINE f == [n \in tries |-> after[n]]
  <2>1. f \in [tries -> used] OBVIOUS
  <2>2. IsFiniteSet(tries) /\ Cardinality(tries) = c + 1 BY <1>1, FS_Interval
  <2>3. c < c + 1 /\ Cardinality(used) = c BY <1>1 DEF c
  <2>4. Cardinality(used) < Cardinality(tries) BY <2>2, <2>3
  <2> HIDE DEF f, tries
  <2>5. \E x, y \in tries : x # y /\ f[x] = f[y] BY <2>1, <2>2, <2>4, FS_PigeonHole
  <2>6. PICK x, y \in tries : x # y /\ f[x] = f[y] BY <2>5
  <2>7. PortAfter(p, x) = PortAfter(p, y) BY <1>3, <2>6 DEF f
  <2> QED BY <1>4, <2>6, <2>7
<1>6. free \in SUBSET Nat BY <1>1
<1>7. Min(free) \in free BY <1>5, <1>6, LeastNumber
<1> QED BY <1>2, <1>3, <1>4, <1>7

\* There are no more numbers in use than slots.
LEMMA UsedByFew ==
  ASSUME NEW k \in Nat, NEW S \in SUBSET (1 .. k), NEW f, NEW U, U = {f[i] : i \in S}
  PROVE  IsFiniteSet(U) /\ Cardinality(U) <= k
<1> DEFINE g == [i \in S |-> f[i]]
<1>1. IsFiniteSet(1 .. k) /\ Cardinality(1 .. k) = k BY FS_Interval
<1>2. IsFiniteSet(S) /\ Cardinality(S) <= k BY <1>1, FS_Subset
<1>3. g \in Surjection(S, U) BY DEF Surjection
<1>4. IsFiniteSet(U) /\ Cardinality(U) <= Cardinality(S) BY <1>2, <1>3, FS_Surjection
<1>5. Cardinality(U) \in Nat /\ Cardinality(S) \in Nat BY <1>2, <1>4, FS_CardinalityType
<1> QED BY <1>2, <1>4, <1>5

\* The number of a new connection is that of no other (uip_connect).
LEMMA ConnectIsNew ==
  ASSUME PortsAssumption, PortsShape
  PROVE  Unused(lastport, PortsInUse) \in (1 .. LastPort - 1) \ PortsInUse
<1> DEFINE S == {j \in Conns : Live(conns[j])}
           f == [i \in Conns |-> conns[i].lport]
<1>1. S \in SUBSET (1 .. UIP_CONNS) BY DEF Conns
<1>2. PortsInUse = {f[i] : i \in S} BY DEF PortsInUse
<1>3. UIP_CONNS \in Nat /\ WrapPort + UIP_CONNS < LastPort BY DEF PortsAssumption
<1> HIDE DEF S, f
<1>4. IsFiniteSet(PortsInUse) /\ Cardinality(PortsInUse) <= UIP_CONNS BY <1>1, <1>2, <1>3, UsedByFew
<1> QED BY <1>3, <1>4, UnusedIsFree DEF PortsShape

\* So is that of a new UDP socket (uip_udp_new).
LEMMA UdpIsNew ==
  ASSUME PortsAssumption, PortsShape, NEW used, used = {udpPorts[i] : i \in UdpConns} \ {0}
  PROVE  Unused(lastport, used) \in (1 .. LastPort - 1) \ used
<1> DEFINE S == {i \in UdpConns : udpPorts[i] # 0}
<1>1. S \in SUBSET (1 .. UIP_UDP_CONNS) BY DEF UdpConns
<1>2. used = {udpPorts[i] : i \in S} OBVIOUS
<1>3. UIP_UDP_CONNS \in Nat /\ WrapPort + UIP_UDP_CONNS < LastPort BY DEF PortsAssumption
<1> HIDE DEF S
<1>4. IsFiniteSet(used) /\ Cardinality(used) <= UIP_UDP_CONNS BY <1>1, <1>2, <1>3, UsedByFew
<1> QED BY <1>3, <1>4, UnusedIsFree DEF PortsShape

Triple(c) == <<c.lport, c.rport, c.ripaddr>>

\* A slot is filled with ports and a host that no live connection has, wherever the
\* slot is.
LEMMA FillKeeps ==
  ASSUME PortsInv, NEW new \in PortsSlot, NEW slot, conns' = [conns EXCEPT ![slot] = new],
         \A i \in Conns : Live(conns[i]) => Triple(conns[i]) # Triple(new),
         lastport' \in 1 .. LastPort - 1, UNCHANGED udpPorts
  PROVE  PortsInv'
<1>1. conns \in [Conns -> PortsSlot] BY DEF PortsInv, PortsShape
<1>2. \A i \in Conns : conns'[i] = IF i = slot THEN new ELSE conns[i] BY <1>1
<1>3. PortsShape' BY <1>1 DEF PortsInv, PortsShape, Conns, UdpConns, PortsSlot
<1>4. OneOwner'
  <2>1. ASSUME NEW i \in Conns, NEW j \in Conns, i # j, Live(conns'[i]), Live(conns'[j])
        PROVE Triple(conns'[i]) # Triple(conns'[j])
    BY <1>2, <2>1 DEF PortsInv, OneOwner, Triple
  <2> QED BY <2>1 DEF PortsInv, OneOwner, Triple, Conns, UdpConns
<1> QED BY <1>3, <1>4 DEF PortsInv

LEMMA ConnectKeeps ==
  ASSUME PortsAssumption, PortsInv, NEW a \in Remotes, NEW r \in RemotePorts, uip_connect(a, r)
  PROVE  PortsInv'
<1>1. lastport' \in (1 .. LastPort - 1) \ PortsInUse BY ConnectIsNew DEF PortsInv, uip_connect
<1>2. UNCHANGED udpPorts BY DEF uip_connect
<1>3. CASE UNCHANGED conns
  BY <1>1, <1>2, <1>3 DEF PortsInv, PortsShape, OneOwner, Conns, UdpConns
<1>4. CASE FillSlot("SYN_SENT", lastport', r, a, 1)
  <2>1. lastport' \in Nat /\ lastport' \in 1 .. LastPort - 1 BY <1>1 DEF PortsAssumption
  <2>2. \A i \in Conns : Live(conns[i]) => Triple(conns[i]) # <<lastport', r, a>>
    BY <1>1 DEF PortsInUse, Triple
  <2> DEFINE new == [state |-> "SYN_SENT", lport |-> lastport', rport |-> r, ripaddr |-> a, timer |-> 1]
  <2>3. new \in PortsSlot /\ Triple(new) = <<lastport', r, a>> BY <2>1 DEF PortsSlot, PortsStates, Triple
  <2>4. conns' = [conns EXCEPT ![Spare] = new] BY <1>4 DEF FillSlot
  <2> QED BY <1>2, <2>1, <2>2, <2>3, <2>4, FillKeeps
<1> QED BY <1>3, <1>4 DEF uip_connect

LEMMA SynKeeps ==
  ASSUME PortsAssumption, PortsInv, NEW a \in Remotes, NEW r \in RemotePorts, NEW l \in WellKnown,
         Syn(a, r, l)
  PROVE  PortsInv'
<1>1. l \in Nat BY DEF PortsAssumption
<1>2. \A i \in Conns : Live(conns[i]) => Triple(conns[i]) # <<l, r, a>> BY DEF Syn, Triple
<1>3. lastport' \in 1 .. LastPort - 1 BY DEF Syn, PortsInv, PortsShape
<1> DEFINE new == [state |-> "SYN_RCVD", lport |-> l, rport |-> r, ripaddr |-> a, timer |-> 0]
<1>4. new \in PortsSlot /\ Triple(new) = <<l, r, a>> BY <1>1 DEF PortsSlot, PortsStates, Triple
<1>5. conns' = [conns EXCEPT ![Spare] = new] /\ UNCHANGED udpPorts BY DEF Syn, FillSlot
<1> QED BY <1>2, <1>3, <1>4, <1>5, FillKeeps

LEMMA UdpNewKeeps == ASSUME PortsAssumption, PortsInv, uip_udp_new PROVE PortsInv'
<1> DEFINE unbound == {i \in UdpConns : udpPorts[i] = 0}
           used == {udpPorts[i] : i \in UdpConns} \ {0}
           slot == Min(unbound)
<1>1. lastport' \in (1 .. LastPort - 1) \ used BY UdpIsNew DEF PortsInv, uip_udp_new
<1>2. /\ udpPorts' = IF unbound = {} THEN udpPorts ELSE [udpPorts EXCEPT ![slot] = lastport']
      /\ UNCHANGED conns
  BY DEF uip_udp_new
<1>3. udpPorts \in [UdpConns -> Nat] BY DEF PortsInv, PortsShape
<1>4. lastport' \in Nat /\ lastport' # 0 /\ lastport' \in 1 .. LastPort - 1 BY <1>1 DEF PortsAssumption
<1> HIDE DEF slot
<1>5. \A i \in UdpConns : udpPorts'[i] = udpPorts[i] \/ (i = slot /\ udpPorts'[i] = lastport')
  BY <1>2, <1>3
<1>6. udpPorts' \in [UdpConns -> Nat] BY <1>2, <1>3, <1>4
<1>7. \A i \in UdpConns : udpPorts[i] # lastport' BY <1>1, <1>3, <1>4
<1>8. ASSUME NEW i \in UdpConns, NEW j \in UdpConns, i # j, udpPorts'[i] # 0
      PROVE udpPorts'[i] # udpPorts'[j]
  BY <1>5, <1>7, <1>8 DEF PortsInv, OneOwner
<1> QED BY <1>2, <1>4, <1>6, <1>8 DEF PortsInv, PortsShape, OneOwner, Conns, UdpConns

LEMMA UdpRemoveKeeps == ASSUME PortsInv, NEW i \in UdpConns, uip_udp_remove(i) PROVE PortsInv'
<1>1. udpPorts' = [udpPorts EXCEPT ![i] = 0] /\ UNCHANGED <<conns, lastport>> BY DEF uip_udp_remove
<1>2. udpPorts \in [UdpConns -> Nat] BY DEF PortsInv, PortsShape
<1>3. \A j \in UdpConns : udpPorts'[j] = IF j = i THEN 0 ELSE udpPorts[j] BY <1>1, <1>2
<1>4. udpPorts' \in [UdpConns -> Nat] BY <1>1, <1>2
<1> QED BY <1>1, <1>3, <1>4 DEF PortsInv, PortsShape, OneOwner, Conns, UdpConns

\* Closing and waiting change no port, and open nothing.
LEMMA CloseKeeps == ASSUME PortsInv, NEW i \in Conns, Close(i) \/ WaitOut(i) PROVE PortsInv'
<1>1. conns \in [Conns -> PortsSlot] BY DEF PortsInv, PortsShape
<1>2. PICK s \in PortsStates, t \in Nat : conns' = [conns EXCEPT ![i] = [@ EXCEPT !.state = s, !.timer = t]]
  <2>1. CASE Close(i)
    <3>1. PICK s \in {"CLOSED", "TIME_WAIT"} : conns' = [conns EXCEPT ![i].state = s, ![i].timer = 0]
      BY <2>1 DEF Close
    <3>2. s \in PortsStates /\ 0 \in Nat BY <3>1 DEF PortsStates
    <3>3. conns' = [conns EXCEPT ![i] = [@ EXCEPT !.state = s, !.timer = 0]] BY <1>1, <3>1
    <3> QED BY <3>2, <3>3
  <2>2. CASE WaitOut(i)
    <3> DEFINE t == conns[i].timer + 1
               s == IF t = TimeWait THEN "CLOSED" ELSE conns[i].state
    <3>1. t \in Nat /\ s \in PortsStates BY <1>1 DEF PortsSlot, PortsStates
    <3>2. conns' = [conns EXCEPT ![i] = [@ EXCEPT !.state = s, !.timer = t]]
      BY <1>1, <2>2 DEF WaitOut, PortsSlot, PortsStates
    <3> QED BY <3>1, <3>2
  <2> QED BY <2>1, <2>2
<1>3. Live(conns[i]) BY DEF Close, WaitOut, Live
<1>4. UNCHANGED <<udpPorts, lastport>> BY DEF Close, WaitOut
<1>5. conns' \in [Conns -> PortsSlot] BY <1>1, <1>2 DEF PortsSlot, PortsStates
<1>6. \A j \in Conns : Triple(conns'[j]) = Triple(conns[j]) /\ (Live(conns'[j]) => Live(conns[j]))
  BY <1>1, <1>2, <1>3 DEF Triple, PortsSlot, PortsStates
<1>7. ASSUME NEW j \in Conns, NEW k \in Conns, j # k, Live(conns'[j]), Live(conns'[k])
      PROVE Triple(conns'[j]) # Triple(conns'[k])
  BY <1>6, <1>7 DEF PortsInv, OneOwner, Triple
<1> QED BY <1>4, <1>5, <1>7 DEF PortsInv, PortsShape, OneOwner, Triple, Conns, UdpConns

\* No two live connections share their ports and their host, and no two UDP sockets
\* their port: whatever closes, waits, comes in and comes round in between.
THEOREM PortsHaveOneOwner == PortsAssumption => (PortsSpec => []OneOwner)
<1> SUFFICES ASSUME PortsAssumption PROVE PortsSpec => []OneOwner OBVIOUS
<1>1. PortsInit => PortsInv
  <2> SUFFICES ASSUME PortsInit PROVE PortsInv OBVIOUS
  <2>1. conns \in [Conns -> PortsSlot] BY DEF PortsInit, PortsSlot, PortsStates
  <2>2. lastport \in 1 .. LastPort - 1 BY DEF PortsInit, PortsAssumption
  <2>3. udpPorts \in [UdpConns -> Nat] BY DEF PortsInit
  <2>4. (\A i \in Conns : ~Live(conns[i])) /\ (\A i \in UdpConns : udpPorts[i] = 0) BY DEF PortsInit, Live
  <2> QED BY <2>1, <2>2, <2>3, <2>4 DEF PortsInv, PortsShape, OneOwner
<1>2. PortsInv /\ [PortsNext]_portVars => PortsInv'
  <2> SUFFICES ASSUME PortsInv, [PortsNext]_portVars PROVE PortsInv' OBVIOUS
  <2>1. ASSUME NEW a \in Remotes, NEW r \in RemotePorts, uip_connect(a, r) PROVE PortsInv'
    BY <2>1, ConnectKeeps
  <2>2. ASSUME NEW a \in Remotes, NEW r \in RemotePorts, NEW l \in WellKnown, Syn(a, r, l) PROVE PortsInv'
    BY <2>2, SynKeeps
  <2>3. ASSUME NEW l \in WellKnown, uip_listen(l) \/ uip_unlisten(l) PROVE PortsInv'
    BY <2>3 DEF uip_listen, uip_unlisten, PortsInv, PortsShape, OneOwner, Conns, UdpConns
  <2>4. CASE uip_udp_new BY <2>4, UdpNewKeeps
  <2>5. ASSUME NEW i \in UdpConns, uip_udp_remove(i) PROVE PortsInv' BY <2>5, UdpRemoveKeeps
  <2>6. ASSUME NEW i \in Conns, Close(i) \/ WaitOut(i) PROVE PortsInv' BY <2>6, CloseKeeps
  <2>7. CASE UNCHANGED portVars
    BY <2>7 DEF portVars, PortsInv, PortsShape, OneOwner, Conns, UdpConns
  <2> QED BY <2>1, <2>2, <2>3, <2>4, <2>5, <2>6, <2>7 DEF PortsNext
<1>3. PortsInv => OneOwner BY DEF PortsInv
<1> QED BY <1>1, <1>2, <1>3, PTL DEF PortsSpec

---------------------------------------------------------------------------
(* Sums along a list, and its positions.                                   *)

\* The sums of the first numbers of g are a function.
LEMMA SumsExist ==
  ASSUME NEW g, NEW n \in Nat
  PROVE  \E f : f = [j \in 0 .. n |-> IF j = 0 THEN 0 ELSE f[j - 1] + g[j]]
<1> DEFINE S == {m \in Nat : \E f : f = [j \in 0 .. m |-> IF j = 0 THEN 0 ELSE f[j - 1] + g[j]]}
<1>1. 0 \in S
  <2> DEFINE f == [j \in 0 .. 0 |-> 0]
  <2>1. f = [j \in 0 .. 0 |-> IF j = 0 THEN 0 ELSE f[j - 1] + g[j]] OBVIOUS
  <2> QED BY <2>1
<1>2. ASSUME NEW m \in Nat, m \in S PROVE m + 1 \in S
  <2>1. PICK f : f = [j \in 0 .. m |-> IF j = 0 THEN 0 ELSE f[j - 1] + g[j]] BY <1>2
  <2> DEFINE h == [j \in 0 .. m + 1 |-> IF j = m + 1 THEN f[m] + g[m + 1] ELSE f[j]]
             H(j) == IF j = 0 THEN 0 ELSE h[j - 1] + g[j]
  <2>2. ASSUME NEW j \in 0 .. m + 1 PROVE h[j] = H(j)
    <3>1. CASE j = m + 1
      <4>1. h[j] = f[m] + g[m + 1] /\ j - 1 = m /\ m \in 0 .. m + 1 /\ m # m + 1 /\ j # 0 BY <3>1
      <4>2. h[m] = f[m] BY <4>1
      <4> QED BY <3>1, <4>1, <4>2
    <3>2. CASE j = 0
      <4>1. h[j] = f[j] /\ 0 \in 0 .. m BY <3>2
      <4> QED BY <2>1, <3>2, <4>1
    <3>3. CASE j # 0 /\ j # m + 1
      <4>1. j \in 0 .. m /\ j - 1 \in 0 .. m + 1 /\ j - 1 # m + 1 BY <3>3
      <4>2. h[j] = f[j] /\ h[j - 1] = f[j - 1] BY <3>3, <4>1
      <4>3. f[j] = f[j - 1] + g[j] BY <2>1, <3>3, <4>1
      <4> QED BY <3>3, <4>2, <4>3
    <3> QED BY <3>1, <3>2, <3>3
  <2> HIDE DEF H
  <2>3. h = [j \in 0 .. m + 1 |-> H(j)] BY <2>2
  <2>4. h = [j \in 0 .. m + 1 |-> IF j = 0 THEN 0 ELSE h[j - 1] + g[j]] BY <2>3 DEF H
  <2> HIDE DEF h
  <2>5. \E e : e = [j \in 0 .. m + 1 |-> IF j = 0 THEN 0 ELSE e[j - 1] + g[j]] BY <2>4
  <2>6. m + 1 \in Nat OBVIOUS
  <2> QED BY <2>5, <2>6
<1> HIDE DEF S
<1>3. Nat \subseteq S BY <1>1, <1>2, SetInduction
<1> QED BY <1>3 DEF S
\* The positions of a list with an item put in, and of one with an item taken out.
LEMMA InsertedPlaces ==
  ASSUME NEW S, NEW list \in Seq(S), NEW t \in S, NEW pos \in 1 .. Len(list) + 1
  PROVE  /\ InsertAt(list, pos, t) \in Seq(S) /\ Len(InsertAt(list, pos, t)) = Len(list) + 1
         /\ \A i \in 1 .. Len(list) + 1 :
              InsertAt(list, pos, t)[i] = IF i < pos THEN list[i] ELSE IF i = pos THEN t ELSE list[i - 1]
<1> DEFINE front == SubSeq(list, 1, pos - 1)
           back == SubSeq(list, pos, Len(list))
           pre == front \o <<t>>
           new == pre \o back
<1>1. Len(list) \in Nat /\ \A i \in 1 .. Len(list) : list[i] \in S BY LenProperties
<1>2. front \in Seq(S) /\ Len(front) = pos - 1 /\ \A i \in 1 .. pos - 1 : front[i] = list[i]
  BY <1>1, SubSeqProperties
<1>3. /\ back \in Seq(S) /\ Len(back) = Len(list) + 1 - pos
      /\ \A i \in 1 .. Len(list) + 1 - pos : back[i] = list[pos + i - 1]
  BY <1>1, SubSeqProperties
<1>4. new = InsertAt(list, pos, t) BY DEF InsertAt
<1> HIDE DEF front, back
<1>5. /\ pre \in Seq(S) /\ Len(pre) = pos
      /\ \A i \in 1 .. pos : pre[i] = IF i < pos THEN list[i] ELSE t
  BY <1>2
<1> HIDE DEF pre
<1>6. /\ new \in Seq(S) /\ Len(new) = Len(pre) + Len(back)
      /\ \A i \in 1 .. Len(pre) + Len(back) : new[i] = IF i <= Len(pre) THEN pre[i] ELSE back[i - Len(pre)]
  BY <1>3, <1>5, ConcatProperties
<1> HIDE DEF new
<1>7. ASSUME NEW i \in 1 .. Len(list) + 1
      PROVE  new[i] = IF i < pos THEN list[i] ELSE IF i = pos THEN t ELSE list[i - 1]
  <2>1. CASE i <= pos BY <1>1, <1>3, <1>5, <1>6, <2>1
  <2>2. CASE i > pos
    <3>1. i - pos \in 1 .. Len(list) + 1 - pos /\ pos + (i - pos) - 1 = i - 1 BY <1>1, <2>2
    <3>2. new[i] = back[i - pos] BY <1>1, <1>3, <1>5, <1>6, <2>2
    <3>3. back[i - pos] = list[i - 1] BY <1>3, <3>1
    <3> QED BY <2>2, <3>2, <3>3
  <2> QED BY <2>1, <2>2
<1> QED BY <1>1, <1>3, <1>4, <1>5, <1>6, <1>7

LEMMA RemovedPlaces ==
  ASSUME NEW S, NEW list \in Seq(S), NEW pos \in 1 .. Len(list)
  PROVE  /\ RemoveAt(list, pos) \in Seq(S) /\ Len(RemoveAt(list, pos)) = Len(list) - 1
         /\ \A i \in 1 .. Len(list) - 1 :
              RemoveAt(list, pos)[i] = IF i < pos THEN list[i] ELSE list[i + 1]
<1> DEFINE front == SubSeq(list, 1, pos - 1)
           back == SubSeq(list, pos + 1, Len(list))
           new == front \o back
<1>1. Len(list) \in Nat /\ \A i \in 1 .. Len(list) : list[i] \in S BY LenProperties
<1>2. front \in Seq(S) /\ Len(front) = pos - 1 /\ \A i \in 1 .. pos - 1 : front[i] = list[i]
  BY <1>1, SubSeqProperties
<1>3. /\ back \in Seq(S) /\ Len(back) = Len(list) - pos
      /\ \A i \in 1 .. Len(list) - pos : back[i] = list[pos + i]
  BY <1>1, SubSeqProperties
<1>4. new = RemoveAt(list, pos) BY DEF RemoveAt
<1> HIDE DEF front, back
<1>5. /\ new \in Seq(S) /\ Len(new) = Len(front) + Len(back)
      /\ \A i \in 1 .. Len(front) + Len(back) : new[i] = IF i <= Len(front) THEN front[i] ELSE back[i - Len(front)]
  BY <1>2, <1>3, ConcatProperties
<1> HIDE DEF new
<1>6. ASSUME NEW i \in 1 .. Len(list) - 1 PROVE new[i] = IF i < pos THEN list[i] ELSE list[i + 1]
  <2>1. CASE i < pos
    <3>1. i \in 1 .. pos - 1 /\ i <= Len(front) /\ i \in 1 .. Len(front) + Len(back) BY <1>1, <1>2, <1>3, <2>1
    <3> QED BY <1>2, <1>5, <2>1, <3>1
  <2>2. CASE ~(i < pos)
    <3>1. i - (pos - 1) \in 1 .. Len(list) - pos /\ pos + (i - (pos - 1)) = i + 1 BY <1>1, <2>2
    <3>2. new[i] = back[i - (pos - 1)]
      <4>1. Len(front) = pos - 1 /\ ~(i <= pos - 1) /\ i \in 1 .. Len(front) + Len(back)
        BY <1>1, <1>2, <1>3, <2>2
      <4> QED BY <1>5, <4>1
    <3> QED BY <1>3, <2>2, <3>1, <3>2
  <2> QED BY <2>1, <2>2
<1> QED BY <1>1, <1>2, <1>3, <1>4, <1>5, <1>6

\* The size of a set of the first numbers tells which they are.
LEMMA PrefixCount ==
  ASSUME NEW n \in Nat, NEW D \in SUBSET (1 .. n), \A i \in D : \A j \in 1 .. i : j \in D
  PROVE  Cardinality(D) \in 0 .. n /\ \A i \in 1 .. n : i \in D <=> i <= Cardinality(D)
<1> DEFINE T == {i \in 0 .. n : i + 1 \notin D}
           m == Min(T)
<1>1. n \in T
  <2>1. n + 1 \notin 1 .. n OBVIOUS
  <2> QED BY <2>1
<1>2. T \in SUBSET Nat OBVIOUS
<1>3. m \in T /\ \A y \in T : m <= y
  <2> HIDE DEF T
  <2> QED BY <1>1, <1>2, LeastNumber
<1> HIDE DEF m
<1>4. m \in 0 .. n /\ m + 1 \notin D BY <1>3
<1>5. ASSUME NEW i \in 1 .. n PROVE i \in D <=> i <= m
  <2>1. ASSUME i <= m PROVE i \in D
    <3>1. i - 1 \in 0 .. n /\ ~(m <= i - 1) /\ (i - 1) + 1 = i BY <1>4, <2>1
    <3> QED BY <1>3, <3>1
  <2>2. ASSUME i \in D, ~(i <= m) PROVE FALSE
    <3>1. m + 1 \in 1 .. i BY <1>4, <2>2
    <3> QED BY <1>4, <2>2, <3>1
  <2> QED BY <2>1, <2>2
<1>6. D = 1 .. m
  <2>1. \A i \in D : i \in 1 .. n OBVIOUS
  <2>2. \A i \in 1 .. m : i \in 1 .. n BY <1>4
  <2>3. \A i \in D : i \in 1 .. m BY <1>4, <1>5, <2>1
  <2>4. \A i \in 1 .. m : i <= m BY <1>4
  <2>5. \A i \in 1 .. m : i \in D BY <1>5, <2>2, <2>4
  <2> QED BY <2>3, <2>5
<1>7. Cardinality(D) = m BY <1>4, <1>6, FS_Interval
<1> QED BY <1>4, <1>5, <1>7

---------------------------------------------------------------------------
(* The software timers.                                                    *)

TmrType ==
  [tmrType : {"ONE_SHOT", "PERIODIC"}, tmrState : {"STOPPED", "RUNNING"}, tmrCnt : Nat, tmrReload : Nat]

\* The sums of RunsOut, one by one.
LEMMA RunsOutSums ==
  ASSUME NEW tbl, NEW list, Len(list) \in Nat
  PROVE  /\ RunsOut(tbl, list, 0) = 0
         /\ \A i \in 1 .. Len(list) : RunsOut(tbl, list, i) = RunsOut(tbl, list, i - 1) + tbl[list[i]].tmrCnt
<1> DEFINE n == Len(list)
           g == [j \in 1 .. n |-> tbl[list[j]].tmrCnt]
           Is(f) == f = [j \in 0 .. n |-> IF j = 0 THEN 0 ELSE f[j - 1] + tbl[list[j]].tmrCnt]
           sums == CHOOSE f : Is(f)
<1>1. PICK f : f = [j \in 0 .. n |-> IF j = 0 THEN 0 ELSE f[j - 1] + g[j]] BY SumsExist
<1>2. \A j \in 0 .. n : j # 0 => g[j] = tbl[list[j]].tmrCnt OBVIOUS
<1> HIDE DEF g
<1>3. Is(f) BY <1>1, <1>2
<1>4. \E h : Is(h) BY <1>3
<1>5. Is(sums)
  <2> HIDE DEF Is
  <2> QED BY <1>4
<1>6. \A i : RunsOut(tbl, list, i) = sums[i] BY DEF RunsOut
<1> HIDE DEF sums
<1>7. sums[0] = 0 BY <1>5
<1>8. ASSUME NEW i \in 1 .. n PROVE sums[i] = sums[i - 1] + tbl[list[i]].tmrCnt
  <2>1. i \in 0 .. n /\ i # 0 OBVIOUS
  <2> QED BY <1>5, <2>1
<1> QED BY <1>6, <1>7, <1>8

\* The counts of a list are the differences of when its timers run out.
Steps(tbl, list, at) ==
  \A i \in DOMAIN list :
    tbl[list[i]].tmrCnt = at[list[i]] - (IF i = 1 THEN 0 ELSE at[list[i - 1]])

LEMMA RunsOutAt ==
  ASSUME NEW tbl, NEW list \in Seq(Timers), NEW at \in [Timers -> Int], Steps(tbl, list, at)
  PROVE  /\ RunsOut(tbl, list, 0) = 0
         /\ \A i \in DOMAIN list : RunsOut(tbl, list, i) = at[list[i]]
<1> DEFINE S == {i \in Nat : i \in DOMAIN list => RunsOut(tbl, list, i) = at[list[i]]}
<1>1. Len(list) \in Nat /\ DOMAIN list = 1 .. Len(list) /\ \A i \in DOMAIN list : list[i] \in Timers
  OBVIOUS
<1>2. /\ RunsOut(tbl, list, 0) = 0
      /\ \A i \in DOMAIN list : RunsOut(tbl, list, i) = RunsOut(tbl, list, i - 1) + tbl[list[i]].tmrCnt
  BY <1>1, RunsOutSums
<1>3. 0 \in S BY <1>1
<1>4. ASSUME NEW i \in Nat, i \in S PROVE i + 1 \in S
  <2> SUFFICES ASSUME i + 1 \in DOMAIN list PROVE RunsOut(tbl, list, i + 1) = at[list[i + 1]] OBVIOUS
  <2>1. RunsOut(tbl, list, i + 1) = RunsOut(tbl, list, i) + tbl[list[i + 1]].tmrCnt
    <3>1. (i + 1) - 1 = i OBVIOUS
    <3> QED BY <1>2, <3>1
  <2>2. tbl[list[i + 1]].tmrCnt = at[list[i + 1]] - (IF i = 0 THEN 0 ELSE at[list[i]])
    <3>1. (i + 1) - 1 = i /\ (i + 1 = 1 <=> i = 0) OBVIOUS
    <3> QED BY <3>1 DEF Steps
  <2>3. at[list[i + 1]] \in Int BY <1>1
  <2>4. CASE i = 0 BY <1>2, <2>1, <2>2, <2>3, <2>4
  <2>5. CASE i # 0
    <3>1. i \in DOMAIN list BY <1>1, <2>5
    <3>2. RunsOut(tbl, list, i) = at[list[i]] /\ at[list[i]] \in Int BY <1>1, <1>4, <3>1
    <3> QED BY <2>1, <2>2, <2>3, <2>5, <3>2
  <2> QED BY <2>4, <2>5
<1> HIDE DEF S
<1>5. Nat \subseteq S BY <1>3, <1>4, SetInduction
<1> QED BY <1>1, <1>2, <1>5 DEF S

\* Later on a list is not sooner.
LEMMA StepsAscend ==
  ASSUME NEW tbl, NEW list \in Seq(Timers), NEW at \in [Timers -> Int], Steps(tbl, list, at),
         \A i \in DOMAIN list : tbl[list[i]].tmrCnt \in Nat
  PROVE  \A j \in DOMAIN list : at[list[j]] >= 0 /\ \A i \in 1 .. j : at[list[i]] <= at[list[j]]
<1> DEFINE Ascends(j) == j \in DOMAIN list => at[list[j]] >= 0 /\ \A i \in 1 .. j : at[list[i]] <= at[list[j]]
           S == {j \in Nat : Ascends(j)}
<1>1. Len(list) \in Nat /\ DOMAIN list = 1 .. Len(list) /\ \A i \in DOMAIN list : at[list[i]] \in Int
  OBVIOUS
<1>2. 0 \in S BY <1>1
<1>3. ASSUME NEW j \in Nat, j \in S PROVE j + 1 \in S
  <2> SUFFICES ASSUME j + 1 \in DOMAIN list PROVE Ascends(j + 1) OBVIOUS
  <2>1. tbl[list[j + 1]].tmrCnt = at[list[j + 1]] - (IF j = 0 THEN 0 ELSE at[list[j]])
    <3>1. (j + 1) - 1 = j /\ (j + 1 = 1 <=> j = 0) OBVIOUS
    <3> QED BY <3>1 DEF Steps
  <2>2. tbl[list[j + 1]].tmrCnt \in Nat /\ at[list[j + 1]] \in Int BY <1>1
  <2>3. CASE j = 0
    <3>1. at[list[1]] >= 0 BY <2>1, <2>2, <2>3
    <3>2. \A i \in 1 .. 1 : i = 1 OBVIOUS
    <3> QED BY <2>2, <2>3, <3>1, <3>2
  <2>4. CASE j # 0
    <3>1. j \in DOMAIN list BY <1>1, <2>4
    <3>2. at[list[j]] \in Int /\ at[list[j]] >= 0 /\ \A i \in 1 .. j : at[list[i]] <= at[list[j]]
      BY <1>1, <1>3, <3>1
    <3>3. at[list[j]] <= at[list[j + 1]] BY <2>1, <2>2, <2>4, <3>2
    <3>4. ASSUME NEW i \in 1 .. j + 1 PROVE at[list[i]] <= at[list[j + 1]]
      <4>1. CASE i = j + 1 BY <2>2, <4>1
      <4>2. CASE i # j + 1
        <5>1. i \in 1 .. j /\ i \in DOMAIN list BY <1>1, <3>1, <4>2
        <5>2. at[list[i]] <= at[list[j]] /\ at[list[i]] \in Int BY <1>1, <3>2, <5>1
        <5> QED BY <2>2, <3>2, <3>3, <5>2
      <4> QED BY <4>1, <4>2
    <3>5. at[list[j + 1]] >= 0 BY <2>2, <3>2, <3>3
    <3> QED BY <3>4, <3>5
  <2> QED BY <2>3, <2>4
<1> HIDE DEF S
<1>4. Nat \subseteq S BY <1>2, <1>3, SetInduction
<1> QED BY <1>1, <1>4 DEF S

\* The list changes the counts of timers, and nothing else of them.
OnlyCounts(new, tbl) ==
  /\ new \in [Timers -> TmrType]
  /\ \A u \in Timers : /\ new[u].tmrType = tbl[u].tmrType /\ new[u].tmrState = tbl[u].tmrState
                       /\ new[u].tmrReload = tbl[u].tmrReload

\* A list whose counts are right: m is what InsertTmrList and RemoveTmrList make
\* of a list, and who the timers that are on it.
ListRight(m, tbl, at, who) ==
  /\ OnlyCounts(m.tbl, tbl) /\ m.list \in Seq(Timers) /\ IsInjective(m.list) /\ Steps(m.tbl, m.list, at)
  /\ Range(m.list) = who

\* Where a timer is put: behind those that run out no later.
LEMMA InsertPlace ==
  ASSUME NEW tbl \in [Timers -> TmrType], NEW list \in Seq(Timers), NEW at \in [Timers -> Int],
         Steps(tbl, list, at), NEW cnt \in Nat, NEW k,
         k = Cardinality({i \in DOMAIN list : RunsOut(tbl, list, i) <= cnt})
  PROVE  k \in 0 .. Len(list) /\ \A i \in DOMAIN list : at[list[i]] <= cnt <=> i <= k
<1> DEFINE D == {i \in DOMAIN list : RunsOut(tbl, list, i) <= cnt}
<1>1. /\ Len(list) \in Nat /\ DOMAIN list = 1 .. Len(list)
      /\ \A i \in DOMAIN list : list[i] \in Timers /\ at[list[i]] \in Int
  OBVIOUS
<1>2. \A i \in DOMAIN list : tbl[list[i]].tmrCnt \in Nat BY <1>1 DEF TmrType
<1>3. \A i \in DOMAIN list : i \in D <=> at[list[i]] <= cnt BY RunsOutAt
<1>4. D \in SUBSET (1 .. Len(list)) BY <1>1
<1> HIDE DEF D
<1>5. ASSUME NEW i \in D, NEW j \in 1 .. i PROVE j \in D
  <2>1. i \in DOMAIN list /\ j \in DOMAIN list BY <1>1, <1>4
  <2>2. at[list[j]] <= at[list[i]] /\ at[list[i]] <= cnt BY <1>2, <1>3, <2>1, StepsAscend
  <2>3. at[list[j]] \in Int /\ at[list[i]] \in Int BY <1>1, <2>1
  <2>4. at[list[j]] <= cnt BY <2>2, <2>3
  <2> QED BY <1>3, <2>1, <2>4
<1>6. k = Cardinality(D) BY DEF D
<1>7. k \in 0 .. Len(list) /\ \A i \in 1 .. Len(list) : i \in D <=> i <= k
  <2>1. \A i \in D : \A j \in 1 .. i : j \in D BY <1>5
  <2> DEFINE n == Len(list)
  <2>2. n \in Nat /\ D \in SUBSET (1 .. n) BY <1>1, <1>4
  <2> HIDE DEF n
  <2>3. Cardinality(D) \in 0 .. n /\ \A i \in 1 .. n : i \in D <=> i <= Cardinality(D)
    BY <2>1, <2>2, PrefixCount
  <2> QED BY <1>6, <2>3 DEF n
<1> QED BY <1>1, <1>3, <1>7

\* InsertTmrList keeps the counts right.
LEMMA InsertKeeps ==
  ASSUME NEW tbl \in [Timers -> TmrType], NEW list \in Seq(Timers), IsInjective(list),
         NEW at \in [Timers -> Int], Steps(tbl, list, at),
         NEW t \in Timers, t \notin Range(list), tbl[t].tmrCnt # 0,
         NEW m, m = InsertTmrList(tbl, list, t)
  PROVE  ListRight(m, tbl, [at EXCEPT ![t] = tbl[t].tmrCnt], Range(list) \union {t})
<1> DEFINE cnt == tbl[t].tmrCnt
           k == Cardinality({i \in DOMAIN list : RunsOut(tbl, list, i) <= cnt})
           before == RunsOut(tbl, list, k)
           rest == cnt - before
           shifted == IF k < Len(list) THEN [tbl EXCEPT ![list[k + 1]].tmrCnt = @ - rest] ELSE tbl
           newtbl == [shifted EXCEPT ![t].tmrCnt = rest]
           new == InsertAt(list, k + 1, t)
           at2 == [at EXCEPT ![t] = cnt]
<1>1. m = [tbl |-> newtbl, list |-> new] BY DEF InsertTmrList
<1>2. /\ Len(list) \in Nat /\ DOMAIN list = 1 .. Len(list)
      /\ \A i \in DOMAIN list : list[i] \in Timers /\ list[i] # t /\ at[list[i]] \in Int
  BY DEF Range
<1>3. cnt \in Nat /\ cnt # 0 BY DEF TmrType
<1>4. k \in 0 .. Len(list) /\ \A i \in DOMAIN list : at[list[i]] <= cnt <=> i <= k
  <2>1. k = Cardinality({i \in DOMAIN list : RunsOut(tbl, list, i) <= cnt}) OBVIOUS
  <2> HIDE DEF k, cnt
  <2> QED BY <1>3, <2>1, InsertPlace
<1> HIDE DEF k, cnt
<1>5. before = IF k = 0 THEN 0 ELSE at[list[k]]
  <2>1. k # 0 => k \in DOMAIN list BY <1>2, <1>4
  <2>2. RunsOut(tbl, list, 0) = 0 /\ \A i \in DOMAIN list : RunsOut(tbl, list, i) = at[list[i]] BY RunsOutAt
  <2> QED BY <2>1, <2>2
<1>6. before \in Int /\ rest \in Nat /\ before >= 0
  <2>1. CASE k = 0 BY <1>3, <1>5, <2>1
  <2>2. CASE k # 0
    <3>1. k \in DOMAIN list BY <1>2, <1>4, <2>2
    <3>2. at[list[k]] <= cnt /\ at[list[k]] \in Int BY <1>2, <1>4, <3>1
    <3>3. \A i \in DOMAIN list : tbl[list[i]].tmrCnt \in Nat BY <1>2 DEF TmrType
    <3>4. at[list[k]] >= 0 BY <3>1, <3>3, StepsAscend
    <3> QED BY <1>3, <1>5, <2>2, <3>2, <3>4
  <2> QED BY <2>1, <2>2
<1> HIDE DEF before
<1>7. /\ new \in Seq(Timers) /\ Len(new) = Len(list) + 1 /\ DOMAIN new = 1 .. Len(list) + 1
      /\ \A i \in 1 .. Len(list) + 1 :
           new[i] = IF i < k + 1 THEN list[i] ELSE IF i = k + 1 THEN t ELSE list[i - 1]
  <2>1. k + 1 \in 1 .. Len(list) + 1 BY <1>2, <1>4
  <2>2. /\ new \in Seq(Timers) /\ Len(new) = Len(list) + 1
        /\ \A i \in 1 .. Len(list) + 1 :
             new[i] = IF i < k + 1 THEN list[i] ELSE IF i = k + 1 THEN t ELSE list[i - 1]
    <3> DEFINE place == k + 1
    <3>1. place \in 1 .. Len(list) + 1 BY <2>1
    <3>2. new = InsertAt(list, place, t) OBVIOUS
    <3> HIDE DEF place, new
    <3>3. /\ InsertAt(list, place, t) \in Seq(Timers) /\ Len(InsertAt(list, place, t)) = Len(list) + 1
          /\ \A i \in 1 .. Len(list) + 1 :
               InsertAt(list, place, t)[i] =
                 IF i < place THEN list[i] ELSE IF i = place THEN t ELSE list[i - 1]
      BY <3>1, InsertedPlaces
    <3> QED BY <3>2, <3>3 DEF place
  <2> QED BY <2>2, LenProperties
<1> HIDE DEF new, rest
\* the counts
<1>8. ASSUME k < Len(list)
      PROVE  /\ k + 1 \in DOMAIN list /\ list[k + 1] \in Timers
             /\ tbl[list[k + 1]].tmrCnt = at[list[k + 1]] - before
             /\ tbl[list[k + 1]].tmrCnt - rest = at[list[k + 1]] - cnt
             /\ tbl[list[k + 1]].tmrCnt - rest \in Nat
  <2>1. k + 1 \in DOMAIN list /\ list[k + 1] \in Timers BY <1>2, <1>4, <1>8
  <2>2. tbl[list[k + 1]].tmrCnt = at[list[k + 1]] - (IF k = 0 THEN 0 ELSE at[list[k]])
    <3>1. (k + 1) - 1 = k /\ (k + 1 = 1 <=> k = 0) BY <1>4
    <3> QED BY <2>1, <3>1 DEF Steps
  <2>3. at[list[k + 1]] \in Int /\ ~(at[list[k + 1]] <= cnt)
    <3>1. ~(k + 1 <= k) BY <1>4
    <3>2. at[list[k + 1]] <= cnt <=> k + 1 <= k BY <1>4, <2>1
    <3> QED BY <1>2, <2>1, <3>1, <3>2
  <2>4. tbl[list[k + 1]].tmrCnt = at[list[k + 1]] - before BY <1>5, <2>2
  <2> QED BY <1>3, <1>6, <2>1, <2>3, <2>4 DEF rest
<1>9. shifted \in [Timers -> TmrType] /\ OnlyCounts(shifted, tbl)
      /\ \A u \in Timers : shifted[u].tmrCnt =
           IF k < Len(list) /\ u = list[k + 1] THEN tbl[u].tmrCnt - rest ELSE tbl[u].tmrCnt
  <2>1. CASE k < Len(list)
    <3> DEFINE n == list[k + 1]
               rec == [tbl[n] EXCEPT !.tmrCnt = @ - rest]
    <3>1. n \in Timers /\ tbl[n].tmrCnt - rest \in Nat BY <1>8, <2>1
    <3>2. shifted = [tbl EXCEPT ![n] = rec] BY <2>1
    <3> HIDE DEF n, shifted
    <3>3. tbl[n] \in TmrType BY <3>1
    <3>4. /\ rec \in TmrType /\ rec.tmrCnt = tbl[n].tmrCnt - rest /\ rec.tmrType = tbl[n].tmrType
          /\ rec.tmrState = tbl[n].tmrState /\ rec.tmrReload = tbl[n].tmrReload
      BY <3>1, <3>3 DEF TmrType
    <3> HIDE DEF rec
    <3>5. shifted \in [Timers -> TmrType] BY <3>2, <3>4
    <3>6. shifted[n] = rec /\ \A u \in Timers : u # n => shifted[u] = tbl[u] BY <3>1, <3>2
    <3> QED BY <2>1, <3>4, <3>5, <3>6 DEF OnlyCounts, n
  <2>2. CASE ~(k < Len(list)) BY <2>2 DEF OnlyCounts
  <2> QED BY <2>1, <2>2
<1> HIDE DEF shifted
<1>10. /\ OnlyCounts(newtbl, tbl)
       /\ \A u \in Timers : newtbl[u].tmrCnt = IF u = t THEN rest ELSE shifted[u].tmrCnt
  <2>1. newtbl \in [Timers -> TmrType]
    <3>1. shifted[t] \in TmrType BY <1>9
    <3>2. [shifted[t] EXCEPT !.tmrCnt = rest] \in TmrType BY <1>6, <3>1 DEF TmrType
    <3>3. newtbl = [shifted EXCEPT ![t] = [shifted[t] EXCEPT !.tmrCnt = rest]] BY <1>9
    <3> HIDE DEF newtbl
    <3> QED BY <1>9, <3>2, <3>3
  <2>2. \A u \in Timers : u # t => newtbl[u] = shifted[u] BY <1>9
  <2>3. newtbl[t] = [shifted[t] EXCEPT !.tmrCnt = rest] /\ shifted[t] \in TmrType BY <1>9
  <2>4. /\ newtbl[t].tmrCnt = rest /\ newtbl[t].tmrType = shifted[t].tmrType
        /\ newtbl[t].tmrState = shifted[t].tmrState /\ newtbl[t].tmrReload = shifted[t].tmrReload
    BY <2>3 DEF TmrType
  <2> HIDE DEF newtbl
  <2> QED BY <1>9, <2>1, <2>2, <2>4 DEF OnlyCounts
<1> HIDE DEF newtbl
\* the order
<1>11. \A i \in 1 .. Len(list) + 1 :
         /\ i < k + 1 => i \in DOMAIN list /\ new[i] = list[i]
         /\ i = k + 1 => new[i] = t
         /\ i > k + 1 => i - 1 \in DOMAIN list /\ new[i] = list[i - 1]
  BY <1>2, <1>4, <1>7
<1>12. IsInjective(new)
  <2>1. ASSUME NEW i \in 1 .. Len(list) + 1, NEW j \in 1 .. Len(list) + 1, new[i] = new[j] PROVE i = j
    <3> DEFINE Was(j0) == IF j0 < k + 1 THEN j0 ELSE j0 - 1
    <3>1. \A n \in 1 .. Len(list) + 1 : n # k + 1 => Was(n) \in DOMAIN list /\ new[n] = list[Was(n)]
      BY <1>4, <1>11
    <3>2. i # k + 1 /\ j # k + 1 /\ Was(i) = Was(j) => i = j BY <1>4
    <3> HIDE DEF Was
    <3>3. CASE i = k + 1 \/ j = k + 1 BY <1>2, <1>11, <2>1, <3>1, <3>3
    <3>4. CASE i # k + 1 /\ j # k + 1
      <4>1. Was(i) = Was(j) BY <2>1, <3>1, <3>4 DEF IsInjective
      <4> QED BY <3>2, <3>4, <4>1
    <3> QED BY <3>3, <3>4
  <2> QED BY <1>7, <2>1 DEF IsInjective
<1>13. Range(new) = Range(list) \union {t}
  <2>1. ASSUME NEW i \in DOMAIN list PROVE \E j \in DOMAIN new : new[j] = list[i]
    <3>1. CASE i < k + 1
      <4>1. i \in 1 .. Len(list) + 1 BY <1>2
      <4> QED BY <1>7, <1>11, <3>1, <4>1
    <3>2. CASE ~(i < k + 1)
      <4>1. i + 1 \in 1 .. Len(list) + 1 /\ i + 1 > k + 1 /\ (i + 1) - 1 = i BY <1>2, <1>4, <3>2
      <4> QED BY <1>7, <1>11, <4>1
    <3> QED BY <3>1, <3>2
  <2>2. k + 1 \in DOMAIN new /\ new[k + 1] = t BY <1>2, <1>4, <1>7, <1>11
  <2>3. ASSUME NEW j \in DOMAIN new PROVE new[j] \in Range(list) \union {t}
    <3>1. CASE j < k + 1 BY <1>7, <1>11, <3>1 DEF Range
    <3>2. CASE j = k + 1 BY <1>7, <1>11, <3>2
    <3>3. CASE j > k + 1 BY <1>7, <1>11, <3>3 DEF Range
    <3> QED BY <1>2, <1>4, <1>7, <3>1, <3>2, <3>3
  <2> QED BY <2>1, <2>2, <2>3 DEF Range
<1>14. Steps(newtbl, new, at2)
  <2>1. \A u \in Timers : at2[u] = IF u = t THEN cnt ELSE at[u] OBVIOUS
  <2> HIDE DEF at2
  <2> SUFFICES ASSUME NEW i \in DOMAIN new
               PROVE newtbl[new[i]].tmrCnt = at2[new[i]] - (IF i = 1 THEN 0 ELSE at2[new[i - 1]])
    BY DEF Steps
  <2>2. i \in 1 .. Len(list) + 1 BY <1>7
  <2>3. CASE i < k + 1
    <3>1. i \in DOMAIN list /\ new[i] = list[i] /\ list[i] \in Timers /\ list[i] # t BY <1>2, <1>11, <2>2, <2>3
    <3>2. k < Len(list) => list[i] # list[k + 1] BY <1>4, <1>8, <2>3, <3>1 DEF IsInjective
    <3>3. newtbl[new[i]].tmrCnt = tbl[list[i]].tmrCnt BY <1>9, <1>10, <3>1, <3>2
    <3>4. i # 1 => new[i - 1] = list[i - 1] /\ list[i - 1] \in Timers /\ list[i - 1] # t
      <4> SUFFICES ASSUME i # 1 PROVE new[i - 1] = list[i - 1] /\ list[i - 1] \in Timers /\ list[i - 1] # t
        OBVIOUS
      <4>1. i - 1 \in 1 .. Len(list) + 1 /\ i - 1 < k + 1 BY <1>2, <1>4, <2>2, <2>3
      <4> QED BY <1>2, <1>11, <4>1
    <3> QED BY <2>1, <3>1, <3>3, <3>4 DEF Steps
  <2>4. CASE i = k + 1
    <3>1. newtbl[new[i]].tmrCnt = rest /\ at2[new[i]] = cnt BY <1>10, <1>11, <2>1, <2>2, <2>4
    <3>2. i = 1 <=> k = 0 BY <1>4, <2>4
    <3>3. i # 1 => at2[new[i - 1]] = at[list[k]]
      <4> SUFFICES ASSUME i # 1 PROVE at2[new[i - 1]] = at[list[k]] OBVIOUS
      <4>1. i - 1 \in 1 .. Len(list) + 1 /\ i - 1 < k + 1 /\ i - 1 = k BY <1>2, <1>4, <2>2, <2>4
      <4>2. k \in DOMAIN list /\ new[i - 1] = list[k] BY <1>11, <4>1
      <4> QED BY <1>2, <2>1, <4>2
    <3> QED BY <1>5, <3>1, <3>2, <3>3 DEF rest
  <2>5. CASE i > k + 1
    <3>1. i - 1 \in DOMAIN list /\ new[i] = list[i - 1] /\ list[i - 1] \in Timers /\ list[i - 1] # t /\ i # 1
      BY <1>2, <1>4, <1>11, <2>2, <2>5
    <3>2. i - 1 \in 1 .. Len(list) + 1 /\ (i - 1 = k + 1 \/ i - 1 > k + 1) BY <1>2, <1>4, <2>2, <2>5
    <3>3. CASE i - 1 = k + 1
      <4>1. new[i - 1] = t /\ k < Len(list) /\ list[i - 1] = list[k + 1]
          BY <1>2, <1>4, <1>11, <2>2, <3>2, <3>3
      <4>2. newtbl[new[i]].tmrCnt = at[list[k + 1]] - cnt BY <1>8, <1>9, <1>10, <3>1, <4>1
      <4>3. at2[new[i]] = at[list[k + 1]] /\ at2[new[i - 1]] = cnt BY <2>1, <3>1, <4>1
      <4> QED BY <3>1, <4>2, <4>3
    <3>4. CASE i - 1 > k + 1
      <4>1. new[i - 1] = list[(i - 1) - 1] /\ (i - 1) - 1 \in DOMAIN list /\ i - 1 # 1
        BY <1>4, <1>11, <3>2, <3>4
      <4>2. list[i - 1] # list[k + 1] \/ ~(k < Len(list))
        <5>1. k < Len(list) => k + 1 \in DOMAIN list /\ i - 1 # k + 1 BY <1>8, <3>4
        <5> QED BY <3>1, <5>1 DEF IsInjective
      <4>3. newtbl[new[i]].tmrCnt = tbl[list[i - 1]].tmrCnt BY <1>9, <1>10, <3>1, <4>2
      <4>4. tbl[list[i - 1]].tmrCnt = at[list[i - 1]] - at[list[(i - 1) - 1]] BY <3>1, <4>1 DEF Steps
      <4>5. at2[new[i]] = at[list[i - 1]] /\ at2[new[i - 1]] = at[list[(i - 1) - 1]] BY <1>2, <2>1, <3>1, <4>1
      <4> QED BY <3>1, <4>3, <4>4, <4>5
    <3> QED BY <3>2, <3>3, <3>4
  <2> QED BY <1>2, <1>4, <2>2, <2>3, <2>4, <2>5
<1>15. m.tbl = newtbl /\ m.list = new BY <1>1
<1> QED BY <1>7, <1>10, <1>12, <1>13, <1>14, <1>15 DEF ListRight, cnt

\* RemoveTmrList keeps them right: what the timer had left goes to the next.
LEMMA RemoveKeeps ==
  ASSUME NEW tbl \in [Timers -> TmrType], NEW list \in Seq(Timers), IsInjective(list),
         NEW at \in [Timers -> Int], Steps(tbl, list, at), NEW t \in Range(list),
         NEW m, m = RemoveTmrList(tbl, list, t),
         NEW at2 \in [Timers -> Int], \A u \in Timers : u # t => at2[u] = at[u]
  PROVE  ListRight(m, tbl, at2, Range(list) \ {t})
<1> DEFINE k == CHOOSE j \in DOMAIN list : list[j] = t
           newtbl == IF k < Len(list) THEN [tbl EXCEPT ![list[k + 1]].tmrCnt = @ + tbl[t].tmrCnt] ELSE tbl
           new == RemoveAt(list, k)
<1>1. m = [tbl |-> newtbl, list |-> new] BY DEF RemoveTmrList
<1>2. /\ Len(list) \in Nat /\ DOMAIN list = 1 .. Len(list)
      /\ \A i \in DOMAIN list : list[i] \in Timers /\ at[list[i]] \in Int
  OBVIOUS
<1>3. k \in DOMAIN list /\ list[k] = t BY DEF Range
<1> HIDE DEF k
<1>4. k \in 1 .. Len(list) BY <1>2, <1>3
<1>15. Len(list) \in Nat BY <1>2
<1>5. /\ new \in Seq(Timers) /\ Len(new) = Len(list) - 1 /\ DOMAIN new = 1 .. Len(list) - 1
      /\ \A i \in 1 .. Len(list) - 1 : new[i] = IF i < k THEN list[i] ELSE list[i + 1]
  <2>1. /\ new \in Seq(Timers) /\ Len(new) = Len(list) - 1
        /\ \A i \in 1 .. Len(list) - 1 : new[i] = IF i < k THEN list[i] ELSE list[i + 1]
    BY <1>4, RemovedPlaces
  <2> QED BY <2>1, LenProperties
<1> HIDE DEF new
<1>16. \A i \in 1 .. Len(list) - 1 : i \in 1 .. Len(list) /\ i + 1 \in 1 .. Len(list) /\ (i >= k <=> ~(i < k))
  BY <1>4, <1>15
<1>6. \A i \in DOMAIN new :
        /\ i < k => i \in DOMAIN list /\ new[i] = list[i]
        /\ i >= k => i + 1 \in DOMAIN list /\ new[i] = list[i + 1]
  BY <1>2, <1>5, <1>16
<1> DEFINE Was(i) == IF i < k THEN i ELSE i + 1
<1>7. /\ \A i \in DOMAIN new : Was(i) \in DOMAIN list /\ Was(i) # k /\ new[i] = list[Was(i)]
      /\ \A i, j \in DOMAIN new : Was(i) = Was(j) => i = j
      /\ \A i \in DOMAIN list : i # k => \E j \in DOMAIN new : Was(j) = i
  <2>1. ASSUME NEW i \in DOMAIN list, i # k PROVE \E j \in DOMAIN new : Was(j) = i
    <3>1. CASE i < k
      <4>1. i \in DOMAIN new /\ Was(i) = i BY <1>2, <1>4, <1>5, <3>1
      <4> QED BY <4>1
    <3>2. CASE i > k
      <4>1. i \in 1 .. Len(list) BY <1>2
      <4>2. i - 1 \in 1 .. Len(list) - 1 /\ ~(i - 1 < k) /\ (i - 1) + 1 = i BY <1>4, <1>15, <3>2, <4>1
      <4>3. i - 1 \in DOMAIN new /\ Was(i - 1) = i BY <1>5, <4>2
      <4> QED BY <4>3
    <3> QED BY <1>2, <1>4, <2>1, <3>1, <3>2
  <2>2. \A i, j \in 1 .. Len(list) - 1 : Was(i) = Was(j) => i = j BY <1>4, <1>15
  <2>3. \A i \in 1 .. Len(list) - 1 : Was(i) # k BY <1>4, <1>15
  <2>4. \A i \in 1 .. Len(list) - 1 : Was(i) \in DOMAIN list /\ new[i] = list[Was(i)]
    BY <1>2, <1>5, <1>16
  <2> HIDE DEF Was
  <2> QED BY <1>5, <2>1, <2>2, <2>3, <2>4
<1> HIDE DEF Was
<1>8. IsInjective(new) BY <1>7 DEF IsInjective
<1>9. Range(new) = Range(list) \ {t}
  <2>1. ASSUME NEW i \in DOMAIN new PROVE new[i] \in Range(list) \ {t}
    BY <1>3, <1>7 DEF Range, IsInjective
  <2>2. ASSUME NEW i \in DOMAIN list, list[i] # t PROVE \E j \in DOMAIN new : new[j] = list[i]
    BY <1>3, <1>7, <2>2
  <2> QED BY <2>1, <2>2 DEF Range
\* the counts
<1>10. ASSUME k < Len(list) PROVE k + 1 \in DOMAIN list /\ list[k + 1] \in Timers /\ list[k + 1] # t
  <2>1. k + 1 \in DOMAIN list /\ k + 1 # k BY <1>2, <1>4, <1>10
  <2> QED BY <1>2, <1>3, <2>1 DEF IsInjective
<1>11. t \in Timers BY <1>2, <1>3
<1>12. /\ OnlyCounts(newtbl, tbl)
       /\ \A u \in Timers : newtbl[u].tmrCnt =
            IF k < Len(list) /\ u = list[k + 1] THEN tbl[u].tmrCnt + tbl[t].tmrCnt ELSE tbl[u].tmrCnt
  <2>1. CASE k < Len(list)
    <3> DEFINE n == list[k + 1]
    <3>1. n \in Timers BY <1>10, <2>1
    <3>2. newtbl = [tbl EXCEPT ![n].tmrCnt = @ + tbl[t].tmrCnt] BY <2>1
    <3>3. tbl[n] \in TmrType /\ tbl[t].tmrCnt \in Nat /\ tbl[n].tmrCnt \in Nat BY <1>11, <3>1 DEF TmrType
    <3> HIDE DEF n, newtbl
    <3>4. newtbl \in [Timers -> TmrType]
      <4>1. tbl[n].tmrCnt + tbl[t].tmrCnt \in Nat BY <3>3
      <4>2. [tbl[n] EXCEPT !.tmrCnt = @ + tbl[t].tmrCnt] \in TmrType BY <3>3, <4>1 DEF TmrType
      <4> QED BY <3>2, <4>2
    <3>5. \A u \in Timers : u # n => newtbl[u] = tbl[u] BY <3>2
    <3>6. newtbl[n] = [tbl[n] EXCEPT !.tmrCnt = @ + tbl[t].tmrCnt] BY <3>1, <3>2
    <3>7. /\ newtbl[n].tmrCnt = tbl[n].tmrCnt + tbl[t].tmrCnt /\ newtbl[n].tmrType = tbl[n].tmrType
          /\ newtbl[n].tmrState = tbl[n].tmrState /\ newtbl[n].tmrReload = tbl[n].tmrReload
      BY <3>3, <3>6 DEF TmrType
    <3> QED BY <2>1, <3>4, <3>5, <3>7 DEF OnlyCounts, n
  <2>2. CASE ~(k < Len(list)) BY <2>2 DEF OnlyCounts
  <2> QED BY <2>1, <2>2
<1> HIDE DEF newtbl
<1>13. Steps(newtbl, new, at2)
  <2> SUFFICES ASSUME NEW i \in DOMAIN new
               PROVE newtbl[new[i]].tmrCnt = at2[new[i]] - (IF i = 1 THEN 0 ELSE at2[new[i - 1]])
    BY DEF Steps
  <2>1. i \in 1 .. Len(list) - 1 BY <1>5
  <2>2. new[i] \in Timers /\ new[i] # t
    <3>1. new[i] \in Range(list) \ {t} BY <1>9 DEF Range
    <3> QED BY <1>2, <3>1 DEF Range
  <2>3. at2[new[i]] = at[new[i]] BY <2>2
  <2>4. i # 1 => i - 1 \in DOMAIN new /\ at2[new[i - 1]] = at[new[i - 1]]
    <3> SUFFICES ASSUME i # 1 PROVE i - 1 \in DOMAIN new /\ at2[new[i - 1]] = at[new[i - 1]] OBVIOUS
    <3>4. i - 1 \in 1 .. Len(list) - 1 BY <1>15, <2>1
    <3>1. i - 1 \in DOMAIN new BY <1>5, <3>4
    <3>2. new[i - 1] \in Range(list) \ {t} BY <1>9, <3>1 DEF Range
    <3>3. new[i - 1] \in Timers /\ new[i - 1] # t BY <1>2, <3>2 DEF Range
    <3> QED BY <3>1, <3>3
  <2>5. CASE i < k
    <3>1. i \in DOMAIN list /\ new[i] = list[i] BY <1>6, <2>5
    <3>2. k < Len(list) => list[i] # list[k + 1]
      <4>1. k < Len(list) => k + 1 \in DOMAIN list /\ i # k + 1 BY <1>4, <1>10, <2>1, <2>5
      <4> QED BY <3>1, <4>1 DEF IsInjective
    <3>3. newtbl[new[i]].tmrCnt = tbl[list[i]].tmrCnt BY <1>12, <2>2, <3>1, <3>2
    <3>4. i # 1 => new[i - 1] = list[i - 1]
      <4> SUFFICES ASSUME i # 1 PROVE new[i - 1] = list[i - 1] OBVIOUS
      <4>1. i - 1 < k BY <1>4, <2>1, <2>5
      <4> QED BY <1>6, <2>4, <4>1
    <3> QED BY <2>3, <2>4, <3>1, <3>3, <3>4 DEF Steps
  <2>6. CASE i = k
    <3>1. k < Len(list) /\ i + 1 \in DOMAIN list /\ new[i] = list[k + 1] BY <1>2, <1>4, <1>6, <2>1, <2>6
    <3>2. newtbl[new[i]].tmrCnt = tbl[list[k + 1]].tmrCnt + tbl[t].tmrCnt BY <1>10, <1>12, <3>1
    <3>3. tbl[list[k + 1]].tmrCnt = at[list[k + 1]] - at[list[k]]
      <4>1. k + 1 # 1 /\ (k + 1) - 1 = k BY <1>4
      <4> QED BY <1>10, <3>1, <4>1 DEF Steps
    <3>4. tbl[t].tmrCnt = at[list[k]] - (IF k = 1 THEN 0 ELSE at[list[k - 1]]) BY <1>3 DEF Steps
    <3>5. k # 1 => new[k - 1] = list[k - 1] /\ k - 1 \in DOMAIN list
      <4> SUFFICES ASSUME k # 1 PROVE new[k - 1] = list[k - 1] /\ k - 1 \in DOMAIN list OBVIOUS
      <4>1. k - 1 < k BY <1>4
      <4> QED BY <1>6, <2>4, <2>6, <4>1
    <3>6. /\ at[list[k]] \in Int /\ at[list[k + 1]] \in Int
          /\ k # 1 => at[list[k - 1]] \in Int
      BY <1>2, <1>3, <1>10, <3>1, <3>5
    <3> QED BY <2>3, <2>4, <2>6, <3>1, <3>2, <3>3, <3>4, <3>5, <3>6
  <2>7. CASE i > k
    <3>1. i + 1 \in DOMAIN list /\ new[i] = list[i + 1] BY <1>4, <1>6, <2>1, <2>7
    <3>2. k < Len(list) => list[i + 1] # list[k + 1]
      <4>1. k < Len(list) => k + 1 \in DOMAIN list /\ i + 1 # k + 1 BY <1>4, <1>10, <2>1, <2>7
      <4> QED BY <3>1, <4>1 DEF IsInjective
    <3>3. newtbl[new[i]].tmrCnt = tbl[list[i + 1]].tmrCnt BY <1>12, <2>2, <3>1, <3>2
    <3>4. i # 1 /\ i - 1 >= k /\ (i - 1) + 1 = i /\ i + 1 # 1 /\ (i + 1) - 1 = i
      <4>1. i \in Nat /\ k \in Nat /\ k >= 1 BY <1>4, <2>1
      <4> HIDE DEF Was
      <4> QED BY <2>7, <4>1
    <3>5. new[i - 1] = list[i] BY <1>6, <2>4, <3>4
    <3>6. tbl[list[i + 1]].tmrCnt = at[list[i + 1]] - at[list[i]] BY <3>1, <3>4 DEF Steps
    <3> QED BY <2>3, <2>4, <3>1, <3>3, <3>4, <3>5, <3>6
  <2> QED BY <1>4, <2>1, <2>5, <2>6, <2>7
<1>14. m.tbl = newtbl /\ m.list = new BY <1>1
<1> QED BY <1>5, <1>8, <1>9, <1>12, <1>13, <1>14 DEF ListRight

\* What the application takes care of (the rules README.md lists).
TmrRules == {"lock", "count", "stopped"} \subseteq Habits

\* When each timer runs out, in ticks that its list counts.
Ends == [t \in Timers |-> due[t] + late[t]]

TmrShape ==
  /\ TmrTbl \in [Timers -> TmrType] /\ TmrList \in Seq(Timers) /\ IsInjective(TmrList)
  /\ due \in [Timers -> Int] /\ late \in [Timers -> Int]
  /\ TmrIDVessel \subseteq Timers /\ Range(TmrList) \subseteq TmrIDVessel

StatesAgree ==
  \A t \in TmrIDVessel : ~InTransit(t) => (TmrTbl[t].tmrState = "RUNNING" <=> Listed(t))

\* A periodic timer has something to start again with.
Reloads ==
  \A t \in TmrIDVessel :
    ~(InTransit(t) /\ call.op = "fill") /\ TmrTbl[t].tmrType = "PERIODIC" => TmrTbl[t].tmrReload # 0

\* The call the application is in: what it found still holds, because it has the lock.
CallSound ==
  call # NoCall =>
    /\ lock /\ disposing = "no" /\ call.t \in TmrIDVessel
    /\ \/ /\ call.op = "fill" /\ ~Listed(call.t) /\ call.tmr \in TmrType /\ call.tmr.tmrState = "STOPPED"
          /\ call.tmr.tmrType = "PERIODIC" => call.tmr.tmrReload # 0
       \/ /\ call.op = "insert" /\ ~Listed(call.t)
          /\ TmrTbl[call.t].tmrState = "RUNNING" /\ TmrTbl[call.t].tmrCnt # 0
       \/ call.op = "remove" /\ Listed(call.t) /\ call.then \in {"stopped", "release"}
       \/ call.op \in {"stopped", "release"} /\ ~Listed(call.t)

TmrInv ==
  TmrShape /\ Steps(TmrTbl, TmrList, Ends) /\ StatesAgree /\ Reloads /\ CallSound

LEMMA EndsType ==
  ASSUME TmrShape
  PROVE  /\ Ends \in [Timers -> Int] /\ \A t \in Timers : Ends[t] = due[t] + late[t]
         /\ \A t \in Range(TmrList) : t \in Timers /\ t \in TmrIDVessel
  BY DEF TmrShape, Ends

\* A timer that starts now is due when it is promised to be.
LEMMA PromiseEnds ==
  ASSUME TmrShape, NEW t \in Timers, NEW cnt \in Nat, Promise(t, cnt)
  PROVE  /\ Ends' = [Ends EXCEPT ![t] = cnt]
         /\ due' \in [Timers -> Int] /\ late' \in [Timers -> Int]
<1>1. due \in [Timers -> Int] /\ late \in [Timers -> Int] BY DEF TmrShape
<1>2. due' = [due EXCEPT ![t] = cnt] /\ late' = [late EXCEPT ![t] = 0] BY DEF Promise
<1>3. due' \in [Timers -> Int] /\ late' \in [Timers -> Int] BY <1>1, <1>2
<1>4. \A u \in Timers : due'[u] + late'[u] = IF u = t THEN cnt ELSE due[u] + late[u]
  BY <1>1, <1>2
<1>5. Ends' = [u \in Timers |-> due'[u] + late'[u]] BY DEF Ends, Timers
<1> QED BY <1>3, <1>4, <1>5 DEF Ends

\* Steps reads the timers on the list only.
LEMMA StepsSame ==
  ASSUME NEW tbl, NEW new, NEW list \in Seq(Timers), NEW at, NEW at2, Steps(tbl, list, at),
         \A t \in Range(list) : new[t].tmrCnt = tbl[t].tmrCnt /\ at2[t] = at[t]
  PROVE  Steps(new, list, at2)
<1>1. Len(list) \in Nat /\ DOMAIN list = 1 .. Len(list) OBVIOUS
<1> SUFFICES ASSUME NEW i \in DOMAIN list
             PROVE new[list[i]].tmrCnt = at2[list[i]] - (IF i = 1 THEN 0 ELSE at2[list[i - 1]])
  BY DEF Steps
<1>2. list[i] \in Range(list) BY DEF Range
<1>3. i # 1 => i - 1 \in DOMAIN list BY <1>1
<1>4. i # 1 => list[i - 1] \in Range(list) BY <1>3 DEF Range
<1> QED BY <1>2, <1>4 DEF Steps

---------------------------------------------------------------------------
LEMMA TmrStarts == TmrInit => TmrInv
<1> SUFFICES ASSUME TmrInit PROVE TmrInv OBVIOUS
<1>1. TmrList = <<>> /\ TmrIDVessel = {} /\ call = NoCall BY DEF TmrInit
<1>2. TmrList \in Seq(Timers) /\ IsInjective(TmrList) /\ Range(TmrList) = {} /\ DOMAIN TmrList = {}
  BY <1>1 DEF IsInjective, Range
<1>3. TmrTbl \in [Timers -> TmrType] BY DEF TmrInit, NoTimer, TmrType
<1>4. due \in [Timers -> Int] /\ late \in [Timers -> Int] BY DEF TmrInit
<1>5. Steps(TmrTbl, TmrList, Ends) BY <1>2 DEF Steps
<1> QED BY <1>1, <1>2, <1>3, <1>4, <1>5 DEF TmrInv, TmrShape, StatesAgree, Reloads, CallSound

\* The lock, and a turn of TmrDispose that ends.
LEMMA LockKeeps == ASSUME TmrInv, LockFirst \/ Unlock \/ EndDispose \/ UNCHANGED tmrVars PROVE TmrInv'
<1>1. UNCHANGED <<TmrTbl, TmrList, TmrIDVessel, call, due, late>>
  BY DEF LockFirst, Unlock, EndDispose, tmrVars, History
<1>2. CallSound'
  <2>1. call = NoCall \/ UNCHANGED <<lock, disposing>>
    BY DEF TmrInv, CallSound, LockFirst, Unlock, EndDispose, tmrVars
  <2> QED BY <1>1, <2>1 DEF TmrInv, CallSound, Listed
<1>3. Ends' = Ends BY <1>1 DEF Ends, Timers
<1>4. TmrShape' BY <1>1 DEF TmrInv, TmrShape, Timers
<1>5. Steps(TmrTbl, TmrList, Ends)' BY <1>1, <1>3 DEF TmrInv, Steps
<1>6. StatesAgree' /\ Reloads' BY <1>1 DEF TmrInv, StatesAgree, Reloads, InTransit, Listed
<1> QED BY <1>2, <1>4, <1>5, <1>6 DEF TmrInv

\* A call that begins or ends, and writes no timer that is on the list.
LEMMA OffListKeeps ==
  ASSUME TmrInv, UNCHANGED <<TmrList, due, late>>,
         TmrTbl' \in [Timers -> TmrType], \A u \in Range(TmrList) : TmrTbl'[u] = TmrTbl[u],
         TmrIDVessel' \subseteq Timers, Range(TmrList) \subseteq TmrIDVessel',
         StatesAgree', Reloads', CallSound'
  PROVE  TmrInv'
<1>1. Ends' = Ends BY DEF Ends, Timers
<1>2. TmrShape' BY DEF TmrInv, TmrShape, Timers
<1>3. \A u \in Range(TmrList) : TmrTbl'[u].tmrCnt = TmrTbl[u].tmrCnt /\ Ends[u] = Ends[u] OBVIOUS
<1>4. TmrList \in Seq(Timers) /\ Steps(TmrTbl, TmrList, Ends) BY DEF TmrInv, TmrShape
<1> HIDE DEF TmrInv
<1>5. Steps(TmrTbl', TmrList, Ends) BY <1>3, <1>4, StepsSame
<1>6. Steps(TmrTbl, TmrList, Ends)' BY <1>1, <1>5 DEF Steps
<1> QED BY <1>2, <1>6 DEF TmrInv

\* What holds before a call, and what a call that is under way has found.
LEMMA BeforeCall ==
  ASSUME TmrInv, TmrRules, NoOtherCall
  PROVE  /\ lock /\ disposing = "no" /\ call = NoCall
         /\ \A t : ~InTransit(t)
         /\ \A t \in TmrIDVessel :
              /\ t \in Timers /\ TmrTbl[t] \in TmrType
              /\ TmrTbl[t].tmrState = "RUNNING" <=> Listed(t)
              /\ TmrTbl[t].tmrType = "PERIODIC" => TmrTbl[t].tmrReload # 0
<1>1. lock /\ disposing = "no" /\ call = NoCall BY DEF TmrRules, NoOtherCall
<1>2. \A t : ~InTransit(t) BY <1>1 DEF InTransit
<1>3. \A t \in TmrIDVessel : t \in Timers /\ TmrTbl[t] \in TmrType BY DEF TmrInv, TmrShape
<1> QED BY <1>1, <1>2, <1>3 DEF TmrInv, StatesAgree, Reloads

LEMMA UnusedTmr ==
  ASSUME UnusedTmrs # {}, NEW t, t = CHOOSE u \in UnusedTmrs : \A v \in UnusedTmrs : u <= v
  PROVE  t \in Timers /\ t \notin TmrIDVessel
<1>1. UnusedTmrs \in SUBSET Nat BY TmrAssumption DEF UnusedTmrs, Timers
<1>2. \E u \in UnusedTmrs : \A v \in UnusedTmrs : u <= v BY <1>1, LeastNumber
<1>3. t \in UnusedTmrs BY <1>2
<1> QED BY <1>3 DEF UnusedTmrs

LEMMA CreateTmrKeeps == ASSUME TmrInv, TmrRules, CoCreateTmr PROVE TmrInv'
<1>1. UNCHANGED <<TmrTbl, TmrList, TimerReq, lock, disposing, due, late>> /\ NoOtherCall /\ UnusedTmrs # {}
  BY DEF CoCreateTmr, Listless
<1> DEFINE t == CHOOSE u \in UnusedTmrs : \A v \in UnusedTmrs : u <= v
<1>2. PICK type \in {"ONE_SHOT", "PERIODIC"}, cnt \in Counts :
        /\ TmrIDVessel' = TmrIDVessel \union {t}
        /\ call' = [op |-> "fill", t |-> t,
                    tmr |-> [tmrType |-> type, tmrState |-> "STOPPED",
                             tmrCnt |-> cnt, tmrReload |-> Reload(type, cnt)]]
  BY DEF CoCreateTmr
<1>3. t \in Timers /\ t \notin TmrIDVessel BY <1>1, UnusedTmr
<1> HIDE DEF t
<1>4. cnt \in Nat /\ cnt # 0 BY TmrAssumption
<1>5. /\ call'.tmr \in TmrType /\ call'.tmr.tmrState = "STOPPED"
      /\ call'.tmr.tmrType = "PERIODIC" => call'.tmr.tmrReload # 0
  BY <1>2, <1>4 DEF TmrType, Reload
<1>6. call' # NoCall /\ call'.op = "fill" /\ call'.t = t
  <2>1. call'.op = "fill" /\ call'.t = t BY <1>2
  <2> QED BY <2>1 DEF NoCall
<1>7. /\ TmrTbl \in [Timers -> TmrType] /\ TmrIDVessel \subseteq Timers
      /\ Range(TmrList) \subseteq TmrIDVessel /\ ~Listed(t)
  BY <1>3 DEF TmrInv, TmrShape, Listed
<1>8. \A u : InTransit(u)' <=> u = t BY <1>6 DEF InTransit
<1>9. CallSound' BY <1>1, <1>2, <1>5, <1>6, <1>7, BeforeCall DEF CallSound, Listed
<1>10. StatesAgree' BY <1>1, <1>2, <1>8, BeforeCall DEF StatesAgree, Listed
<1>11. Reloads' BY <1>1, <1>2, <1>6, <1>8, BeforeCall DEF Reloads
<1>12. TmrTbl' \in [Timers -> TmrType] /\ TmrIDVessel' \subseteq Timers /\ Range(TmrList) \subseteq TmrIDVessel'
  BY <1>1, <1>2, <1>3, <1>7
<1> QED BY <1>1, <1>9, <1>10, <1>11, <1>12, OffListKeeps

LEMMA FillTmrKeeps == ASSUME TmrInv, Fill PROVE TmrInv'
<1> DEFINE t == call.t
<1>1. /\ UNCHANGED <<TmrList, TmrIDVessel, due, late>> /\ TmrTbl' = [TmrTbl EXCEPT ![t] = call.tmr]
      /\ call.op = "fill" /\ call' = NoCall /\ call # NoCall
  BY DEF Fill, Listless, InCall, NoCall
<1>2. /\ t \in TmrIDVessel /\ ~Listed(t) /\ call.tmr \in TmrType /\ call.tmr.tmrState = "STOPPED"
      /\ call.tmr.tmrType = "PERIODIC" => call.tmr.tmrReload # 0
  BY <1>1 DEF TmrInv, CallSound
<1>3. /\ TmrTbl \in [Timers -> TmrType] /\ TmrIDVessel \subseteq Timers /\ Range(TmrList) \subseteq TmrIDVessel
  BY DEF TmrInv, TmrShape
<1>4. t \in Timers BY <1>2, <1>3
<1>5. \A u : InTransit(u) <=> u = t BY <1>1 DEF InTransit
<1>6. \A u : ~InTransit(u)' BY <1>1 DEF InTransit
<1> HIDE DEF t
<1>7. TmrTbl'[t] = call.tmr /\ \A u \in Timers : u # t => TmrTbl'[u] = TmrTbl[u] BY <1>1, <1>3, <1>4
<1>8. StatesAgree' BY <1>1, <1>2, <1>3, <1>5, <1>6, <1>7 DEF TmrInv, StatesAgree, Listed
<1>9. Reloads' BY <1>1, <1>2, <1>3, <1>5, <1>6, <1>7 DEF TmrInv, Reloads
<1>10. CallSound' BY <1>1 DEF CallSound
<1>11. TmrTbl' \in [Timers -> TmrType] BY <1>1, <1>2, <1>3
<1>12. \A u \in Range(TmrList) : TmrTbl'[u] = TmrTbl[u] BY <1>2, <1>3, <1>7 DEF Listed
<1> QED BY <1>1, <1>3, <1>8, <1>9, <1>10, <1>11, <1>12, OffListKeeps

LEMMA StartTmrKeeps == ASSUME TmrInv, TmrRules, NEW t \in Timers, CoStartTmr(t) PROVE TmrInv'
<1>1. /\ UNCHANGED <<TmrList, TmrIDVessel, lock, disposing, due, late>>
      /\ TmrTbl' = [TmrTbl EXCEPT ![t].tmrState = "RUNNING"]
      /\ NoOtherCall /\ t \in TmrIDVessel /\ TmrTbl[t].tmrState # "RUNNING" /\ TmrTbl[t].tmrCnt > 0
  BY DEF CoStartTmr, Listless, TmrRules
<1>2. call' # NoCall /\ call'.op = "insert" /\ call'.t = t
  <2>1. call' = [op |-> "insert", t |-> t] BY DEF CoStartTmr
  <2>2. call'.op = "insert" /\ call'.t = t BY <2>1
  <2> QED BY <2>2 DEF NoCall
<1>3. TmrTbl \in [Timers -> TmrType] /\ TmrIDVessel \subseteq Timers /\ Range(TmrList) \subseteq TmrIDVessel
  BY DEF TmrInv, TmrShape
<1>4. ~Listed(t) /\ TmrTbl[t] \in TmrType BY <1>1, BeforeCall
<1>5. \A u : InTransit(u)' <=> u = t BY <1>2 DEF InTransit
<1>6. /\ TmrTbl'[t].tmrState = "RUNNING" /\ TmrTbl'[t].tmrCnt = TmrTbl[t].tmrCnt
      /\ TmrTbl'[t].tmrType = TmrTbl[t].tmrType /\ TmrTbl'[t].tmrReload = TmrTbl[t].tmrReload
      /\ TmrTbl' \in [Timers -> TmrType] /\ \A u \in Timers : u # t => TmrTbl'[u] = TmrTbl[u]
  <2>1. [TmrTbl[t] EXCEPT !.tmrState = "RUNNING"] \in TmrType BY <1>4 DEF TmrType
  <2>2. TmrTbl' \in [Timers -> TmrType] BY <1>1, <1>3, <2>1
  <2>3. TmrTbl'[t] = [TmrTbl[t] EXCEPT !.tmrState = "RUNNING"] BY <1>1, <1>3
  <2>4. \A u \in Timers : u # t => TmrTbl'[u] = TmrTbl[u] BY <1>1, <1>3
  <2> QED BY <1>4, <2>2, <2>3, <2>4 DEF TmrType
<1>7. StatesAgree' BY <1>1, <1>3, <1>5, <1>6, BeforeCall DEF StatesAgree, Listed
<1>8. Reloads'
  <2>1. ASSUME NEW u \in TmrIDVessel
        PROVE TmrTbl'[u].tmrType = TmrTbl[u].tmrType /\ TmrTbl'[u].tmrReload = TmrTbl[u].tmrReload
    BY <1>3, <1>6
  <2> QED BY <1>1, <2>1, BeforeCall DEF Reloads
<1>9. CallSound' BY <1>1, <1>2, <1>4, <1>6, BeforeCall DEF CallSound, Listed
<1>10. \A u \in Range(TmrList) : TmrTbl'[u] = TmrTbl[u] BY <1>3, <1>4, <1>6 DEF Listed
<1> QED BY <1>1, <1>3, <1>6, <1>7, <1>8, <1>9, <1>10, OffListKeeps

\* CoStopTmr and CoDelTmr only find out what is to be done.
LEMMA FoundKeeps == ASSUME TmrInv, TmrRules, NEW t \in Timers, CoStopTmr(t) \/ CoDelTmr(t) PROVE TmrInv'
<1>1. /\ UNCHANGED <<TmrTbl, TmrList, TmrIDVessel, lock, disposing, due, late>>
      /\ NoOtherCall /\ t \in TmrIDVessel
  BY DEF CoStopTmr, CoDelTmr, Listless
<1>2. TmrTbl[t].tmrState \in {"STOPPED", "RUNNING"} /\ (TmrTbl[t].tmrState = "RUNNING" <=> Listed(t))
  BY <1>1, BeforeCall DEF TmrType
<1>3. \/ TmrTbl[t].tmrState = "RUNNING" /\ call' = [op |-> "remove", t |-> t, then |-> "stopped"]
      \/ TmrTbl[t].tmrState = "RUNNING" /\ call' = [op |-> "remove", t |-> t, then |-> "release"]
      \/ TmrTbl[t].tmrState # "RUNNING" /\ call' = [op |-> "release", t |-> t]
  BY <1>2 DEF CoStopTmr, CoDelTmr
<1>4. /\ call'.t = t
      /\ \/ call'.op = "remove" /\ call'.then \in {"stopped", "release"} /\ Listed(t)
         \/ call'.op = "release" /\ ~Listed(t)
  BY <1>2, <1>3
<1>5. TmrTbl \in [Timers -> TmrType] /\ TmrIDVessel \subseteq Timers /\ Range(TmrList) \subseteq TmrIDVessel
  BY DEF TmrInv, TmrShape
<1>6. CallSound' BY <1>1, <1>4, BeforeCall DEF CallSound, Listed
<1>7. StatesAgree' /\ Reloads' BY <1>1, BeforeCall DEF StatesAgree, Reloads, Listed
<1> QED BY <1>1, <1>5, <1>6, <1>7, OffListKeeps

LEMMA StoppedKeeps == ASSUME TmrInv, Stopped PROVE TmrInv'
<1> DEFINE t == call.t
<1>1. /\ UNCHANGED <<TmrList, TmrIDVessel, due, late>> /\ TmrTbl' = [TmrTbl EXCEPT ![t].tmrState = "STOPPED"]
      /\ call.op = "stopped" /\ call' = NoCall /\ call # NoCall
  BY DEF Stopped, Listless, InCall, NoCall
<1>2. t \in TmrIDVessel /\ ~Listed(t) BY <1>1 DEF TmrInv, CallSound
<1>3. TmrTbl \in [Timers -> TmrType] /\ TmrIDVessel \subseteq Timers /\ Range(TmrList) \subseteq TmrIDVessel
  BY DEF TmrInv, TmrShape
<1>4. t \in Timers /\ TmrTbl[t] \in TmrType BY <1>2, <1>3
<1>5. \A u : InTransit(u) <=> u = t BY <1>1 DEF InTransit
<1>6. \A u : ~InTransit(u)' BY <1>1 DEF InTransit
<1> HIDE DEF t
<1>7. /\ TmrTbl'[t].tmrState = "STOPPED"
      /\ TmrTbl'[t].tmrType = TmrTbl[t].tmrType /\ TmrTbl'[t].tmrReload = TmrTbl[t].tmrReload
      /\ TmrTbl' \in [Timers -> TmrType] /\ \A u \in Timers : u # t => TmrTbl'[u] = TmrTbl[u]
  <2>1. [TmrTbl[t] EXCEPT !.tmrState = "STOPPED"] \in TmrType BY <1>4 DEF TmrType
  <2>2. TmrTbl' \in [Timers -> TmrType] BY <1>1, <1>3, <2>1
  <2>3. TmrTbl'[t] = [TmrTbl[t] EXCEPT !.tmrState = "STOPPED"] BY <1>1, <1>3, <1>4
  <2>4. \A u \in Timers : u # t => TmrTbl'[u] = TmrTbl[u] BY <1>1, <1>3
  <2> QED BY <1>4, <2>2, <2>3, <2>4 DEF TmrType
<1>8. StatesAgree' BY <1>1, <1>2, <1>3, <1>5, <1>6, <1>7 DEF TmrInv, StatesAgree, Listed
<1>9. Reloads'
  <2>1. ASSUME NEW u \in TmrIDVessel
        PROVE TmrTbl'[u].tmrType = TmrTbl[u].tmrType /\ TmrTbl'[u].tmrReload = TmrTbl[u].tmrReload
    BY <1>3, <1>7
  <2> QED BY <1>1, <2>1 DEF TmrInv, Reloads
<1>10. CallSound' BY <1>1 DEF CallSound
<1>11. \A u \in Range(TmrList) : TmrTbl'[u] = TmrTbl[u] BY <1>2, <1>3, <1>7 DEF Listed
<1> QED BY <1>1, <1>3, <1>7, <1>8, <1>9, <1>10, <1>11, OffListKeeps

LEMMA ReleaseKeeps == ASSUME TmrInv, Release PROVE TmrInv'
<1> DEFINE t == call.t
<1>1. /\ UNCHANGED <<TmrTbl, TmrList, due, late>> /\ TmrIDVessel' = TmrIDVessel \ {t}
      /\ call.op = "release" /\ call' = NoCall /\ call # NoCall
  BY DEF Release, Listless, InCall, NoCall
<1>2. t \in TmrIDVessel /\ ~Listed(t) BY <1>1 DEF TmrInv, CallSound
<1>3. TmrTbl \in [Timers -> TmrType] /\ TmrIDVessel \subseteq Timers /\ Range(TmrList) \subseteq TmrIDVessel
  BY DEF TmrInv, TmrShape
<1>5. \A u : InTransit(u) <=> u = t BY <1>1 DEF InTransit
<1> HIDE DEF t
<1>8. StatesAgree' BY <1>1, <1>5 DEF TmrInv, StatesAgree, Listed
<1>9. Reloads' BY <1>1, <1>5 DEF TmrInv, Reloads
<1>10. CallSound' BY <1>1 DEF CallSound
<1>11. Range(TmrList) \subseteq TmrIDVessel' BY <1>1, <1>2, <1>3 DEF Listed
<1> QED BY <1>1, <1>3, <1>8, <1>9, <1>10, <1>11, OffListKeeps

LEMMA SetTmrCntKeeps ==
  ASSUME TmrInv, TmrRules, NEW t \in Timers, CoSetTmrCnt(t) PROVE TmrInv'
<1>1. PICK cnt \in Counts : TmrTbl' =
        [TmrTbl EXCEPT ![t].tmrCnt = cnt, ![t].tmrReload = Reload(TmrTbl[t].tmrType, cnt)]
  BY DEF CoSetTmrCnt
<1>2. /\ UNCHANGED <<TmrList, TmrIDVessel, due, late>>
      /\ NoOtherCall /\ t \in TmrIDVessel /\ TmrTbl[t].tmrState = "STOPPED"
  BY DEF CoSetTmrCnt, Listless, TmrRules
<1>3. call' = NoCall BY <1>2 DEF CoSetTmrCnt
<1>4. TmrTbl \in [Timers -> TmrType] /\ TmrIDVessel \subseteq Timers /\ Range(TmrList) \subseteq TmrIDVessel
  BY DEF TmrInv, TmrShape
<1>5. ~Listed(t) /\ TmrTbl[t] \in TmrType BY <1>2, BeforeCall
<1>6. cnt \in Nat /\ cnt # 0 BY TmrAssumption
<1>7. \A u : ~InTransit(u)' BY <1>3 DEF InTransit
<1> DEFINE tmr == [[TmrTbl[t] EXCEPT !.tmrCnt = cnt] EXCEPT !.tmrReload = Reload(TmrTbl[t].tmrType, cnt)]
<1>8. /\ tmr \in TmrType /\ tmr.tmrState = "STOPPED" /\ tmr.tmrType = TmrTbl[t].tmrType
      /\ tmr.tmrType = "PERIODIC" => tmr.tmrReload # 0
  BY <1>2, <1>5, <1>6 DEF TmrType, Reload
<1>9. TmrTbl' = [TmrTbl EXCEPT ![t] = tmr] BY <1>1, <1>4
<1> HIDE DEF tmr
<1>10. TmrTbl'[t] = tmr /\ \A u \in Timers : u # t => TmrTbl'[u] = TmrTbl[u] BY <1>4, <1>9
<1>11. TmrTbl' \in [Timers -> TmrType] BY <1>4, <1>8, <1>9
<1>12. StatesAgree' BY <1>2, <1>4, <1>5, <1>7, <1>8, <1>10, BeforeCall DEF StatesAgree, Listed
<1>13. Reloads' BY <1>2, <1>4, <1>7, <1>8, <1>10, BeforeCall DEF Reloads
<1>14. CallSound' BY <1>3 DEF CallSound
<1>15. \A u \in Range(TmrList) : TmrTbl'[u] = TmrTbl[u] BY <1>4, <1>5, <1>10 DEF Listed
<1> QED BY <1>2, <1>4, <1>11, <1>12, <1>13, <1>14, <1>15, OffListKeeps

\* A list made anew.
LEMMA ListKeeps ==
  ASSUME TmrInv, NEW new, Store(new), ListRight(new, new.tbl, Ends', Range(new.list)),
         due' \in [Timers -> Int], late' \in [Timers -> Int],
         UNCHANGED TmrIDVessel, Range(new.list) \subseteq TmrIDVessel,
         \A u \in Timers : new.tbl[u].tmrType = TmrTbl[u].tmrType /\ new.tbl[u].tmrReload = TmrTbl[u].tmrReload,
         call.op # "fill", StatesAgree', CallSound'
  PROVE  TmrInv'
<1>1. TmrTbl' = new.tbl /\ TmrList' = new.list BY DEF Store
<1>2. /\ new.tbl \in [Timers -> TmrType] /\ new.list \in Seq(Timers) /\ IsInjective(new.list)
      /\ Steps(new.tbl, new.list, Ends')
  BY DEF ListRight, OnlyCounts
<1>3. TmrIDVessel \subseteq Timers BY DEF TmrInv, TmrShape
<1>4. TmrShape' BY <1>1, <1>2, <1>3 DEF TmrShape, Timers
<1>5. Steps(TmrTbl, TmrList, Ends)' BY <1>1, <1>2 DEF Steps
<1>6. \A u \in TmrIDVessel : TmrTbl[u].tmrType = "PERIODIC" => TmrTbl[u].tmrReload # 0
  BY DEF TmrInv, Reloads
<1>7. Reloads' BY <1>1, <1>3, <1>6 DEF Reloads
<1> QED BY <1>4, <1>5, <1>7 DEF TmrInv

LEMMA InsertIt == ASSUME TmrInv, Insert PROVE TmrInv'
<1> DEFINE tmr == call.t
           count == TmrTbl[tmr].tmrCnt
           new == InsertTmrList(TmrTbl, TmrList, tmr)
<1>1. /\ Store(new) /\ call.op = "insert" /\ call' = NoCall /\ call # NoCall /\ Promise(tmr, count)
      /\ UNCHANGED <<TmrIDVessel, lock, disposing>>
  BY DEF Insert, InCall, NoCall
<1>2. tmr \in TmrIDVessel /\ ~Listed(tmr) /\ TmrTbl[tmr].tmrState = "RUNNING" /\ count # 0
  BY <1>1 DEF TmrInv, CallSound
<1>3. /\ TmrTbl \in [Timers -> TmrType] /\ TmrList \in Seq(Timers) /\ IsInjective(TmrList) /\ TmrShape
      /\ TmrIDVessel \subseteq Timers /\ Range(TmrList) \subseteq TmrIDVessel /\ Steps(TmrTbl, TmrList, Ends)
  BY DEF TmrInv, TmrShape
<1>4. tmr \in Timers /\ count \in Nat
  <2>1. tmr \in Timers BY <1>2, <1>3
  <2>2. TmrTbl[tmr] \in TmrType BY <1>3, <2>1
  <2> QED BY <2>1, <2>2 DEF TmrType
<1>5. \A u : InTransit(u) <=> u = tmr BY <1>1 DEF InTransit
<1>6. \A u : ~InTransit(u)' BY <1>1 DEF InTransit
<1>7. Ends' = [Ends EXCEPT ![tmr] = count] /\ due' \in [Timers -> Int] /\ late' \in [Timers -> Int]
  <2> HIDE DEF tmr, count
  <2> QED BY <1>1, <1>3, <1>4, PromiseEnds
<1>8. ListRight(new, TmrTbl, [Ends EXCEPT ![tmr] = count], Range(TmrList) \union {tmr})
  <2>1. Ends \in [Timers -> Int] BY <1>3, EndsType
  <2>2. tmr \notin Range(TmrList) BY <1>2 DEF Listed
  <2> DEFINE ends == Ends
  <2>3. ends \in [Timers -> Int] /\ Steps(TmrTbl, TmrList, ends) BY <1>3, <2>1
  <2> HIDE DEF tmr, ends
  <2> QED BY <1>2, <1>3, <1>4, <2>2, <2>3, InsertKeeps DEF ends
<1>9. CallSound' BY <1>1 DEF CallSound
<1> HIDE DEF tmr, count, new
<1>10. OnlyCounts(new.tbl, TmrTbl) /\ ListRight(new, new.tbl, Ends', Range(new.list)) /\ Range(new.list) = Range(TmrList) \union {tmr}
  BY <1>7, <1>8 DEF ListRight, OnlyCounts
<1>11. TmrTbl' = new.tbl /\ TmrList' = new.list BY <1>1 DEF Store
<1>12. StatesAgree'
  <2> SUFFICES ASSUME NEW u \in TmrIDVessel PROVE TmrTbl'[u].tmrState = "RUNNING" <=> Listed(u)'
    BY <1>1 DEF StatesAgree
  <2>1. TmrTbl'[u].tmrState = TmrTbl[u].tmrState BY <1>3, <1>10, <1>11 DEF OnlyCounts
  <2>2. u # tmr => (TmrTbl[u].tmrState = "RUNNING" <=> Listed(u)) BY <1>5 DEF TmrInv, StatesAgree
  <2>3. Listed(u)' <=> u \in Range(TmrList) \/ u = tmr BY <1>10, <1>11 DEF Listed
  <2> QED BY <1>2, <2>1, <2>2, <2>3 DEF Listed
<1>13. Range(new.list) \subseteq TmrIDVessel BY <1>2, <1>3, <1>10
<1> QED BY <1>1, <1>7, <1>9, <1>10, <1>12, <1>13, ListKeeps DEF OnlyCounts

LEMMA RemoveItKeeps == ASSUME TmrInv, RemoveIt PROVE TmrInv'
<1> DEFINE tmr == call.t
           new == RemoveTmrList(TmrTbl, TmrList, tmr)
<1>1. /\ Store(new) /\ call.op = "remove" /\ call' = [op |-> call.then, t |-> tmr] /\ call # NoCall
      /\ Promise(tmr, 0) /\ UNCHANGED <<TmrIDVessel, lock, disposing>>
  BY DEF RemoveIt, InCall, NoCall, Forget
<1>2. /\ tmr \in TmrIDVessel /\ Listed(tmr) /\ call.then \in {"stopped", "release"}
      /\ lock /\ disposing = "no"
  BY <1>1 DEF TmrInv, CallSound
<1>3. /\ TmrTbl \in [Timers -> TmrType] /\ TmrList \in Seq(Timers) /\ IsInjective(TmrList) /\ TmrShape
      /\ TmrIDVessel \subseteq Timers /\ Range(TmrList) \subseteq TmrIDVessel /\ Steps(TmrTbl, TmrList, Ends)
  BY DEF TmrInv, TmrShape
<1>4. tmr \in Timers /\ tmr \in Range(TmrList) BY <1>2, <1>3 DEF Listed
<1>5. \A u : InTransit(u) <=> u = tmr BY <1>1 DEF InTransit
<1>6. call'.t = tmr /\ call'.op \in {"stopped", "release"} /\ call' # NoCall
  <2>1. call'.t = tmr /\ call'.op \in {"stopped", "release"} BY <1>1, <1>2
  <2> QED BY <2>1 DEF NoCall
<1>7. \A u : InTransit(u)' <=> u = tmr BY <1>6 DEF InTransit
<1>8. Ends' = [Ends EXCEPT ![tmr] = 0] /\ due' \in [Timers -> Int] /\ late' \in [Timers -> Int]
  <2> HIDE DEF tmr
  <2> QED BY <1>1, <1>3, <1>4, PromiseEnds
<1>9. ListRight(new, TmrTbl, Ends', Range(TmrList) \ {tmr})
  <2>1. Ends \in [Timers -> Int] BY <1>3, EndsType
  <2> DEFINE later == Ends'
             ends == Ends
  <2>2. later = [ends EXCEPT ![tmr] = 0] /\ ends \in [Timers -> Int] /\ Steps(TmrTbl, TmrList, ends)
    BY <1>3, <1>8, <2>1
  <2> HIDE DEF later, ends
  <2>3. later \in [Timers -> Int] /\ \A u \in Timers : u # tmr => later[u] = ends[u] BY <1>4, <2>2
  <2> HIDE DEF tmr
  <2>5. ListRight(new, TmrTbl, later, Range(TmrList) \ {tmr})
    BY <1>3, <1>4, <2>2, <2>3, RemoveKeeps
  <2> QED BY <2>5 DEF later
<1> HIDE DEF tmr, new
<1>10. OnlyCounts(new.tbl, TmrTbl) /\ ListRight(new, new.tbl, Ends', Range(new.list)) /\ Range(new.list) = Range(TmrList) \ {tmr}
  BY <1>9 DEF ListRight, OnlyCounts
<1>11. TmrTbl' = new.tbl /\ TmrList' = new.list BY <1>1 DEF Store
<1>12. StatesAgree'
  <2> SUFFICES ASSUME NEW u \in TmrIDVessel, u # tmr PROVE TmrTbl'[u].tmrState = "RUNNING" <=> Listed(u)'
    BY <1>1, <1>7 DEF StatesAgree
  <2>1. TmrTbl'[u].tmrState = TmrTbl[u].tmrState BY <1>3, <1>10, <1>11 DEF OnlyCounts
  <2>2. TmrTbl[u].tmrState = "RUNNING" <=> Listed(u) BY <1>5 DEF TmrInv, StatesAgree
  <2>3. Listed(u)' <=> u \in Range(TmrList) BY <1>10, <1>11 DEF Listed
  <2> QED BY <2>1, <2>2, <2>3 DEF Listed
<1>13. Range(new.list) \subseteq TmrIDVessel BY <1>3, <1>10
<1>14. CallSound' BY <1>1, <1>2, <1>6, <1>10, <1>11 DEF CallSound, Listed
<1> QED BY <1>1, <1>8, <1>10, <1>12, <1>13, <1>14, ListKeeps DEF OnlyCounts

\* One tick counts the first timer down, and so brings all of the list closer.
LEMMA SysTickKeeps == ASSUME TmrInv, SysTick PROVE TmrInv'
<1> DEFINE head == Head(TmrList)
           count == TmrTbl[head].tmrCnt
           left == IF count > 1 THEN count - 1 ELSE 0
           drop == IF count = 0 THEN 0 ELSE 1
<1>1. /\ TmrList # <<>> /\ TmrTbl' = [TmrTbl EXCEPT ![head].tmrCnt = left] /\ Elapse(count = 0)
      /\ UNCHANGED <<TmrList, TmrIDVessel, lock, call>> /\ (lock => UNCHANGED disposing)
  BY DEF SysTick
<1>2. /\ TmrTbl \in [Timers -> TmrType] /\ TmrList \in Seq(Timers) /\ IsInjective(TmrList) /\ TmrShape
      /\ due \in [Timers -> Int] /\ late \in [Timers -> Int]
      /\ TmrIDVessel \subseteq Timers /\ Range(TmrList) \subseteq TmrIDVessel /\ Steps(TmrTbl, TmrList, Ends)
  BY DEF TmrInv, TmrShape
<1>3. Len(TmrList) \in Nat /\ DOMAIN TmrList = 1 .. Len(TmrList) /\ 1 \in DOMAIN TmrList /\ head = TmrList[1]
  BY <1>1, <1>2
<1>4. head \in Range(TmrList) /\ head \in Timers BY <1>2, <1>3 DEF Range
<1> HIDE DEF head
<1>5. TmrTbl[head] \in TmrType /\ count \in Nat BY <1>2, <1>4 DEF TmrType
<1>6. left \in Nat /\ left = count - drop BY <1>5
<1>7. drop \in {0, 1} OBVIOUS
<1>8. /\ due' \in [Timers -> Int] /\ late' \in [Timers -> Int]
      /\ \A u \in Timers : due'[u] + late'[u] = IF Listed(u) THEN due[u] + late[u] - drop ELSE due[u] + late[u]
  <2>1. /\ due' = [u \in Timers |-> IF Listed(u) THEN due[u] - 1 ELSE due[u]]
        /\ late' = [u \in Timers |-> IF Listed(u) /\ count = 0 THEN late[u] + 1 ELSE late[u]]
    BY <1>1 DEF Elapse
  <2>2. due' \in [Timers -> Int] /\ late' \in [Timers -> Int] BY <1>2, <2>1
  <2>3. ASSUME NEW u \in Timers
        PROVE  due'[u] + late'[u] = IF Listed(u) THEN due[u] + late[u] - drop ELSE due[u] + late[u]
    <3>1. due[u] \in Int /\ late[u] \in Int BY <1>2
    <3>2. /\ due'[u] = IF Listed(u) THEN due[u] - 1 ELSE due[u]
          /\ late'[u] = IF Listed(u) /\ count = 0 THEN late[u] + 1 ELSE late[u]
      BY <2>1
    <3>3. drop = IF count = 0 THEN 0 ELSE 1 OBVIOUS
    <3> HIDE DEF drop
    <3> QED BY <3>1, <3>2, <3>3
  <2> QED BY <2>2, <2>3
<1>9. Ends' = [u \in Timers |-> due'[u] + late'[u]] BY DEF Ends, Timers
<1>10. \A u \in Timers : Ends[u] \in Int /\ Ends'[u] = IF Listed(u) THEN Ends[u] - drop ELSE Ends[u]
  BY <1>2, <1>8, <1>9 DEF Ends
<1> DEFINE tmr == [TmrTbl[head] EXCEPT !.tmrCnt = left]
<1>11. /\ tmr \in TmrType /\ tmr.tmrCnt = left /\ tmr.tmrType = TmrTbl[head].tmrType
       /\ tmr.tmrState = TmrTbl[head].tmrState /\ tmr.tmrReload = TmrTbl[head].tmrReload
  <2> HIDE DEF left
  <2> QED BY <1>5, <1>6 DEF TmrType
<1>12. TmrTbl' = [TmrTbl EXCEPT ![head] = tmr] BY <1>1, <1>2, <1>4
<1> HIDE DEF tmr, left, count
<1>13. TmrTbl'[head] = tmr /\ \A u \in Timers : u # head => TmrTbl'[u] = TmrTbl[u] BY <1>2, <1>4, <1>12
<1>14. TmrTbl' \in [Timers -> TmrType] BY <1>2, <1>11, <1>12
<1>15. Steps(TmrTbl', TmrList, Ends')
  <2> SUFFICES ASSUME NEW i \in DOMAIN TmrList
      PROVE TmrTbl'[TmrList[i]].tmrCnt = Ends'[TmrList[i]] - (IF i = 1 THEN 0 ELSE Ends'[TmrList[i - 1]])
    BY DEF Steps
  <2>1. TmrTbl[TmrList[i]].tmrCnt = Ends[TmrList[i]] - (IF i = 1 THEN 0 ELSE Ends[TmrList[i - 1]])
    BY <1>2 DEF Steps
  <2>2. TmrList[i] \in Timers /\ Listed(TmrList[i]) BY <1>2 DEF Listed, Range
  <2>3. Ends'[TmrList[i]] = Ends[TmrList[i]] - drop /\ Ends[TmrList[i]] \in Int BY <1>10, <2>2
  <2>4. CASE i = 1
    <3>1. TmrList[i] = head BY <1>3, <2>4
    <3>2. TmrTbl'[head].tmrCnt = count - drop BY <1>6, <1>11, <1>13
    <3>3. count = Ends[TmrList[i]] BY <2>1, <2>3, <2>4, <3>1 DEF count
    <3> QED BY <1>7, <2>3, <2>4, <3>1, <3>2, <3>3
  <2>5. CASE i # 1
    <3>1. i - 1 \in DOMAIN TmrList BY <1>3, <2>5
    <3>2. TmrList[i - 1] \in Timers /\ Listed(TmrList[i - 1]) BY <1>2, <3>1 DEF Listed, Range
    <3>3. Ends'[TmrList[i - 1]] = Ends[TmrList[i - 1]] - drop /\ Ends[TmrList[i - 1]] \in Int BY <1>10, <3>2
    <3>4. TmrList[i] # head BY <1>2, <1>3, <2>5 DEF IsInjective
    <3>5. TmrTbl'[TmrList[i]] = TmrTbl[TmrList[i]] BY <1>13, <2>2, <3>4
    <3> QED BY <1>7, <2>1, <2>3, <2>5, <3>3, <3>5
  <2> QED BY <2>4, <2>5
<1>16. TmrShape' BY <1>1, <1>2, <1>8, <1>14 DEF TmrShape, Timers
<1>17. Steps(TmrTbl, TmrList, Ends)' BY <1>1, <1>15 DEF Steps
<1>18. \A u \in Timers : TmrTbl'[u].tmrState = TmrTbl[u].tmrState /\ TmrTbl'[u].tmrType = TmrTbl[u].tmrType
                         /\ TmrTbl'[u].tmrReload = TmrTbl[u].tmrReload
  BY <1>11, <1>13
<1>19. StatesAgree'
  <2>1. \A u : (InTransit(u)' <=> InTransit(u)) /\ (Listed(u)' <=> Listed(u)) BY <1>1 DEF InTransit, Listed
  <2> QED BY <1>1, <1>2, <1>18, <2>1 DEF TmrInv, StatesAgree
<1>20. Reloads' BY <1>1, <1>2, <1>18 DEF TmrInv, Reloads, InTransit
<1>21. CallSound'
  <2> SUFFICES ASSUME call # NoCall PROVE CallSound' BY <1>1 DEF CallSound
  <2>1. lock /\ disposing = "no" /\ lock' /\ disposing' = "no" BY <1>1 DEF TmrInv, CallSound
  <2>2. call.t \in Timers BY <1>2 DEF TmrInv, CallSound
  <2>3. ~Listed(call.t) => TmrTbl'[call.t] = TmrTbl[call.t] BY <1>4, <1>13, <2>2 DEF Listed
  <2> QED BY <1>1, <2>1, <2>3 DEF TmrInv, CallSound, Listed
<1> QED BY <1>16, <1>17, <1>19, <1>20, <1>21 DEF TmrInv

\* A timer that was taken off a list and is put on it again with a new count.
LEMMA ListedAgain ==
  ASSUME NEW old \in [Timers -> TmrType], NEW out, NEW ends \in [Timers -> Int], NEW who,
         ListRight(out, old, ends, who), NEW tmr \in Timers, tmr \notin who,
         NEW count \in Nat, count # 0
  PROVE  ListRight(InsertTmrList([out.tbl EXCEPT ![tmr].tmrCnt = count], out.list, tmr),
                   old, [ends EXCEPT ![tmr] = count], who \union {tmr})
<1> DEFINE set == [out.tbl EXCEPT ![tmr].tmrCnt = count]
           again == InsertTmrList(set, out.list, tmr)
<1>1. /\ out.tbl \in [Timers -> TmrType] /\ out.list \in Seq(Timers) /\ IsInjective(out.list)
      /\ Steps(out.tbl, out.list, ends) /\ Range(out.list) = who /\ OnlyCounts(out.tbl, old)
  BY DEF ListRight, OnlyCounts
<1> DEFINE rec == [out.tbl[tmr] EXCEPT !.tmrCnt = count]
<1>2. out.tbl[tmr] \in TmrType BY <1>1
<1>3. /\ rec \in TmrType /\ rec.tmrCnt = count /\ rec.tmrType = out.tbl[tmr].tmrType
      /\ rec.tmrState = out.tbl[tmr].tmrState /\ rec.tmrReload = out.tbl[tmr].tmrReload
  BY <1>2 DEF TmrType
<1>4. set = [out.tbl EXCEPT ![tmr] = rec] BY <1>1
<1> HIDE DEF rec, set
<1>5. set \in [Timers -> TmrType] BY <1>1, <1>3, <1>4
<1>6. set[tmr] = rec /\ \A u \in Timers : u # tmr => set[u] = out.tbl[u] BY <1>1, <1>4
<1>7. OnlyCounts(set, old) BY <1>1, <1>3, <1>5, <1>6 DEF OnlyCounts
<1>8. \A u \in Range(out.list) : set[u].tmrCnt = out.tbl[u].tmrCnt /\ ends[u] = ends[u]
  <2>1. \A u \in Range(out.list) : u \in Timers /\ u # tmr BY <1>1 DEF Range
  <2> QED BY <1>6, <2>1
<1>9. Steps(set, out.list, ends) BY <1>1, <1>8, StepsSame
<1>10. set[tmr].tmrCnt # 0 /\ tmr \notin Range(out.list) BY <1>1, <1>3, <1>6
<1>11. ListRight(again, set, [ends EXCEPT ![tmr] = set[tmr].tmrCnt], Range(out.list) \union {tmr})
  BY <1>1, <1>5, <1>9, <1>10, InsertKeeps
<1>12. [ends EXCEPT ![tmr] = set[tmr].tmrCnt] = [ends EXCEPT ![tmr] = count] BY <1>3, <1>6
<1> HIDE DEF again
<1>13. ListRight(again, set, [ends EXCEPT ![tmr] = count], who \union {tmr}) BY <1>1, <1>11, <1>12
<1>14. OnlyCounts(again.tbl, old) BY <1>7, <1>13 DEF ListRight, OnlyCounts
<1>15. ListRight(again, old, [ends EXCEPT ![tmr] = count], who \union {tmr}) BY <1>13, <1>14 DEF ListRight
<1> QED BY <1>15 DEF again, set

\* The first timer of the list, when its time has come, and the list without it.
LEMMA ExpiredHead ==
  ASSUME TmrInv, Expired, NEW head, head = Head(TmrList)
  PROVE  /\ head \in Timers /\ head \in TmrIDVessel /\ Listed(head) /\ call = NoCall
         /\ TmrTbl[head].tmrState = "RUNNING"
         /\ TmrTbl[head].tmrType = "PERIODIC" => TmrTbl[head].tmrReload # 0
         /\ ListRight(RemoveTmrList(TmrTbl, TmrList, head), TmrTbl, Ends, Range(TmrList) \ {head})
<1>1. /\ TmrTbl \in [Timers -> TmrType] /\ TmrList \in Seq(Timers) /\ IsInjective(TmrList)
      /\ TmrIDVessel \subseteq Timers /\ Range(TmrList) \subseteq TmrIDVessel /\ Steps(TmrTbl, TmrList, Ends)
      /\ Ends \in [Timers -> Int]
  BY EndsType DEF TmrInv, TmrShape
<1>2. TmrList # <<>> /\ disposing # "no" BY DEF Expired
<1>3. 1 \in DOMAIN TmrList /\ head = TmrList[1] BY <1>1, <1>2
<1>4. head \in Range(TmrList) BY <1>3 DEF Range
<1>5. call = NoCall BY <1>2 DEF TmrInv, CallSound
<1>6. ~InTransit(head) BY <1>5 DEF InTransit
<1>7. ListRight(RemoveTmrList(TmrTbl, TmrList, head), TmrTbl, Ends, Range(TmrList) \ {head})
  <2>1. \A u \in Timers : u # head => Ends[u] = Ends[u] OBVIOUS
  <2> QED BY <1>1, <1>4, <2>1, RemoveKeeps
<1>8. head \in TmrIDVessel /\ head \in Timers BY <1>1, <1>4
<1>9. TmrTbl[head].tmrState = "RUNNING" BY <1>4, <1>6, <1>8 DEF TmrInv, StatesAgree, Listed
<1> QED BY <1>4, <1>5, <1>6, <1>7, <1>8, <1>9 DEF TmrInv, Reloads, Listed

LEMMA RunAgainKeeps ==
  ASSUME TmrInv, Expired, NEW head, head = Head(TmrList), NEW count \in Nat, count # 0,
         RunAgain(RemoveTmrList(TmrTbl, TmrList, head), head, count), UNCHANGED <<TmrIDVessel, call>>
  PROVE  TmrInv'
<1> DEFINE out == RemoveTmrList(TmrTbl, TmrList, head)
           new == InsertTmrList([out.tbl EXCEPT ![head].tmrCnt = count], out.list, head)
<1>1. /\ head \in Timers /\ head \in TmrIDVessel /\ Listed(head) /\ call = NoCall
      /\ TmrTbl[head].tmrState = "RUNNING"
      /\ ListRight(out, TmrTbl, Ends, Range(TmrList) \ {head})
  BY ExpiredHead
<1>2. Store(new) /\ Promise(head, count) BY DEF RunAgain
<1>3. /\ TmrTbl \in [Timers -> TmrType] /\ TmrIDVessel \subseteq Timers /\ Range(TmrList) \subseteq TmrIDVessel
      /\ TmrShape /\ Ends \in [Timers -> Int]
  BY EndsType DEF TmrInv, TmrShape
<1> HIDE DEF out
<1>4. ListRight(new, TmrTbl, [Ends EXCEPT ![head] = count], (Range(TmrList) \ {head}) \union {head})
  <2>1. head \notin Range(TmrList) \ {head} OBVIOUS
  <2> QED BY <1>1, <1>3, <2>1, ListedAgain
<1>5. Ends' = [Ends EXCEPT ![head] = count] /\ due' \in [Timers -> Int] /\ late' \in [Timers -> Int]
  BY <1>1, <1>2, <1>3, PromiseEnds
<1> HIDE DEF new
<1>6. (Range(TmrList) \ {head}) \union {head} = Range(TmrList) BY <1>1 DEF Listed
<1>7. OnlyCounts(new.tbl, TmrTbl) /\ ListRight(new, new.tbl, Ends', Range(new.list)) /\ Range(new.list) = Range(TmrList)
  BY <1>4, <1>5, <1>6 DEF ListRight, OnlyCounts
<1>8. TmrTbl' = new.tbl /\ TmrList' = new.list BY <1>2 DEF Store
<1>9. call.op # "fill" BY <1>1 DEF NoCall
<1>10. \A u : ~InTransit(u) /\ ~InTransit(u)' BY <1>1 DEF InTransit
<1>11. StatesAgree'
  <2> SUFFICES ASSUME NEW u \in TmrIDVessel PROVE TmrTbl'[u].tmrState = "RUNNING" <=> Listed(u)'
    BY DEF StatesAgree
  <2>1. TmrTbl'[u].tmrState = TmrTbl[u].tmrState BY <1>3, <1>7, <1>8 DEF OnlyCounts
  <2>2. TmrTbl[u].tmrState = "RUNNING" <=> Listed(u) BY <1>10 DEF TmrInv, StatesAgree
  <2>3. Listed(u)' <=> Listed(u) BY <1>7, <1>8 DEF Listed
  <2> QED BY <2>1, <2>2, <2>3
<1>12. CallSound' BY <1>1 DEF CallSound
<1>13. Range(new.list) \subseteq TmrIDVessel BY <1>3, <1>7
<1> QED BY <1>2, <1>5, <1>7, <1>9, <1>11, <1>12, <1>13, ListKeeps DEF OnlyCounts

\* A timer that expired and does not run again: out is the list without it.
LEMMA HaltKeeps ==
  ASSUME TmrInv, Expired, NEW head, head = Head(TmrList), NEW out, NEW ends \in [Timers -> Int],
         ListRight(out, TmrTbl, ends, Range(TmrList) \ {head}),
         \A u \in Timers : u # head => ends[u] = Ends[u],
         TmrTbl' = [out.tbl EXCEPT ![head].tmrState = "STOPPED"], TmrList' = out.list,
         Forget(head), UNCHANGED <<TmrIDVessel, call>>
  PROVE  TmrInv'
<1>1. head \in Timers /\ head \in TmrIDVessel /\ Listed(head) /\ call = NoCall BY ExpiredHead
<1>2. Promise(head, 0) BY DEF Forget
<1>3. /\ TmrTbl \in [Timers -> TmrType] /\ TmrIDVessel \subseteq Timers /\ Range(TmrList) \subseteq TmrIDVessel
      /\ TmrShape /\ Ends \in [Timers -> Int]
  BY EndsType DEF TmrInv, TmrShape
<1>4. Ends' = [Ends EXCEPT ![head] = 0] /\ due' \in [Timers -> Int] /\ late' \in [Timers -> Int]
  BY <1>1, <1>2, <1>3, PromiseEnds
<1>5. /\ out.tbl \in [Timers -> TmrType] /\ out.list \in Seq(Timers) /\ IsInjective(out.list)
      /\ Steps(out.tbl, out.list, ends) /\ Range(out.list) = Range(TmrList) \ {head} /\ OnlyCounts(out.tbl, TmrTbl)
  BY DEF ListRight, OnlyCounts
<1> DEFINE rec == [out.tbl[head] EXCEPT !.tmrState = "STOPPED"]
<1>6. out.tbl[head] \in TmrType BY <1>1, <1>5
<1>7. /\ rec \in TmrType /\ rec.tmrState = "STOPPED" /\ rec.tmrType = out.tbl[head].tmrType
      /\ rec.tmrReload = out.tbl[head].tmrReload
  BY <1>6 DEF TmrType
<1>8. TmrTbl' = [out.tbl EXCEPT ![head] = rec] BY <1>1, <1>5
<1> HIDE DEF rec
<1>9. TmrTbl' \in [Timers -> TmrType] BY <1>1, <1>5, <1>7, <1>8
<1>10. TmrTbl'[head] = rec /\ \A u \in Timers : u # head => TmrTbl'[u] = out.tbl[u] BY <1>1, <1>5, <1>8
<1>11. \A u \in Range(out.list) : u \in Timers /\ u # head BY <1>3, <1>5
<1>12. \A u \in Range(out.list) : TmrTbl'[u].tmrCnt = out.tbl[u].tmrCnt /\ Ends'[u] = ends[u]
  <2>1. \A u \in Timers : u # head => Ends'[u] = Ends[u] BY <1>3, <1>4
  <2> QED BY <1>10, <1>11, <2>1
<1>13. Steps(TmrTbl', out.list, Ends')
  <2> DEFINE later == Ends'
             set == TmrTbl'
  <2>1. \A u \in Range(out.list) : set[u].tmrCnt = out.tbl[u].tmrCnt /\ later[u] = ends[u] BY <1>12
  <2> HIDE DEF later, set
  <2>2. Steps(set, out.list, later)
    <3> DEFINE li == out.list
               ta == out.tbl
    <3>1. li \in Seq(Timers) /\ Steps(ta, li, ends)
          /\ \A u \in Range(li) : set[u].tmrCnt = ta[u].tmrCnt /\ later[u] = ends[u]
      BY <1>5, <2>1
    <3> HIDE DEF li, ta
    <3>2. Steps(set, li, later) BY <3>1, StepsSame
    <3> QED BY <3>2 DEF li
  <2> QED BY <2>2 DEF later, set
<1>14. \A u \in Timers : TmrTbl'[u].tmrType = TmrTbl[u].tmrType /\ TmrTbl'[u].tmrReload = TmrTbl[u].tmrReload
  BY <1>1, <1>5, <1>7, <1>10 DEF OnlyCounts
<1>15. TmrShape' BY <1>3, <1>4, <1>5, <1>9 DEF TmrShape, Timers
<1>16. Steps(TmrTbl, TmrList, Ends)' BY <1>13 DEF Steps
<1>17. \A u : ~InTransit(u) /\ ~InTransit(u)' BY <1>1 DEF InTransit
<1>18. StatesAgree'
  <2> SUFFICES ASSUME NEW u \in TmrIDVessel PROVE TmrTbl'[u].tmrState = "RUNNING" <=> Listed(u)'
    BY DEF StatesAgree
  <2>1. Listed(u)' <=> u \in Range(TmrList) /\ u # head BY <1>5 DEF Listed
  <2>2. CASE u = head BY <1>7, <1>10, <2>1, <2>2
  <2>3. CASE u # head
    <3>1. TmrTbl'[u].tmrState = TmrTbl[u].tmrState BY <1>3, <1>5, <1>10, <2>3 DEF OnlyCounts
    <3>2. TmrTbl[u].tmrState = "RUNNING" <=> Listed(u) BY <1>17 DEF TmrInv, StatesAgree
    <3> QED BY <2>1, <2>3, <3>1, <3>2 DEF Listed
  <2> QED BY <2>2, <2>3
<1>19. Reloads'
  <2>1. \A u \in TmrIDVessel : TmrTbl[u].tmrType = "PERIODIC" => TmrTbl[u].tmrReload # 0
    BY <1>17 DEF TmrInv, Reloads
  <2> QED BY <1>3, <1>14, <2>1 DEF Reloads
<1>20. CallSound' BY <1>1 DEF CallSound
<1> QED BY <1>15, <1>16, <1>18, <1>19, <1>20 DEF TmrInv

LEMMA OneShotKeeps == ASSUME TmrInv, DisposeOneShot PROVE TmrInv'
<1> DEFINE head == Head(TmrList)
           out == RemoveTmrList(TmrTbl, TmrList, head)
           stopped == [out.tbl EXCEPT ![head].tmrState = "STOPPED"]
<1>1. /\ Expired /\ UNCHANGED <<TmrIDVessel, call>>
      /\ \/ Store([out EXCEPT !.tbl = stopped]) /\ Forget(head)
         \/ \E cnt \in Counts : RunAgain(out, head, cnt)
  BY DEF DisposeOneShot
<1>2. CASE Store([out EXCEPT !.tbl = stopped]) /\ Forget(head)
  <2>1. \E a, b : out = [tbl |-> a, list |-> b] BY DEF RemoveTmrList
  <2>2. TmrTbl' = stopped /\ TmrList' = out.list
    <3> HIDE DEF out, stopped
    <3> QED BY <1>2, <2>1 DEF Store
  <2>3. ListRight(out, TmrTbl, Ends, Range(TmrList) \ {head}) BY <1>1, ExpiredHead
  <2>4. Ends \in [Timers -> Int] BY EndsType DEF TmrInv
  <2> HIDE DEF out
  <2> DEFINE h == head
  <2>5. h = Head(TmrList) OBVIOUS
  <2> QED BY <1>1, <1>2, <2>2, <2>3, <2>4, HaltKeeps
<1>3. CASE \E cnt \in Counts : RunAgain(out, head, cnt)
  <2>1. PICK cnt \in Counts : RunAgain(out, head, cnt) BY <1>3
  <2>2. cnt \in Nat /\ cnt # 0 BY TmrAssumption
  <2> QED BY <1>1, <2>1, <2>2, RunAgainKeeps
<1> QED BY <1>1, <1>2, <1>3

LEMMA PeriodicKeeps == ASSUME TmrInv, DisposePeriodic PROVE TmrInv'
<1> DEFINE head == Head(TmrList)
           count == TmrTbl[head].tmrReload
           out == RemoveTmrList(TmrTbl, TmrList, head)
           again == InsertTmrList([out.tbl EXCEPT ![head].tmrCnt = count], out.list, head)
           halt == RemoveTmrList(again.tbl, again.list, head)
<1>1. /\ Expired /\ TmrTbl[head].tmrType = "PERIODIC" /\ UNCHANGED <<TmrIDVessel, call>>
      /\ \/ RunAgain(out, head, count)
         \/ Store([halt EXCEPT !.tbl[head].tmrState = "STOPPED"]) /\ Forget(head)
  BY DEF DisposePeriodic
<1>2. /\ head \in Timers /\ count # 0 /\ Listed(head)
      /\ ListRight(out, TmrTbl, Ends, Range(TmrList) \ {head})
  BY <1>1, ExpiredHead
<1>3. TmrTbl \in [Timers -> TmrType] /\ Ends \in [Timers -> Int] BY EndsType DEF TmrInv, TmrShape
<1>4. count \in Nat
  <2>1. TmrTbl[head] \in TmrType BY <1>2, <1>3
  <2> QED BY <2>1 DEF TmrType
<1>5. CASE RunAgain(out, head, count) BY <1>1, <1>2, <1>4, <1>5, RunAgainKeeps
<1>6. CASE Store([halt EXCEPT !.tbl[head].tmrState = "STOPPED"]) /\ Forget(head)
  <2> DEFINE ends == [Ends EXCEPT ![head] = count]
  <2>1. TmrTbl' = [halt.tbl EXCEPT ![head].tmrState = "STOPPED"] /\ TmrList' = halt.list
    <3>1. \E a, b : halt = [tbl |-> a, list |-> b] BY DEF RemoveTmrList
    <3> HIDE DEF halt
    <3> QED BY <1>6, <3>1 DEF Store
  <2> HIDE DEF head, count, out
  <2>2. ends \in [Timers -> Int] /\ \A u \in Timers : u # head => Ends[u] = ends[u] BY <1>2, <1>3, <1>4
  <2>3. ListRight(again, TmrTbl, ends, (Range(TmrList) \ {head}) \union {head})
    <3>1. head \notin Range(TmrList) \ {head} OBVIOUS
    <3> QED BY <1>2, <1>3, <1>4, <3>1, ListedAgain
  <2> HIDE DEF again, ends
  <2>4. /\ again.tbl \in [Timers -> TmrType] /\ again.list \in Seq(Timers) /\ IsInjective(again.list)
        /\ Steps(again.tbl, again.list, ends) /\ OnlyCounts(again.tbl, TmrTbl)
        /\ Range(again.list) = Range(TmrList) /\ head \in Range(again.list)
    BY <1>2, <2>3 DEF ListRight, OnlyCounts, Listed
  <2>5. ListRight(halt, again.tbl, Ends, Range(again.list) \ {head})
    BY <1>3, <2>2, <2>4, RemoveKeeps
  <2> HIDE DEF halt
  <2>6. OnlyCounts(halt.tbl, TmrTbl) BY <2>4, <2>5 DEF ListRight, OnlyCounts
  <2>7. ListRight(halt, TmrTbl, Ends, Range(TmrList) \ {head}) BY <2>4, <2>5, <2>6 DEF ListRight
  <2>8. head = Head(TmrList) BY DEF head
  <2> QED BY <1>1, <1>3, <1>6, <2>1, <2>7, <2>8, HaltKeeps
<1> QED BY <1>1, <1>5, <1>6

---------------------------------------------------------------------------
LEMMA TmrStep == ASSUME TmrRules, TmrInv, [TmrNext]_tmrVars PROVE TmrInv'
<1>1. CASE LockFirst \/ Unlock \/ EndDispose \/ UNCHANGED tmrVars BY <1>1, LockKeeps
<1>2. CASE CoCreateTmr BY <1>2, CreateTmrKeeps
<1>3. CASE Fill BY <1>3, FillTmrKeeps
<1>4. CASE Insert BY <1>4, InsertIt
<1>5. CASE RemoveIt BY <1>5, RemoveItKeeps
<1>6. CASE Stopped BY <1>6, StoppedKeeps
<1>7. CASE Release BY <1>7, ReleaseKeeps
<1>8. CASE \E t \in Timers : CoStartTmr(t) \/ CoStopTmr(t) \/ CoDelTmr(t) \/ CoSetTmrCnt(t)
  BY <1>8, StartTmrKeeps, FoundKeeps, SetTmrCntKeeps
<1>9. CASE SysTick BY <1>9, SysTickKeeps
<1>10. CASE DisposeOneShot BY <1>10, OneShotKeeps
<1>11. CASE DisposePeriodic BY <1>11, PeriodicKeeps
<1> QED BY <1>1, <1>2, <1>3, <1>4, <1>5, <1>6, <1>7, <1>8, <1>9, <1>10, <1>11 DEF TmrNext

LEMMA TimersFit == ASSUME TmrInv PROVE TimersKeepTime
<1>1. /\ TmrList \in Seq(Timers) /\ IsInjective(TmrList) /\ Steps(TmrTbl, TmrList, Ends) /\ TmrShape
  BY DEF TmrInv, TmrShape
<1>2. Ends \in [Timers -> Int] /\ \A t \in Timers : Ends[t] = due[t] + late[t] BY <1>1, EndsType
<1>3. \A i \in DOMAIN TmrList : RunsOut(TmrTbl, TmrList, i) = Ends[TmrList[i]] BY <1>1, <1>2, RunsOutAt
<1>4. \A i \in DOMAIN TmrList : TmrList[i] \in Timers BY <1>1
<1>5. \A i \in DOMAIN TmrList : RunsOut(TmrTbl, TmrList, i) = due[TmrList[i]] + late[TmrList[i]]
  BY <1>2, <1>3, <1>4
<1> QED BY <1>1, <1>5 DEF TmrInv, StatesAgree, TimersKeepTime

\* A timer that runs is on the list once, and no other is; and however many
\* timers are started, stopped, set, restarted by their call-backs and
\* disposed of, the counts of timer.c, each a difference from the one before,
\* still add up to the ticks each timer was promised.  Nothing is lost when a
\* timer leaves the middle of the list or joins it, and a timer is later only
\* by the ticks at which the first one waited, expired, for the lock.
THEOREM TimersStayOnTime == TmrRules => (TmrSpec => []TimersKeepTime)
<1> SUFFICES ASSUME TmrRules PROVE TmrSpec => []TimersKeepTime OBVIOUS
<1>1. TmrInit => TmrInv BY TmrStarts
<1>2. TmrInv /\ [TmrNext]_tmrVars => TmrInv' BY TmrStep
<1>3. TmrInv => TimersKeepTime BY TimersFit
<1> QED BY <1>1, <1>2, <1>3, PTL DEF TmrSpec
---------------------------------------------------------------------------
(* The kernel heap.  That the blocks tile it follows from what each link   *)
(* says: where a block ends the next one starts, and that one's header     *)
(* names the first back.  The invariant is stated block by block, so that  *)
(* a call changes it only where it writes: a block taken whole or split, a *)
(* block freed and the free ones beside it.  The loops of the code - along *)
(* the list, back to the free block before, over the heap to check a       *)
(* pointer - are recursive functions; in the order of the addresses they   *)
(* exist and have one value.                                               *)

\* The link from a block to the one after it, and to the one before it; where the
\* block ends and where the one before it starts (-1: there is none).
LinkUp(a) == IF a \in DOMAIN umb THEN umb[a].nextMB ELSE fmb[a].nextUMB
LinkDown(a) == IF a \in DOMAIN umb THEN umb[a].preMB ELSE fmb[a].preUMB
End(a) == IF LinkUp(a) = NULL THEN KHEAP_SIZE ELSE At(LinkUp(a))
Start(a) == IF LinkDown(a) = NULL THEN -1 ELSE At(LinkDown(a))
LinkTo(n) == IF n \in Blocks THEN Link(n) ELSE NULL

\* The list of free blocks: what is linked behind x, a free block or -1 for the head.
LinkFree(x) == IF x = -1 THEN FMBlist ELSE fmb[x].nextFMB
EndFree(x) == IF LinkFree(x) = NULL THEN KHEAP_SIZE ELSE At(LinkFree(x))

HeapLinks == {NULL} \union {UMB(a) : a \in 0 .. KHEAP_SIZE - 1} \union {FMB(a) : a \in 0 .. KHEAP_SIZE - 1}

UsedHeads == [nextMB : HeapLinks, preMB : HeapLinks]
FreeHeads == [nextFMB : HeapLinks, nextUMB : HeapLinks, preUMB : HeapLinks]

HeapShape ==
  /\ DOMAIN umb \subseteq 0 .. KHEAP_SIZE - 1 /\ DOMAIN fmb \subseteq 0 .. KHEAP_SIZE - 1
  /\ DOMAIN umb \intersect DOMAIN fmb = {} /\ 0 \in Blocks
  /\ umb \in [DOMAIN umb -> UsedHeads]
  /\ fmb \in [DOMAIN fmb -> FreeHeads]
  /\ FMBlist \in HeapLinks
  /\ asked \in [DOMAIN umb -> Nat \ {0}]

\* Nothing lies between a block and the neighbour its link names.
Up(a) ==
  /\ End(a) \in Blocks \union {KHEAP_SIZE} /\ a < End(a)
  /\ \A c \in Blocks : c <= a \/ End(a) <= c
  /\ LinkUp(a) = LinkTo(End(a))
Down(a) ==
  /\ Start(a) \in Blocks \union {-1} /\ Start(a) < a
  /\ \A c \in Blocks : a <= c \/ c <= Start(a)
  /\ LinkDown(a) = LinkTo(Start(a))
FreeUp(x) ==
  /\ EndFree(x) \in DOMAIN fmb \union {KHEAP_SIZE} /\ x < EndFree(x)
  /\ \A c \in DOMAIN fmb : c <= x \/ EndFree(x) <= c
  /\ LinkFree(x) = IF EndFree(x) = KHEAP_SIZE THEN NULL ELSE FMB(EndFree(x))

HeapOrder ==
  /\ \A a \in Blocks : Up(a) /\ Down(a)
  /\ \A x \in DOMAIN fmb \union {-1} : FreeUp(x)
\* Every block has room for its header and what was asked for, and no two free ones
\* lie side by side.
HeapRoom ==
  /\ \A a \in DOMAIN umb : asked[a] + UmbHead <= End(a) - a
  /\ \A a \in DOMAIN fmb : FmbHead <= End(a) - a /\ End(a) \notin DOMAIN fmb

HeapInv == HeapShape /\ HeapOrder /\ HeapRoom

\* A link to a block is not NULL and says what it is made of.
LEMMA LinksTell ==
  ASSUME NEW a \in 0 .. KHEAP_SIZE - 1
  PROVE  /\ UMB(a) # NULL /\ FMB(a) # NULL /\ At(UMB(a)) = a /\ At(FMB(a)) = a
         /\ IsUMB(UMB(a)) /\ ~IsUMB(FMB(a)) /\ IsFMB(FMB(a)) /\ ~IsFMB(UMB(a))
         /\ UMB(a) \in HeapLinks /\ FMB(a) \in HeapLinks
<1>1. a \in 0 .. KHEAP_SIZE /\ a \in 0 .. KHEAP_SIZE - 1 BY HeapAssumption
<1>2. NULL # <<"U", a>> /\ NULL # <<"F", a>> BY <1>1, HeapAssumption
<1> QED BY <1>1, <1>2 DEF UMB, FMB, At, IsUMB, IsFMB, HeapLinks

\* NULL is a link to no block.
LEMMA NullTells == ~IsUMB(NULL) /\ ~IsFMB(NULL) /\ NULL \in HeapLinks
  BY DEF IsUMB, IsFMB, HeapLinks

\* A link names a block of the kind it says.
LEMMA LinkToTells ==
  ASSUME HeapShape, NEW n \in Int
  PROVE  /\ n \in Blocks => LinkTo(n) # NULL /\ At(LinkTo(n)) = n
         /\ n \notin Blocks => LinkTo(n) = NULL
         /\ LinkTo(n) \in HeapLinks
         /\ IsUMB(LinkTo(n)) <=> n \in DOMAIN umb
         /\ IsFMB(LinkTo(n)) <=> n \in DOMAIN fmb
<1>1. n \in Blocks => n \in 0 .. KHEAP_SIZE - 1 BY DEF HeapShape, Blocks
<1>2. CASE n \notin Blocks BY <1>2, NullTells DEF LinkTo, Blocks
<1>3. CASE n \in Blocks BY <1>1, <1>3, LinksTell DEF LinkTo, Link, Blocks, HeapShape
<1> QED BY <1>2, <1>3

\* What the order says of one block, with the kinds of all the addresses in it.
LEMMA InOrder ==
  ASSUME HeapInv, NEW a \in Blocks
  PROVE  /\ KHEAP_SIZE \in Int /\ a \in Int /\ 0 <= a /\ a < KHEAP_SIZE
         /\ End(a) \in Int /\ a < End(a) /\ End(a) <= KHEAP_SIZE
         /\ End(a) = KHEAP_SIZE \/ End(a) \in Blocks
         /\ Start(a) \in Int /\ Start(a) < a /\ -1 <= Start(a)
         /\ Start(a) = -1 \/ Start(a) \in Blocks
         /\ \A c \in Blocks : c \in Int /\ (c <= a \/ End(a) <= c) /\ (a <= c \/ c <= Start(a))
<1>1. KHEAP_SIZE \in Int BY HeapAssumption
<1>2. \A c \in Blocks : c \in Int /\ 0 <= c /\ c < KHEAP_SIZE
  BY <1>1 DEF HeapInv, HeapShape, Blocks
<1>3. Up(a) /\ Down(a) BY DEF HeapInv, HeapOrder
<1>4. End(a) = KHEAP_SIZE \/ End(a) \in Blocks BY <1>3 DEF Up
<1>5. Start(a) = -1 \/ Start(a) \in Blocks BY <1>3 DEF Down
<1>6. End(a) \in Int /\ End(a) <= KHEAP_SIZE BY <1>1, <1>2, <1>4
<1>7. Start(a) \in Int /\ -1 <= Start(a) BY <1>2, <1>5
<1>8. a < End(a) /\ Start(a) < a BY <1>3 DEF Up, Down
<1>9. \A c \in Blocks : (c <= a \/ End(a) <= c) /\ (a <= c \/ c <= Start(a)) BY <1>3 DEF Up, Down
<1> QED BY <1>1, <1>2, <1>4, <1>5, <1>6, <1>7, <1>8, <1>9

\* Neighbours name each other.
LEMMA NeighboursAgree ==
  ASSUME HeapInv, NEW a \in Blocks
  PROVE  /\ End(a) \in Blocks => Start(End(a)) = a
         /\ Start(a) \in Blocks => End(Start(a)) = a
         /\ a = 0 <=> Start(a) = -1
<1>1. ASSUME End(a) \in Blocks PROVE Start(End(a)) = a
  <2>1. a < End(a) /\ a \in Int /\ End(a) \in Int
        /\ \A c \in Blocks : c \in Int /\ (c <= a \/ End(a) <= c) BY InOrder
  <2>2. /\ Start(End(a)) \in Int /\ Start(End(a)) < End(a)
        /\ Start(End(a)) = -1 \/ Start(End(a)) \in Blocks
        /\ \A c \in Blocks : End(a) <= c \/ c <= Start(End(a))
    BY <1>1, InOrder
  <2>3. a <= Start(End(a)) BY <2>1, <2>2
  <2>4. 0 <= a BY InOrder
  <2> QED BY <2>1, <2>2, <2>3, <2>4
<1>2. ASSUME Start(a) \in Blocks PROVE End(Start(a)) = a
  <2>1. Start(a) < a /\ a \in Int /\ Start(a) \in Int /\ a < KHEAP_SIZE /\ KHEAP_SIZE \in Int
        /\ \A c \in Blocks : c \in Int /\ (a <= c \/ c <= Start(a)) BY InOrder
  <2>2. /\ End(Start(a)) \in Int /\ Start(a) < End(Start(a))
        /\ End(Start(a)) = KHEAP_SIZE \/ End(Start(a)) \in Blocks
        /\ \A c \in Blocks : c <= Start(a) \/ End(Start(a)) <= c
    BY <1>2, InOrder
  <2>3. End(Start(a)) <= a BY <2>1, <2>2
  <2> QED BY <2>1, <2>2, <2>3
<1>3. 0 \in Blocks BY DEF HeapInv, HeapShape
<1>4. a = 0 => Start(a) = -1 BY InOrder
<1>5. Start(a) = -1 => a = 0
  <2>1. 0 <= a /\ a \in Int /\ (a <= 0 \/ 0 <= Start(a)) BY <1>3, InOrder
  <2> QED BY <2>1
<1> QED BY <1>1, <1>2, <1>4, <1>5

\* The same for the list of free blocks, from one of them or from its head.
LEMMA FreeInOrder ==
  ASSUME HeapInv, NEW x \in DOMAIN fmb \union {-1}
  PROVE  /\ KHEAP_SIZE \in Int /\ x \in Int /\ -1 <= x /\ x < KHEAP_SIZE
         /\ EndFree(x) \in Int /\ x < EndFree(x) /\ EndFree(x) <= KHEAP_SIZE
         /\ EndFree(x) = KHEAP_SIZE \/ EndFree(x) \in DOMAIN fmb
         /\ EndFree(x) = KHEAP_SIZE <=> LinkFree(x) = NULL
         /\ LinkFree(x) = IF EndFree(x) = KHEAP_SIZE THEN NULL ELSE FMB(EndFree(x))
         /\ \A c \in DOMAIN fmb : c \in Int /\ 0 <= c /\ c < KHEAP_SIZE /\ (c <= x \/ EndFree(x) <= c)
<1>1. KHEAP_SIZE \in Int /\ 0 < KHEAP_SIZE BY HeapAssumption DEF FmbHead
<1>2. \A c \in DOMAIN fmb : c \in Int /\ 0 <= c /\ c < KHEAP_SIZE
  BY <1>1 DEF HeapInv, HeapShape
<1>3. FreeUp(x) BY DEF HeapInv, HeapOrder
<1>4. EndFree(x) = KHEAP_SIZE \/ EndFree(x) \in DOMAIN fmb BY <1>3 DEF FreeUp
<1>5. EndFree(x) \in Int /\ EndFree(x) <= KHEAP_SIZE BY <1>1, <1>2, <1>4
<1>6. x \in Int /\ -1 <= x /\ x < KHEAP_SIZE BY <1>1, <1>2
<1>7. x < EndFree(x) /\ \A c \in DOMAIN fmb : c <= x \/ EndFree(x) <= c BY <1>3 DEF FreeUp
<1>8. LinkFree(x) = IF EndFree(x) = KHEAP_SIZE THEN NULL ELSE FMB(EndFree(x)) BY <1>3 DEF FreeUp
<1>9. EndFree(x) = KHEAP_SIZE <=> LinkFree(x) = NULL
  <2>1. ASSUME NEW c \in DOMAIN fmb PROVE FMB(c) # NULL
    <3>1. c \in 0 .. KHEAP_SIZE - 1 BY <1>1, <1>2
    <3> QED BY <3>1, LinksTell
  <2>2. EndFree(x) \in DOMAIN fmb => FMB(EndFree(x)) # NULL BY <2>1
  <2>3. EndFree(x) \in DOMAIN fmb => EndFree(x) # KHEAP_SIZE BY <1>1, <1>2
  <2> QED BY <1>4, <1>8, <2>2, <2>3
<1> QED BY <1>1, <1>2, <1>4, <1>5, <1>6, <1>7, <1>8, <1>9

\* After a step: what a link is, and so where it leads.
LEMMA UpAgain ==
  ASSUME HeapShape', NEW c, NEW e \in Int, e \in Blocks' \/ e = KHEAP_SIZE, c < e,
         \A d \in Blocks' : d <= c \/ e <= d,
         LinkUp(c)' = IF e \in DOMAIN umb' THEN UMB(e) ELSE IF e \in DOMAIN fmb' THEN FMB(e) ELSE NULL
  PROVE  Up(c)' /\ End(c)' = e
<1>1. KHEAP_SIZE \in Int BY HeapAssumption
<1>2. \A d \in Blocks' : d \in 0 .. KHEAP_SIZE - 1 BY DEF HeapShape, Blocks
<1>3. End(c)' = e
  <2>1. CASE e \in Blocks'
    <3>1. LinkUp(c)' # NULL /\ At(LinkUp(c)') = e BY <1>2, <2>1, LinksTell DEF Blocks
    <3> QED BY <3>1 DEF End
  <2>2. CASE e \notin Blocks'
    <3>1. LinkUp(c)' = NULL /\ e = KHEAP_SIZE BY <2>2 DEF Blocks
    <3> QED BY <3>1 DEF End
  <2> QED BY <2>1, <2>2
<1>4. LinkUp(c)' = LinkTo(End(c))' BY <1>3 DEF LinkTo, Link, Blocks
<1> QED BY <1>3, <1>4 DEF Up

\* The same for the link down.
LEMMA DownAgain ==
  ASSUME HeapShape', NEW c, NEW e \in Int, e \in Blocks' \/ e = -1, e < c,
         \A d \in Blocks' : c <= d \/ d <= e,
         LinkDown(c)' = IF e \in DOMAIN umb' THEN UMB(e) ELSE IF e \in DOMAIN fmb' THEN FMB(e) ELSE NULL
  PROVE  Down(c)' /\ Start(c)' = e
<1>2. \A d \in Blocks' : d \in 0 .. KHEAP_SIZE - 1 BY DEF HeapShape, Blocks
<1>3. Start(c)' = e
  <2>1. CASE e \in Blocks'
    <3>1. LinkDown(c)' # NULL /\ At(LinkDown(c)') = e BY <1>2, <2>1, LinksTell DEF Blocks
    <3> QED BY <3>1 DEF Start
  <2>2. CASE e \notin Blocks'
    <3>1. LinkDown(c)' = NULL /\ e = -1 BY <2>2 DEF Blocks
    <3> QED BY <3>1 DEF Start
  <2> QED BY <2>1, <2>2
<1>4. LinkDown(c)' = LinkTo(Start(c))' BY <1>3 DEF LinkTo, Link, Blocks
<1> QED BY <1>3, <1>4 DEF Down

\* The same for the list.
LEMMA FreeUpAgain ==
  ASSUME HeapShape', NEW x, NEW e \in Int, e \in DOMAIN fmb' \/ e = KHEAP_SIZE, x < e,
         \A d \in DOMAIN fmb' : d <= x \/ e <= d,
         LinkFree(x)' = IF e = KHEAP_SIZE THEN NULL ELSE FMB(e)
  PROVE  FreeUp(x)' /\ EndFree(x)' = e
<1>2. \A d \in DOMAIN fmb' : d \in 0 .. KHEAP_SIZE - 1 BY DEF HeapShape
<1>3. EndFree(x)' = e
  <2>1. CASE e = KHEAP_SIZE BY <2>1 DEF EndFree
  <2>2. CASE e # KHEAP_SIZE
    <3>1. LinkFree(x)' # NULL /\ At(LinkFree(x)') = e BY <1>2, <2>2, LinksTell
    <3> QED BY <3>1 DEF EndFree
  <2> QED BY <2>1, <2>2
<1> QED BY <1>3 DEF FreeUp

\* What Tell writes: the neighbours s and n, where they are used blocks.
LEMMA TellWrites ==
  ASSUME HeapShape, NEW D, NEW v \in [D -> UsedHeads],
         NEW s \in Int, NEW n \in Int, NEW here \in HeapLinks,
         s \in DOMAIN umb => s \in D, n \in DOMAIN umb => n \in D,
         NEW told, told = Tell(v, LinkTo(s), LinkTo(n), here)
  PROVE  /\ told \in [D -> UsedHeads]
         /\ \A c \in D : /\ told[c].nextMB = IF c = s /\ s \in DOMAIN umb THEN here ELSE v[c].nextMB
                         /\ told[c].preMB = IF c = n /\ n \in DOMAIN umb THEN here ELSE v[c].preMB
<1> DEFINE one == IF IsUMB(LinkTo(s)) THEN [v EXCEPT ![At(LinkTo(s))].nextMB = here] ELSE v
<1>0. told = IF IsUMB(LinkTo(n)) THEN [one EXCEPT ![At(LinkTo(n))].preMB = here] ELSE one BY DEF Tell
<1>1. /\ IsUMB(LinkTo(s)) <=> s \in DOMAIN umb
      /\ s \in DOMAIN umb => At(LinkTo(s)) = s
  BY LinkToTells DEF Blocks
<1>2. /\ IsUMB(LinkTo(n)) <=> n \in DOMAIN umb
      /\ n \in DOMAIN umb => At(LinkTo(n)) = n
  BY LinkToTells DEF Blocks
<1>3. \A h \in UsedHeads : [h EXCEPT !.nextMB = here] \in UsedHeads /\ [h EXCEPT !.nextMB = here].nextMB = here
                      /\ [h EXCEPT !.nextMB = here].preMB = h.preMB
  BY DEF UsedHeads
<1>4. \A h \in UsedHeads : [h EXCEPT !.preMB = here] \in UsedHeads /\ [h EXCEPT !.preMB = here].preMB = here
                      /\ [h EXCEPT !.preMB = here].nextMB = h.nextMB
  BY DEF UsedHeads
<1>5. v \in [D -> UsedHeads] OBVIOUS
<1>6. /\ one \in [D -> UsedHeads]
      /\ \A c \in D : /\ one[c].nextMB = IF c = s /\ s \in DOMAIN umb THEN here ELSE v[c].nextMB
                      /\ one[c].preMB = v[c].preMB
  <2>1. CASE s \in DOMAIN umb
    <3>1. one = [v EXCEPT ![s] = [v[s] EXCEPT !.nextMB = here]] /\ s \in D BY <1>1, <2>1
    <3> HIDE DEF one
    <3> QED BY <1>3, <1>5, <2>1, <3>1
  <2>2. CASE s \notin DOMAIN umb
    <3>1. one = v BY <1>1, <2>2
    <3> HIDE DEF one
    <3> QED BY <1>5, <2>2, <3>1
  <2> QED BY <2>1, <2>2
<1>7. /\ told \in [D -> UsedHeads]
      /\ \A c \in D : /\ told[c].nextMB = one[c].nextMB
                      /\ told[c].preMB = IF c = n /\ n \in DOMAIN umb THEN here ELSE one[c].preMB
  <2> HIDE DEF one
  <2>1. CASE n \in DOMAIN umb
    <3>1. told = [one EXCEPT ![n] = [one[n] EXCEPT !.preMB = here]] /\ n \in D BY <1>0, <1>2, <2>1
    <3> QED BY <1>4, <1>6, <2>1, <3>1
  <2>2. CASE n \notin DOMAIN umb
    <3>1. told = one BY <1>0, <1>2, <2>2
    <3> QED BY <1>6, <2>2, <3>1
  <2> QED BY <2>1, <2>2
<1> HIDE DEF one
<1> QED BY <1>6, <1>7

\* What SetLink and SetFirst write: one link of the list.
LEMMA SetLinkWrites ==
  ASSUME HeapShape, NEW x \in DOMAIN fmb \union {-1}, NEW p \in HeapLinks,
         NEW pre, pre = IF x = -1 THEN NULL ELSE FMB(x), NEW set, set = SetLink(fmb, pre, p)
  PROVE  /\ set \in [DOMAIN fmb -> FreeHeads]
         /\ \A c \in DOMAIN fmb : /\ set[c].nextFMB = IF c = x THEN p ELSE fmb[c].nextFMB
                                  /\ set[c].nextUMB = fmb[c].nextUMB /\ set[c].preUMB = fmb[c].preUMB
         /\ SetFirst(pre, p) = IF x = -1 THEN p ELSE FMBlist
<1>1. fmb \in [DOMAIN fmb -> FreeHeads] BY DEF HeapShape
<1>2. \A c \in DOMAIN fmb : c \in 0 .. KHEAP_SIZE - 1 BY DEF HeapShape
<1>3. -1 \notin DOMAIN fmb BY <1>2
<1>4. \A h \in FreeHeads : /\ [h EXCEPT !.nextFMB = p] \in FreeHeads /\ [h EXCEPT !.nextFMB = p].nextFMB = p
                           /\ [h EXCEPT !.nextFMB = p].nextUMB = h.nextUMB
                           /\ [h EXCEPT !.nextFMB = p].preUMB = h.preUMB
  BY DEF FreeHeads
<1>5. CASE x = -1
  <2>1. set = fmb /\ SetFirst(pre, p) = p BY <1>5 DEF SetLink, SetFirst
  <2> QED BY <1>1, <1>3, <1>5, <2>1
<1>6. CASE x # -1
  <2>1. x \in DOMAIN fmb /\ x \in 0 .. KHEAP_SIZE - 1 BY <1>2, <1>6
  <2>2. pre # NULL /\ At(pre) = x BY <1>6, <2>1, LinksTell
  <2>3. set = [fmb EXCEPT ![x] = [fmb[x] EXCEPT !.nextFMB = p]] BY <2>2 DEF SetLink
  <2>4. SetFirst(pre, p) = FMBlist BY <2>2 DEF SetFirst
  <2>5. set \in [DOMAIN fmb -> FreeHeads] /\ \A c \in DOMAIN fmb :
          /\ set[c].nextFMB = IF c = x THEN p ELSE fmb[c].nextFMB
          /\ set[c].nextUMB = fmb[c].nextUMB /\ set[c].preUMB = fmb[c].preUMB
    <3> QED BY <1>1, <1>4, <2>1, <2>3
  <2> QED BY <1>6, <2>4, <2>5
<1> QED BY <1>5, <1>6

\* What a free block's header says of its neighbours, which are used ones.
LEMMA AroundFree ==
  ASSUME HeapInv, NEW a \in DOMAIN fmb
  PROVE  /\ a \in Blocks /\ a \notin DOMAIN umb /\ a \in 0 .. KHEAP_SIZE - 1
         /\ fmb[a].nextUMB = LinkTo(End(a)) /\ fmb[a].preUMB = LinkTo(Start(a))
         /\ End(a) \notin DOMAIN fmb /\ Start(a) \notin DOMAIN fmb
         /\ fmb[a].nextFMB = LinkFree(a)
         /\ fmb[a] \in FreeHeads
         /\ FmbHead <= End(a) - a
<1>1. a \in Blocks /\ a \notin DOMAIN umb /\ a \in 0 .. KHEAP_SIZE - 1 BY DEF HeapInv, HeapShape, Blocks
<1>2. Up(a) /\ Down(a) BY <1>1 DEF HeapInv, HeapOrder
<1>3. fmb[a].nextUMB = LinkTo(End(a)) /\ fmb[a].preUMB = LinkTo(Start(a))
  BY <1>1, <1>2 DEF Up, Down, LinkUp, LinkDown
<1>4. FmbHead <= End(a) - a /\ End(a) \notin DOMAIN fmb BY DEF HeapInv, HeapRoom
<1>5. Start(a) \notin DOMAIN fmb
  <2> SUFFICES ASSUME Start(a) \in DOMAIN fmb PROVE FALSE OBVIOUS
  <2>1. Start(a) \in Blocks BY DEF Blocks
  <2>2. End(Start(a)) = a BY <1>1, <2>1, NeighboursAgree
  <2> QED BY <2>2 DEF HeapInv, HeapRoom
<1>6. fmb[a].nextFMB = LinkFree(a)
  <2>1. a # -1 BY <1>1
  <2> QED BY <2>1 DEF LinkFree
<1>7. fmb[a] \in FreeHeads BY DEF HeapInv, HeapShape
<1> QED BY <1>1, <1>3, <1>4, <1>5, <1>6, <1>7

\* A free block given away whole: the order stays, its neighbours and the list turn.
LEMMA WholeKeeps ==
  ASSUME HeapInv, NEW a \in DOMAIN fmb, NEW x \in DOMAIN fmb \union {-1}, EndFree(x) = a,
         NEW words \in Nat \ {0}, words + UmbHead <= End(a) - a,
         fmb' = Without(SetLink(fmb, IF x = -1 THEN NULL ELSE FMB(x), fmb[a].nextFMB), {a}),
         FMBlist' = SetFirst(IF x = -1 THEN NULL ELSE FMB(x), fmb[a].nextFMB),
         umb' = With(Tell(umb, fmb[a].preUMB, fmb[a].nextUMB, UMB(a)), a,
                     [nextMB |-> fmb[a].nextUMB, preMB |-> fmb[a].preUMB]),
         asked' = With(asked, a, words)
  PROVE  HeapInv'
<1> DEFINE told == Tell(umb, fmb[a].preUMB, fmb[a].nextUMB, UMB(a))
           set == SetLink(fmb, IF x = -1 THEN NULL ELSE FMB(x), fmb[a].nextFMB)
<1>0. HeapShape BY DEF HeapInv
<1>1. /\ a \in Blocks /\ a \notin DOMAIN umb /\ a \in 0 .. KHEAP_SIZE - 1
      /\ fmb[a].nextUMB = LinkTo(End(a)) /\ fmb[a].preUMB = LinkTo(Start(a))
      /\ End(a) \notin DOMAIN fmb /\ Start(a) \notin DOMAIN fmb
      /\ fmb[a].nextFMB = LinkFree(a)
      /\ fmb[a] \in FreeHeads
  BY AroundFree
<1>2. a \in Int /\ End(a) \in Int /\ Start(a) \in Int BY <1>1, InOrder
<1>3. UMB(a) \in HeapLinks BY <1>1, LinksTell
<1>4. /\ told \in [DOMAIN umb -> UsedHeads]
      /\ \A c \in DOMAIN umb :
           /\ told[c].nextMB = IF c = Start(a) THEN UMB(a) ELSE umb[c].nextMB
           /\ told[c].preMB = IF c = End(a) THEN UMB(a) ELSE umb[c].preMB
  <2>1. umb \in [DOMAIN umb -> UsedHeads] BY <1>0 DEF HeapShape
  <2>2. told = Tell(umb, LinkTo(Start(a)), LinkTo(End(a)), UMB(a)) BY <1>1
  <2>3. /\ told \in [DOMAIN umb -> UsedHeads]
        /\ \A c \in DOMAIN umb :
             /\ told[c].nextMB = IF c = Start(a) /\ Start(a) \in DOMAIN umb THEN UMB(a) ELSE umb[c].nextMB
             /\ told[c].preMB = IF c = End(a) /\ End(a) \in DOMAIN umb THEN UMB(a) ELSE umb[c].preMB
    <3> HIDE DEF told
    <3> QED BY <1>0, <1>2, <1>3, <2>1, <2>2, TellWrites
  <2> HIDE DEF told
  <2> QED BY <2>3
<1>5. /\ set \in [DOMAIN fmb -> FreeHeads]
      /\ \A c \in DOMAIN fmb : /\ set[c].nextFMB = IF c = x THEN LinkFree(a) ELSE fmb[c].nextFMB
                               /\ set[c].nextUMB = fmb[c].nextUMB /\ set[c].preUMB = fmb[c].preUMB
      /\ FMBlist' = IF x = -1 THEN LinkFree(a) ELSE FMBlist
  <2>1. fmb[a].nextFMB \in HeapLinks BY <1>1 DEF FreeHeads
  <2>2. FMBlist' = SetFirst(IF x = -1 THEN NULL ELSE FMB(x), fmb[a].nextFMB) OBVIOUS
  <2> QED BY <1>0, <1>1, <2>1, <2>2, SetLinkWrites
<1> HIDE DEF told, set
<1>6. /\ DOMAIN umb' = DOMAIN umb \union {a}
      /\ \A c \in DOMAIN umb : umb'[c] = told[c]
      /\ umb'[a] = [nextMB |-> LinkTo(End(a)), preMB |-> LinkTo(Start(a))]
  BY <1>1, <1>4 DEF With, told
<1>7. DOMAIN fmb' = DOMAIN fmb \ {a} /\ \A c \in DOMAIN fmb \ {a} : fmb'[c] = set[c]
  BY <1>5 DEF Without, set
<1>8. Blocks' = Blocks BY <1>1, <1>6, <1>7 DEF Blocks
<1>9. DOMAIN asked' = DOMAIN umb \union {a} /\ asked'[a] = words /\ \A c \in DOMAIN umb : asked'[c] = asked[c]
  BY <1>0, <1>1 DEF With, HeapShape
<1>10. HeapShape'
  <2>1. LinkTo(End(a)) \in HeapLinks /\ LinkTo(Start(a)) \in HeapLinks BY <1>0, <1>2, LinkToTells
  <2>2. umb' \in [DOMAIN umb' -> UsedHeads]
    <3>1. umb' = [c \in DOMAIN umb' |-> umb'[c]] BY DEF With
    <3> QED BY <1>4, <1>6, <2>1, <3>1 DEF UsedHeads
  <2>3. fmb' \in [DOMAIN fmb' -> FreeHeads]
    <3>1. fmb' = [c \in DOMAIN fmb' |-> fmb'[c]] BY DEF Without
    <3>2. \A c \in DOMAIN fmb' : fmb'[c] = set[c] /\ c \in DOMAIN fmb BY <1>7
    <3>3. \A c \in DOMAIN fmb' : fmb'[c] \in FreeHeads
      BY <1>5, <3>2
    <3> QED BY <3>1, <3>3
  <2>4. FMBlist' \in HeapLinks BY <1>0, <1>1, <1>5 DEF HeapShape, FreeHeads
  <2>5. asked' \in [DOMAIN umb' -> Nat \ {0}]
    <3>1. asked' = [c \in DOMAIN asked' |-> asked'[c]] BY DEF With
    <3> QED BY <1>0, <1>6, <1>9, <3>1 DEF HeapShape
  <2>6. UsedHeads' = UsedHeads /\ FreeHeads' = FreeHeads /\ HeapLinks' = HeapLinks
    BY DEF UsedHeads, FreeHeads, HeapLinks
  <2> QED BY <1>0, <1>1, <1>6, <1>7, <1>8, <2>2, <2>3, <2>4, <2>5, <2>6 DEF HeapShape
<1>11. ASSUME NEW n \in Int
       PROVE  (IF n \in DOMAIN umb' THEN UMB(n) ELSE IF n \in DOMAIN fmb' THEN FMB(n) ELSE NULL)
                = IF n = a THEN UMB(a) ELSE LinkTo(n)
  BY <1>0, <1>1, <1>6, <1>7 DEF LinkTo, Link, Blocks, HeapShape
<1>12. ASSUME NEW c \in Blocks PROVE Up(c)' /\ End(c)' = End(c) /\ Down(c)' /\ Start(c)' = Start(c)
  <2>1. /\ c \in Int /\ c < End(c) /\ Start(c) < c /\ End(c) \in Int /\ Start(c) \in Int
        /\ End(c) = KHEAP_SIZE \/ End(c) \in Blocks
        /\ Start(c) = -1 \/ Start(c) \in Blocks
        /\ \A d \in Blocks : (d <= c \/ End(c) <= d) /\ (c <= d \/ d <= Start(c))
    BY InOrder
  <2>2. /\ End(c) = a <=> c = Start(a)
        /\ Start(c) = a <=> c = End(a)
    BY <1>1, <2>1, NeighboursAgree
  <2>3. LinkUp(c) = LinkTo(End(c)) /\ LinkDown(c) = LinkTo(Start(c)) BY DEF HeapInv, HeapOrder, Up, Down
  <2>4. LinkUp(c)' = (IF End(c) = a THEN UMB(a) ELSE LinkTo(End(c)))
        /\ LinkDown(c)' = (IF Start(c) = a THEN UMB(a) ELSE LinkTo(Start(c)))
    <3>1. CASE c = a
      <4>1. End(c) # a /\ Start(c) # a BY <3>1, <1>1, <1>2, <2>1
      <4> QED BY <1>6, <3>1, <4>1 DEF LinkUp, LinkDown
    <3>2. CASE c \in DOMAIN umb
      <4>1. c \in DOMAIN umb' /\ umb'[c] = told[c] BY <1>6, <3>2
      <4>2. umb[c].nextMB = LinkTo(End(c)) /\ umb[c].preMB = LinkTo(Start(c)) BY <2>3, <3>2 DEF LinkUp, LinkDown
      <4> QED BY <1>4, <2>2, <3>2, <4>1, <4>2 DEF LinkUp, LinkDown
    <3>3. CASE c \in DOMAIN fmb /\ c # a
      <4>1. c \notin DOMAIN umb /\ c \notin DOMAIN umb' /\ fmb'[c] = set[c]
        BY <1>0, <1>6, <1>7, <3>3 DEF HeapShape
      <4>2. fmb[c].nextUMB = LinkTo(End(c)) /\ fmb[c].preUMB = LinkTo(Start(c)) /\ End(c) # a /\ Start(c) # a
        BY <3>3, AroundFree
      <4> QED BY <1>5, <3>3, <4>1, <4>2 DEF LinkUp, LinkDown
    <3> QED BY <3>1, <3>2, <3>3 DEF Blocks
  <2>5. LinkUp(c)' = IF End(c) \in DOMAIN umb' THEN UMB(End(c)) ELSE IF End(c) \in DOMAIN fmb' THEN FMB(End(c)) ELSE NULL
    BY <1>11, <2>1, <2>4
  <2>6. LinkDown(c)' = IF Start(c) \in DOMAIN umb' THEN UMB(Start(c)) ELSE IF Start(c) \in DOMAIN fmb' THEN FMB(Start(c)) ELSE NULL
    BY <1>11, <2>1, <2>4
  <2>7. Up(c)' /\ End(c)' = End(c) BY <1>8, <1>10, <2>1, <2>5, UpAgain
  <2>8. Down(c)' /\ Start(c)' = Start(c) BY <1>8, <1>10, <2>1, <2>6, DownAgain
  <2> QED BY <2>7, <2>8
<1>13. ASSUME NEW y \in DOMAIN fmb' \union {-1} PROVE FreeUp(y)'
  <2>0. y \in DOMAIN fmb \union {-1} /\ y # a BY <1>1, <1>7
  <2>1. /\ y \in Int /\ EndFree(y) \in Int /\ y < EndFree(y)
        /\ EndFree(y) = KHEAP_SIZE \/ EndFree(y) \in DOMAIN fmb
        /\ LinkFree(y) = IF EndFree(y) = KHEAP_SIZE THEN NULL ELSE FMB(EndFree(y))
        /\ \A d \in DOMAIN fmb : d \in Int /\ (d <= y \/ EndFree(y) <= d)
    BY <2>0, FreeInOrder
  <2>2. /\ EndFree(a) \in Int /\ a < EndFree(a)
        /\ EndFree(a) = KHEAP_SIZE \/ EndFree(a) \in DOMAIN fmb
        /\ LinkFree(a) = IF EndFree(a) = KHEAP_SIZE THEN NULL ELSE FMB(EndFree(a))
        /\ \A d \in DOMAIN fmb : d <= a \/ EndFree(a) <= d
    BY FreeInOrder
  <2>3. LinkFree(y)' = IF y = x THEN LinkFree(a) ELSE LinkFree(y)
    <3>1. CASE y = -1 BY <1>5, <3>1 DEF LinkFree
    <3>2. CASE y # -1
      <4>1. y \in DOMAIN fmb \ {a} BY <2>0, <3>2
      <4> QED BY <1>5, <1>7, <3>2, <4>1 DEF LinkFree
    <3> QED BY <3>1, <3>2
  <2>4. CASE y = x
    <3>1. y < EndFree(a) BY <1>2, <2>1, <2>2, <2>4
    <3>2. \A d \in DOMAIN fmb' : d <= y \/ EndFree(a) <= d BY <1>2, <1>7, <2>1, <2>2, <2>4
    <3>3. EndFree(a) \in DOMAIN fmb' \/ EndFree(a) = KHEAP_SIZE BY <1>2, <1>7, <2>2
    <3> QED BY <1>10, <2>2, <2>3, <2>4, <3>1, <3>2, <3>3, FreeUpAgain
  <2>5. CASE y # x
    <3>1. EndFree(y) # a
      <4>1. /\ x \in Int /\ x < a
            /\ \A d \in DOMAIN fmb : d <= x \/ a <= d
        BY FreeInOrder
      <4>2. y = -1 => x \in DOMAIN fmb BY <2>5
      <4>3. SUFFICES ASSUME EndFree(y) = a PROVE FALSE OBVIOUS
      <4>4. y \in DOMAIN fmb => y <= x BY <1>2, <2>1, <4>1, <4>3
      <4>5. x \in DOMAIN fmb => x <= y BY <1>2, <2>1, <4>1, <4>3
      <4>6. -1 <= x /\ -1 <= y BY <2>0, FreeInOrder
      <4> QED BY <2>0, <2>1, <2>5, <4>1, <4>4, <4>5, <4>6
    <3>2. EndFree(y) \in DOMAIN fmb' \/ EndFree(y) = KHEAP_SIZE BY <1>7, <2>1, <3>1
    <3>3. \A d \in DOMAIN fmb' : d <= y \/ EndFree(y) <= d BY <1>7, <2>1
    <3> QED BY <1>10, <2>1, <2>3, <2>5, <3>2, <3>3, FreeUpAgain
  <2> QED BY <2>4, <2>5
<1>14. HeapRoom'
  <2>1. \A c \in DOMAIN umb : asked[c] + UmbHead <= End(c) - c BY DEF HeapInv, HeapRoom
  <2>2. \A c \in DOMAIN umb : c \in Blocks BY DEF Blocks
  <2>3. \A c \in DOMAIN umb' : asked'[c] + UmbHead <= End(c)' - c
    BY <1>1, <1>6, <1>9, <1>12, <2>1, <2>2
  <2>4. \A c \in DOMAIN fmb : FmbHead <= End(c) - c /\ End(c) \notin DOMAIN fmb BY DEF HeapInv, HeapRoom
  <2>5. \A c \in DOMAIN fmb' : FmbHead <= End(c)' - c /\ End(c)' \notin DOMAIN fmb'
    BY <1>7, <1>12, <2>4 DEF Blocks
  <2> QED BY <2>3, <2>5 DEF HeapRoom
<1>15. HeapOrder' BY <1>8, <1>12, <1>13 DEF HeapOrder
<1> QED BY <1>10, <1>14, <1>15 DEF HeapInv

\* A free block of which the first part is given away: a new one starts at r.
LEMMA SplitKeeps ==
  ASSUME HeapInv, NEW a \in DOMAIN fmb, NEW x \in DOMAIN fmb \union {-1}, EndFree(x) = a,
         NEW words \in Nat \ {0}, NEW r \in Int, r = a + words + UmbHead, FmbHead <= End(a) - r,
         fmb' = With(Without(SetLink(fmb, IF x = -1 THEN NULL ELSE FMB(x), FMB(r)), {a}), r,
                     [fmb[a] EXCEPT !.preUMB = UMB(a)]),
         FMBlist' = SetFirst(IF x = -1 THEN NULL ELSE FMB(x), FMB(r)),
         umb' = With(Tell(Tell(umb, NULL, fmb[a].nextUMB, FMB(r)), fmb[a].preUMB, NULL, UMB(a)), a,
                     [nextMB |-> FMB(r), preMB |-> fmb[a].preUMB]),
         asked' = With(asked, a, words)
  PROVE  HeapInv'
<1> DEFINE half == Tell(umb, NULL, fmb[a].nextUMB, FMB(r))
           told == Tell(half, fmb[a].preUMB, NULL, UMB(a))
           set == SetLink(fmb, IF x = -1 THEN NULL ELSE FMB(x), FMB(r))
           rest == [fmb[a] EXCEPT !.preUMB = UMB(a)]
<1>0. HeapShape BY DEF HeapInv
<1>1. /\ a \in Blocks /\ a \notin DOMAIN umb /\ a \in 0 .. KHEAP_SIZE - 1
      /\ fmb[a].nextUMB = LinkTo(End(a)) /\ fmb[a].preUMB = LinkTo(Start(a))
      /\ End(a) \notin DOMAIN fmb /\ Start(a) \notin DOMAIN fmb
      /\ fmb[a].nextFMB = LinkFree(a)
      /\ fmb[a] \in FreeHeads
  BY AroundFree
<1>2. /\ a \in Int /\ End(a) \in Int /\ Start(a) \in Int /\ Start(a) < a /\ End(a) <= KHEAP_SIZE
      /\ KHEAP_SIZE \in Int /\ -1 <= Start(a) /\ 0 <= a
      /\ End(a) = KHEAP_SIZE \/ End(a) \in Blocks
      /\ Start(a) = -1 \/ Start(a) \in Blocks
      /\ \A d \in Blocks : d \in Int /\ (d <= a \/ End(a) <= d) /\ (a <= d \/ d <= Start(a))
  BY <1>1, InOrder
<1>r. /\ a < r /\ r < End(a) /\ r # a /\ r \notin Blocks /\ r \notin DOMAIN umb /\ r \notin DOMAIN fmb
      /\ r \in 0 .. KHEAP_SIZE - 1 /\ r # -1 /\ r # KHEAP_SIZE
  <2>1. a < r /\ r < End(a) BY <1>2 DEF UmbHead, FmbHead
  <2>2. r \notin Blocks BY <1>2, <2>1
  <2> QED BY <1>2, <2>1, <2>2 DEF Blocks
<1>3. UMB(a) \in HeapLinks /\ FMB(r) \in HeapLinks BY <1>1, <1>r, LinksTell
<1>m. PICK m \in Int : m \notin DOMAIN umb /\ LinkTo(m) = NULL
  <2>1. -1 \notin Blocks /\ -1 \in Int BY <1>0 DEF HeapShape, Blocks
  <2> QED BY <2>1 DEF LinkTo, Blocks
<1>h. /\ half \in [DOMAIN umb -> UsedHeads]
      /\ \A c \in DOMAIN umb : /\ half[c].nextMB = umb[c].nextMB
                               /\ half[c].preMB = IF c = End(a) THEN FMB(r) ELSE umb[c].preMB
  <2>1. umb \in [DOMAIN umb -> UsedHeads] BY <1>0 DEF HeapShape
  <2>2. half = Tell(umb, LinkTo(m), LinkTo(End(a)), FMB(r)) BY <1>1, <1>m
  <2>4. /\ half \in [DOMAIN umb -> UsedHeads]
        /\ \A c \in DOMAIN umb :
             /\ half[c].nextMB = IF c = m /\ m \in DOMAIN umb THEN FMB(r) ELSE umb[c].nextMB
             /\ half[c].preMB = IF c = End(a) /\ End(a) \in DOMAIN umb THEN FMB(r) ELSE umb[c].preMB
    <3> HIDE DEF half
    <3> QED BY <1>0, <1>2, <1>3, <1>m, <2>1, <2>2, TellWrites
  <2> HIDE DEF half
  <2> QED BY <1>m, <2>4
<1> HIDE DEF half
<1>4. /\ told \in [DOMAIN umb -> UsedHeads]
      /\ \A c \in DOMAIN umb :
           /\ told[c].nextMB = IF c = Start(a) THEN UMB(a) ELSE umb[c].nextMB
           /\ told[c].preMB = IF c = End(a) THEN FMB(r) ELSE umb[c].preMB
  <2>2. told = Tell(half, LinkTo(Start(a)), LinkTo(m), UMB(a)) BY <1>1, <1>m
  <2>4. /\ told \in [DOMAIN umb -> UsedHeads]
        /\ \A c \in DOMAIN umb :
             /\ told[c].nextMB = IF c = Start(a) /\ Start(a) \in DOMAIN umb THEN UMB(a) ELSE half[c].nextMB
             /\ told[c].preMB = IF c = m /\ m \in DOMAIN umb THEN UMB(a) ELSE half[c].preMB
    <3> HIDE DEF told
    <3> QED BY <1>0, <1>2, <1>3, <1>m, <1>h, <2>2, TellWrites
  <2> HIDE DEF told
  <2> QED BY <1>h, <1>m, <2>4
<1>5. /\ set \in [DOMAIN fmb -> FreeHeads]
      /\ \A c \in DOMAIN fmb : /\ set[c].nextFMB = IF c = x THEN FMB(r) ELSE fmb[c].nextFMB
                               /\ set[c].nextUMB = fmb[c].nextUMB /\ set[c].preUMB = fmb[c].preUMB
      /\ FMBlist' = IF x = -1 THEN FMB(r) ELSE FMBlist
  <2>1. PICK pre : pre = IF x = -1 THEN NULL ELSE FMB(x) OBVIOUS
  <2>2. FMBlist' = SetFirst(pre, FMB(r)) /\ set = SetLink(fmb, pre, FMB(r)) BY <2>1
  <2> HIDE DEF set
  <2>3. PICK p \in HeapLinks : p = FMB(r) BY <1>3
  <2>4. FMBlist' = SetFirst(pre, p) /\ set = SetLink(fmb, pre, p) BY <2>2, <2>3
  <2>5. /\ set \in [DOMAIN fmb -> FreeHeads]
        /\ \A c \in DOMAIN fmb : /\ set[c].nextFMB = IF c = x THEN p ELSE fmb[c].nextFMB
                                 /\ set[c].nextUMB = fmb[c].nextUMB /\ set[c].preUMB = fmb[c].preUMB
        /\ SetFirst(pre, p) = IF x = -1 THEN p ELSE FMBlist
    BY <1>0, <2>1, <2>4, SetLinkWrites
  <2> QED BY <2>3, <2>4, <2>5
<1>t. rest \in FreeHeads /\ rest.nextFMB = LinkFree(a) /\ rest.nextUMB = LinkTo(End(a)) /\ rest.preUMB = UMB(a)
  BY <1>1, <1>3 DEF FreeHeads
<1> HIDE DEF told, set, rest
<1>6. /\ DOMAIN umb' = DOMAIN umb \union {a}
      /\ \A c \in DOMAIN umb : umb'[c] = told[c]
      /\ umb'[a] = [nextMB |-> FMB(r), preMB |-> LinkTo(Start(a))]
  BY <1>1, <1>4 DEF With, told, half
<1>7. /\ DOMAIN fmb' = (DOMAIN fmb \ {a}) \union {r}
      /\ \A c \in DOMAIN fmb \ {a} : fmb'[c] = set[c]
      /\ fmb'[r] = rest
  <2>1. fmb' = With(Without(set, {a}), r, rest) BY DEF set, rest
  <2>2. DOMAIN Without(set, {a}) = DOMAIN fmb \ {a} /\ \A c \in DOMAIN fmb \ {a} : Without(set, {a})[c] = set[c]
    BY <1>5 DEF Without
  <2> QED BY <1>r, <2>1, <2>2 DEF With
<1>8. Blocks' = Blocks \union {r} BY <1>1, <1>6, <1>7 DEF Blocks
<1>9. DOMAIN asked' = DOMAIN umb \union {a} /\ asked'[a] = words /\ \A c \in DOMAIN umb : asked'[c] = asked[c]
  BY <1>0, <1>1 DEF With, HeapShape
<1>10. HeapShape'
  <2>1. LinkTo(Start(a)) \in HeapLinks BY <1>0, <1>2, LinkToTells
  <2>2. umb' \in [DOMAIN umb' -> UsedHeads]
    <3>1. umb' = [c \in DOMAIN umb' |-> umb'[c]] BY DEF With
    <3> QED BY <1>3, <1>4, <1>6, <2>1, <3>1 DEF UsedHeads
  <2>3. fmb' \in [DOMAIN fmb' -> FreeHeads]
    <3>1. fmb' = [c \in DOMAIN fmb' |-> fmb'[c]] BY DEF With
    <3>3. \A c \in DOMAIN fmb' : fmb'[c] \in FreeHeads BY <1>5, <1>7, <1>t
    <3> QED BY <3>1, <3>3
  <2>4. FMBlist' \in HeapLinks BY <1>0, <1>3, <1>5 DEF HeapShape
  <2>5. asked' \in [DOMAIN umb' -> Nat \ {0}]
    <3>1. asked' = [c \in DOMAIN asked' |-> asked'[c]] BY DEF With
    <3> QED BY <1>0, <1>6, <1>9, <3>1 DEF HeapShape
  <2>6. UsedHeads' = UsedHeads /\ FreeHeads' = FreeHeads /\ HeapLinks' = HeapLinks
    BY DEF UsedHeads, FreeHeads, HeapLinks
  <2>7. DOMAIN umb' \subseteq 0 .. KHEAP_SIZE - 1 /\ DOMAIN fmb' \subseteq 0 .. KHEAP_SIZE - 1
    BY <1>0, <1>1, <1>r, <1>6, <1>7 DEF HeapShape
  <2>8. DOMAIN umb' \intersect DOMAIN fmb' = {} /\ 0 \in Blocks'
    BY <1>0, <1>1, <1>r, <1>6, <1>7, <1>8 DEF HeapShape
  <2> QED BY <2>2, <2>3, <2>4, <2>5, <2>6, <2>7, <2>8 DEF HeapShape
<1>11. ASSUME NEW n \in Int
       PROVE  (IF n \in DOMAIN umb' THEN UMB(n) ELSE IF n \in DOMAIN fmb' THEN FMB(n) ELSE NULL)
                = IF n = a THEN UMB(a) ELSE IF n = r THEN FMB(r) ELSE LinkTo(n)
  BY <1>0, <1>1, <1>r, <1>6, <1>7 DEF LinkTo, Link, Blocks, HeapShape
<1>12. ASSUME NEW c \in Blocks, c # a PROVE Up(c)' /\ End(c)' = End(c)
  <2>1. /\ c \in Int /\ c < End(c) /\ End(c) \in Int
        /\ End(c) = KHEAP_SIZE \/ End(c) \in Blocks
        /\ \A d \in Blocks : d <= c \/ End(c) <= d
    BY InOrder
  <2>2. End(c) = a <=> c = Start(a) BY <1>1, <2>1, NeighboursAgree
  <2>3. LinkUp(c) = LinkTo(End(c)) BY DEF HeapInv, HeapOrder, Up
  <2>4. LinkUp(c)' = IF End(c) = a THEN UMB(a) ELSE LinkTo(End(c))
    <3>2. CASE c \in DOMAIN umb
      <4>1. c \in DOMAIN umb' /\ umb'[c] = told[c] BY <1>6, <3>2
      <4>2. umb[c].nextMB = LinkTo(End(c)) BY <2>3, <3>2 DEF LinkUp
      <4> QED BY <1>4, <2>2, <3>2, <4>1, <4>2 DEF LinkUp
    <3>3. CASE c \in DOMAIN fmb
      <4>1. c \notin DOMAIN umb /\ c \notin DOMAIN umb' /\ fmb'[c] = set[c]
        BY <1>0, <1>6, <1>7, <1>12, <3>3 DEF HeapShape
      <4>2. fmb[c].nextUMB = LinkTo(End(c)) /\ End(c) # a
        BY <3>3, AroundFree
      <4> QED BY <1>5, <3>3, <4>1, <4>2 DEF LinkUp
    <3> QED BY <3>2, <3>3 DEF Blocks
  <2>5. LinkUp(c)' = IF End(c) \in DOMAIN umb' THEN UMB(End(c)) ELSE IF End(c) \in DOMAIN fmb' THEN FMB(End(c)) ELSE NULL
    BY <1>11, <1>r, <2>1, <2>4
  <2>6. \A d \in Blocks' : d <= c \/ End(c) <= d
    <3>1. r <= c \/ End(c) <= r
      <4>1. c <= a \/ End(a) <= c BY <1>2
      <4>2. a <= c \/ End(c) <= a BY <1>1, <2>1
      <4> QED BY <1>2, <1>12, <1>r, <2>1, <4>1, <4>2
    <3> QED BY <1>8, <2>1, <3>1
  <2> QED BY <1>8, <1>10, <2>1, <2>5, <2>6, UpAgain
<1>13. Up(a)' /\ End(a)' = r
  <2>1. LinkUp(a)' = FMB(r) BY <1>6 DEF LinkUp
  <2>2. \A d \in Blocks' : d <= a \/ r <= d BY <1>2, <1>8, <1>r
  <2> QED BY <1>6, <1>7, <1>8, <1>10, <1>r, <2>1, <2>2, UpAgain
<1>14. Up(r)' /\ End(r)' = End(a)
  <2>1. r \notin DOMAIN umb' /\ fmb'[r] = rest BY <1>6, <1>7, <1>r
  <2>2. LinkUp(r)' = LinkTo(End(a)) BY <1>t, <2>1 DEF LinkUp
  <2>3. End(a) # a /\ End(a) # r BY <1>2, <1>r
  <2>4. LinkUp(r)' = IF End(a) \in DOMAIN umb' THEN UMB(End(a)) ELSE IF End(a) \in DOMAIN fmb' THEN FMB(End(a)) ELSE NULL
    BY <1>2, <1>11, <2>2, <2>3
  <2>5. \A d \in Blocks' : d <= r \/ End(a) <= d BY <1>2, <1>8, <1>r
  <2> QED BY <1>2, <1>8, <1>10, <1>r, <2>4, <2>5, UpAgain
<1>15. ASSUME NEW c \in Blocks, c # End(a) PROVE Down(c)'
  <2>1. /\ c \in Int /\ Start(c) < c /\ Start(c) \in Int
        /\ Start(c) = -1 \/ Start(c) \in Blocks
        /\ \A d \in Blocks : c <= d \/ d <= Start(c)
    BY InOrder
  <2>2. Start(c) # a BY <1>1, <1>15, <2>1, NeighboursAgree
  <2>3. LinkDown(c) = LinkTo(Start(c)) BY DEF HeapInv, HeapOrder, Down
  <2>4. LinkDown(c)' = LinkTo(Start(c))
    <3>1. CASE c = a BY <1>6, <3>1 DEF LinkDown
    <3>2. CASE c \in DOMAIN umb
      <4>1. c \in DOMAIN umb' /\ umb'[c] = told[c] BY <1>6, <3>2
      <4>2. umb[c].preMB = LinkTo(Start(c)) BY <2>3, <3>2 DEF LinkDown
      <4> QED BY <1>4, <1>15, <3>2, <4>1, <4>2 DEF LinkDown
    <3>3. CASE c \in DOMAIN fmb /\ c # a
      <4>1. c \notin DOMAIN umb /\ c \notin DOMAIN umb' /\ fmb'[c] = set[c]
        BY <1>0, <1>6, <1>7, <3>3 DEF HeapShape
      <4>2. fmb[c].preUMB = LinkTo(Start(c)) BY <3>3, AroundFree
      <4> QED BY <1>5, <3>3, <4>1, <4>2 DEF LinkDown
    <3> QED BY <3>1, <3>2, <3>3 DEF Blocks
  <2>5. LinkDown(c)' = IF Start(c) \in DOMAIN umb' THEN UMB(Start(c)) ELSE IF Start(c) \in DOMAIN fmb' THEN FMB(Start(c)) ELSE NULL
    BY <1>11, <1>r, <2>1, <2>2, <2>4
  <2>6. \A d \in Blocks' : c <= d \/ d <= Start(c)
    <3>1. c <= r \/ r <= Start(c)
      <4>1. c <= a \/ End(a) <= c BY <1>2
      <4>2. c <= a \/ a <= Start(c) BY <1>1, <2>1
      <4>3. Start(c) <= a \/ End(a) <= Start(c) BY <1>2, <2>1
      <4>4. End(a) \in Blocks => (c <= End(a) \/ End(a) <= Start(c)) BY <2>1
      <4>5. c < KHEAP_SIZE BY InOrder
      <4> QED BY <1>2, <1>15, <1>r, <2>1, <2>2, <4>1, <4>2, <4>3, <4>4, <4>5
    <3> QED BY <1>8, <2>1, <3>1
  <2> QED BY <1>8, <1>10, <2>1, <2>5, <2>6, DownAgain
<1>16. Down(r)'
  <2>1. r \notin DOMAIN umb' /\ fmb'[r] = rest BY <1>6, <1>7, <1>r
  <2>2. LinkDown(r)' = UMB(a) BY <1>t, <2>1 DEF LinkDown
  <2>3. a \in DOMAIN umb' /\ a \in Blocks' BY <1>1, <1>6, <1>8
  <2>4. \A d \in Blocks' : r <= d \/ d <= a BY <1>2, <1>8, <1>r
  <2> QED BY <1>2, <1>10, <1>r, <2>2, <2>3, <2>4, DownAgain
<1>17. ASSUME NEW c \in Blocks, c = End(a) PROVE Down(c)'
  <2>1. c \in DOMAIN umb BY <1>1, <1>17 DEF Blocks
  <2>2. c \in DOMAIN umb' /\ umb'[c] = told[c] /\ told[c].preMB = FMB(r) BY <1>4, <1>6, <1>17, <2>1
  <2>3. LinkDown(c)' = FMB(r) BY <2>2 DEF LinkDown
  <2>4. r \in DOMAIN fmb' /\ r \notin DOMAIN umb' /\ r \in Blocks' BY <1>6, <1>7, <1>8, <1>r
  <2>5. r < c BY <1>r, <1>17
  <2>6. \A d \in Blocks' : c <= d \/ d <= r BY <1>2, <1>8, <1>r, <1>17
  <2> QED BY <1>10, <1>r, <2>3, <2>4, <2>5, <2>6, DownAgain
<1>18. ASSUME NEW y \in (DOMAIN fmb \ {a}) \union {-1} PROVE FreeUp(y)'
  <2>1. /\ y \in Int /\ EndFree(y) \in Int /\ y < EndFree(y)
        /\ EndFree(y) = KHEAP_SIZE \/ EndFree(y) \in DOMAIN fmb
        /\ LinkFree(y) = IF EndFree(y) = KHEAP_SIZE THEN NULL ELSE FMB(EndFree(y))
        /\ \A d \in DOMAIN fmb : d \in Int /\ (d <= y \/ EndFree(y) <= d)
    BY FreeInOrder
  <2>2. /\ x \in Int /\ x < a /\ -1 <= x /\ -1 <= y
        /\ \A d \in DOMAIN fmb : d <= x \/ a <= d
    BY FreeInOrder
  <2>3. LinkFree(y)' = IF y = x THEN FMB(r) ELSE LinkFree(y)
    <3>1. CASE y = -1 BY <1>5, <3>1 DEF LinkFree
    <3>2. CASE y # -1
      <4>1. y \in DOMAIN fmb \ {a} BY <3>2
      <4> QED BY <1>5, <1>7, <3>2, <4>1 DEF LinkFree
    <3> QED BY <3>1, <3>2
  <2>4. CASE y = x
    <3>1. y < r BY <1>r, <1>2, <2>2, <2>4
    <3>2. r \in DOMAIN fmb' BY <1>7
    <3>3. \A d \in DOMAIN fmb' : d <= y \/ r <= d
      <4>1. \A d \in DOMAIN fmb : d \in Blocks BY DEF Blocks
      <4> QED BY <1>2, <1>7, <1>r, <2>1, <2>2, <2>4, <4>1
    <3> QED BY <1>10, <1>r, <2>3, <2>4, <3>1, <3>2, <3>3, FreeUpAgain
  <2>5. CASE y # x
    <3>1. EndFree(y) # a
      <4>3. SUFFICES ASSUME EndFree(y) = a PROVE FALSE OBVIOUS
      <4>4. y \in DOMAIN fmb => y <= x BY <1>2, <2>1, <2>2, <4>3
      <4>5. x \in DOMAIN fmb => x <= y BY <1>2, <2>1, <2>2, <4>3
      <4> QED BY <1>18, <2>1, <2>2, <2>5, <4>4, <4>5
    <3>2. EndFree(y) \in DOMAIN fmb' \/ EndFree(y) = KHEAP_SIZE BY <1>7, <2>1, <3>1
    <3>3. r <= y \/ EndFree(y) <= r
      <4>1. a \in DOMAIN fmb /\ (a <= y \/ EndFree(y) <= a) BY <2>1
      <4>2. y \in DOMAIN fmb => y \in Blocks BY DEF Blocks
      <4>3. y \in DOMAIN fmb => y <= a \/ End(a) <= y BY <1>2, <4>2
      <4>4. y # a BY <1>18, <1>1
      <4> QED BY <1>2, <1>18, <1>r, <2>1, <2>2, <4>1, <4>3, <4>4
    <3>4. \A d \in DOMAIN fmb' : d <= y \/ EndFree(y) <= d BY <1>7, <2>1, <3>3
    <3> QED BY <1>10, <2>1, <2>3, <2>5, <3>2, <3>4, FreeUpAgain
  <2> QED BY <2>4, <2>5
<1>19. FreeUp(r)'
  <2>1. /\ EndFree(a) \in Int /\ a < EndFree(a)
        /\ EndFree(a) = KHEAP_SIZE \/ EndFree(a) \in DOMAIN fmb
        /\ LinkFree(a) = IF EndFree(a) = KHEAP_SIZE THEN NULL ELSE FMB(EndFree(a))
        /\ \A d \in DOMAIN fmb : d \in Int /\ (d <= a \/ EndFree(a) <= d)
    BY FreeInOrder
  <2>2. r < EndFree(a)
    <3>1. EndFree(a) \in DOMAIN fmb => End(a) <= EndFree(a) BY <1>2, <2>1 DEF Blocks
    <3> QED BY <1>2, <1>r, <2>1, <3>1
  <2>3. LinkFree(r)' = LinkFree(a) BY <1>7, <1>r, <1>t DEF LinkFree
  <2>4. EndFree(a) \in DOMAIN fmb' \/ EndFree(a) = KHEAP_SIZE BY <1>2, <1>7, <2>1
  <2>5. \A d \in DOMAIN fmb' : d <= r \/ EndFree(a) <= d BY <1>2, <1>7, <1>r, <2>1
  <2> QED BY <1>10, <2>1, <2>2, <2>3, <2>4, <2>5, FreeUpAgain
<1>20. HeapOrder'
  <2>1. \A c \in Blocks' : Up(c)' BY <1>8, <1>12, <1>13, <1>14
  <2>2. \A c \in Blocks' : Down(c)' BY <1>8, <1>15, <1>16, <1>17
  <2>3. \A y \in (DOMAIN fmb)' \union {-1} : FreeUp(y)' BY <1>7, <1>18, <1>19
  <2> QED BY <2>1, <2>2, <2>3 DEF HeapOrder
<1>21. HeapRoom'
  <2>1. \A c \in DOMAIN umb : asked[c] + UmbHead <= End(c) - c BY DEF HeapInv, HeapRoom
  <2>2. \A c \in DOMAIN umb : c \in Blocks /\ c # a BY <1>1 DEF Blocks
  <2>3. \A c \in DOMAIN umb' : asked'[c] + UmbHead <= End(c)' - c
    <3>1. words + UmbHead <= r - a BY <1>2 DEF UmbHead
    <3>2. \A c \in DOMAIN umb : asked'[c] + UmbHead <= End(c)' - c BY <1>9, <1>12, <2>1, <2>2
    <3> QED BY <1>6, <1>9, <1>13, <3>1, <3>2
  <2>4. \A c \in DOMAIN fmb : FmbHead <= End(c) - c /\ End(c) \notin DOMAIN fmb BY DEF HeapInv, HeapRoom
  <2>5. ASSUME NEW c \in DOMAIN fmb \ {a} PROVE FmbHead <= End(c)' - c /\ End(c)' \notin DOMAIN fmb'
    <3>1. c \in Blocks /\ c # a BY DEF Blocks
    <3>2. End(c)' = End(c) BY <1>12, <3>1
    <3>3. End(c) # r BY <1>r, <3>1, InOrder
    <3> QED BY <1>7, <2>4, <3>2, <3>3
  <2>6. FmbHead <= End(r)' - r /\ End(r)' \notin DOMAIN fmb' BY <1>1, <1>2, <1>7, <1>14, <1>r
  <2> QED BY <1>7, <2>3, <2>5, <2>6 DEF HeapRoom
<1> QED BY <1>10, <1>20, <1>21 DEF HeapInv

\* For every address there is a last free block before it, or none (-1).
LEMMA LastFree ==
  ASSUME HeapInv
  PROVE  \A n \in Nat : \E x \in DOMAIN fmb \union {-1} : x < n /\ \A c \in DOMAIN fmb : c <= x \/ n <= c
<1> DEFINE S == {n \in Nat : \E x \in DOMAIN fmb \union {-1} : x < n /\ \A c \in DOMAIN fmb : c <= x \/ n <= c}
<1>0. \A c \in DOMAIN fmb : c \in Nat BY DEF HeapInv, HeapShape
<1>1. 0 \in S BY <1>0
<1>2. ASSUME NEW n \in Nat, n \in S PROVE n + 1 \in S
  <2>1. PICK x \in DOMAIN fmb \union {-1} : x < n /\ \A c \in DOMAIN fmb : c <= x \/ n <= c BY <1>2
  <2>2. CASE n \in DOMAIN fmb
    <3>1. n < n + 1 /\ \A c \in DOMAIN fmb : c <= n \/ n + 1 <= c BY <1>0
    <3> QED BY <2>2, <3>1
  <2>3. CASE n \notin DOMAIN fmb
    <3>1. x < n + 1 BY <1>0, <2>1
    <3>2. \A c \in DOMAIN fmb : c <= x \/ n + 1 <= c BY <1>0, <2>1, <2>3
    <3> QED BY <3>1, <3>2
  <2> QED BY <2>2, <2>3
<1> HIDE DEF S
<1>3. Nat \subseteq S BY <1>1, <1>2, SetInduction
<1> QED BY <1>3 DEF S

\* What a used block's header says of its neighbours.
LEMMA AroundUsed ==
  ASSUME HeapInv, NEW a \in DOMAIN umb
  PROVE  /\ a \in Blocks /\ a \notin DOMAIN fmb /\ a \in 0 .. KHEAP_SIZE - 1
         /\ umb[a].nextMB = LinkTo(End(a)) /\ umb[a].preMB = LinkTo(Start(a))
         /\ umb[a] \in UsedHeads
         /\ asked[a] \in Nat \ {0} /\ asked[a] + UmbHead <= End(a) - a
         /\ IsUMB(umb[a].nextMB) <=> End(a) \in DOMAIN umb
         /\ IsUMB(umb[a].preMB) <=> Start(a) \in DOMAIN umb
         /\ IsFMB(umb[a].nextMB) <=> End(a) \in DOMAIN fmb
         /\ IsFMB(umb[a].preMB) <=> Start(a) \in DOMAIN fmb
         /\ umb[a].nextMB = NULL <=> End(a) = KHEAP_SIZE
         /\ umb[a].preMB = NULL <=> Start(a) = -1
         /\ End(a) \in Blocks => At(umb[a].nextMB) = End(a)
         /\ Start(a) \in Blocks => At(umb[a].preMB) = Start(a)
<1>1. a \in Blocks /\ a \notin DOMAIN fmb /\ a \in 0 .. KHEAP_SIZE - 1 BY DEF HeapInv, HeapShape, Blocks
<1>2. Up(a) /\ Down(a) BY <1>1 DEF HeapInv, HeapOrder
<1>3. umb[a].nextMB = LinkTo(End(a)) /\ umb[a].preMB = LinkTo(Start(a))
  BY <1>1, <1>2 DEF Up, Down, LinkUp, LinkDown
<1>4. asked[a] + UmbHead <= End(a) - a BY DEF HeapInv, HeapRoom
<1>5. umb[a] \in UsedHeads /\ asked[a] \in Nat \ {0} BY DEF HeapInv, HeapShape
<1>6. HeapShape BY DEF HeapInv
<1>7. /\ End(a) \in Int /\ Start(a) \in Int
      /\ End(a) = KHEAP_SIZE \/ End(a) \in Blocks
      /\ Start(a) = -1 \/ Start(a) \in Blocks
  BY <1>1, InOrder
<1>8. KHEAP_SIZE \notin Blocks /\ -1 \notin Blocks BY <1>6 DEF HeapShape, Blocks
<1> QED BY <1>1, <1>3, <1>4, <1>5, <1>6, <1>7, <1>8, LinkToTells

\* The loop of GetPreFMB ends at the last free block before a used one.
LEMMA PreFMBIs ==
  ASSUME HeapInv
  PROVE  \A a \in DOMAIN umb : \A x \in DOMAIN fmb \union {-1} :
           x < a /\ a < EndFree(x) => GetPreFMB(a) = IF x = -1 THEN NULL ELSE FMB(x)
<1> DEFINE LastBelow(x, b) == x \in DOMAIN fmb \union {-1} /\ x < b /\ b < EndFree(x)
           Is(f) == f = [b \in DOMAIN umb |-> IF IsUMB(umb[b].preMB) THEN f[At(umb[b].preMB)] ELSE umb[b].preMB]
           last(b) == CHOOSE x : LastBelow(x, b)
           g == [b \in DOMAIN umb |-> IF last(b) = -1 THEN NULL ELSE FMB(last(b))]
           from == CHOOSE f : Is(f)
<1>0. \A a : GetPreFMB(a) = from[a] BY DEF GetPreFMB
<1>1. \A b \in DOMAIN umb : b \in Nat /\ b \in Blocks BY AroundUsed
<1>2. \A x \in DOMAIN fmb \union {-1} : x \in Int /\ EndFree(x) \in Int /\ x < EndFree(x) BY FreeInOrder
<1>3. ASSUME NEW b \in DOMAIN umb PROVE \E x : LastBelow(x, b)
  <2>1. PICK x \in DOMAIN fmb \union {-1} : x < b /\ \A c \in DOMAIN fmb : c <= x \/ b <= c BY <1>1, LastFree
  <2>2. x < EndFree(x) /\ (EndFree(x) = KHEAP_SIZE \/ EndFree(x) \in DOMAIN fmb) /\ EndFree(x) \in Int /\ x \in Int
    BY FreeInOrder
  <2>3. b < KHEAP_SIZE /\ b \notin DOMAIN fmb /\ b \in Int BY AroundUsed, HeapAssumption
  <2> QED BY <2>1, <2>2, <2>3
<1>4. ASSUME NEW b \in DOMAIN umb, NEW x, NEW y, LastBelow(x, b), LastBelow(y, b) PROVE x = y
  <2>1. x \in Int /\ y \in Int /\ EndFree(x) \in Int /\ EndFree(y) \in Int /\ b \in Int BY <1>1, <1>2, <1>4
  <2>2. \A c \in DOMAIN fmb : (c <= x \/ EndFree(x) <= c) /\ (c <= y \/ EndFree(y) <= c) BY <1>4, FreeInOrder
  <2>3. -1 <= x /\ -1 <= y BY <1>4, FreeInOrder
  <2>4. y <= x BY <1>4, <2>1, <2>2, <2>3
  <2>5. x <= y BY <1>4, <2>1, <2>2, <2>3
  <2> QED BY <2>1, <2>4, <2>5
<1>5. ASSUME NEW b \in DOMAIN umb, NEW x, LastBelow(x, b), Start(b) \in DOMAIN umb PROVE LastBelow(x, Start(b))
  <2>1. /\ Start(b) \in Int /\ b \in Int /\ Start(b) < b /\ \A c \in Blocks : b <= c \/ c <= Start(b) BY <1>1, InOrder
  <2>2. x \in DOMAIN fmb => x \in Blocks /\ x # Start(b) BY <1>5 DEF Blocks, HeapInv, HeapShape
  <2>3. x \in Int /\ EndFree(x) \in Int /\ 0 <= Start(b) BY <1>1, <1>2, <1>5
  <2> QED BY <1>5, <2>1, <2>2, <2>3
<1>6. ASSUME NEW b \in DOMAIN umb, Start(b) \notin DOMAIN umb
      PROVE  LastBelow(Start(b), b) /\ umb[b].preMB = IF Start(b) = -1 THEN NULL ELSE FMB(Start(b))
  <2>1. /\ Start(b) \in Int /\ b \in Int /\ Start(b) < b /\ \A c \in Blocks : b <= c \/ c <= Start(b)
        /\ Start(b) = -1 \/ Start(b) \in Blocks
        /\ b < KHEAP_SIZE
    BY <1>1, InOrder
  <2>2. Start(b) \in DOMAIN fmb \union {-1} BY <1>6, <2>1 DEF Blocks
  <2>3. /\ EndFree(Start(b)) \in Int /\ Start(b) < EndFree(Start(b))
        /\ EndFree(Start(b)) = KHEAP_SIZE \/ EndFree(Start(b)) \in DOMAIN fmb
    BY <2>2, FreeInOrder
  <2>4. EndFree(Start(b)) \in DOMAIN fmb => EndFree(Start(b)) \in Blocks /\ EndFree(Start(b)) # b
    BY AroundUsed DEF Blocks
  <2>5. b < EndFree(Start(b)) BY <2>1, <2>3, <2>4, HeapAssumption
  <2>6. umb[b].preMB = LinkTo(Start(b)) BY AroundUsed
  <2>7. -1 \notin Blocks BY DEF HeapInv, HeapShape, Blocks
  <2> QED BY <1>6, <2>1, <2>2, <2>5, <2>6, <2>7 DEF LinkTo, Link, Blocks
<1>7. Is(g)
  <2> DEFINE G(b) == IF IsUMB(umb[b].preMB) THEN g[At(umb[b].preMB)] ELSE umb[b].preMB
  <2>1. ASSUME NEW b \in DOMAIN umb PROVE g[b] = G(b)
    <3>1. PICK x : LastBelow(x, b) BY <1>3
    <3> HIDE DEF LastBelow
    <3>2. ASSUME NEW c \in DOMAIN umb, NEW y, LastBelow(y, c) PROVE g[c] = IF y = -1 THEN NULL ELSE FMB(y)
      <4>1. LastBelow(last(c), c) BY <3>2
      <4>2. last(c) = y BY <1>4, <3>2, <4>1
      <4>3. g[c] = IF last(c) = -1 THEN NULL ELSE FMB(last(c))
        <5> HIDE DEF last
        <5> QED OBVIOUS
      <4> HIDE DEF g, last
      <4> QED BY <4>2, <4>3
    <3> HIDE DEF g
    <3>3. CASE Start(b) \in DOMAIN umb
      <4>1. IsUMB(umb[b].preMB) /\ At(umb[b].preMB) = Start(b) BY <3>3, AroundUsed DEF Blocks
      <4>2. LastBelow(x, Start(b)) BY <1>5, <3>1, <3>3
      <4>3. g[b] = g[Start(b)] BY <3>1, <3>2, <3>3, <4>2
      <4> QED BY <4>1, <4>3
    <3>4. CASE Start(b) \notin DOMAIN umb
      <4>1. ~IsUMB(umb[b].preMB) BY <3>4, AroundUsed
      <4>2. g[b] = umb[b].preMB BY <1>6, <3>2, <3>4
      <4> QED BY <4>1, <4>2
    <3> QED BY <3>3, <3>4
  <2> HIDE DEF G
  <2>2. g = [b \in DOMAIN umb |-> G(b)] BY <2>1
  <2> QED BY <2>2 DEF G
<1>8. Is(from)
  <2>1. \E f : Is(f) BY <1>7
  <2> HIDE DEF Is
  <2> QED BY <2>1
<1> HIDE DEF from, g
<1> DEFINE S == {n \in Nat : \A b \in DOMAIN umb : b < n => \A x : LastBelow(x, b) => from[b] = IF x = -1 THEN NULL ELSE FMB(x)}
<1>9. 0 \in S BY <1>1
<1>10. ASSUME NEW n \in Nat, n \in S PROVE n + 1 \in S
  <2> SUFFICES ASSUME NEW b \in DOMAIN umb, b < n + 1, NEW x, LastBelow(x, b)
               PROVE  from[b] = IF x = -1 THEN NULL ELSE FMB(x)
    OBVIOUS
  <2>1. from[b] = IF IsUMB(umb[b].preMB) THEN from[At(umb[b].preMB)] ELSE umb[b].preMB BY <1>8
  <2>2. CASE Start(b) \in DOMAIN umb
    <3>1. IsUMB(umb[b].preMB) /\ At(umb[b].preMB) = Start(b) BY <2>2, AroundUsed DEF Blocks
    <3>2. Start(b) < b /\ Start(b) \in Nat /\ b \in Nat BY <1>1, <2>2, InOrder
    <3>3. Start(b) < n BY <3>2
    <3>4. LastBelow(x, Start(b)) BY <1>5, <2>2
    <3> HIDE DEF LastBelow
    <3> QED BY <1>10, <2>1, <2>2, <3>1, <3>3, <3>4
  <2>3. CASE Start(b) \notin DOMAIN umb
    <3>1. ~IsUMB(umb[b].preMB) BY <2>3, AroundUsed
    <3>2. LastBelow(Start(b), b) /\ umb[b].preMB = IF Start(b) = -1 THEN NULL ELSE FMB(Start(b)) BY <1>6, <2>3
    <3> HIDE DEF LastBelow
    <3>3. x = Start(b) BY <1>4, <3>2
    <3> QED BY <2>1, <3>1, <3>2, <3>3
  <2> QED BY <2>2, <2>3
<1> HIDE DEF S
<1>11. Nat \subseteq S BY <1>9, <1>10, SetInduction
<1>12. \A b \in DOMAIN umb : b + 1 \in S /\ b < b + 1 BY <1>1, <1>11
<1>13. ASSUME NEW b \in DOMAIN umb, NEW x, LastBelow(x, b) PROVE from[b] = IF x = -1 THEN NULL ELSE FMB(x)
  <2> HIDE DEF LastBelow
  <2> QED BY <1>12, <1>13 DEF S
<1> QED BY <1>0, <1>13

\* For a used block too: the list of free blocks passes over it.
LEMMA LastFreeBefore ==
  ASSUME HeapInv, NEW a \in DOMAIN umb
  PROVE  \E x \in DOMAIN fmb \union {-1} : x < a /\ a < EndFree(x)
<1>1. a \in Nat /\ a < KHEAP_SIZE /\ a \notin DOMAIN fmb /\ KHEAP_SIZE \in Int BY AroundUsed, HeapAssumption
<1>2. PICK x \in DOMAIN fmb \union {-1} : x < a /\ \A c \in DOMAIN fmb : c <= x \/ a <= c BY <1>1, LastFree
<1>3. x < EndFree(x) /\ (EndFree(x) = KHEAP_SIZE \/ EndFree(x) \in DOMAIN fmb) /\ EndFree(x) \in Int /\ x \in Int
  BY FreeInOrder
<1> QED BY <1>1, <1>2, <1>3

\* A header with one link changed.
LEMMA HeaderIs ==
  ASSUME NEW h \in FreeHeads, NEW q
  PROVE  [h EXCEPT !.preUMB = q] = [nextFMB |-> h.nextFMB, nextUMB |-> h.nextUMB, preUMB |-> q]
         /\ [h EXCEPT !.nextUMB = q] = [nextFMB |-> h.nextFMB, nextUMB |-> q, preUMB |-> h.preUMB]
  BY DEF FreeHeads

\* The four cases of CoKfree come to one: the block grows down over a free one at p and
\* up over a free one at n.
LEMMA FreedIs ==
  ASSUME HeapInv, NEW a \in DOMAIN umb, NEW n \in Int, n = End(a), NEW p \in Int, p = Start(a),
         NEW x \in DOMAIN fmb \union {-1}, x < a, a < EndFree(x),
         NEW cur \in Int, cur = IF p \in DOMAIN fmb THEN p ELSE a,
         NEW e \in Int, e = IF n \in DOMAIN fmb THEN End(n) ELSE n,
         NEW s \in Int, s = IF p \in DOMAIN fmb THEN Start(p) ELSE p,
         NEW y \in DOMAIN fmb \union {-1}, y = IF n \in DOMAIN fmb THEN n ELSE x
  PROVE  Outcome(a) = Freed(cur, Header(LinkFree(y), LinkTo(e), LinkTo(s)), DOMAIN fmb \intersect {n},
                            IF p \in DOMAIN fmb THEN NotListed ELSE Listing)
<1>0. HeapShape BY DEF HeapInv
<1>1. /\ a \in Blocks /\ a \notin DOMAIN fmb /\ a \in 0 .. KHEAP_SIZE - 1 /\ KHEAP_SIZE \in Int
      /\ umb[a].nextMB = LinkTo(n) /\ umb[a].preMB = LinkTo(p)
      /\ IsUMB(umb[a].nextMB) <=> n \in DOMAIN umb
      /\ IsUMB(umb[a].preMB) <=> p \in DOMAIN umb
      /\ umb[a].nextMB = NULL <=> n = KHEAP_SIZE
      /\ umb[a].preMB = NULL <=> p = -1
      /\ n \in Blocks => At(umb[a].nextMB) = n
      /\ p \in Blocks => At(umb[a].preMB) = p
  BY AroundUsed, HeapAssumption
<1>2. /\ p < a /\ a < n /\ n <= KHEAP_SIZE /\ -1 <= p
      /\ n = KHEAP_SIZE \/ n \in Blocks
      /\ p = -1 \/ p \in Blocks
      /\ \A d \in Blocks : d \in Int /\ 0 <= d /\ d < KHEAP_SIZE /\ (d <= a \/ n <= d) /\ (a <= d \/ d <= p)
  BY <1>1, InOrder
<1>3. KHEAP_SIZE \notin Blocks /\ -1 \notin Blocks BY <1>1, <1>2
<1>4. /\ x \in Int /\ -1 <= x /\ EndFree(x) \in Int
      /\ EndFree(x) = KHEAP_SIZE \/ EndFree(x) \in DOMAIN fmb
      /\ LinkFree(x) = IF EndFree(x) = KHEAP_SIZE THEN NULL ELSE FMB(EndFree(x))
      /\ EndFree(x) = KHEAP_SIZE <=> LinkFree(x) = NULL
      /\ \A c \in DOMAIN fmb : c \in Int /\ c < KHEAP_SIZE /\ (c <= x \/ EndFree(x) <= c)
  BY FreeInOrder
<1>5. p \in DOMAIN fmb => x = p
  <2> SUFFICES ASSUME p \in DOMAIN fmb PROVE x = p OBVIOUS
  <2>1. 0 <= p /\ (p <= x \/ EndFree(x) <= p) BY <1>0, <1>4 DEF HeapShape
  <2>2. p <= x BY <1>1, <1>2, <1>4, <2>1
  <2>3. x \in Blocks BY <1>4, <2>1, <2>2 DEF Blocks
  <2> QED BY <1>1, <1>2, <1>4, <2>2, <2>3
<1>6. n \in DOMAIN fmb => EndFree(x) = n
  <2> SUFFICES ASSUME n \in DOMAIN fmb PROVE EndFree(x) = n OBVIOUS
  <2>1. EndFree(x) <= n /\ n < KHEAP_SIZE BY <1>1, <1>2, <1>4
  <2>2. EndFree(x) \in Blocks BY <1>1, <1>4, <2>1 DEF Blocks
  <2> QED BY <1>1, <1>2, <1>4, <2>1, <2>2
<1>7. n = KHEAP_SIZE => EndFree(x) = KHEAP_SIZE
  <2> SUFFICES ASSUME n = KHEAP_SIZE, EndFree(x) \in DOMAIN fmb PROVE FALSE BY <1>4
  <2>1. EndFree(x) \in Blocks BY DEF Blocks
  <2> QED BY <1>1, <1>2, <1>4, <2>1
<1>8. GetPreFMB(a) = IF x = -1 THEN NULL ELSE FMB(x) BY PreFMBIs
<1>9. x # -1 => x \in DOMAIN fmb /\ GetPreFMB(a) = FMB(x) /\ FMB(x) # NULL /\ At(FMB(x)) = x
  <2>1. x # -1 => x \in 0 .. KHEAP_SIZE - 1 BY <1>0 DEF HeapShape
  <2> QED BY <1>8, <2>1, LinksTell
<1>10. NextFMB(a) = LinkFree(x) BY <1>8, <1>9 DEF NextFMB, LinkFree
<1>11. \A f \in DOMAIN fmb : /\ f \in Blocks /\ f # -1 /\ f \notin DOMAIN umb
                             /\ fmb[f].nextFMB = LinkFree(f) /\ fmb[f].nextUMB = LinkTo(End(f))
                             /\ fmb[f].preUMB = LinkTo(Start(f)) /\ fmb[f] \in FreeHeads
  BY AroundFree, <1>3
<1>12. LinkTo(KHEAP_SIZE) = NULL /\ LinkTo(-1) = NULL BY <1>3 DEF LinkTo
<1>13. ~IsUMB(umb[a].nextMB) <=> n \in DOMAIN fmb \/ n = KHEAP_SIZE BY <1>0, <1>1, <1>2, <1>3 DEF Blocks, HeapShape
<1>14. ~IsUMB(umb[a].preMB) <=> p \in DOMAIN fmb \/ p = -1 BY <1>0, <1>1, <1>2, <1>3 DEF Blocks, HeapShape
<1> DEFINE head == Header(LinkFree(y), LinkTo(e), LinkTo(s))
           gone == DOMAIN fmb \intersect {n}
           how == IF p \in DOMAIN fmb THEN NotListed ELSE Listing
<1>15. CASE ~IsUMB(umb[a].nextMB) /\ ~IsUMB(umb[a].preMB)
  <2> DEFINE next == umb[a].nextMB
             pre == umb[a].preMB
             swallowed == IF next = NULL THEN Header(NULL, NULL, NULL) ELSE fmb[At(next)]
  <2>1. Outcome(a) = BetweenFree(a) BY <1>15 DEF Outcome
  <2>2. swallowed \in FreeHeads /\ swallowed.nextFMB = LinkFree(y) /\ swallowed.nextUMB = LinkTo(e)
    <3>1. CASE n \in DOMAIN fmb
      <4>1. next # NULL /\ At(next) = n /\ swallowed = fmb[n] BY <1>1, <1>3, <1>11, <3>1
      <4> HIDE DEF swallowed
      <4> QED BY <1>11, <3>1, <4>1
    <3>2. CASE n = KHEAP_SIZE
      <4>1. swallowed = Header(NULL, NULL, NULL) BY <1>1, <3>2
      <4>2. n \notin DOMAIN fmb BY <1>3, <1>11, <3>2
      <4>3. LinkFree(y) = NULL /\ LinkTo(e) = NULL BY <1>4, <1>7, <1>12, <3>2, <4>2
      <4>4. NULL \in HeapLinks BY NullTells
      <4> HIDE DEF swallowed
      <4> QED BY <4>1, <4>3, <4>4 DEF Header, FreeHeads
    <3> QED BY <1>13, <1>15, <3>1, <3>2
  <2>3. gone = IF next = NULL THEN {} ELSE {At(next)}
    <3>1. CASE n \in DOMAIN fmb BY <1>1, <1>3, <1>11, <3>1
    <3>2. CASE n = KHEAP_SIZE BY <1>1, <1>3, <1>11, <3>2
    <3> QED BY <1>13, <1>15, <3>1, <3>2
  <2>4. Outcome(a) = IF pre = NULL
                     THEN Freed(a, [swallowed EXCEPT !.preUMB = NULL], gone, Listing)
                     ELSE Freed(At(pre), [swallowed EXCEPT !.preUMB = fmb[At(pre)].preUMB], gone, NotListed)
    BY <2>1, <2>3 DEF BetweenFree
  <2> HIDE DEF swallowed, gone
  <2>5. \A q : [swallowed EXCEPT !.preUMB = q] = Header(LinkFree(y), LinkTo(e), q) BY <2>2, HeaderIs DEF Header
  <2> HIDE DEF next
  <2>6. CASE p = -1
    <3>1. pre = NULL /\ p \notin DOMAIN fmb BY <1>1, <1>11, <2>6
    <3>2. LinkTo(s) = NULL /\ cur = a BY <1>12, <2>6, <3>1
    <3> HIDE DEF pre
    <3>3. Outcome(a) = Freed(cur, Header(LinkFree(y), LinkTo(e), LinkTo(s)), gone, Listing)
      BY <2>4, <2>5, <3>1, <3>2
    <3> QED BY <3>1, <3>3 DEF gone
  <2>7. CASE p \in DOMAIN fmb
    <3>1. pre # NULL /\ At(pre) = p BY <1>1, <1>11, <2>7
    <3>2. cur = p /\ fmb[p].preUMB = LinkTo(s) BY <1>11, <2>7
    <3> HIDE DEF pre
    <3>3. Outcome(a) = Freed(cur, Header(LinkFree(y), LinkTo(e), LinkTo(s)), gone, NotListed)
      BY <2>4, <2>5, <3>1, <3>2
    <3> QED BY <2>7, <3>3 DEF gone
  <2> QED BY <1>14, <1>15, <2>6, <2>7 DEF gone
<1>16. CASE IsUMB(umb[a].nextMB) /\ ~IsUMB(umb[a].preMB)
  <2>1. n \notin DOMAIN fmb /\ n # KHEAP_SIZE BY <1>13, <1>16
  <2>2. Outcome(a) = AfterFree(a) BY <1>16 DEF Outcome
  <2>3. gone = {} /\ e = n /\ y = x BY <2>1
  <2> HIDE DEF gone
  <2>4. CASE p = -1
    <3>1. umb[a].preMB = NULL /\ p \notin DOMAIN fmb BY <1>1, <1>11, <2>4
    <3>2. Outcome(a) = Freed(a, Header(FMBlist, LinkTo(n), NULL), {}, Listing) BY <1>1, <2>2, <3>1 DEF AfterFree
    <3>3. x = -1
      <4> SUFFICES ASSUME x \in DOMAIN fmb PROVE FALSE OBVIOUS
      <4>1. x \in Blocks BY DEF Blocks
      <4> QED BY <1>1, <1>2, <2>4, <4>1
    <3>4. LinkFree(y) = FMBlist BY <2>3, <3>3 DEF LinkFree
    <3>5. LinkTo(s) = NULL /\ cur = a BY <1>12, <2>4, <3>1
    <3> QED BY <2>3, <3>1, <3>2, <3>4, <3>5 DEF gone
  <2>5. CASE p \in DOMAIN fmb
    <3>1. umb[a].preMB # NULL /\ At(umb[a].preMB) = p BY <1>1, <1>11, <2>5
    <3>2. Outcome(a) = Freed(p, [fmb[p] EXCEPT !.nextUMB = LinkTo(n)], {}, NotListed) BY <1>1, <2>2, <3>1 DEF AfterFree
    <3>3. [fmb[p] EXCEPT !.nextUMB = LinkTo(n)] = Header(fmb[p].nextFMB, LinkTo(n), fmb[p].preUMB)
      BY <1>11, <2>5, HeaderIs DEF Header
    <3>4. cur = p /\ fmb[p].preUMB = LinkTo(s) /\ fmb[p].nextFMB = LinkFree(y) BY <1>5, <1>11, <2>3, <2>5
    <3> QED BY <2>3, <2>5, <3>2, <3>3, <3>4 DEF gone
  <2> QED BY <1>14, <1>16, <2>4, <2>5
<1>17. CASE ~IsUMB(umb[a].nextMB) /\ IsUMB(umb[a].preMB)
  <2>1. p \notin DOMAIN fmb /\ p # -1 BY <1>14, <1>17
  <2>2. Outcome(a) = BeforeFree(a) BY <1>17 DEF Outcome
  <2>3. s = p /\ cur = a BY <2>1
  <2>4. CASE n = KHEAP_SIZE
    <3>1. n \notin DOMAIN fmb /\ NextFMB(a) = NULL BY <1>3, <1>4, <1>7, <1>10, <1>11, <2>4
    <3>2. Outcome(a) = Freed(a, Header(NULL, NULL, LinkTo(p)), {}, Listing) BY <1>1, <2>2, <3>1 DEF BeforeFree
    <3>3. LinkFree(y) = NULL /\ LinkTo(e) = NULL /\ gone = {} BY <1>10, <1>12, <2>4, <3>1
    <3> HIDE DEF gone
    <3> QED BY <2>1, <2>3, <3>2, <3>3 DEF gone
  <2>5. CASE n \in DOMAIN fmb
    <3>1. n # KHEAP_SIZE BY <1>3, <1>11, <2>5
    <3>2. NextFMB(a) = FMB(n) /\ NextFMB(a) # NULL BY <1>4, <1>6, <1>10, <2>5, <3>1
    <3>3. At(NextFMB(a)) = n
      <4>1. n \in 0 .. KHEAP_SIZE - 1 BY <1>0, <2>5 DEF HeapShape
      <4> QED BY <3>2, <4>1, LinksTell
    <3>4. Outcome(a) = Freed(a, [fmb[n] EXCEPT !.preUMB = LinkTo(p)], {n}, Listing)
      BY <1>1, <2>2, <3>2, <3>3 DEF BeforeFree
    <3>5. [fmb[n] EXCEPT !.preUMB = LinkTo(p)] = Header(fmb[n].nextFMB, fmb[n].nextUMB, LinkTo(p))
      BY <1>11, <2>5, HeaderIs DEF Header
    <3>6. fmb[n].nextFMB = LinkFree(y) /\ fmb[n].nextUMB = LinkTo(e) /\ gone = {n} BY <1>11, <2>5
    <3> HIDE DEF gone
    <3> QED BY <2>1, <2>3, <3>4, <3>5, <3>6 DEF gone
  <2> QED BY <1>13, <1>17, <2>4, <2>5
<1>18. CASE IsUMB(umb[a].nextMB) /\ IsUMB(umb[a].preMB)
  <2>1. n \notin DOMAIN fmb /\ p \notin DOMAIN fmb BY <1>13, <1>14, <1>18
  <2>2. Outcome(a) = BetweenUsed(a) BY <1>18 DEF Outcome
  <2>3. Outcome(a) = Freed(a, Header(LinkFree(x), LinkTo(n), LinkTo(p)), {}, Listing)
    BY <1>1, <1>10, <2>2 DEF BetweenUsed
  <2>4. e = n /\ s = p /\ cur = a /\ y = x /\ gone = {} BY <2>1
  <2> HIDE DEF gone
  <2> QED BY <2>1, <2>3, <2>4 DEF gone
<1> QED BY <1>15, <1>16, <1>17, <1>18

\* Freeing a block keeps the heap in order: it becomes one block with the free ones
\* beside it, between s and e.
LEMMA KfreeKeeps ==
  ASSUME HeapInv, NEW a \in DOMAIN umb, CoKfree(a)
  PROVE  HeapInv'
<1>0. HeapShape BY DEF HeapInv
<1>k1. PICK x \in DOMAIN fmb \union {-1} : x < a /\ a < EndFree(x) BY LastFreeBefore
<1>k2. PICK n \in Int : n = End(a) BY InOrder DEF Blocks
<1>k3. PICK p \in Int : p = Start(a) BY InOrder DEF Blocks
<1>k4. \A f \in DOMAIN fmb : End(f) \in Int /\ Start(f) \in Int BY InOrder DEF Blocks
<1>k5. PICK cur \in Int : cur = IF p \in DOMAIN fmb THEN p ELSE a BY AroundUsed
<1>k6. PICK e \in Int : e = IF n \in DOMAIN fmb THEN End(n) ELSE n BY <1>k4
<1>k7. PICK s \in Int : s = IF p \in DOMAIN fmb THEN Start(p) ELSE p BY <1>k4
<1>k8. PICK y \in DOMAIN fmb \union {-1} : y = IF n \in DOMAIN fmb THEN n ELSE x OBVIOUS
<1>k9. PICK head : head = [nextFMB |-> LinkFree(y), nextUMB |-> LinkTo(e), preUMB |-> LinkTo(s)] OBVIOUS
<1>k10. PICK gone : gone = DOMAIN fmb \intersect {n} OBVIOUS
<1>k11. PICK out : out = Outcome(a) OBVIOUS
<1>k12. out = Freed(cur, head, gone, IF p \in DOMAIN fmb THEN NotListed ELSE Listing)
  <2>1. Outcome(a) = Freed(cur, Header(LinkFree(y), LinkTo(e), LinkTo(s)), DOMAIN fmb \intersect {n},
                           IF p \in DOMAIN fmb THEN NotListed ELSE Listing)
    BY <1>k1, <1>k2, <1>k3, <1>k5, <1>k6, <1>k7, <1>k8, FreedIs
  <2> QED BY <1>k9, <1>k10, <1>k11, <2>1 DEF Header
<1>k13. out.cur = cur /\ out.head = head /\ out.gone = gone /\ (out.link = Listing <=> p \notin DOMAIN fmb)
  BY <1>k12 DEF Freed, Listing, NotListed
<1>k14. /\ GetPreFMB(a) = NULL <=> x = -1
        /\ x # -1 => At(GetPreFMB(a)) = x
  <2>1. GetPreFMB(a) = IF x = -1 THEN NULL ELSE FMB(x) BY <1>k1, PreFMBIs
  <2>2. x # -1 => x \in 0 .. KHEAP_SIZE - 1 BY <1>0 DEF HeapShape
  <2> QED BY <2>1, <2>2, LinksTell
<1>k15. PICK linked : linked = IF p \notin DOMAIN fmb /\ x # -1 THEN [Without(fmb, gone) EXCEPT ![x].nextFMB = FMB(a)]
                              ELSE Without(fmb, gone)
  OBVIOUS
<1>k16. fmb' = With(linked, cur, head)
  <2>1. fmb' = With(IF out.link = Listing /\ GetPreFMB(a) # NULL
                    THEN [Without(fmb, out.gone) EXCEPT ![At(GetPreFMB(a))].nextFMB = FMB(a)]
                    ELSE Without(fmb, out.gone), out.cur, out.head)
    BY <1>k11 DEF CoKfree
  <2>2. (out.link = Listing /\ GetPreFMB(a) # NULL) <=> (p \notin DOMAIN fmb /\ x # -1) BY <1>k13, <1>k14
  <2>3. CASE p \notin DOMAIN fmb /\ x # -1
    <3>1. fmb' = With([Without(fmb, out.gone) EXCEPT ![At(GetPreFMB(a))].nextFMB = FMB(a)], out.cur, out.head)
      BY <2>1, <2>2, <2>3
    <3>2a. out.cur = cur /\ out.head = head /\ out.gone = gone BY <1>k13
    <3>2b. x # -1 BY <2>3
    <3>2c. x # -1 => At(GetPreFMB(a)) = x BY <1>k14
    <3>2. out.cur = cur /\ out.head = head /\ out.gone = gone /\ At(GetPreFMB(a)) = x BY <3>2a, <3>2b, <3>2c
    <3>3. linked = [Without(fmb, gone) EXCEPT ![x].nextFMB = FMB(a)] BY <1>k15, <2>3
    <3> QED BY <3>1, <3>2, <3>3
  <2>4. CASE ~(p \notin DOMAIN fmb /\ x # -1)
    <3>1. fmb' = With(Without(fmb, out.gone), out.cur, out.head) BY <2>1, <2>2, <2>4
    <3> QED BY <1>k13, <1>k15, <2>4, <3>1
  <2> QED BY <2>3, <2>4
<1>k17. FMBlist' = IF p \notin DOMAIN fmb /\ x = -1 THEN FMB(a) ELSE FMBlist
  <2>1. FMBlist' = IF out.link = Listing /\ GetPreFMB(a) = NULL THEN FMB(a) ELSE FMBlist BY <1>k11 DEF CoKfree
  <2>2. (out.link = Listing /\ GetPreFMB(a) = NULL) <=> (p \notin DOMAIN fmb /\ x = -1) BY <1>k13, <1>k14
  <2> QED BY <2>1, <2>2
<1>k18. umb' = Tell(Without(umb, {a}), LinkTo(s), LinkTo(e), FMB(cur))
  <2>1. umb' = Tell(Without(umb, {a}), out.head.preUMB, out.head.nextUMB, FMB(out.cur)) BY <1>k11 DEF CoKfree
  <2>2. head.preUMB = LinkTo(s) /\ head.nextUMB = LinkTo(e) BY <1>k9
  <2> QED BY <1>k13, <2>1, <2>2
<1>k19. asked' = Without(asked, {a}) BY DEF CoKfree
<1> USE <1>k1, <1>k2, <1>k3, <1>k5, <1>k6, <1>k7, <1>k8, <1>k9, <1>k10, <1>k15, <1>k16, <1>k17, <1>k18, <1>k19
<1>1. /\ a \in Blocks /\ a \notin DOMAIN fmb /\ a \in 0 .. KHEAP_SIZE - 1 /\ a \in Int /\ KHEAP_SIZE \in Int
      /\ asked[a] \in Nat \ {0} /\ asked[a] + UmbHead <= n - a
  BY AroundUsed, HeapAssumption
<1>2. /\ p < a /\ a < n /\ n <= KHEAP_SIZE /\ -1 <= p
      /\ n = KHEAP_SIZE \/ n \in Blocks
      /\ p = -1 \/ p \in Blocks
      /\ \A d \in Blocks : d \in Int /\ 0 <= d /\ d < KHEAP_SIZE /\ (d <= a \/ n <= d) /\ (a <= d \/ d <= p)
  BY <1>1, InOrder
<1>3. /\ n \in DOMAIN fmb => /\ n \in Blocks /\ n < e /\ e <= KHEAP_SIZE /\ (e = KHEAP_SIZE \/ e \in Blocks)
                             /\ e \notin DOMAIN fmb /\ FmbHead <= e - n
                             /\ \A d \in Blocks : d <= n \/ e <= d
      /\ n \notin DOMAIN fmb => e = n
  BY AroundFree, InOrder
<1>4. /\ p \in DOMAIN fmb => /\ p \in Blocks /\ s < p /\ -1 <= s /\ (s = -1 \/ s \in Blocks)
                             /\ s \notin DOMAIN fmb /\ cur = p /\ p \in 0 .. KHEAP_SIZE - 1 /\ FmbHead <= a - p
                             /\ \A d \in Blocks : p <= d \/ d <= s
      /\ p \notin DOMAIN fmb => s = p /\ cur = a
  <2>1. p \in DOMAIN fmb => End(p) = a BY <1>1, NeighboursAgree DEF Blocks
  <2> QED BY <2>1, AroundFree, InOrder
\* The merged block lies between s and e.
<1>5. /\ s < cur /\ cur <= a /\ a < e /\ e <= KHEAP_SIZE /\ -1 <= s /\ cur \in 0 .. KHEAP_SIZE - 1
      /\ e = KHEAP_SIZE \/ e \in Blocks
      /\ s = -1 \/ s \in Blocks
      /\ e \notin DOMAIN fmb /\ s \notin DOMAIN fmb /\ FmbHead <= e - cur
      /\ cur \in Blocks /\ n <= e /\ s <= p
      /\ \A d \in Blocks : d <= s \/ d = cur \/ d = a \/ (d = n /\ n \in DOMAIN fmb) \/ e <= d
  <2>1. e \notin DOMAIN fmb /\ s \notin DOMAIN fmb
    <3>1. KHEAP_SIZE \notin DOMAIN fmb /\ -1 \notin DOMAIN fmb BY <1>0, <1>1 DEF HeapShape
    <3> QED BY <1>3, <1>4
  <2>2. s < cur /\ cur <= a /\ a < e /\ e <= KHEAP_SIZE /\ -1 <= s /\ cur \in 0 .. KHEAP_SIZE - 1
        /\ n <= e /\ s <= p
    BY <1>1, <1>2, <1>3, <1>4
  <2>3. (e = KHEAP_SIZE \/ e \in Blocks) /\ (s = -1 \/ s \in Blocks) /\ cur \in Blocks
    BY <1>1, <1>2, <1>3, <1>4
  <2>4. FmbHead <= e - cur BY <1>1, <1>2, <2>2 DEF FmbHead, UmbHead
  <2>5. ASSUME NEW d \in Blocks
        PROVE  d <= s \/ d = cur \/ d = a \/ (d = n /\ n \in DOMAIN fmb) \/ e <= d
    <3>1. d \in Int /\ (d <= a \/ n <= d) /\ (a <= d \/ d <= p) BY <1>2
    <3>2. n <= d => (d = n /\ n \in DOMAIN fmb) \/ e <= d BY <1>3, <3>1
    <3>3. d <= p => d <= s \/ d = cur BY <1>4, <3>1
    <3> QED BY <1>1, <3>1, <3>2, <3>3
  <2> QED BY <2>1, <2>2, <2>3, <2>4, <2>5
<1>6. /\ p \in DOMAIN fmb => x = p
      /\ n \in DOMAIN fmb => EndFree(x) = n
      /\ x \in Int /\ -1 <= x /\ EndFree(x) \in Int
  <2>1. /\ x \in Int /\ -1 <= x /\ EndFree(x) \in Int
        /\ EndFree(x) = KHEAP_SIZE \/ EndFree(x) \in DOMAIN fmb
        /\ \A c \in DOMAIN fmb : c \in Int /\ c < KHEAP_SIZE /\ (c <= x \/ EndFree(x) <= c)
    BY FreeInOrder
  <2>2. x \in DOMAIN fmb => x \in Blocks BY DEF Blocks
  <2>3. EndFree(x) \in DOMAIN fmb => EndFree(x) \in Blocks BY DEF Blocks
  <2>4. ASSUME p \in DOMAIN fmb PROVE x = p
    <3>0. 0 <= p /\ (p <= x \/ EndFree(x) <= p) BY <1>0, <2>1, <2>4 DEF HeapShape
    <3>1. p <= x /\ 0 <= p BY <1>1, <1>2, <2>1, <3>0
    <3>2. x \in Blocks BY <2>1, <2>2, <3>1
    <3> QED BY <1>1, <1>2, <2>1, <3>1, <3>2
  <2>5. ASSUME n \in DOMAIN fmb PROVE EndFree(x) = n
    <3>1. EndFree(x) <= n /\ n < KHEAP_SIZE BY <1>1, <1>2, <2>1, <2>5
    <3>2. EndFree(x) \in Blocks BY <1>1, <2>1, <2>3, <3>1
    <3> QED BY <1>1, <1>2, <2>1, <3>1, <3>2
  <2> QED BY <2>1, <2>4, <2>5
<1>7. FMB(cur) \in HeapLinks /\ FMB(a) \in HeapLinks BY <1>1, <1>5, LinksTell
<1> DEFINE told == Tell(Without(umb, {a}), LinkTo(s), LinkTo(e), FMB(cur))
<1>8. /\ told \in [DOMAIN umb \ {a} -> UsedHeads]
      /\ \A c \in DOMAIN umb \ {a} :
           /\ told[c].nextMB = IF c = s THEN FMB(cur) ELSE umb[c].nextMB
           /\ told[c].preMB = IF c = e THEN FMB(cur) ELSE umb[c].preMB
  <2> DEFINE v == Without(umb, {a})
  <2>1. v \in [DOMAIN umb \ {a} -> UsedHeads] /\ \A c \in DOMAIN umb \ {a} : v[c] = umb[c]
    BY <1>0 DEF Without, HeapShape
  <2>2. told = Tell(v, LinkTo(s), LinkTo(e), FMB(cur)) OBVIOUS
  <2>3. s # a /\ e # a BY <1>1, <1>5
  <2> HIDE DEF told, v
  <2>4. /\ told \in [DOMAIN umb \ {a} -> UsedHeads]
        /\ \A c \in DOMAIN umb \ {a} :
             /\ told[c].nextMB = IF c = s /\ s \in DOMAIN umb THEN FMB(cur) ELSE v[c].nextMB
             /\ told[c].preMB = IF c = e /\ e \in DOMAIN umb THEN FMB(cur) ELSE v[c].preMB
    BY <1>0, <1>7, <2>1, <2>2, <2>3, TellWrites
  <2> QED BY <2>1, <2>4
<1>9. umb' = told OBVIOUS
<1> HIDE DEF told
<1>10. /\ linked \in [DOMAIN fmb \ gone -> FreeHeads]
       /\ \A c \in DOMAIN fmb \ gone :
            /\ linked[c].nextFMB = IF c = x /\ p \notin DOMAIN fmb THEN FMB(a) ELSE fmb[c].nextFMB
            /\ linked[c].nextUMB = fmb[c].nextUMB /\ linked[c].preUMB = fmb[c].preUMB
  <2> DEFINE kept == Without(fmb, gone)
  <2>1. kept \in [DOMAIN fmb \ gone -> FreeHeads] /\ \A c \in DOMAIN fmb \ gone : kept[c] = fmb[c]
    BY <1>0 DEF Without, HeapShape
  <2>2. -1 \notin DOMAIN fmb BY <1>0 DEF HeapShape
  <2>3. x # -1 => x \in DOMAIN fmb \ gone BY <1>1, <1>2, <1>6
  <2>4. \A h \in FreeHeads : /\ [h EXCEPT !.nextFMB = FMB(a)] \in FreeHeads
                             /\ [h EXCEPT !.nextFMB = FMB(a)].nextFMB = FMB(a)
                             /\ [h EXCEPT !.nextFMB = FMB(a)].nextUMB = h.nextUMB
                             /\ [h EXCEPT !.nextFMB = FMB(a)].preUMB = h.preUMB
    BY <1>7 DEF FreeHeads
  <2>5. linked = IF p \notin DOMAIN fmb /\ x # -1 THEN [kept EXCEPT ![x] = [kept[x] EXCEPT !.nextFMB = FMB(a)]] ELSE kept
    OBVIOUS
  <2> HIDE DEF kept
  <2>6. CASE p \notin DOMAIN fmb /\ x # -1
    <3>1. linked = [kept EXCEPT ![x] = [kept[x] EXCEPT !.nextFMB = FMB(a)]] /\ x \in DOMAIN fmb \ gone
      BY <2>3, <2>5, <2>6
    <3> DEFINE h == [kept[x] EXCEPT !.nextFMB = FMB(a)]
    <3>2. /\ h \in FreeHeads /\ h.nextFMB = FMB(a)
          /\ h.nextUMB = fmb[x].nextUMB /\ h.preUMB = fmb[x].preUMB
      BY <2>1, <2>4, <3>1
    <3>3. linked = [kept EXCEPT ![x] = h] BY <3>1
    <3> HIDE DEF h
    <3>4. linked \in [DOMAIN fmb \ gone -> FreeHeads] BY <2>1, <3>2, <3>3
    <3>5. \A c \in DOMAIN fmb \ gone : linked[c] = IF c = x THEN h ELSE fmb[c] BY <2>1, <3>3
    <3> QED BY <2>6, <3>2, <3>4, <3>5
  <2>7. CASE ~(p \notin DOMAIN fmb /\ x # -1)
    <3>1. linked = kept BY <2>5, <2>7
    <3> QED BY <2>1, <2>2, <2>7, <3>1
  <2> QED BY <2>6, <2>7
<1>11. /\ DOMAIN fmb' = (DOMAIN fmb \ gone) \union {cur}
       /\ \A c \in DOMAIN fmb \ gone : c # cur => fmb'[c] = linked[c]
       /\ fmb'[cur] = head
  BY <1>10 DEF With
<1>d. DOMAIN fmb' = (DOMAIN fmb \ gone) \union {cur} BY <1>11
<1>12. DOMAIN umb' = DOMAIN umb \ {a} BY <1>8, <1>9
\* Every other block ends below the merged one or starts above it.
<1>13. ASSUME NEW d \in Blocks'
       PROVE  d \in Blocks /\ d \in Int /\ 0 <= d /\ d < KHEAP_SIZE /\ (d = cur \/ (d # a /\ d \notin gone))
              /\ (d <= s \/ d = cur \/ e <= d)
  <2>1. d \in Blocks BY <1>5, <1>11, <1>12 DEF Blocks
  <2>2. d = cur \/ (d # a /\ d \notin gone)
    BY <1>0, <1>1, <1>11, <1>12 DEF Blocks, HeapShape
  <2>3. d \in Int /\ 0 <= d /\ d < KHEAP_SIZE BY <1>2, <2>1
  <2> QED BY <1>5, <2>1, <2>2, <2>3
<1>14. ASSUME NEW d \in Blocks, d # a, d \notin gone PROVE d \in Blocks'
  BY <1>11, <1>12, <1>14 DEF Blocks
<1>15. cur \in Blocks' /\ cur \notin DOMAIN umb' /\ cur \in DOMAIN fmb'
  <2>1. cur \notin DOMAIN umb \ {a} BY <1>0, <1>4 DEF HeapShape
  <2>2. cur \in DOMAIN fmb' BY <1>11
  <2>3. cur \notin DOMAIN umb' BY <1>12, <2>1
  <2> QED BY <2>2, <2>3 DEF Blocks
<1>16. head \in FreeHeads /\ head.nextFMB = LinkFree(y) /\ head.nextUMB = LinkTo(e) /\ head.preUMB = LinkTo(s)
  <2>1. LinkTo(e) \in HeapLinks /\ LinkTo(s) \in HeapLinks BY <1>0, LinkToTells
  <2>2. LinkFree(y) \in HeapLinks
    <3>1. y \in DOMAIN fmb => fmb[y] \in FreeHeads BY <1>0 DEF HeapShape
    <3> QED BY <1>0, <3>1 DEF LinkFree, FreeHeads, HeapShape
  <2> QED BY <2>1, <2>2 DEF FreeHeads
<1>17. HeapShape'
  <2>1. umb' \in [DOMAIN umb' -> UsedHeads] BY <1>8, <1>9, <1>12
  <2>2. fmb' \in [DOMAIN fmb' -> FreeHeads]
    <3>1. fmb' = [c \in DOMAIN fmb' |-> fmb'[c]] BY DEF With
    <3>2. ASSUME NEW c \in DOMAIN fmb' PROVE fmb'[c] \in FreeHeads
      <4>1. CASE c = cur BY <1>11, <1>16, <4>1
      <4>2. CASE c # cur
        <5>1. c \in DOMAIN fmb \ gone /\ fmb'[c] = linked[c] BY <1>11, <4>2
        <5>2. linked[c] \in FreeHeads BY <1>10, <5>1
        <5> QED BY <5>1, <5>2
      <4> QED BY <4>1, <4>2
    <3> QED BY <3>1, <3>2
  <2>3. FMBlist' \in HeapLinks BY <1>0, <1>7 DEF HeapShape
  <2>4. asked' \in [DOMAIN umb' -> Nat \ {0}] BY <1>0, <1>12 DEF HeapShape, Without
  <2>5. UsedHeads' = UsedHeads /\ FreeHeads' = FreeHeads /\ HeapLinks' = HeapLinks
    BY DEF UsedHeads, FreeHeads, HeapLinks
  <2>6. DOMAIN umb' \subseteq 0 .. KHEAP_SIZE - 1 BY <1>0, <1>12 DEF HeapShape
  <2>7. DOMAIN fmb' \subseteq 0 .. KHEAP_SIZE - 1
    <3>1. DOMAIN fmb \subseteq 0 .. KHEAP_SIZE - 1 BY <1>0 DEF HeapShape
    <3> QED BY <1>5, <1>11, <3>1
  <2>8. DOMAIN umb' \intersect DOMAIN fmb' = {}
    <3>1. DOMAIN umb \intersect DOMAIN fmb = {} BY <1>0 DEF HeapShape
    <3> QED BY <1>d, <1>12, <1>15, <3>1
  <2>9. 0 \in Blocks'
    <3>1. 0 \in Blocks BY <1>0 DEF HeapShape
    <3>2. 0 <= a /\ 0 <= cur /\ cur \in Int BY <1>1, <1>5
    <3>3. 0 # n /\ 0 \notin gone BY <1>1, <1>2, <3>2
    <3>4. CASE a = 0
      <4>1. cur = 0 BY <1>5, <3>2, <3>4
      <4> QED BY <1>15, <4>1
    <3>5. CASE a # 0 BY <1>14, <3>1, <3>3, <3>5
    <3> QED BY <3>4, <3>5
  <2> QED BY <2>1, <2>2, <2>3, <2>4, <2>5, <2>6, <2>7, <2>8, <2>9 DEF HeapShape
<1>18. ASSUME NEW m \in Int, m = cur \/ (m # a /\ m \notin gone)
       PROVE  (IF m \in DOMAIN umb' THEN UMB(m) ELSE IF m \in DOMAIN fmb' THEN FMB(m) ELSE NULL)
                = IF m = cur THEN FMB(cur) ELSE LinkTo(m)
  <2>1. CASE m = cur BY <1>15, <2>1
  <2>2. CASE m # cur
    <3>1. m \in DOMAIN umb' <=> m \in DOMAIN umb BY <1>12, <1>18, <2>2
    <3>2. m \in DOMAIN fmb' <=> m \in DOMAIN fmb BY <1>11, <1>18, <2>2
    <3> QED BY <2>2, <3>1, <3>2 DEF LinkTo, Link, Blocks
  <2> QED BY <2>1, <2>2
<1>19. ASSUME NEW c \in Blocks', c # cur
       PROVE  /\ c \in Blocks /\ c \in Int /\ c # a /\ c \notin gone
              /\ c \in DOMAIN umb => c \in DOMAIN umb' /\ umb'[c] = told[c]
              /\ c \in DOMAIN fmb => c \notin DOMAIN umb' /\ c \notin DOMAIN umb /\ fmb'[c] = linked[c] /\ c \in DOMAIN fmb \ gone
  <2>1. c \in Blocks /\ c \in Int /\ c # a /\ c \notin gone BY <1>13, <1>19
  <2>2. c \in DOMAIN fmb => c \notin DOMAIN umb BY <1>0 DEF HeapShape
  <2> QED BY <1>9, <1>11, <1>12, <1>19, <2>1, <2>2
<1>20. ASSUME NEW c \in Blocks', c # cur PROVE Up(c)' /\ End(c)' = End(c)
  <2>0. c \in Blocks /\ c \in Int /\ c # a /\ c \notin gone BY <1>19, <1>20
  <2>1. /\ c < End(c) /\ End(c) \in Int
        /\ End(c) = KHEAP_SIZE \/ End(c) \in Blocks
        /\ \A d \in Blocks : d <= c \/ End(c) <= d
    BY <2>0, InOrder
  <2>2. LinkUp(c) = LinkTo(End(c)) BY <2>0 DEF HeapInv, HeapOrder, Up
  <2>3. End(c) = cur <=> c = s
    <3>1. End(c) = cur => Start(cur) = c BY <1>5, <2>0, NeighboursAgree
    <3>2. Start(cur) = s BY <1>4
    <3>3. c = s => End(s) = cur BY <1>5, <2>0, <3>2, NeighboursAgree
    <3> QED BY <3>1, <3>2, <3>3
  <2>4. End(c) = cur \/ (End(c) # a /\ End(c) \notin gone)
    <3>1. End(c) = a => p = c BY <1>1, <2>0, NeighboursAgree
    <3>2. End(c) \in gone => Start(n) = c BY <2>0, NeighboursAgree DEF Blocks
    <3>3. End(c) \in gone => Start(n) = a BY <1>1, NeighboursAgree DEF Blocks
    <3>4. End(c) = a => cur = a BY <1>4, <1>20, <3>1
    <3> QED BY <2>0, <3>2, <3>3, <3>4
  <2>5. LinkUp(c)' = IF End(c) = cur THEN FMB(cur) ELSE LinkTo(End(c))
    <3>2. CASE c \in DOMAIN umb
      <4>1. c \in DOMAIN umb' /\ umb'[c] = told[c] BY <1>19, <1>20, <3>2
      <4>2. umb[c].nextMB = LinkTo(End(c)) BY <2>2, <3>2 DEF LinkUp
      <4> QED BY <1>8, <2>0, <2>3, <3>2, <4>1, <4>2 DEF LinkUp
    <3>3. CASE c \in DOMAIN fmb
      <4>1. c \notin DOMAIN umb /\ c \notin DOMAIN umb' /\ fmb'[c] = linked[c] /\ c \in DOMAIN fmb \ gone
        BY <1>19, <1>20, <3>3
      <4>2. fmb[c].nextUMB = LinkTo(End(c)) BY <3>3, AroundFree
      <4>3. End(c) # cur BY <1>5, <2>3, <3>3
      <4> QED BY <1>10, <4>1, <4>2, <4>3 DEF LinkUp
    <3> QED BY <2>0, <3>2, <3>3 DEF Blocks
  <2>6. LinkUp(c)' = IF End(c) \in DOMAIN umb' THEN UMB(End(c)) ELSE IF End(c) \in DOMAIN fmb' THEN FMB(End(c)) ELSE NULL
    BY <1>18, <2>1, <2>4, <2>5
  <2>7. End(c) \in Blocks' \/ End(c) = KHEAP_SIZE BY <1>14, <1>15, <2>1, <2>4
  <2>8. \A d \in Blocks' : d <= c \/ End(c) <= d BY <1>13, <2>1
  <2> QED BY <1>17, <2>1, <2>6, <2>7, <2>8, UpAgain
<1>21. Up(cur)' /\ End(cur)' = e
  <2>1. LinkUp(cur)' = LinkTo(e) BY <1>11, <1>15, <1>16 DEF LinkUp
  <2>2. e # cur /\ e # a /\ e \notin gone BY <1>5
  <2>3. LinkUp(cur)' = IF e \in DOMAIN umb' THEN UMB(e) ELSE IF e \in DOMAIN fmb' THEN FMB(e) ELSE NULL
    BY <1>18, <2>1, <2>2
  <2>4. e \in Blocks' \/ e = KHEAP_SIZE BY <1>5, <1>14, <2>2
  <2>5. \A d \in Blocks' : d <= cur \/ e <= d BY <1>5, <1>13
  <2>6. cur < e BY <1>1, <1>5
  <2> QED BY <1>17, <2>3, <2>4, <2>5, <2>6, UpAgain
<1>22. Down(cur)'
  <2>1. LinkDown(cur)' = LinkTo(s) BY <1>11, <1>15, <1>16 DEF LinkDown
  <2>2. s # cur /\ s # a /\ s \notin gone BY <1>1, <1>5
  <2>3. LinkDown(cur)' = IF s \in DOMAIN umb' THEN UMB(s) ELSE IF s \in DOMAIN fmb' THEN FMB(s) ELSE NULL
    BY <1>18, <2>1, <2>2
  <2>4. s \in Blocks' \/ s = -1 BY <1>5, <1>14, <2>2
  <2>5. \A d \in Blocks' : cur <= d \/ d <= s
    <3>1. cur <= e BY <1>1, <1>5
    <3> QED BY <1>1, <1>5, <1>13, <3>1
  <2>6. s < cur BY <1>5
  <2> QED BY <1>17, <2>3, <2>4, <2>5, <2>6, DownAgain
<1>23. ASSUME NEW c \in Blocks', c # cur PROVE Down(c)'
  <2>0. c \in Blocks /\ c \in Int /\ c # a /\ c \notin gone BY <1>19, <1>23
  <2>1. /\ Start(c) < c /\ Start(c) \in Int
        /\ Start(c) = -1 \/ Start(c) \in Blocks
        /\ \A d \in Blocks : c <= d \/ d <= Start(c)
    BY <2>0, InOrder
  <2>2. LinkDown(c) = LinkTo(Start(c)) BY <2>0 DEF HeapInv, HeapOrder, Down
  <2>3. LinkDown(c)' = IF c = e THEN FMB(cur) ELSE LinkTo(Start(c))
    <3>1. CASE c \in DOMAIN umb
      <4>1. c \in DOMAIN umb' /\ umb'[c] = told[c] BY <1>19, <1>23, <3>1
      <4>2. umb[c].preMB = LinkTo(Start(c)) BY <2>2, <3>1 DEF LinkDown
      <4> QED BY <1>8, <2>0, <3>1, <4>1, <4>2 DEF LinkDown
    <3>2. CASE c \in DOMAIN fmb
      <4>1. c \notin DOMAIN umb /\ c \notin DOMAIN umb' /\ fmb'[c] = linked[c] /\ c \in DOMAIN fmb \ gone
        BY <1>19, <1>23, <3>2
      <4>2. fmb[c].preUMB = LinkTo(Start(c)) BY <3>2, AroundFree
      <4>3. c # e BY <1>5, <3>2
      <4> QED BY <1>10, <4>1, <4>2, <4>3 DEF LinkDown
    <3> QED BY <2>0, <3>1, <3>2 DEF Blocks
  <2>4. CASE c = e
    <3>1. \A d \in Blocks' : c <= d \/ d <= cur BY <1>1, <1>5, <1>13, <2>4
    <3>2. cur < c BY <1>1, <1>5, <2>0, <2>4
    <3>3. LinkDown(c)' = IF cur \in DOMAIN umb' THEN UMB(cur) ELSE IF cur \in DOMAIN fmb' THEN FMB(cur) ELSE NULL
      BY <1>15, <2>3, <2>4
    <3> QED BY <1>15, <1>17, <3>1, <3>2, <3>3, DownAgain
  <2>5. CASE c # e
    <3>0. Start(c) \in Blocks => End(Start(c)) = c BY <2>0, NeighboursAgree
    <3>1. Start(c) # cur /\ Start(c) # a /\ Start(c) \notin gone
      <4>1. Start(c) # a
        <5> SUFFICES ASSUME Start(c) = a PROVE FALSE OBVIOUS
        <5>1. c = n BY <1>1, <3>0
        <5> QED BY <1>3, <2>0, <2>5, <5>1
      <4>2. Start(c) \notin gone
        <5> SUFFICES ASSUME Start(c) \in gone PROVE FALSE OBVIOUS
        <5>1. Start(c) = n /\ n \in DOMAIN fmb OBVIOUS
        <5>2. c = End(n) BY <3>0, <5>1 DEF Blocks
        <5> QED BY <2>5, <5>1, <5>2
      <4>3. Start(c) # cur
        <5> SUFFICES ASSUME Start(c) = cur PROVE FALSE OBVIOUS
        <5>1. p \in DOMAIN fmb /\ cur = p BY <1>4, <4>1
        <5>2. End(p) = a BY <1>1, <5>1, NeighboursAgree DEF Blocks
        <5> QED BY <1>5, <2>0, <3>0, <5>1, <5>2
      <4> QED BY <4>1, <4>2, <4>3
    <3>2. LinkDown(c)' = IF Start(c) \in DOMAIN umb' THEN UMB(Start(c)) ELSE IF Start(c) \in DOMAIN fmb' THEN FMB(Start(c)) ELSE NULL
      BY <1>18, <2>1, <2>3, <2>5, <3>1
    <3>3. Start(c) \in Blocks' \/ Start(c) = -1 BY <1>14, <2>1, <3>1
    <3>4. \A d \in Blocks' : c <= d \/ d <= Start(c) BY <1>13, <2>1
    <3> QED BY <1>17, <2>1, <3>2, <3>3, <3>4, DownAgain
  <2> QED BY <2>4, <2>5
<1>24. ASSUME NEW z \in (DOMAIN fmb \ gone) \union {-1}, z # cur PROVE FreeUp(z)'
  <2>1. /\ z \in Int /\ EndFree(z) \in Int /\ z < EndFree(z) /\ -1 <= z
        /\ EndFree(z) = KHEAP_SIZE \/ EndFree(z) \in DOMAIN fmb
        /\ LinkFree(z) = IF EndFree(z) = KHEAP_SIZE THEN NULL ELSE FMB(EndFree(z))
        /\ \A d \in DOMAIN fmb : d \in Int /\ (d <= z \/ EndFree(z) <= d)
    BY FreeInOrder
  <2>2. /\ x < EndFree(x) /\ \A d \in DOMAIN fmb : d <= x \/ EndFree(x) <= d
    BY FreeInOrder
  <2>3. LinkFree(z)' = IF z = x /\ p \notin DOMAIN fmb THEN FMB(a) ELSE LinkFree(z)
    <3>1. CASE z = -1 BY <3>1 DEF LinkFree
    <3>2. CASE z # -1
      <4>1. z \in DOMAIN fmb \ gone BY <1>24, <3>2
      <4>2. fmb'[z] = linked[z] BY <1>11, <1>24, <4>1
      <4>3. LinkFree(z)' = linked[z].nextFMB /\ LinkFree(z) = fmb[z].nextFMB BY <3>2, <4>2 DEF LinkFree
      <4> QED BY <1>10, <4>1, <4>3
    <3> QED BY <3>1, <3>2
  <2>4. CASE z = x
    <3>1. p \notin DOMAIN fmb /\ cur = a BY <1>4, <1>6, <1>24, <2>4
    <3>2. LinkFree(z)' = FMB(a) BY <2>3, <2>4, <3>1
    <3>3. a \in DOMAIN fmb' /\ a # KHEAP_SIZE BY <1>1, <1>15, <3>1
    <3>4. \A d \in DOMAIN fmb' : d <= z \/ a <= d BY <1>1, <1>6, <1>11, <2>1, <2>2, <2>4, <3>1
    <3> QED BY <1>1, <1>17, <2>1, <2>4, <3>2, <3>3, <3>4, FreeUpAgain
  <2>5. CASE z # x
    <3>1. LinkFree(z)' = LinkFree(z) BY <2>3, <2>5
    <3>2. EndFree(z) \notin gone
      <4> SUFFICES ASSUME EndFree(z) = n, n \in DOMAIN fmb PROVE FALSE OBVIOUS
      <4>1. EndFree(x) = n BY <1>6
      <4>2. z \in DOMAIN fmb => z <= x BY <1>1, <1>6, <2>1, <2>2, <4>1
      <4>3. x \in DOMAIN fmb => x <= z BY <1>1, <1>6, <2>1, <2>2, <4>1
      <4> QED BY <1>6, <2>1, <2>5, <4>2, <4>3
    <3>3. EndFree(z) \in DOMAIN fmb' \/ EndFree(z) = KHEAP_SIZE BY <1>11, <2>1, <3>2
    <3>4. cur <= z \/ EndFree(z) <= cur
      <4>1. CASE p \in DOMAIN fmb BY <1>4, <2>1, <4>1
      <4>2. CASE p \notin DOMAIN fmb
        <5>1. cur = a BY <1>4, <4>2
        <5>2. x \in DOMAIN fmb => x <= z \/ EndFree(z) <= x BY <2>1
        <5>3. z \in DOMAIN fmb => z <= x \/ EndFree(x) <= z BY <2>2
        <5> QED BY <1>1, <1>6, <1>24, <2>1, <2>2, <2>5, <5>1, <5>2, <5>3
      <4> QED BY <4>1, <4>2
    <3>5. \A d \in DOMAIN fmb' : d <= z \/ EndFree(z) <= d BY <1>1, <1>11, <1>24, <2>1, <3>4
    <3> QED BY <1>17, <2>1, <3>1, <3>3, <3>5, FreeUpAgain
  <2> QED BY <2>4, <2>5
<1>25. FreeUp(cur)'
  <2>1. /\ y \in Int /\ EndFree(y) \in Int /\ y < EndFree(y)
        /\ EndFree(y) = KHEAP_SIZE \/ EndFree(y) \in DOMAIN fmb
        /\ LinkFree(y) = IF EndFree(y) = KHEAP_SIZE THEN NULL ELSE FMB(EndFree(y))
        /\ \A d \in DOMAIN fmb : d \in Int /\ (d <= y \/ EndFree(y) <= d)
    BY FreeInOrder
  <2>2. cur # -1 BY <1>5
  <2>3. LinkFree(cur)' = LinkFree(y) BY <1>11, <1>16, <2>2 DEF LinkFree
  <2>4. cur < EndFree(y) BY <1>1, <1>2, <1>5, <1>6, <2>1
  <2>5. EndFree(y) \in DOMAIN fmb' \/ EndFree(y) = KHEAP_SIZE
    <3>1. CASE n \in DOMAIN fmb
      <4>1. y = n /\ EndFree(y) # n BY <2>1, <3>1
      <4> QED BY <1>d, <2>1, <4>1
    <3>2. CASE n \notin DOMAIN fmb
      <4>1. gone = {} BY <3>2
      <4> QED BY <1>d, <2>1, <4>1
    <3> QED BY <3>1, <3>2
  <2>6. \A d \in DOMAIN fmb' : d <= cur \/ EndFree(y) <= d
    <3>1. ASSUME NEW d \in DOMAIN fmb \ gone PROVE d <= cur \/ EndFree(y) <= d
      <4>1. d \in Int /\ d \in Blocks /\ (d <= y \/ EndFree(y) <= d) BY <2>1 DEF Blocks
      <4>2. CASE d <= x
        <5>1. d <= a BY <1>1, <1>6, <4>1, <4>2
        <5>2. d # a BY <1>1
        <5>3. d <= p
          <6>1. a <= d \/ d <= p BY <1>2, <4>1
          <6> QED BY <1>1, <4>1, <5>1, <5>2, <6>1
        <5> QED BY <1>1, <1>2, <1>4, <1>5, <4>1, <5>1, <5>3
      <4>3. CASE ~(d <= x)
        <5>1. d # n BY <3>1
        <5> QED BY <1>1, <1>6, <4>1, <4>3, <5>1, FreeInOrder
      <4> QED BY <4>2, <4>3
    <3> QED BY <1>11, <3>1, <1>5
  <2> QED BY <1>17, <2>1, <2>3, <2>4, <2>5, <2>6, FreeUpAgain
<1>26. HeapOrder'
  <2>1. \A c \in Blocks' : Up(c)' /\ Down(c)' BY <1>20, <1>21, <1>22, <1>23
  <2>2. \A z \in (DOMAIN fmb)' \union {-1} : FreeUp(z)' BY <1>11, <1>24, <1>25
  <2> QED BY <2>1, <2>2 DEF HeapOrder
<1>27. HeapRoom'
  <2>1. ASSUME NEW c \in DOMAIN umb' PROVE asked'[c] + UmbHead <= End(c)' - c
    <3>1. c \in Blocks' /\ c # cur /\ c \in DOMAIN umb /\ c # a BY <1>12, <1>15 DEF Blocks
    <3>2. End(c)' = End(c) BY <1>20, <3>1
    <3>3. asked'[c] = asked[c] BY <1>0, <3>1 DEF Without, HeapShape
    <3>4. asked[c] + UmbHead <= End(c) - c BY <3>1 DEF HeapInv, HeapRoom
    <3> QED BY <3>2, <3>3, <3>4
  <2>2. ASSUME NEW c \in DOMAIN fmb' PROVE FmbHead <= End(c)' - c /\ End(c)' \notin DOMAIN fmb'
    <3>1. CASE c = cur
      <4>1. e \notin DOMAIN fmb' BY <1>1, <1>5, <1>d
      <4> QED BY <1>5, <1>21, <3>1, <4>1
    <3>2. CASE c # cur
      <4>1. c \in Blocks' /\ c \in DOMAIN fmb BY <1>11, <3>2 DEF Blocks
      <4>2. End(c)' = End(c) BY <1>20, <3>2, <4>1
      <4>3. FmbHead <= End(c) - c /\ End(c) \notin DOMAIN fmb BY <4>1 DEF HeapInv, HeapRoom
      <4>4. End(c) # cur
        <5> SUFFICES ASSUME End(c) = cur PROVE FALSE OBVIOUS
        <5>1. c \in Blocks BY <4>1 DEF Blocks
        <5>2. Start(cur) = c BY <1>5, <5>1, NeighboursAgree
        <5>3. Start(cur) = s BY <1>4
        <5> QED BY <1>5, <4>1, <5>2, <5>3
      <4> QED BY <1>11, <4>2, <4>3, <4>4
    <3> QED BY <3>1, <3>2
  <2> QED BY <2>1, <2>2 DEF HeapRoom
<1> QED BY <1>17, <1>26, <1>27 DEF HeapInv

\* A piece of the list of free blocks: the last ones, from a on, by address.
InRow(t, a) ==
  /\ t \in Seq(DOMAIN fmb) /\ Len(t) > 0 /\ t[1] = a
  /\ \A i \in 1 .. Len(t) - 1 : EndFree(t[i]) = t[i + 1]
  /\ \A i, j \in 1 .. Len(t) : i < j => t[i] < t[j]
  /\ \A c \in DOMAIN fmb : a <= c => \E i \in 1 .. Len(t) : t[i] = c

\* One more block before a piece of the list.
LEMMA InRowLonger ==
  ASSUME HeapInv, NEW a \in DOMAIN fmb, NEW u,
         IF EndFree(a) = KHEAP_SIZE THEN u = <<>> ELSE InRow(u, EndFree(a)),
         NEW t, t = <<a>> \o u
  PROVE  InRow(t, a)
<1>1. /\ EndFree(a) \in Int /\ a < EndFree(a) /\ a \in Int
      /\ EndFree(a) = KHEAP_SIZE \/ EndFree(a) \in DOMAIN fmb
      /\ KHEAP_SIZE \in Int
      /\ \A c \in DOMAIN fmb : c \in Int /\ c < KHEAP_SIZE /\ (c <= a \/ EndFree(a) <= c)
  BY FreeInOrder
<1>2. u \in Seq(DOMAIN fmb)
  <2>1. CASE EndFree(a) = KHEAP_SIZE
    <3>1. u = <<>> BY <2>1
    <3> QED BY <3>1
  <2>2. CASE EndFree(a) # KHEAP_SIZE
    <3>1. InRow(u, EndFree(a)) BY <2>2
    <3> QED BY <3>1 DEF InRow
  <2> QED BY <2>1, <2>2
<1>3. /\ t \in Seq(DOMAIN fmb) /\ Len(t) = Len(u) + 1 /\ Len(u) \in Nat
      /\ t[1] = a /\ \A i \in 1 .. Len(u) : t[i + 1] = u[i] /\ u[i] \in DOMAIN fmb
  BY <1>2
<1>4. \A i \in 1 .. Len(t) : i = 1 \/ (i - 1 \in 1 .. Len(u) /\ t[i] = u[i - 1])
  <2> SUFFICES ASSUME NEW i \in 1 .. Len(t), i # 1 PROVE i - 1 \in 1 .. Len(u) /\ t[i] = u[i - 1] OBVIOUS
  <2>1. i - 1 \in 1 .. Len(u) /\ (i - 1) + 1 = i BY <1>3
  <2> QED BY <1>3, <2>1
<1>5. CASE EndFree(a) = KHEAP_SIZE
  <2>1. u = <<>> BY <1>5
  <2>2. Len(u) = 0 BY <2>1
  <2>3. Len(t) = 1 BY <1>3, <2>2
  <2>4. \A c \in DOMAIN fmb : a <= c => c = a BY <1>1, <1>5
  <2> QED BY <1>3, <2>3, <2>4 DEF InRow
<1>6. CASE EndFree(a) # KHEAP_SIZE
  <2>1. InRow(u, EndFree(a)) BY <1>6
  <2>2. /\ Len(u) > 0 /\ u[1] = EndFree(a)
        /\ \A i \in 1 .. Len(u) - 1 : EndFree(u[i]) = u[i + 1]
        /\ \A i, j \in 1 .. Len(u) : i < j => u[i] < u[j]
        /\ \A c \in DOMAIN fmb : EndFree(a) <= c => \E i \in 1 .. Len(u) : u[i] = c
    BY <2>1 DEF InRow
  <2>3. ASSUME NEW i \in 1 .. Len(t) - 1 PROVE EndFree(t[i]) = t[i + 1]
    <3>1. CASE i = 1
      <4>1. 1 \in 1 .. Len(u) BY <1>3, <2>2
      <4>2. t[1 + 1] = u[1] BY <1>3, <4>1
      <4> QED BY <1>3, <2>2, <3>1, <4>2
    <3>2. CASE i # 1
      <4>1. i - 1 \in 1 .. Len(u) - 1 /\ i - 1 \in 1 .. Len(u) /\ i \in 1 .. Len(u) /\ (i - 1) + 1 = i BY <1>3, <3>2
      <4>2. t[i] = u[i - 1] /\ t[i + 1] = u[i] BY <1>3, <4>1
      <4>3. EndFree(u[i - 1]) = u[(i - 1) + 1] BY <2>2, <4>1
      <4> QED BY <4>1, <4>2, <4>3
    <3> QED BY <3>1, <3>2
  <2>4. \A i \in 1 .. Len(u) : a < u[i]
    <3> SUFFICES ASSUME NEW i \in 1 .. Len(u) PROVE a < u[i] OBVIOUS
    <3>1. 1 \in 1 .. Len(u) /\ u[i] \in DOMAIN fmb /\ u[i] \in Int BY <1>1, <1>3, <2>2
    <3>2. i = 1 \/ u[1] < u[i] BY <2>2, <3>1
    <3> QED BY <1>1, <2>2, <3>1, <3>2
  <2>5. ASSUME NEW i \in 1 .. Len(t), NEW j \in 1 .. Len(t), i < j PROVE t[i] < t[j]
    <3>1. j - 1 \in 1 .. Len(u) /\ t[j] = u[j - 1] BY <1>3, <1>4, <2>5
    <3>2. CASE i = 1 BY <1>3, <2>4, <3>1, <3>2
    <3>3. CASE i # 1
      <4>1. i - 1 \in 1 .. Len(u) /\ t[i] = u[i - 1] /\ i - 1 < j - 1 BY <1>4, <2>5, <3>3
      <4> QED BY <2>2, <3>1, <4>1
    <3> QED BY <3>2, <3>3
  <2>6. ASSUME NEW c \in DOMAIN fmb, a <= c PROVE \E i \in 1 .. Len(t) : t[i] = c
    <3>1. CASE c = a
      <4>1. 1 \in 1 .. Len(t) BY <1>3
      <4> QED BY <1>3, <3>1, <4>1
    <3>2. CASE c # a
      <4>1. EndFree(a) <= c BY <1>1, <2>6, <3>2
      <4>2. PICK i \in 1 .. Len(u) : u[i] = c BY <2>2, <4>1
      <4>3. i + 1 \in 1 .. Len(t) /\ t[i + 1] = c BY <1>3, <4>2
      <4> QED BY <4>3
    <3> QED BY <3>1, <3>2
  <2> QED BY <1>3, <2>3, <2>5, <2>6 DEF InRow
<1> QED BY <1>5, <1>6

\* What Chain is of the links, its recursive function resolved: in the links the
\* addresses grow, so the function exists.
Rows == {FMB(a) : a \in DOMAIN fmb} \union {NULL}
RowOf(f, p) == IF p = NULL THEN <<>> ELSE <<At(p)>> \o f[fmb[At(p)].nextFMB]

\* The links the list is made of.
LEMMA RowsTell ==
  ASSUME HeapInv
  PROVE  /\ \A p \in Rows : p = NULL \/ (p = FMB(At(p)) /\ p # NULL /\ At(p) \in DOMAIN fmb)
         /\ \A a \in DOMAIN fmb : FMB(a) \in Rows /\ FMB(a) # NULL /\ At(FMB(a)) = a
         /\ \A x \in DOMAIN fmb \union {-1} : LinkFree(x) \in Rows
         /\ NULL \in Rows
<1>1. \A a \in DOMAIN fmb : FMB(a) # NULL /\ At(FMB(a)) = a
  <2>1. \A a \in DOMAIN fmb : a \in 0 .. KHEAP_SIZE - 1 BY DEF HeapInv, HeapShape
  <2> QED BY <2>1, LinksTell
<1>2. \A x \in DOMAIN fmb \union {-1} : LinkFree(x) \in Rows
  <2> SUFFICES ASSUME NEW x \in DOMAIN fmb \union {-1} PROVE LinkFree(x) \in Rows OBVIOUS
  <2>1. /\ EndFree(x) = KHEAP_SIZE \/ EndFree(x) \in DOMAIN fmb
        /\ LinkFree(x) = IF EndFree(x) = KHEAP_SIZE THEN NULL ELSE FMB(EndFree(x))
    BY FreeInOrder
  <2> QED BY <2>1 DEF Rows
<1> QED BY <1>1, <1>2 DEF Rows

\* The recursive function of Chain exists.
LEMMA ChainIs ==
  ASSUME HeapInv
  PROVE  \E f : f = [p \in Rows |-> RowOf(f, p)] /\ FreeList = f[FMBlist]
<1> DEFINE Is(f) == f = [p \in Rows |-> RowOf(f, p)]
           from == CHOOSE f : Is(f)
           top(p, n) == p = NULL \/ KHEAP_SIZE <= At(p) + n
           S == {n \in Nat : \E f : \A p \in Rows : top(p, n) => f[p] = RowOf(f, p)}
<1>0. FreeList = from[FMBlist] BY DEF FreeList, Chain, Rows, RowOf
<1>1. KHEAP_SIZE \in Nat BY HeapAssumption
<1>2. \A a \in DOMAIN fmb : a \in Nat /\ a < KHEAP_SIZE BY AroundFree, <1>1
<1>3. 0 \in S
  <2>1. \A p \in Rows : top(p, 0) => p = NULL BY <1>1, <1>2, RowsTell
  <2> DEFINE f == [p \in Rows |-> <<>>]
  <2>2. \A p \in Rows : p = NULL => f[p] = RowOf(f, p) BY DEF RowOf
  <2> HIDE DEF f, top
  <2> QED BY <2>1, <2>2
<1>4. ASSUME NEW n \in Nat, n \in S PROVE n + 1 \in S
  <2>1. PICK f : \A p \in Rows : top(p, n) => f[p] = RowOf(f, p) BY <1>4
  <2> DEFINE g == [p \in Rows |-> IF top(p, n) THEN f[p] ELSE RowOf(f, p)]
  <2>2. ASSUME NEW p \in Rows, top(p, n + 1) PROVE g[p] = RowOf(g, p)
    <3>1. CASE p = NULL
      <4>1. g[p] = f[p] /\ f[p] = RowOf(f, p) BY <2>1, <3>1
      <4> HIDE DEF g
      <4> QED BY <3>1, <4>1 DEF RowOf
    <3>2. CASE p # NULL
      <4> DEFINE next == fmb[At(p)].nextFMB
      <4>1. At(p) \in DOMAIN fmb /\ At(p) \in Nat /\ KHEAP_SIZE <= At(p) + (n + 1) BY <1>2, <2>2, <3>2, RowsTell
      <4>2. next = LinkFree(At(p)) BY <4>1, AroundFree
      <4>3. next \in Rows BY <4>1, <4>2, RowsTell
      <4>4. top(next, n)
        <5>1. /\ EndFree(At(p)) \in Int /\ At(p) < EndFree(At(p))
              /\ LinkFree(At(p)) = IF EndFree(At(p)) = KHEAP_SIZE THEN NULL ELSE FMB(EndFree(At(p)))
              /\ EndFree(At(p)) = KHEAP_SIZE \/ EndFree(At(p)) \in DOMAIN fmb
          BY <4>1, FreeInOrder
        <5>2. CASE EndFree(At(p)) = KHEAP_SIZE BY <4>2, <5>1, <5>2
        <5>3. CASE EndFree(At(p)) # KHEAP_SIZE
          <6>1. At(next) = EndFree(At(p)) BY <4>2, <5>1, <5>3, RowsTell
          <6>2. KHEAP_SIZE <= EndFree(At(p)) + n BY <1>1, <4>1, <5>1
          <6> HIDE DEF next
          <6> QED BY <6>1, <6>2
        <5> QED BY <5>2, <5>3
      <4> HIDE DEF next
      <4>5. g[next] = f[next] BY <4>3, <4>4
      <4>6. g[p] = RowOf(f, p) BY <2>1
      <4> HIDE DEF g, top
      <4> QED BY <3>2, <4>5, <4>6 DEF RowOf, next
    <3> QED BY <3>1, <3>2
  <2> HIDE DEF g, top
  <2> QED BY <2>2
<1>5. Nat \subseteq S
  <2> HIDE DEF S
  <2> QED BY <1>3, <1>4, SetInduction
<1>6. \E f : Is(f)
  <2>1. PICK f : \A p \in Rows : top(p, KHEAP_SIZE) => f[p] = RowOf(f, p) BY <1>1, <1>5
  <2>2. \A p \in Rows : top(p, KHEAP_SIZE) BY <1>1, <1>2, RowsTell
  <2> HIDE DEF top
  <2> DEFINE g == [p \in Rows |-> f[p]]
  <2>3. ASSUME NEW p \in Rows PROVE g[p] = RowOf(g, p)
    <3>1. g[p] = RowOf(f, p) BY <2>1, <2>2
    <3>2. CASE p = NULL
      <4> HIDE DEF g
      <4> QED BY <3>1, <3>2 DEF RowOf
    <3>3. CASE p # NULL
      <4>1. At(p) \in DOMAIN fmb BY <3>3, RowsTell
      <4>2. fmb[At(p)].nextFMB \in Rows BY <4>1, AroundFree, RowsTell
      <4>3. g[fmb[At(p)].nextFMB] = f[fmb[At(p)].nextFMB] BY <4>2
      <4> HIDE DEF g
      <4> QED BY <3>1, <3>3, <4>3 DEF RowOf
    <3> QED BY <3>2, <3>3
  <2>4. g = [p \in Rows |-> g[p]] OBVIOUS
  <2> HIDE DEF g
  <2>5. Is(g) BY <2>3, <2>4
  <2> QED BY <2>5
<1>7. Is(from)
  <2> HIDE DEF Is
  <2> QED BY <1>6
<1> HIDE DEF from
<1> QED BY <1>0, <1>7

\* The list holds the free blocks by address, each linked behind the one before it.
LEMMA FreeListIs ==
  ASSUME HeapInv
  PROVE  /\ FreeList \in Seq(DOMAIN fmb)
         /\ \A i \in 1 .. Len(FreeList) : EndFree(IF i = 1 THEN -1 ELSE FreeList[i - 1]) = FreeList[i]
         /\ \A i, j \in 1 .. Len(FreeList) : i < j => FreeList[i] < FreeList[j]
         /\ \A c \in DOMAIN fmb : \E i \in 1 .. Len(FreeList) : FreeList[i] = c
<1>1. PICK f : f = [p \in Rows |-> RowOf(f, p)] /\ FreeList = f[FMBlist] BY ChainIs
<1>2. \A p \in Rows : f[p] = RowOf(f, p) BY <1>1
<1>3. KHEAP_SIZE \in Nat BY HeapAssumption
<1>4. \A a \in DOMAIN fmb : a \in Nat /\ a < KHEAP_SIZE BY AroundFree, <1>3
<1> DEFINE S == {n \in Nat : \A a \in DOMAIN fmb : KHEAP_SIZE <= a + n => InRow(f[FMB(a)], a)}
<1>5. 0 \in S BY <1>3, <1>4
<1>6. ASSUME NEW n \in Nat, n \in S PROVE n + 1 \in S
  <2> SUFFICES ASSUME NEW a \in DOMAIN fmb, KHEAP_SIZE <= a + (n + 1) PROVE InRow(f[FMB(a)], a) OBVIOUS
  <2>1. f[FMB(a)] = <<a>> \o f[LinkFree(a)]
    <3>1. FMB(a) \in Rows /\ FMB(a) # NULL /\ At(FMB(a)) = a BY RowsTell
    <3>2. fmb[a].nextFMB = LinkFree(a) BY AroundFree
    <3> QED BY <1>2, <3>1, <3>2 DEF RowOf
  <2>2. /\ EndFree(a) \in Int /\ a < EndFree(a)
        /\ LinkFree(a) = IF EndFree(a) = KHEAP_SIZE THEN NULL ELSE FMB(EndFree(a))
        /\ EndFree(a) = KHEAP_SIZE \/ EndFree(a) \in DOMAIN fmb
    BY FreeInOrder
  <2>3. CASE EndFree(a) = KHEAP_SIZE
    <3>1. f[LinkFree(a)] = <<>> BY <1>2, <2>2, <2>3, RowsTell DEF RowOf
    <3> QED BY <2>1, <2>3, <3>1, InRowLonger
  <2>4. CASE EndFree(a) # KHEAP_SIZE
    <3>1. KHEAP_SIZE <= EndFree(a) + n BY <1>3, <1>4, <2>2
    <3>2. InRow(f[LinkFree(a)], EndFree(a)) BY <1>6, <2>2, <2>4, <3>1
    <3> QED BY <2>1, <2>4, <3>2, InRowLonger
  <2> QED BY <2>3, <2>4
<1>7. Nat \subseteq S
  <2> HIDE DEF S
  <2> QED BY <1>5, <1>6, SetInduction
<1>8. \A a \in DOMAIN fmb : InRow(f[FMB(a)], a) BY <1>3, <1>4, <1>7
<1>9. /\ EndFree(-1) \in Int
      /\ FMBlist = IF EndFree(-1) = KHEAP_SIZE THEN NULL ELSE FMB(EndFree(-1))
      /\ EndFree(-1) = KHEAP_SIZE \/ EndFree(-1) \in DOMAIN fmb
      /\ \A c \in DOMAIN fmb : EndFree(-1) <= c
  <2>1. PICK x \in DOMAIN fmb \union {-1} : x = -1 OBVIOUS
  <2>2. /\ EndFree(x) \in Int
        /\ LinkFree(x) = IF EndFree(x) = KHEAP_SIZE THEN NULL ELSE FMB(EndFree(x))
        /\ EndFree(x) = KHEAP_SIZE \/ EndFree(x) \in DOMAIN fmb
        /\ \A c \in DOMAIN fmb : c <= x \/ EndFree(x) <= c
    BY FreeInOrder
  <2>3. LinkFree(x) = FMBlist BY <2>1 DEF LinkFree
  <2> QED BY <1>4, <2>1, <2>2, <2>3
<1>10. CASE EndFree(-1) = KHEAP_SIZE
  <2>1. FreeList = <<>> BY <1>1, <1>2, <1>9, <1>10, RowsTell DEF RowOf
  <2>2. DOMAIN fmb = {}
    <3> SUFFICES ASSUME NEW c \in DOMAIN fmb PROVE FALSE OBVIOUS
    <3>1. KHEAP_SIZE <= c BY <1>9, <1>10
    <3>2. c \in Nat /\ c < KHEAP_SIZE BY <1>4
    <3> QED BY <1>3, <3>1, <3>2
  <2>3. Len(FreeList) = 0 BY <2>1
  <2> QED BY <2>1, <2>2, <2>3
<1>11. CASE EndFree(-1) # KHEAP_SIZE
  <2>1. InRow(FreeList, EndFree(-1)) BY <1>1, <1>8, <1>9, <1>11
  <2>2. /\ FreeList \in Seq(DOMAIN fmb) /\ Len(FreeList) > 0 /\ FreeList[1] = EndFree(-1)
        /\ \A i \in 1 .. Len(FreeList) - 1 : EndFree(FreeList[i]) = FreeList[i + 1]
        /\ \A i, j \in 1 .. Len(FreeList) : i < j => FreeList[i] < FreeList[j]
        /\ \A c \in DOMAIN fmb : EndFree(-1) <= c => \E i \in 1 .. Len(FreeList) : FreeList[i] = c
    BY <2>1 DEF InRow
  <2>3. ASSUME NEW i \in 1 .. Len(FreeList) PROVE EndFree(IF i = 1 THEN -1 ELSE FreeList[i - 1]) = FreeList[i]
    <3>1. CASE i = 1 BY <2>2, <3>1
    <3>2. CASE i # 1
      <4>1. i - 1 \in 1 .. Len(FreeList) - 1 /\ (i - 1) + 1 = i BY <2>2, <3>2
      <4>2. EndFree(FreeList[i - 1]) = FreeList[(i - 1) + 1] BY <2>2, <4>1
      <4> QED BY <3>2, <4>1, <4>2
    <3> QED BY <3>1, <3>2
  <2> QED BY <1>9, <2>2, <2>3
<1> QED BY <1>10, <1>11

\* CoKmalloc keeps the heap in order.
LEMMA KmallocKeeps ==
  ASSUME HeapInv, NEW words \in HeapSizes, CoKmalloc(words)
  PROVE  HeapInv'
<1> DEFINE size == words + UmbHead
           I == {k \in 1 .. Len(FreeList) : FreeSize(FreeList[k]) >= size}
<1>0. words \in Nat \ {0} BY HeapAssumption
<1>1. PICK i : i = Fits(size) OBVIOUS
<1>2. Fits(size) = IF I # {} THEN Min(I) ELSE 0 BY DEF Fits, SelectInSeq
<1>3. i # 0 BY <1>1 DEF CoKmalloc
<1>4. i \in I
  <2>1. I # {} /\ i = Min(I) BY <1>1, <1>2, <1>3
  <2>2. I \in SUBSET Nat OBVIOUS
  <2> HIDE DEF I
  <2>3. Min(I) \in I BY <2>1, <2>2, LeastNumber
  <2> QED BY <2>1, <2>3
<1>5. i \in 1 .. Len(FreeList) /\ FreeSize(FreeList[i]) >= size BY <1>4
<1> HIDE DEF I
<1>6. PICK a \in DOMAIN fmb : a = FreeList[i] BY <1>5, FreeListIs
<1>7. PICK x \in DOMAIN fmb \union {-1} : x = IF i = 1 THEN -1 ELSE FreeList[i - 1]
  <2>1. i # 1 => i - 1 \in 1 .. Len(FreeList) BY <1>5, FreeListIs
  <2>2. i # 1 => FreeList[i - 1] \in DOMAIN fmb BY <2>1, FreeListIs
  <2> QED BY <2>2
<1>8. EndFree(x) = a BY <1>5, <1>6, <1>7, FreeListIs
<1>9. Before(i) = IF x = -1 THEN NULL ELSE FMB(x)
  <2>1. i # 1 => x # -1
    <3>1. i # 1 => i - 1 \in 1 .. Len(FreeList) BY <1>5, FreeListIs
    <3>2. i # 1 => x \in DOMAIN fmb BY <1>7, <3>1, FreeListIs
    <3> QED BY <3>2, AroundFree
  <2> QED BY <1>7, <2>1 DEF Before
<1>10. FreeSize(a) = End(a) - a
  <2>1. LinkUp(a) = fmb[a].nextUMB BY AroundFree DEF LinkUp
  <2> QED BY <2>1 DEF FreeSize, End
<1>11. a \in Int /\ End(a) \in Int BY InOrder DEF Blocks
<1>12. asked' = With(asked, a, words) /\ IF Whole(a, size) THEN TakeWhole(i, a) ELSE SplitBlock(i, a, size)
  BY <1>1, <1>6 DEF CoKmalloc
<1>13. CASE Whole(a, size)
  <2>1. TakeWhole(i, a) BY <1>12, <1>13
  <2>2. /\ fmb' = Without(SetLink(fmb, IF x = -1 THEN NULL ELSE FMB(x), fmb[a].nextFMB), {a})
        /\ FMBlist' = SetFirst(IF x = -1 THEN NULL ELSE FMB(x), fmb[a].nextFMB)
        /\ umb' = With(Tell(umb, fmb[a].preUMB, fmb[a].nextUMB, UMB(a)), a,
                       [nextMB |-> fmb[a].nextUMB, preMB |-> fmb[a].preUMB])
    BY <1>9, <2>1 DEF TakeWhole
  <2>3. words + UmbHead <= End(a) - a BY <1>0, <1>5, <1>6, <1>10, <1>11 DEF UmbHead
  <2> QED BY <1>0, <1>8, <1>12, <2>2, <2>3, WholeKeeps
<1>14. CASE ~Whole(a, size)
  <2>1. SplitBlock(i, a, size) BY <1>12, <1>14
  <2>2. PICK r \in Int : r = a + words + UmbHead BY <1>0, <1>11 DEF UmbHead
  <2>3. r = a + size BY <1>0, <1>11, <2>2 DEF UmbHead
  <2>4. /\ fmb' = With(Without(SetLink(fmb, IF x = -1 THEN NULL ELSE FMB(x), FMB(r)), {a}), r,
                       [fmb[a] EXCEPT !.preUMB = UMB(a)])
        /\ FMBlist' = SetFirst(IF x = -1 THEN NULL ELSE FMB(x), FMB(r))
        /\ umb' = With(Tell(Tell(umb, NULL, fmb[a].nextUMB, FMB(r)), fmb[a].preUMB, NULL, UMB(a)), a,
                       [nextMB |-> FMB(r), preMB |-> fmb[a].preUMB])
    <3> HIDE DEF size
    <3> QED BY <1>9, <2>1, <2>3 DEF SplitBlock
  <2>5. FmbHead <= End(a) - r BY <1>0, <1>10, <1>11, <1>14, <2>2 DEF Whole, UmbHead, FmbHead
  <2> QED BY <1>0, <1>8, <1>12, <2>2, <2>4, <2>5, SplitKeeps
<1> QED BY <1>13, <1>14

\* The heap starts as one free block.
LEMMA HeapStarts ==
  ASSUME CoCreateKheap
  PROVE  HeapInv
<1>1. /\ umb = <<>> /\ asked = <<>> /\ FMBlist = FMB(0)
      /\ fmb = [a \in {0} |-> [nextFMB |-> NULL, nextUMB |-> NULL, preUMB |-> NULL]]
  BY DEF CoCreateKheap
<1>2. DOMAIN umb = {} /\ DOMAIN fmb = {0} /\ fmb[0] = [nextFMB |-> NULL, nextUMB |-> NULL, preUMB |-> NULL]
      /\ DOMAIN asked = {} /\ Blocks = {0}
  BY <1>1 DEF Blocks
<1>3. KHEAP_SIZE \in Nat /\ KHEAP_SIZE >= 3 BY HeapAssumption DEF FmbHead
<1>4. 0 \in 0 .. KHEAP_SIZE - 1 BY <1>3
<1>5. HeapShape
  <2>1. umb \in [DOMAIN umb -> UsedHeads] BY <1>1
  <2>2. asked \in [DOMAIN umb -> Nat \ {0}] BY <1>1
  <2>3. FMBlist \in HeapLinks BY <1>1, <1>4, LinksTell
  <2>4. fmb \in [DOMAIN fmb -> FreeHeads] BY <1>1, NullTells DEF FreeHeads
  <2> QED BY <1>2, <1>4, <2>1, <2>2, <2>3, <2>4 DEF HeapShape
<1>6. LinkUp(0) = NULL /\ LinkDown(0) = NULL /\ End(0) = KHEAP_SIZE /\ Start(0) = -1
  BY <1>2 DEF LinkUp, LinkDown, End, Start
<1>7. LinkTo(KHEAP_SIZE) = NULL /\ LinkTo(-1) = NULL BY <1>2, <1>3 DEF LinkTo
<1>8. Up(0) /\ Down(0) BY <1>2, <1>3, <1>6, <1>7 DEF Up, Down
<1>9. FreeUp(0)
  <2>1. LinkFree(0) = NULL BY <1>2 DEF LinkFree
  <2>2. EndFree(0) = KHEAP_SIZE BY <2>1 DEF EndFree
  <2> QED BY <1>2, <1>3, <2>1, <2>2 DEF FreeUp
<1>10. FreeUp(-1)
  <2>1. LinkFree(-1) = FMB(0) /\ FMB(0) # NULL /\ At(FMB(0)) = 0 BY <1>1, <1>4, LinksTell DEF LinkFree
  <2>2. EndFree(-1) = 0 BY <2>1 DEF EndFree
  <2> QED BY <1>2, <1>3, <2>1, <2>2 DEF FreeUp
<1>11. HeapOrder BY <1>2, <1>8, <1>9, <1>10 DEF HeapOrder
<1>12. HeapRoom BY <1>2, <1>3, <1>6 DEF HeapRoom, FmbHead
<1> QED BY <1>5, <1>11, <1>12 DEF HeapInv

\* The invariant holds for ever.
LEMMA HeapInvHolds == HeapSpec => []HeapInv
<1>1. CoCreateKheap => HeapInv BY HeapStarts
<1>2. HeapInv /\ [HeapNext]_heapVars => HeapInv'
  <2> SUFFICES ASSUME HeapInv, [HeapNext]_heapVars PROVE HeapInv' OBVIOUS
  <2>1. CASE HeapNext BY <2>1, KmallocKeeps, KfreeKeeps DEF HeapNext
  <2>2. CASE UNCHANGED heapVars
    BY <2>2 DEF heapVars, HeapInv, HeapShape, HeapOrder, HeapRoom, Up, Down, FreeUp, End, Start, EndFree, LinkUp,
       LinkDown, LinkFree, LinkTo, Link, Blocks, UsedHeads, FreeHeads, HeapLinks
  <2> QED BY <2>1, <2>2
<1> QED BY <1>1, <1>2, PTL DEF HeapSpec

\* Walk follows the links hop names; where each step brings it nearer to an end, its
\* recursive function is the only one there is.
LEMMA WalkIs ==
  ASSUME NEW hop, NEW rank,
         \A a \in DOMAIN hop : /\ rank[a] \in Nat
                               /\ IsUMB(hop[a]) => At(hop[a]) \in DOMAIN hop /\ rank[At(hop[a])] < rank[a],
         NEW g, g = [a \in DOMAIN hop |-> {a} \union (IF IsUMB(hop[a]) THEN g[At(hop[a])] ELSE {})],
         NEW first, IsUMB(first), At(first) \in DOMAIN hop
  PROVE  Walk(hop, first) = g[At(first)]
<1> DEFINE Is(f) == f = [a \in DOMAIN hop |-> {a} \union (IF IsUMB(hop[a]) THEN f[At(hop[a])] ELSE {})]
           from == CHOOSE f : Is(f)
           S == {n \in Nat : \A a \in DOMAIN hop : rank[a] < n => from[a] = g[a]}
<1>1. Walk(hop, first) = from[At(first)] BY DEF Walk
<1>2. Is(from)
  <2>1. Is(g) OBVIOUS
  <2> HIDE DEF Is
  <2> QED BY <2>1
<1> HIDE DEF from
<1>3. 0 \in S OBVIOUS
<1>4. ASSUME NEW n \in Nat, n \in S PROVE n + 1 \in S
  <2> SUFFICES ASSUME NEW a \in DOMAIN hop, rank[a] < n + 1 PROVE from[a] = g[a] OBVIOUS
  <2>1. from[a] = {a} \union (IF IsUMB(hop[a]) THEN from[At(hop[a])] ELSE {}) BY <1>2
  <2>2. g[a] = {a} \union (IF IsUMB(hop[a]) THEN g[At(hop[a])] ELSE {}) OBVIOUS
  <2>3. IsUMB(hop[a]) => from[At(hop[a])] = g[At(hop[a])]
    <3> SUFFICES ASSUME IsUMB(hop[a]) PROVE from[At(hop[a])] = g[At(hop[a])] OBVIOUS
    <3>1. At(hop[a]) \in DOMAIN hop /\ rank[At(hop[a])] < rank[a] OBVIOUS
    <3>2. rank[At(hop[a])] \in Nat /\ rank[a] \in Nat BY <3>1
    <3>3. rank[At(hop[a])] < n BY <3>1, <3>2
    <3> QED BY <1>4, <3>1, <3>3
  <2> QED BY <2>1, <2>2, <2>3
<1>5. Nat \subseteq S
  <2> HIDE DEF S
  <2> QED BY <1>3, <1>4, SetInduction
<1>6. \A a \in DOMAIN hop : rank[a] + 1 \in S /\ rank[a] < rank[a] + 1 BY <1>5
<1> QED BY <1>1, <1>6

\* Back from a used block: those below it with no free one between.
LEMMA BackFinds ==
  ASSUME HeapInv, NEW b \in DOMAIN umb
  PROVE  BackFrom(UMB(b)) = {c \in DOMAIN umb : c <= b /\ \A d \in DOMAIN fmb : d < c \/ b < d}
<1> DEFINE hop == [a \in DOMAIN umb |-> umb[a].preMB]
           rank == [a \in DOMAIN umb |-> a]
           set(a) == {c \in DOMAIN umb : c <= a /\ \A d \in DOMAIN fmb : d < c \/ a < d}
           g == [a \in DOMAIN umb |-> set(a)]
<1>1. \A a \in DOMAIN umb : /\ a \in Nat /\ a \in Blocks /\ a \notin DOMAIN fmb
                            /\ IsUMB(umb[a].preMB) <=> Start(a) \in DOMAIN umb
                            /\ Start(a) \in DOMAIN umb => At(umb[a].preMB) = Start(a)
                            /\ Start(a) < a /\ Start(a) \in Int
                            /\ Start(a) = -1 \/ Start(a) \in Blocks
                            /\ \A c \in Blocks : c \in Int /\ 0 <= c /\ (a <= c \/ c <= Start(a))
  <2> SUFFICES ASSUME NEW a \in DOMAIN umb
               PROVE  /\ a \in Nat /\ a \in Blocks /\ a \notin DOMAIN fmb
                      /\ IsUMB(umb[a].preMB) <=> Start(a) \in DOMAIN umb
                      /\ Start(a) \in DOMAIN umb => At(umb[a].preMB) = Start(a)
                      /\ Start(a) < a /\ Start(a) \in Int
                      /\ Start(a) = -1 \/ Start(a) \in Blocks
                      /\ \A c \in Blocks : c \in Int /\ 0 <= c /\ (a <= c \/ c <= Start(a))
    OBVIOUS
  <2>1. a \in Nat /\ a \in Blocks /\ a \notin DOMAIN fmb
        /\ (IsUMB(umb[a].preMB) <=> Start(a) \in DOMAIN umb)
        /\ (Start(a) \in DOMAIN umb => At(umb[a].preMB) = Start(a))
    BY AroundUsed DEF Blocks
  <2>2. /\ Start(a) < a /\ Start(a) \in Int
        /\ Start(a) = -1 \/ Start(a) \in Blocks
        /\ \A c \in Blocks : c \in Int /\ (a <= c \/ c <= Start(a))
    BY <2>1, InOrder
  <2>3. \A c \in Blocks : 0 <= c BY InOrder
  <2> QED BY <2>1, <2>2, <2>3
<1>2. ASSUME NEW a \in DOMAIN umb PROVE set(a) = {a} \union (IF Start(a) \in DOMAIN umb THEN set(Start(a)) ELSE {})
  <2>1. \A c \in DOMAIN umb : c \in Blocks /\ c \in Int /\ 0 <= c /\ (a <= c \/ c <= Start(a)) BY <1>1
  <2>2. \A d \in DOMAIN fmb : d \in Blocks /\ d \in Int /\ d # a /\ (a <= d \/ d <= Start(a))
    <3>1. \A d \in DOMAIN fmb : d \in Blocks /\ d # a BY <1>1 DEF Blocks
    <3> QED BY <1>1, <3>1
  <2>3. a \in set(a)
    <3>1. \A d \in DOMAIN fmb : d < a \/ a < d BY <1>1, <2>2
    <3> QED BY <1>1, <3>1
  <2>4. CASE Start(a) \in DOMAIN umb
    <3>1. ASSUME NEW c \in set(a), c # a PROVE c \in set(Start(a))
      <4>1. c \in DOMAIN umb /\ c <= Start(a) BY <1>1, <2>1, <3>1
      <4>2. \A d \in DOMAIN fmb : d < c \/ Start(a) < d BY <1>1, <2>2
      <4> QED BY <4>1, <4>2
    <3>2. ASSUME NEW c \in set(Start(a)) PROVE c \in set(a)
      <4>1. c \in DOMAIN umb /\ c <= Start(a) /\ c \in Int /\ c <= a BY <1>1, <2>1
      <4>2. \A d \in DOMAIN fmb : d < c \/ a < d BY <1>1, <2>2
      <4> QED BY <4>1, <4>2
    <3> QED BY <2>3, <2>4, <3>1, <3>2
  <2>5. CASE Start(a) \notin DOMAIN umb
    <3>1. ASSUME NEW c \in set(a), c # a PROVE FALSE
      <4>1. c \in DOMAIN umb /\ c <= Start(a) /\ 0 <= c /\ c \in Int BY <1>1, <2>1, <3>1
      <4>2. Start(a) # -1 BY <4>1
      <4>3. Start(a) \in DOMAIN fmb BY <1>1, <2>5, <4>2 DEF Blocks
      <4>4. Start(a) < c \/ a < Start(a) BY <4>3
      <4> QED BY <1>1, <4>1, <4>4
    <3> QED BY <2>3, <2>5, <3>1
  <2> QED BY <2>4, <2>5
<1> HIDE DEF set
<1>3. \A a \in DOMAIN hop : /\ rank[a] \in Nat
                            /\ IsUMB(hop[a]) => At(hop[a]) \in DOMAIN hop /\ rank[At(hop[a])] < rank[a]
  BY <1>1
<1>4. g = [a \in DOMAIN hop |-> {a} \union (IF IsUMB(hop[a]) THEN g[At(hop[a])] ELSE {})]
  <2>1. \A a \in DOMAIN umb : g[a] = {a} \union (IF IsUMB(hop[a]) THEN g[At(hop[a])] ELSE {}) BY <1>1, <1>2
  <2> QED BY <2>1
<1>5. b \in 0 .. KHEAP_SIZE - 1 BY AroundUsed
<1>6. IsUMB(UMB(b)) /\ At(UMB(b)) = b BY <1>5, LinksTell
<1>7. Walk(hop, UMB(b)) = g[b]
  <2>1. b \in DOMAIN hop OBVIOUS
  <2> HIDE DEF hop, rank, g
  <2>2. At(UMB(b)) \in DOMAIN hop BY <1>6, <2>1
  <2>3. Walk(hop, UMB(b)) = g[At(UMB(b))] BY <1>3, <1>4, <1>6, <2>2, WalkIs
  <2> QED BY <1>6, <2>3
<1>8. BackFrom(UMB(b)) = Walk(hop, UMB(b)) BY DEF BackFrom
<1> QED BY <1>7, <1>8 DEF set

\* On from a used block: all those above it, a free one between two is stepped over.
LEMMA OnFinds ==
  ASSUME HeapInv, NEW b \in DOMAIN umb
  PROVE  OnFrom(UMB(b)) = {c \in DOMAIN umb : b <= c}
<1> DEFINE hop == [a \in DOMAIN umb |-> IF IsFMB(umb[a].nextMB) THEN fmb[At(umb[a].nextMB)].nextUMB ELSE umb[a].nextMB]
           rank == [a \in DOMAIN umb |-> KHEAP_SIZE - a]
           set(a) == {c \in DOMAIN umb : a <= c}
           g == [a \in DOMAIN umb |-> set(a)]
           over(a) == IF End(a) \in DOMAIN fmb THEN End(End(a)) ELSE End(a)
<1>1. ASSUME NEW a \in DOMAIN umb
      PROVE  /\ a \in Nat /\ KHEAP_SIZE - a \in Nat
             /\ IsUMB(hop[a]) <=> over(a) \in DOMAIN umb
             /\ over(a) \in DOMAIN umb => At(hop[a]) = over(a)
             /\ over(a) \in Int /\ a < over(a)
             /\ over(a) = KHEAP_SIZE \/ over(a) \in DOMAIN umb
             /\ \A c \in DOMAIN umb : c \in Nat /\ c < KHEAP_SIZE /\ (c <= a \/ over(a) <= c)
  <2>0. HeapShape /\ KHEAP_SIZE \in Nat BY HeapAssumption DEF HeapInv
  <2>1. /\ a \in Nat /\ a \in Blocks /\ a < KHEAP_SIZE
        /\ umb[a].nextMB = LinkTo(End(a))
        /\ IsFMB(umb[a].nextMB) <=> End(a) \in DOMAIN fmb
        /\ End(a) \in Blocks => At(umb[a].nextMB) = End(a)
    BY <2>0, AroundUsed
  <2>2. /\ End(a) \in Int /\ a < End(a)
        /\ End(a) = KHEAP_SIZE \/ End(a) \in Blocks
        /\ \A c \in Blocks : c \in Int /\ 0 <= c /\ c < KHEAP_SIZE /\ (c <= a \/ End(a) <= c)
    <3>1. \A c \in Blocks : 0 <= c /\ c < KHEAP_SIZE BY InOrder
    <3> QED BY <2>1, <3>1, InOrder
  <2>3. End(a) \in DOMAIN fmb =>
          /\ End(End(a)) \in Int /\ End(a) < End(End(a)) /\ End(End(a)) \notin DOMAIN fmb
          /\ End(End(a)) = KHEAP_SIZE \/ End(End(a)) \in Blocks
          /\ \A c \in Blocks : c <= End(a) \/ End(End(a)) <= c
          /\ fmb[End(a)].nextUMB = LinkTo(End(End(a)))
    <3> SUFFICES ASSUME NEW m \in DOMAIN fmb
                 PROVE  /\ End(m) \in Int /\ m < End(m) /\ End(m) \notin DOMAIN fmb
                        /\ End(m) = KHEAP_SIZE \/ End(m) \in Blocks
                        /\ \A c \in Blocks : c <= m \/ End(m) <= c
                        /\ fmb[m].nextUMB = LinkTo(End(m))
      OBVIOUS
    <3> QED BY AroundFree, InOrder
  <2>4. hop[a] = LinkTo(over(a))
    <3>1. CASE End(a) \in DOMAIN fmb BY <2>1, <2>3, <3>1 DEF Blocks
    <3>2. CASE End(a) \notin DOMAIN fmb BY <2>1, <3>2
    <3> QED BY <3>1, <3>2
  <2>5. over(a) \in Int /\ a < over(a) BY <2>1, <2>2, <2>3
  <2>6. over(a) = KHEAP_SIZE \/ over(a) \in DOMAIN umb BY <2>2, <2>3 DEF Blocks
  <2>7. \A c \in DOMAIN umb : c \in Nat /\ c < KHEAP_SIZE /\ (c <= a \/ over(a) <= c)
    <3> SUFFICES ASSUME NEW c \in DOMAIN umb PROVE c \in Nat /\ c < KHEAP_SIZE /\ (c <= a \/ over(a) <= c) OBVIOUS
    <3>1. c \in Blocks /\ c \notin DOMAIN fmb BY AroundUsed
    <3> QED BY <2>1, <2>2, <2>3, <3>1
  <2> HIDE DEF over, hop
  <2>8. PICK m \in Int : m = over(a) BY <2>5
  <2>9. (IsUMB(hop[a]) <=> over(a) \in DOMAIN umb) /\ (over(a) \in DOMAIN umb => At(hop[a]) = over(a))
    BY <2>0, <2>4, <2>8, LinkToTells DEF Blocks
  <2> QED BY <2>0, <2>1, <2>5, <2>6, <2>7, <2>9
<1> HIDE DEF over
<1>2. ASSUME NEW a \in DOMAIN umb PROVE set(a) = {a} \union (IF over(a) \in DOMAIN umb THEN set(over(a)) ELSE {})
  <2>1. /\ a \in Nat /\ over(a) \in Int /\ a < over(a)
        /\ over(a) = KHEAP_SIZE \/ over(a) \in DOMAIN umb
        /\ \A c \in DOMAIN umb : c \in Nat /\ c < KHEAP_SIZE /\ (c <= a \/ over(a) <= c)
    BY <1>1
  <2>2. CASE over(a) \in DOMAIN umb
    <3>1. \A c \in DOMAIN umb : a <= c <=> c = a \/ over(a) <= c BY <2>1
    <3> QED BY <2>2, <3>1
  <2>3. CASE over(a) \notin DOMAIN umb
    <3>1. \A c \in DOMAIN umb : a <= c <=> c = a BY <2>1, <2>3
    <3> QED BY <2>3, <3>1
  <2> QED BY <2>2, <2>3
<1> HIDE DEF set
<1>3. \A a \in DOMAIN umb : /\ rank[a] \in Nat
                            /\ IsUMB(hop[a]) => At(hop[a]) \in DOMAIN umb /\ rank[At(hop[a])] < rank[a]
  <2> SUFFICES ASSUME NEW a \in DOMAIN umb
               PROVE  /\ rank[a] \in Nat
                      /\ IsUMB(hop[a]) => At(hop[a]) \in DOMAIN umb /\ rank[At(hop[a])] < rank[a]
    OBVIOUS
  <2> HIDE DEF hop
  <2>1. rank[a] = KHEAP_SIZE - a /\ a \in Nat /\ KHEAP_SIZE - a \in Nat BY <1>1
  <2>2. IsUMB(hop[a]) => At(hop[a]) = over(a) /\ over(a) \in DOMAIN umb /\ a < over(a) /\ over(a) \in Int BY <1>1
  <2>3. IsUMB(hop[a]) => rank[At(hop[a])] = KHEAP_SIZE - over(a) BY <2>2
  <2>4. KHEAP_SIZE \in Int BY HeapAssumption
  <2> QED BY <2>1, <2>2, <2>3, <2>4
<1>4. g = [a \in DOMAIN umb |-> {a} \union (IF IsUMB(hop[a]) THEN g[At(hop[a])] ELSE {})]
  <2> HIDE DEF hop
  <2>1. \A a \in DOMAIN umb : g[a] = {a} \union (IF IsUMB(hop[a]) THEN g[At(hop[a])] ELSE {}) BY <1>1, <1>2
  <2> QED BY <2>1
<1>5. b \in 0 .. KHEAP_SIZE - 1 BY AroundUsed
<1>6. IsUMB(UMB(b)) /\ At(UMB(b)) = b BY <1>5, LinksTell
<1>7. Walk(hop, UMB(b)) = g[b]
  <2>1. DOMAIN hop = DOMAIN umb OBVIOUS
  <2> HIDE DEF hop, rank, g
  <2>2. At(UMB(b)) \in DOMAIN hop BY <1>6, <2>1
  <2>3. Walk(hop, UMB(b)) = g[At(UMB(b))] BY <1>3, <1>4, <1>6, <2>1, <2>2, WalkIs
  <2> QED BY <1>6, <2>3
<1>8. OnFrom(UMB(b)) = Walk(hop, UMB(b)) BY DEF OnFrom
<1> QED BY <1>7, <1>8 DEF set

\* CoKfree's check of the pointer passes for every block handed out.
LEMMA HandedIsInHeap ==
  ASSUME HeapInv, NEW a \in DOMAIN umb
  PROVE  InHeap(a)
<1>0. HeapShape BY DEF HeapInv
<1>1. /\ a \in Nat /\ a \in Blocks /\ a \notin DOMAIN fmb BY AroundUsed
<1>2. PICK x \in DOMAIN fmb \union {-1} : x = -1 OBVIOUS
<1>3. /\ EndFree(x) \in Int /\ KHEAP_SIZE \in Int
      /\ LinkFree(x) = IF EndFree(x) = KHEAP_SIZE THEN NULL ELSE FMB(EndFree(x))
      /\ EndFree(x) = KHEAP_SIZE \/ EndFree(x) \in DOMAIN fmb
      /\ \A c \in DOMAIN fmb : c \in Int /\ 0 <= c /\ c < KHEAP_SIZE /\ (c <= x \/ EndFree(x) <= c)
  BY FreeInOrder
<1>4. LinkFree(x) = FMBlist BY <1>2 DEF LinkFree
<1>5. PICK f \in Int : f = EndFree(x) BY <1>3
<1>6. \A c \in DOMAIN fmb : c \in Int /\ c < KHEAP_SIZE /\ f <= c BY <1>2, <1>3, <1>5
<1>7. CASE FMBlist = NULL
  <2>1. f = KHEAP_SIZE BY <1>3, <1>4, <1>5, <1>7, RowsTell
  <2>2. DOMAIN fmb = {}
    <3> SUFFICES ASSUME NEW c \in DOMAIN fmb PROVE FALSE OBVIOUS
    <3> QED BY <1>3, <1>6, <2>1
  <2>3. 0 \in DOMAIN umb BY <1>0, <2>2 DEF HeapShape, Blocks
  <2>4. a \in OnFrom(UMB(0)) BY <1>1, <2>3, OnFinds
  <2> QED BY <1>7, <2>4 DEF InHeap
<1>8. CASE FMBlist # NULL
  <2>1. f \in DOMAIN fmb /\ FMBlist = FMB(f) BY <1>3, <1>4, <1>5, <1>8
  <2>2. At(FMBlist) = f BY <2>1, RowsTell
  <2>3. /\ f \in Blocks
        /\ fmb[f].nextUMB = LinkTo(End(f)) /\ fmb[f].preUMB = LinkTo(Start(f))
        /\ End(f) \notin DOMAIN fmb /\ Start(f) \notin DOMAIN fmb
    BY <2>1, AroundFree
  <2>4. /\ End(f) \in Int /\ Start(f) \in Int /\ f < End(f) /\ Start(f) < f
        /\ End(f) = KHEAP_SIZE \/ End(f) \in Blocks
        /\ Start(f) = -1 \/ Start(f) \in Blocks
        /\ \A c \in Blocks : (c <= f \/ End(f) <= c) /\ (f <= c \/ c <= Start(f))
    BY <2>3, InOrder
  <2>5. CASE a < f
    <3>1. a <= Start(f) BY <1>1, <2>4, <2>5
    <3>2. Start(f) \in DOMAIN umb BY <1>1, <2>3, <2>4, <3>1 DEF Blocks
    <3>3. fmb[f].preUMB = UMB(Start(f)) BY <2>3, <3>2 DEF LinkTo, Link, Blocks
    <3>4. \A d \in DOMAIN fmb : d < a \/ Start(f) < d BY <1>6, <2>4
    <3>5. a \in BackFrom(UMB(Start(f))) BY <3>1, <3>2, <3>4, BackFinds
    <3> QED BY <1>8, <2>2, <2>5, <3>3, <3>5 DEF InHeap
  <2>6. CASE ~(a < f)
    <3>0. a # f BY <1>1, <2>1
    <3>1. End(f) <= a BY <1>1, <2>4, <2>6, <3>0
    <3>2. End(f) \in DOMAIN umb
      <4>1. a < KHEAP_SIZE BY <1>1, InOrder
      <4> QED BY <1>1, <1>3, <2>3, <2>4, <3>1, <4>1 DEF Blocks
    <3>3. fmb[f].nextUMB = UMB(End(f)) BY <2>3, <3>2 DEF LinkTo, Link, Blocks
    <3>4. a \in OnFrom(UMB(End(f))) BY <3>1, <3>2, OnFinds
    <3> QED BY <1>8, <2>2, <2>6, <3>3, <3>4 DEF InHeap
  <2> QED BY <2>5, <2>6
<1> QED BY <1>7, <1>8

\* The invariant in the terms of the property.
LEMMA OrderTiles ==
  ASSUME HeapInv
  PROVE  HeapTiles
<1>0. HeapShape BY DEF HeapInv
<1>1. KHEAP_SIZE \in Int /\ NULL \notin 0 .. KHEAP_SIZE BY HeapAssumption
<1>2. ASSUME NEW a \in Blocks PROVE After(a) = IF End(a) = KHEAP_SIZE THEN NULL ELSE End(a)
  <2> DEFINE later == {b \in Blocks : b > a}
  <2>1. /\ a \in Int /\ End(a) \in Int /\ a < End(a) /\ a < KHEAP_SIZE
        /\ End(a) = KHEAP_SIZE \/ End(a) \in Blocks
        /\ \A c \in Blocks : c \in Int /\ (c <= a \/ End(a) <= c)
    BY InOrder
  <2>2. \A c \in Blocks : c < KHEAP_SIZE BY InOrder
  <2>3. CASE End(a) = KHEAP_SIZE
    <3>1. later = {}
      <4> SUFFICES ASSUME NEW c \in Blocks, c > a PROVE FALSE OBVIOUS
      <4>1. c \in Int /\ c < KHEAP_SIZE /\ (c <= a \/ KHEAP_SIZE <= c) BY <2>1, <2>2, <2>3
      <4> QED BY <1>1, <2>1, <4>1
    <3> QED BY <2>3, <3>1 DEF After
  <2>4. CASE End(a) # KHEAP_SIZE
    <3>1. End(a) \in later /\ \A c \in later : End(a) <= c BY <2>1, <2>4
    <3>2. \A b \in later : b \in Int BY <2>1
    <3>3. After(a) = CHOOSE b \in later : \A c \in later : b <= c BY <3>1 DEF After
    <3> HIDE DEF later
    <3>4. After(a) \in later /\ \A c \in later : After(a) <= c BY <3>1, <3>3
    <3> QED BY <2>1, <2>4, <3>1, <3>2, <3>4
  <2> QED BY <2>3, <2>4
<1>3. ASSUME NEW a \in Blocks
      PROVE  /\ After(a) = NULL <=> End(a) = KHEAP_SIZE
             /\ After(a) # NULL => After(a) = End(a) /\ End(a) \in Blocks
             /\ Extent(a) = End(a) - a
  <2>1. End(a) = KHEAP_SIZE \/ End(a) \in Blocks BY InOrder
  <2>2. End(a) # NULL
    <3>1. End(a) \in Int /\ 0 <= End(a) /\ End(a) <= KHEAP_SIZE
      <4>1. a \in Int /\ 0 <= a /\ End(a) \in Int /\ a < End(a) /\ End(a) <= KHEAP_SIZE BY InOrder
      <4> QED BY <4>1
    <3> QED BY <1>1, <3>1
  <2> QED BY <1>2, <2>1, <2>2 DEF Extent
<1>4. Range(FreeList) = DOMAIN fmb /\ \A i, j \in DOMAIN FreeList : i < j => FreeList[i] < FreeList[j]
  <2>1. FreeList \in Seq(DOMAIN fmb) /\ DOMAIN FreeList = 1 .. Len(FreeList) BY FreeListIs
  <2>2. \A i \in DOMAIN FreeList : FreeList[i] \in DOMAIN fmb BY <2>1
  <2>3. \A c \in DOMAIN fmb : \E i \in DOMAIN FreeList : FreeList[i] = c BY <2>1, FreeListIs
  <2>4. \A i, j \in DOMAIN FreeList : i < j => FreeList[i] < FreeList[j] BY <2>1, FreeListIs
  <2> QED BY <2>2, <2>3, <2>4 DEF Range
<1>5. ASSUME NEW a \in DOMAIN umb PROVE Extent(a) >= asked[a] + UmbHead /\ InHeap(a)
  <2>1. asked[a] + UmbHead <= End(a) - a /\ a \in Blocks /\ asked[a] \in Nat BY AroundUsed
  <2>2. End(a) \in Int /\ a \in Int BY <2>1, InOrder
  <2> QED BY <1>3, <2>1, <2>2, HandedIsInHeap DEF UmbHead
<1>6. ASSUME NEW a \in DOMAIN fmb PROVE Extent(a) >= FmbHead
  <2>1. FmbHead <= End(a) - a /\ a \in Blocks BY AroundFree
  <2>2. End(a) \in Int /\ a \in Int BY <2>1, InOrder
  <2> QED BY <1>3, <2>1, <2>2 DEF FmbHead
<1>7. ASSUME NEW a \in Blocks, NEW b, b = After(a)
      PROVE  IF b = NULL
             THEN IF a \in DOMAIN umb THEN umb[a].nextMB = NULL ELSE fmb[a].nextUMB = NULL
             ELSE /\ IF a \in DOMAIN umb THEN umb[a].nextMB = Link(b) ELSE fmb[a].nextUMB = UMB(b)
                  /\ IF b \in DOMAIN umb THEN umb[b].preMB = Link(a) ELSE fmb[b].preUMB = UMB(a)
  <2>1. a \in DOMAIN umb => umb[a].nextMB = LinkTo(End(a)) BY AroundUsed
  <2>2. a \notin DOMAIN umb => /\ a \in DOMAIN fmb /\ fmb[a].nextUMB = LinkTo(End(a))
                               /\ End(a) \notin DOMAIN fmb
    BY AroundFree DEF Blocks
  <2>3. CASE b = NULL
    <3>1. End(a) = KHEAP_SIZE BY <1>3, <1>7, <2>3
    <3>2. KHEAP_SIZE \notin Blocks BY <1>0, <1>1 DEF HeapShape, Blocks
    <3>3. LinkTo(End(a)) = NULL BY <3>1, <3>2 DEF LinkTo
    <3> QED BY <2>1, <2>2, <2>3, <3>3
  <2>4. CASE b # NULL
    <3>1. b = End(a) /\ b \in Blocks BY <1>3, <1>7, <2>4
    <3>2. LinkTo(b) = Link(b) /\ (b \notin DOMAIN fmb => Link(b) = UMB(b)) BY <3>1 DEF LinkTo, Link, Blocks
    <3>3. Start(b) = a BY <3>1, NeighboursAgree
    <3>4. LinkTo(a) = Link(a) /\ (a \notin DOMAIN fmb => Link(a) = UMB(a)) BY DEF LinkTo, Link, Blocks
    <3>5. b \in DOMAIN umb => umb[b].preMB = LinkTo(a) BY <3>3, AroundUsed
    <3>6. b \notin DOMAIN umb => fmb[b].preUMB = LinkTo(a) /\ a \notin DOMAIN fmb
      <4> SUFFICES ASSUME b \in DOMAIN fmb PROVE fmb[b].preUMB = LinkTo(a) /\ a \notin DOMAIN fmb BY <3>1 DEF Blocks
      <4> QED BY <3>3, AroundFree
    <3> QED BY <2>1, <2>2, <2>4, <3>1, <3>2, <3>4, <3>5, <3>6
  <2> QED BY <2>3, <2>4
<1>8. DOMAIN asked = DOMAIN umb /\ 0 \in Blocks /\ DOMAIN umb \intersect DOMAIN fmb = {} BY <1>0 DEF HeapShape
<1> QED BY <1>4, <1>5, <1>6, <1>7, <1>8 DEF HeapTiles

\* For a heap of any size and any sizes asked for: however many blocks are taken
\* whole, split off, freed and merged (CoKmalloc, CoKfree), the blocks fill the heap
\* without a gap or an overlap, each has the room asked of it, the links name the
\* neighbours, no two free blocks lie side by side, the list has all of them by
\* address, and CoKfree's check lets every block handed out through.
THEOREM HeapIsTiled == HeapSpec => []HeapTiles
<1>1. HeapInv => HeapTiles BY OrderTiles
<1> QED BY <1>1, HeapInvHolds, PTL

\* With one task that makes and deletes partitions the kernel loses none of its own
\* memory and gives none of it twice: the heap stays tiled, and every block of a
\* partition is free once or in one hand.
THEOREM KernelMemoryExact == OneManager => (HeapSpec /\ MemorySpec => []MemoryExact)
<1> SUFFICES ASSUME OneManager PROVE HeapSpec /\ MemorySpec => []MemoryExact OBVIOUS
<1>1. MemorySpec => []PartitionsExact BY BlocksAreExact
<1>2. HeapTiles /\ PartitionsExact => MemoryExact BY DEF MemoryExact
<1> QED BY <1>1, <1>2, HeapIsTiled, PTL
=============================================================================
