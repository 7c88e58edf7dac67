------------------------------- MODULE EncSpi -------------------------------
(***************************************************************************)
(* The Ethernet driver byte by byte (enc28j60.c, enc28j60.h): every call   *)
(* as the bytes it exchanges between a falling and a rising chip select,   *)
(* and the controller that obeys them: registers in four banks, a buffer   *)
(* memory with a receive ring, a PHY behind the MII registers.  The        *)
(* controller is external, and modelled from what the driver relies on.    *)
(***************************************************************************)
EXTENDS Registers, Sequences, TLC

CONSTANTS
  Frames, LengthOf,    \* frames that come in, and the octets of each with its CRC
  Replies, BadFrames,  \* those the stack answers with a frame, and those received badly
  UIP_BUFSIZE,
  MaxFrames            \* a bound: frames that come in

EncSpiAssumption ==
  /\ LengthOf \in [Frames -> 5..1518] /\ Replies \subseteq Frames /\ BadFrames \subseteq Frames
  /\ {UIP_BUFSIZE, MaxFrames} \subseteq Nat

VARIABLES
  chip,      \* the controller: [regs, phy, mem, cmd, wr, rd, waits]
  driver,    \* the driver: [todo, job, got, bank, rxrdpt, rxlen, len, buf]
  asked,     \* history: what each register was last told to hold
  misread,   \* history: did the driver take a register or a frame for another?
  cameIn
encSpiVars == <<chip, driver, asked, misread, cameIn>>

---------------------------------------------------------------------------
(* The header: bit 7 of an address marks the MAC and the MII, bits 5 and 6 *)
(* are the bank, and 0x1B and above are in every bank                      *)

InBank(b, a) == 32 * b + a
Mac(b, a) == 128 + 32 * b + a
Adr ==
  [ERDPT |-> 0, EWRPT |-> 2, ETXST |-> 4, ETXND |-> 6, ERXST |-> 8, ERXND |-> 10, ERXRDPT |-> 12,
   EPKTCNT |-> InBank(1, 25), MACON1 |-> Mac(2, 0), MACON2 |-> Mac(2, 1), MACON3 |-> Mac(2, 2),
   MABBIPG |-> Mac(2, 4), MAIPGL |-> Mac(2, 6), MAIPGH |-> Mac(2, 7), MAMXFL |-> Mac(2, 10),
   MIREGADR |-> Mac(2, 20), MIWR |-> Mac(2, 22), MAADR1 |-> Mac(3, 0), MAADR0 |-> Mac(3, 1),
   MAADR3 |-> Mac(3, 2), MAADR2 |-> Mac(3, 3), MAADR5 |-> Mac(3, 4), MAADR4 |-> Mac(3, 5),
   MISTAT |-> Mac(3, 10), EIR |-> 28, ECON2 |-> 30, ECON1 |-> 31]
Phy == [PHCON1 |-> 0, PHCON2 |-> 16, PHLCON |-> 20]
RCR == 0
RBM == 58
WCR == 64
WBM == 122
BFS == 128
BFC == 160
SC == 255
COMMON_CR == 27
TXRTS == 8
RXEN == 4
TXRST == 128
PKTDEC == 64
TXERIF == 2
RXSIZE == 6656
RXSTART == 0
RXEND == RXSIZE - 1
TXSTART == RXSIZE
BUFEND == 8191

---------------------------------------------------------------------------
(* The controller *)

Or(x, y) == NumberOf(BitsOf(x) \union BitsOf(y))
AndNot(x, y) == NumberOf(BitsOf(x) \ BitsOf(y))
HasBit(x, y) == BitsOf(y) \subseteq BitsOf(x)

ECON1 == <<0, 31>>
EPKTCNT == <<1, 25>>
Where(adr) == <<IF adr % 32 >= 27 THEN 0 ELSE (adr \div 32) % 4, adr % 32>>
Addresses(table) == {table[r] : r \in DOMAIN table}
Places == {Where(a) : a \in Addresses(Adr)} \union {Where(a + 1) : a \in Addresses(Adr) \ 27..31}
Place(c, a) == IF a >= 27 THEN <<0, a>> ELSE <<c.regs[ECON1] % 4, a>>
IsMac(place) == place[1] = 2 \/ (place[1] = 3 /\ place[2] \in 0..5 \union {10})
Pair(c, bank, a) == c.regs[<<bank, a>>] + 256 * c.regs[<<bank, a + 1>>]
PutPair(c, bank, a, n) == [c EXCEPT !.regs[<<bank, a>>] = n % 256, !.regs[<<bank, a + 1>>] = n \div 256]
InRing(p) == IF p > RXEND THEN p - RXSIZE ELSE p
Cell(c, p) == IF p \in DOMAIN c.mem THEN c.mem[p] ELSE 0

ResetChip ==
  [regs |-> [place \in Places |-> 0], phy |-> [a \in Addresses(Phy) |-> 0], mem |-> <<>>, cmd |-> <<>>,
   wr |-> 0, rd |-> 0, waits |-> <<>>]

\* A register is written: the high octet of MIWR starts the PHY, that of ERXRDPT
\* moves the pointer, PKTDEC counts one frame off, and TXRST ends a transmission.
Put(c, place, v) ==
  LET c1 == [c EXCEPT !.regs[place] = v] IN
  CASE place = <<2, 23>> -> [c1 EXCEPT !.regs[<<3, 10>>] = 1]
    [] place = <<0, 13>> -> [c1 EXCEPT !.rd = Pair(c1, 0, 12)]
    [] place = <<0, 30>> /\ HasBit(v, PKTDEC) ->
         [c1 EXCEPT !.regs[place] = AndNot(v, PKTDEC), !.regs[EPKTCNT] = @ - 1, !.waits = Tail(@)]
    [] place = ECON1 /\ HasBit(v, TXRST) -> [c1 EXCEPT !.regs[place] = AndNot(v, TXRTS)]
    [] OTHER -> c1

\* An octet, or n of a frame at once, comes in while the chip is selected; what is
\* sent back at the same time.  Bits are set and cleared in the ETH registers only.
Obeys(c, octet, n) ==
  LET op == Head(c.cmd)
      place == Place(c, op % 32)
      rd == Pair(c, 0, 0)
      wrt == Pair(c, 0, 2)
      next == [c EXCEPT !.cmd = Append(@, octet)]
      first == Len(c.cmd) = 1
  IN CASE c.cmd = <<>> -> IF octet = SC THEN [ResetChip EXCEPT !.phy = c.phy, !.cmd = <<SC>>] ELSE next
       [] op = RBM -> PutPair(c, 0, 0, InRing(rd + n))
       [] op = WBM -> PutPair([c EXCEPT !.mem = (wrt :> octet) @@ @], 0, 2, wrt + n)
       [] op \div 32 = 2 /\ first -> [Put(c, place, octet) EXCEPT !.cmd = next.cmd]
       [] op \div 32 = 4 /\ first /\ ~IsMac(place) -> [Put(c, place, Or(c.regs[place], octet)) EXCEPT !.cmd = next.cmd]
       [] op \div 32 = 5 /\ first /\ ~IsMac(place) -> [Put(c, place, AndNot(c.regs[place], octet)) EXCEPT !.cmd = next.cmd]
       [] OTHER -> next
Answers(c) ==
  LET place == Place(c, Head(c.cmd) % 32) IN
  CASE c.cmd = <<>> -> 0
    [] Head(c.cmd) = RBM -> Cell(c, Pair(c, 0, 0))
    [] Head(c.cmd) < 32 -> IF IsMac(place) /\ Len(c.cmd) = 1 THEN 0 ELSE c.regs[place]
    [] OTHER -> 0

\* A frame is stored with the address of the next one, its length and its status
\* before it, from an even address on, when there is room.
Header(f, next) ==
  <<next % 256, next \div 256, LengthOf[f] % 256, LengthOf[f] \div 256, IF f \in BadFrames THEN 0 ELSE 128, 0>>
Room(c, size) ==
  c.rd > RXEND \/ size <= (c.rd - c.wr + RXSIZE - 1) % RXSIZE
FrameIn(f) ==
  LET size == 6 + 2 * ((LengthOf[f] + 1) \div 2)
      next == InRing(chip.wr + size)
  IN /\ cameIn < MaxFrames /\ cameIn' = cameIn + 1
     /\ HasBit(chip.regs[ECON1], RXEN) /\ Room(chip, size)
     /\ chip' = [chip EXCEPT
          !.mem = [p \in {InRing(chip.wr + k) : k \in 0..6} |->
                     LET k == (p - chip.wr + RXSIZE) % RXSIZE IN IF k = 6 THEN f ELSE Header(f, next)[k + 1]] @@ @,
          !.wr = next, !.regs[EPKTCNT] = @ + 1, !.waits = Append(@, f)]
     /\ UNCHANGED <<driver, asked, misread>>

\* A transmission ends, or fails: then the request may stay.
Sends ==
  /\ HasBit(chip.regs[ECON1], TXRTS)
  /\ \/ chip' = [chip EXCEPT !.regs[ECON1] = AndNot(@, TXRTS)]
     \/ chip' = [chip EXCEPT !.regs[<<0, 28>>] = Or(@, TXERIF)]
     \/ chip' = [chip EXCEPT !.regs[<<0, 28>>] = Or(@, TXERIF), !.regs[ECON1] = AndNot(@, TXRTS)]
  /\ chip' # chip /\ UNCHANGED <<driver, asked, misread, cameIn>>
PhyWrites ==
  /\ chip.regs[<<3, 10>>] = 1
  /\ chip' = [chip EXCEPT !.regs[<<3, 10>>] = 0, !.phy[chip.regs[<<2, 20>>]] = Pair(chip, 2, 22)]
  /\ UNCHANGED <<driver, asked, misread, cameIn>>

---------------------------------------------------------------------------
(* The calls of the driver, as transactions: the octets of each *)

\* An octet is sent once or, for the octets of a frame, n times; what comes back is
\* kept or thrown away.
Octet(b) == [out |-> b, n |-> 1, keep |-> FALSE]
Rx(n) == [out |-> 255, n |-> n, keep |-> TRUE]
enc28j60_read_op(cmd, adr) ==
  << <<Octet(cmd + (adr % 32))>> \o (IF adr >= 128 THEN <<Octet(255)>> ELSE <<>>) \o <<Rx(1)>> >>
enc28j60_write_op(cmd, adr, data) == << <<Octet(cmd + (adr % 32)), Octet(data)>> >>
\* A slip to rule out: the bits of the bank before stay set.
set_bank_uncleared(bank, adr) ==
  LET wanted == (adr \div 32) % 4 IN
  IF adr % 32 < COMMON_CR /\ wanted # bank THEN enc28j60_write_op(BFS, 31, wanted) ELSE <<>>
enc28j60_set_bank(bank, adr) ==
  LET wanted == (adr \div 32) % 4 IN
  IF adr % 32 < COMMON_CR /\ wanted # bank
  THEN enc28j60_write_op(BFC, 31, 3) \o enc28j60_write_op(BFS, 31, wanted) ELSE <<>>
BankAfter(bank, adr) == IF adr % 32 < COMMON_CR THEN (adr \div 32) % 4 ELSE bank

enc28j60_rcr(adr) == enc28j60_read_op(RCR, adr)
enc28j60_rcr16(adr) == enc28j60_read_op(RCR, adr) \o enc28j60_read_op(RCR, adr + 1)
enc28j60_wcr(adr, arg) == enc28j60_write_op(WCR, adr, arg)
enc28j60_wcr16(adr, arg) == enc28j60_write_op(WCR, adr, arg % 256) \o enc28j60_write_op(WCR, adr + 1, arg \div 256)
enc28j60_bfc(adr, mask) == enc28j60_write_op(BFC, adr, mask)
enc28j60_bfs(adr, mask) == enc28j60_write_op(BFS, adr, mask)
enc28j60_read_buffer(parts) == << <<Octet(RBM)>> \o parts >>
enc28j60_write_buffer(parts) == << <<Octet(WBM)>> \o parts >>
enc28j60_soft_reset == << <<Octet(SC)>> >>

\* The calls to come: each with its register, its argument, and what is done with
\* the answer.
Call(fn, adr, arg, then) == [fn |-> fn, adr |-> adr, arg |-> arg, then |-> then]
Tell(fn, r, arg) == Call(fn, Adr[r], arg, <<"go">>)
Ask(r, then) == Call("rcr", Adr[r], 0, then)
Transactions(call, bank) ==
  LET adr == call.adr  arg == call.arg  select == enc28j60_set_bank(bank, adr) IN
  CASE call.fn = "rcr" -> select \o enc28j60_rcr(adr)
    [] call.fn = "rcr16" -> select \o enc28j60_rcr16(adr)
    [] call.fn = "wcr" -> select \o enc28j60_wcr(adr, arg)
    [] call.fn = "wcr16" -> select \o enc28j60_wcr16(adr, arg)
    [] call.fn = "bfs" -> select \o enc28j60_bfs(adr, arg)
    [] call.fn = "bfc" -> select \o enc28j60_bfc(adr, arg)
    [] call.fn = "read" -> enc28j60_read_buffer(arg)
    [] call.fn = "write" -> enc28j60_write_buffer(arg)
    [] OTHER -> enc28j60_soft_reset

enc28j60_write_phy(a, data) ==
  <<Tell("wcr", "MIREGADR", Phy[a]), Tell("wcr16", "MIWR", data), Ask("MISTAT", <<"phy", Phy[a], data>>)>>
enc28j60_init ==
  <<Call("reset", 255, 0, <<"go">>), Tell("wcr16", "ERXST", RXSTART), Tell("rcr16", "ERXST", 0),
    Tell("wcr16", "ERXRDPT", RXSTART), Tell("wcr16", "ERXND", RXEND), Tell("wcr", "MACON1", 13),
    Tell("wcr", "MACON2", 0), Tell("wcr", "MACON3", 51), Tell("wcr16", "MAMXFL", 1500),
    Tell("wcr", "MABBIPG", 21), Tell("wcr", "MAIPGL", 18), Tell("wcr", "MAIPGH", 12),
    Tell("wcr", "MAADR5", 0), Tell("wcr", "MAADR4", 170), Tell("wcr", "MAADR3", 187),
    Tell("wcr", "MAADR2", 204), Tell("wcr", "MAADR1", 222), Tell("wcr", "MAADR0", 2)>>
  \o enc28j60_write_phy("PHCON1", 256) \o enc28j60_write_phy("PHCON2", 256) \o enc28j60_write_phy("PHLCON", 1142)
  \o <<Tell("bfs", "ECON1", RXEN)>>

\* enc28j60_recv_packet: if a frame waits, its header, the frame if it is good, the
\* pointer to its end, and one frame less.
Poll == <<Ask("EPKTCNT", <<"count">>)>>
ReadHeader(rxrdpt) ==
  <<Tell("wcr16", "ERDPT", rxrdpt), Call("read", 0, <<Rx(1), Rx(1)>>, <<"next">>),
    Call("read", 0, <<Rx(1), Rx(1)>>, <<"len">>), Call("read", 0, <<Rx(1), Rx(1)>>, <<"status">>)>>
FreeFrame(rxrdpt) ==
  <<Tell("wcr16", "ERXRDPT", IF rxrdpt = 0 THEN BUFEND ELSE rxrdpt - 1), Call("bfs", Adr.ECON2, PKTDEC, <<"freed">>)>>
PacketLength(rxlen) == IF (rxlen - 4) % 65536 > UIP_BUFSIZE THEN UIP_BUFSIZE ELSE (rxlen - 4) % 65536

\* enc28j60_send_packet: while a transmission goes on, it is reset if one has
\* failed; then a control octet and the frame, where it starts and ends, and go.
Clear == <<Ask("ECON1", <<"txrts">>)>>
ResetTx == <<Tell("bfs", "ECON1", TXRST), Tell("bfc", "ECON1", TXRST)>> \o Clear
LoadFrame(f, len) ==
  <<Tell("wcr16", "EWRPT", TXSTART), Call("write", 0, <<Octet(0)>>, <<"go">>),
    Call("write", 0, <<[out |-> f, n |-> len, keep |-> FALSE]>>, <<"go">>),
    Tell("wcr16", "ETXST", TXSTART), Tell("wcr16", "ETXND", TXSTART + len), Tell("bfs", "ECON1", TXRTS)>>

---------------------------------------------------------------------------
PoweredOn ==
  [todo |-> <<>>, job |-> <<>>, got |-> <<>>, bank |-> 0, rxrdpt |-> 0, rxlen |-> 0, len |-> 0, buf |-> 0]
EncSpiInit ==
  /\ chip = ResetChip /\ driver = PoweredOn /\ asked = <<>> /\ misread = FALSE /\ cameIn = 0

\* What the driver does with the answers of a call that has ended.
Now(d) ==
  LET then == Head(d.todo).then
      two == d.got[1] + 256 * d.got[2]
      rest == [d EXCEPT !.todo = IF Tail(@) = <<>> THEN Poll ELSE Tail(@), !.got = <<>>]
      On(todo) == [rest EXCEPT !.todo = todo]
      First(todo) == [rest EXCEPT !.todo = todo \o Tail(d.todo)]
  IN CASE then[1] = "phy" /\ d.got[1] = 1 -> On(d.todo)
       [] then[1] = "count" -> On(IF d.got[1] > 0 THEN ReadHeader(d.rxrdpt) ELSE Poll)
       [] then[1] = "next" -> [rest EXCEPT !.rxrdpt = two]
       [] then[1] = "len" -> [rest EXCEPT !.rxlen = two]
       [] then[1] = "status" ->
            IF HasBit(d.got[1], 128)
            THEN [On(<<Call("read", 0, <<Rx(PacketLength(d.rxlen))>>, <<"data">>)>> \o FreeFrame(d.rxrdpt))
                  EXCEPT !.len = PacketLength(d.rxlen)]
            ELSE [On(FreeFrame(d.rxrdpt)) EXCEPT !.len = 0]
       [] then[1] = "data" -> [rest EXCEPT !.buf = d.got[1]]
       [] then[1] = "freed" -> On(IF d.len > 0 /\ d.buf \in Replies THEN Clear ELSE Poll)
       [] then[1] = "txrts" -> On(IF HasBit(d.got[1], TXRTS) THEN <<Ask("EIR", <<"txerr">>)>> ELSE LoadFrame(d.buf, d.len))
       [] then[1] = "txerr" -> On(IF HasBit(d.got[1], TXERIF) THEN ResetTx ELSE Clear)
       [] OTHER -> rest

\* main calls enc28j60_init first.
Boot ==
  /\ driver.todo = <<>> /\ driver' = [driver EXCEPT !.todo = enc28j60_init]
  /\ UNCHANGED <<chip, asked, misread, cameIn>>

\* A call begins: the octets it will exchange are settled by the bank it finds.
Begin ==
  /\ driver.todo # <<>> /\ driver.job = <<>>
  /\ driver' = [driver EXCEPT !.job = Transactions(Head(driver.todo), driver.bank)]
  /\ UNCHANGED <<chip, asked, misread, cameIn>>

\* What the driver takes for something else: the answer of another register, of
\* another frame than the oldest, a frame that is overwritten while it is sent, or
\* one that is sent from or to another octet.
Mistaken(call, d, c) ==
  \/ call.fn = "rcr" /\ d.got[1] # c.regs[Where(call.adr)]
  \/ call.then[1] = "status" /\ (HasBit(d.got[1], 128) <=> Head(c.waits) \in BadFrames)
  \/ call.then[1] = "data" /\ (d.got[1] # Head(c.waits)
                              \/ d.len # IF LengthOf[Head(c.waits)] > UIP_BUFSIZE + 4 THEN UIP_BUFSIZE
                                         ELSE LengthOf[Head(c.waits)] - 4)
  \/ call.fn = "write" /\ HasBit(c.regs[ECON1], TXRTS)
  \/ /\ call.fn = "bfs" /\ call.adr = Adr.ECON1 /\ call.arg = TXRTS
     /\ \/ Cell(c, Pair(c, 0, 4)) # 0 \/ Cell(c, Pair(c, 0, 4) + 1) # d.buf
        \/ Pair(c, 0, 6) - Pair(c, 0, 4) # d.len
Told(call, d) ==
  CASE call.fn = "wcr" -> call.adr :> call.arg
    [] call.fn = "wcr16" /\ call.adr > 3 -> (call.adr :> call.arg % 256) @@ (call.adr + 1 :> call.arg \div 256)
    [] call.then[1] = "phy" /\ d.got[1] = 0 -> (1000 + call.then[2]) :> call.then[3]
    [] OTHER -> <<>>

\* enc28j60_rxtx: one octet goes out and one comes in; after the last of a
\* transaction the chip is released, and after the last of a call it returns.
enc28j60_rxtx ==
  LET transaction == Head(driver.job)
      octet == Head(transaction)
      released == Tail(transaction) = <<>>
      obeyed == Obeys(chip, octet.out, octet.n)
      c == IF released THEN [obeyed EXCEPT !.cmd = <<>>] ELSE obeyed
      d == [driver EXCEPT !.job = (IF released THEN <<>> ELSE <<Tail(transaction)>>) \o Tail(@),
                          !.got = IF octet.keep THEN Append(@, Answers(chip)) ELSE @]
      call == Head(d.todo)
      bank == CASE call.fn = "reset" -> 0 [] call.fn \in {"read", "write"} -> d.bank [] OTHER -> BankAfter(d.bank, call.adr)
  IN /\ driver.job # <<>> /\ chip' = c /\ UNCHANGED cameIn
     /\ IF d.job # <<>> THEN driver' = d /\ UNCHANGED <<asked, misread>>
        ELSE /\ driver' = [Now(d) EXCEPT !.bank = bank]
             /\ asked' = IF call.fn = "reset" THEN <<>> ELSE Told(call, d) @@ asked
             /\ misread' = (misread \/ Mistaken(call, d, c))

\* The processor starts again between any two octets, and the chip is released.
McuRestarts ==
  /\ driver # PoweredOn /\ driver' = PoweredOn /\ chip' = [chip EXCEPT !.cmd = <<>>] /\ asked' = <<>>
  /\ UNCHANGED <<misread, cameIn>>

EncSpiNext ==
  \/ Boot \/ Begin \/ enc28j60_rxtx \/ McuRestarts
  \/ Sends \/ PhyWrites \/ \E f \in Frames : FrameIn(f)
EncSpiSpec == EncSpiInit /\ [][EncSpiNext]_encSpiVars

---------------------------------------------------------------------------
\* Between two calls the registers hold what the driver told the register of that
\* name, in its own bank, and the PHY what was written through the MII; the driver
\* knows the bank that is selected; and it never takes one register, frame or length
\* for another: whatever the restarts, the frames that come in and the
\* transmissions that fail in between.
RightRegister ==
  /\ ~misread
  /\ driver.job = <<>> /\ asked # <<>> =>
       /\ driver.bank = chip.regs[ECON1] % 4
       /\ \A a \in DOMAIN asked : asked[a] = IF a >= 1000 THEN chip.phy[a - 1000] ELSE chip.regs[Where(a)]
=============================================================================
