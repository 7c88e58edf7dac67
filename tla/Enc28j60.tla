------------------------------ MODULE Enc28j60 -----------------------------
(***************************************************************************)
(* The Ethernet controller's driver (enc28j60.c) and the main loop's use   *)
(* of it (IPstackIdle, main.c), against the controller: a receive ring it  *)
(* fills while frames come in, a transmit buffer it sends from, registers  *)
(* in banks.  The controller is external and modelled from what the driver *)
(* relies on.  Buffer addresses count cells; RXSTART is 0.                 *)
(***************************************************************************)
EXTENDS Integers, Sequences

CONSTANTS
  BUFSIZE, RingSize,   \* cells of the whole buffer, and of the receive ring in it
  Frames, SizeOf,    \* frames that come in and the cells each takes
  Answered, Broken,  \* those the stack answers; those received with an error
  NoFrame

ASSUME EncAssumption ==
  /\ BUFSIZE \in Nat /\ RingSize \in 2 .. BUFSIZE - 1
  /\ SizeOf \in [Frames -> 1 .. RingSize - 2] /\ Answered \subseteq Frames /\ Broken \subseteq Frames

BUFEND == BUFSIZE - 1

VARIABLES
  \* the controller
  BSEL, RXEN, EPKTCNT, ERXWRPT, ERXRDPT, TXRTS, TXERIF,
  txbuf,
  unread,     \* the frames in the ring that have not been read: [at, frame]
  cut,        \* was a frame overwritten before it was read?
  \* the driver and the main loop
  enc28j60_current_bank, enc28j60_rxrdpt, encPc, uip_buf,
  \* history
  exposed,    \* is a frame unread that came in while the read pointer was outside the ring?
  sending     \* the frame the controller was told to send

controllerVars == <<BSEL, RXEN, EPKTCNT, ERXWRPT, ERXRDPT, TXRTS, TXERIF, txbuf, unread, cut,
                     exposed>>
driverVars == <<enc28j60_current_bank, enc28j60_rxrdpt, encPc, uip_buf, sending>>
encVars == <<controllerVars, driverVars>>

InRing(p) == p \in 0 .. RingSize - 1
Forward(p, n) == (p + n) % RingSize
Cells(p, n) == {Forward(p, k) : k \in 0 .. n - 1}

\* The controller at power-up, and after the reset command.
Cleared ==
  /\ BSEL' = 0 /\ RXEN' = FALSE /\ EPKTCNT' = 0 /\ ERXWRPT' = 0 /\ ERXRDPT' = 0
  /\ TXRTS' = FALSE /\ TXERIF' = FALSE /\ txbuf' = NoFrame /\ unread' = <<>> /\ cut' = FALSE
  /\ exposed' = FALSE
EncInit ==
  /\ BSEL = 0 /\ RXEN = FALSE /\ EPKTCNT = 0 /\ ERXWRPT = 0 /\ ERXRDPT = 0
  /\ TXRTS = FALSE /\ TXERIF = FALSE /\ txbuf = NoFrame /\ unread = <<>> /\ cut = FALSE
  /\ exposed = FALSE
  /\ enc28j60_current_bank = 0 /\ enc28j60_rxrdpt = 0 /\ encPc = "reset" /\ uip_buf = NoFrame
  /\ sending = NoFrame

---------------------------------------------------------------------------
(* The controller *)

\* A frame is stored when the write pointer does not come to the read pointer on
\* its way; otherwise it is dropped.
Room(n) == \A k \in 1 .. n : Forward(ERXWRPT, k) # ERXRDPT
Overwrites(n) ==
  \E i \in DOMAIN unread :
    Cells(unread[i].at, SizeOf[unread[i].frame]) \intersect Cells(ERXWRPT, n) # {}

FrameIn(f) ==
  /\ RXEN /\ ~cut /\ Room(SizeOf[f])
  /\ unread' = Append(unread, [at |-> ERXWRPT, frame |-> f])
  /\ ERXWRPT' = Forward(ERXWRPT, SizeOf[f]) /\ EPKTCNT' = EPKTCNT + 1
  /\ cut' = Overwrites(SizeOf[f]) /\ exposed' = (exposed \/ ~InRing(ERXRDPT))
  /\ UNCHANGED <<BSEL, RXEN, ERXRDPT, TXRTS, TXERIF, txbuf, driverVars>>

\* A transmission ends; after an error the request may stay set.
Sent ==
  /\ TXRTS /\ TXRTS' = FALSE
  /\ UNCHANGED <<BSEL, RXEN, EPKTCNT, ERXWRPT, ERXRDPT, TXERIF, txbuf, unread, cut, exposed, driverVars>>
SendFails ==
  /\ TXRTS /\ TXERIF' = TRUE /\ TXRTS' \in BOOLEAN
  /\ UNCHANGED <<BSEL, RXEN, EPKTCNT, ERXWRPT, ERXRDPT, txbuf, unread, cut, exposed, driverVars>>

---------------------------------------------------------------------------
(* The driver: the registers of a step are in one bank, or in every bank *)

\* A slip to rule out: the driver forgets its bank and does not reset the chip.
ResetUnsent ==
  /\ RXEN' = FALSE /\ EPKTCNT' = 0 /\ ERXWRPT' = 0 /\ ERXRDPT' = 0
  /\ TXRTS' = FALSE /\ TXERIF' = FALSE /\ txbuf' = NoFrame /\ unread' = <<>> /\ cut' = FALSE
  /\ enc28j60_current_bank' = 0 /\ exposed' = FALSE /\ UNCHANGED BSEL

\* BSEL is written when the driver believes another bank is selected.
enc28j60_set_bank(bank) ==
  /\ enc28j60_current_bank' = bank
  /\ BSEL' = IF bank # enc28j60_current_bank THEN bank ELSE BSEL

enc28j60_soft_reset == Cleared /\ enc28j60_current_bank' = 0

AtEnc(step) == encPc = step /\ ~cut
Reset ==
  /\ encPc = "reset" /\ encPc' = "setup" /\ enc28j60_soft_reset
  /\ UNCHANGED <<enc28j60_rxrdpt, uip_buf, sending>>

\* The rest of enc28j60_init: the ring, in bank 0; then the MAC and the PHY, whose
\* status in bank 3 is read last, and reception on.
SetupRing ==
  /\ AtEnc("setup") /\ encPc' = "mac" /\ enc28j60_set_bank(0)
  /\ ERXWRPT' = 0 /\ ERXRDPT' = 0 /\ enc28j60_rxrdpt' = 0
  /\ UNCHANGED <<RXEN, EPKTCNT, TXRTS, TXERIF, txbuf, unread, cut, exposed, uip_buf, sending>>
SetupMac ==
  /\ AtEnc("mac") /\ encPc' = "poll" /\ enc28j60_set_bank(3) /\ RXEN' = TRUE
  /\ UNCHANGED <<EPKTCNT, ERXWRPT, ERXRDPT, TXRTS, TXERIF, txbuf, unread, cut, exposed,
                 enc28j60_rxrdpt, uip_buf, sending>>

\* enc28j60_recv_packet, from reading EPKTCNT in bank 1 to counting the frame off.
Poll ==
  /\ AtEnc("poll") /\ enc28j60_set_bank(1)
  /\ encPc' = IF EPKTCNT > 0 THEN "read" ELSE "poll"
  /\ UNCHANGED <<RXEN, EPKTCNT, ERXWRPT, ERXRDPT, TXRTS, TXERIF, txbuf, unread, cut, exposed,
                 enc28j60_rxrdpt, uip_buf, sending>>

Here == CHOOSE i \in DOMAIN unread : unread[i].at = enc28j60_rxrdpt
Read ==
  LET f == unread[Here].frame IN
  /\ AtEnc("read") /\ encPc' = "free" /\ enc28j60_set_bank(0)
  /\ uip_buf' = IF f \in Broken THEN NoFrame ELSE f
  /\ enc28j60_rxrdpt' = Forward(enc28j60_rxrdpt, SizeOf[f])
  /\ unread' = Tail(unread) /\ exposed' = (exposed /\ Tail(unread) # <<>>)
  /\ UNCHANGED <<RXEN, EPKTCNT, ERXWRPT, ERXRDPT, TXRTS, TXERIF, txbuf, cut, sending>>

\* The cell before the next frame, masked with the end of the whole buffer.
LastRead(p) == IF p = 0 THEN BUFEND ELSE p - 1
FreeCells ==
  /\ AtEnc("free") /\ encPc' = "count" /\ enc28j60_set_bank(0)
  /\ ERXRDPT' = LastRead(enc28j60_rxrdpt)
  /\ UNCHANGED <<RXEN, EPKTCNT, ERXWRPT, TXRTS, TXERIF, txbuf, unread, cut, exposed,
                 enc28j60_rxrdpt, uip_buf, sending>>

\* IPstackIdle hands the frame to the stack, which leaves an answer or none.
CountOff ==
  /\ AtEnc("count") /\ EPKTCNT' = EPKTCNT - 1
  /\ encPc' = IF uip_buf # NoFrame /\ uip_buf \in Answered THEN "wait" ELSE "poll"
  /\ UNCHANGED <<BSEL, RXEN, ERXWRPT, ERXRDPT, TXRTS, TXERIF, txbuf, unread, cut, exposed,
                 enc28j60_current_bank, enc28j60_rxrdpt, uip_buf, sending>>

\* enc28j60_send_packet: a transmission that failed is reset until the request is
\* clear; ECON1 and EIR are in every bank.
Wait ==
  /\ AtEnc("wait")
  /\ IF TXRTS THEN encPc' = encPc /\ TXRTS' = ~TXERIF ELSE encPc' = "load" /\ UNCHANGED TXRTS
  /\ UNCHANGED <<BSEL, RXEN, EPKTCNT, ERXWRPT, ERXRDPT, TXERIF, txbuf, unread, cut, exposed,
                 enc28j60_current_bank, enc28j60_rxrdpt, uip_buf, sending>>

Load ==
  /\ AtEnc("load") /\ encPc' = "go" /\ enc28j60_set_bank(0) /\ txbuf' = uip_buf
  /\ UNCHANGED <<RXEN, EPKTCNT, ERXWRPT, ERXRDPT, TXRTS, TXERIF, unread, cut, exposed,
                 enc28j60_rxrdpt, uip_buf, sending>>

Go ==
  /\ AtEnc("go") /\ encPc' = "poll" /\ TXRTS' = TRUE /\ sending' = txbuf
  /\ UNCHANGED <<BSEL, RXEN, EPKTCNT, ERXWRPT, ERXRDPT, TXERIF, txbuf, unread, cut, exposed,
                 enc28j60_current_bank, enc28j60_rxrdpt, uip_buf>>

\* The microcontroller starts again; the controller keeps what it has.
McuRestarts ==
  /\ encPc # "reset" /\ encPc' = "reset"
  /\ enc28j60_current_bank' = 0 /\ enc28j60_rxrdpt' = 0 /\ uip_buf' = NoFrame /\ sending' = NoFrame
  /\ UNCHANGED controllerVars

EncNext ==
  \/ \E f \in Frames : FrameIn(f)
  \/ Sent \/ SendFails \/ McuRestarts
  \/ Reset \/ SetupRing \/ SetupMac \/ Poll \/ Read \/ FreeCells \/ CountOff \/ Wait \/ Load \/ Go
EncSpec == EncInit /\ [][EncNext]_encVars

---------------------------------------------------------------------------
Running == encPc \notin {"reset", "setup"}

\* The driver reads where the oldest unread frame starts, in the bank it thinks
\* it is in, for as many frames as are counted, and what is being sent is what it
\* was told to send: through every restart and every failed transmission.  A
\* frame is overwritten before it is read only when one of those that wait came in
\* while the read pointer lay outside the ring, where a frame that ends with the
\* ring has put it.
DriverAgrees ==
  /\ cut => exposed
  /\ Running /\ ~cut =>
       /\ BSEL = enc28j60_current_bank
       /\ EPKTCNT = Len(unread) + (IF encPc \in {"free", "count"} THEN 1 ELSE 0)
       /\ enc28j60_rxrdpt = IF unread = <<>> THEN ERXWRPT ELSE Head(unread).at
       /\ TXRTS => txbuf = sending
=============================================================================
