------------------------------- MODULE UipLib ------------------------------
(***************************************************************************)
(* Two parts of the library no other part calls: the interval timers of    *)
(* uip-timer.c, over a clock that wraps, and uip_split_output              *)
(* (uip-split.c), which sends a full segment as two.                       *)
(***************************************************************************)
EXTENDS Integers, Sequences

CONSTANTS
  ClockRange,   \* values of clock_time_t: half of them are below zero
  Intervals,
  MaxLapse,     \* bound: ticks between the due time of a timer and now
  SeqRange,     \* values of a sequence number
  FullSegment, TcpLengths,  \* payload of a full segment; the payloads sent
  TCPIP_HLEN

ASSUME LibAssumption ==
  /\ ClockRange \in Nat \ {0} /\ Intervals \subseteq 0 .. ClockRange \div 2 - 1
  /\ MaxLapse \in 0 .. ClockRange \div 2 - 1
  /\ SeqRange \in Nat \ {0} /\ FullSegment \in Nat /\ TcpLengths \subseteq Nat
  /\ TCPIP_HLEN \in Nat

VARIABLES
  clock, timer,   \* clock_time(); [start, interval]
  lapse,          \* history: ticks since the interval ended, below zero before
  packets         \* what the last uip_split_output sent: [seqno, len, from]
libVars == <<clock, timer, lapse, packets>>

\* A timer is zeroed before it is set.
LibInit ==
  /\ clock = 0 /\ timer = [start |-> 0, interval |-> 0] /\ lapse = 0 /\ packets = <<>>

---------------------------------------------------------------------------
(* uip-timer.c *)

Tick ==
  /\ lapse < MaxLapse
  /\ clock' = (clock + 1) % ClockRange /\ lapse' = lapse + 1
  /\ UNCHANGED <<timer, packets>>

timer_set(n) ==
  /\ timer' = [interval |-> n, start |-> clock] /\ lapse' = -n
  /\ UNCHANGED <<clock, packets>>

\* A slip to rule out: the new interval starts now.
timer_reset_now ==
  /\ lapse - timer.interval >= -MaxLapse
  /\ timer' = [timer EXCEPT !.start = clock]
  /\ lapse' = lapse - timer.interval /\ UNCHANGED <<clock, packets>>

\* The new interval starts where the old one ended.
timer_reset ==
  /\ lapse - timer.interval >= -MaxLapse
  /\ timer' = [timer EXCEPT !.start = (@ + timer.interval) % ClockRange]
  /\ lapse' = lapse - timer.interval /\ UNCHANGED <<clock, packets>>

timer_restart ==
  /\ timer' = [timer EXCEPT !.start = clock] /\ lapse' = -timer.interval
  /\ UNCHANGED <<clock, packets>>

\* The difference is taken modulo the clock and read as a signed number.
Signed(n) == LET m == n % ClockRange IN IF m < ClockRange \div 2 THEN m ELSE m - ClockRange
timer_expired == Signed(clock - timer.start) >= timer.interval

---------------------------------------------------------------------------
(* uip-split.c *)

Halves(n) == <<n \div 2, n - n \div 2>>

\* A slip to rule out: the second packet keeps the number of the first.
uip_split_same(seqno, n) ==
  packets' = IF n = FullSegment
    THEN << [seqno |-> seqno, len |-> Halves(n)[1] + TCPIP_HLEN, from |-> 0],
            [seqno |-> seqno, len |-> Halves(n)[2] + TCPIP_HLEN, from |-> Halves(n)[1]] >>
    ELSE << [seqno |-> seqno, len |-> n + TCPIP_HLEN, from |-> 0] >>

\* The second half is the longer one; the bytes it is made of are moved down to
\* the start of the buffer.
uip_split_output(seqno, n) ==
  packets' = IF n = FullSegment
    THEN LET len1 == Halves(n)[1] len2 == Halves(n)[2] IN
         << [seqno |-> seqno, len |-> len1 + TCPIP_HLEN, from |-> 0],
            [seqno |-> (seqno + len1) % SeqRange, len |-> len2 + TCPIP_HLEN, from |-> len1] >>
    ELSE << [seqno |-> seqno, len |-> n + TCPIP_HLEN, from |-> 0] >>
Split(seqno, n) == uip_split_output(seqno, n) /\ UNCHANGED <<clock, timer, lapse>>

LibNext ==
  \/ Tick \/ timer_reset \/ timer_restart
  \/ \E n \in Intervals : timer_set(n)
  \/ \E s \in 0 .. SeqRange - 1, n \in TcpLengths : Split(s, n)
LibSpec == LibInit /\ [][LibNext]_libVars

---------------------------------------------------------------------------
\* A timer has expired exactly when its interval is over, however often it was
\* reset and the clock wrapped, while it is looked at within half the clock's range.
ExpiresInTime ==
  lapse + timer.interval \in -(ClockRange \div 2) .. ClockRange \div 2 - 1 =>
    (timer_expired <=> lapse >= 0)

\* The packets a segment is sent as follow on from one another, in number and in
\* place, with nothing left out.
SplitIsWhole ==
  \A i \in 1 .. Len(packets) - 1 :
    /\ packets[i + 1].from = packets[i].from + packets[i].len - TCPIP_HLEN
    /\ packets[i + 1].seqno = (packets[i].seqno + packets[i].len - TCPIP_HLEN) % SeqRange
    /\ packets[i].len + packets[i + 1].len = FullSegment + 2 * TCPIP_HLEN

\* uIP's small libraries: a timer has expired exactly when its interval is over,
\* however often its clock wrapped (uip-timer.c), and the packets a full segment is
\* split into are the segment (uip-split.c).
LibraryIsRight == ExpiresInTime /\ SplitIsWhole
=============================================================================
