------------------------------- MODULE UipRtt ------------------------------
(***************************************************************************)
(* How long uip.c waits for an acknowledgement: the retransmission timer   *)
(* of a connection, its exponential backoff and the estimate of the round  *)
(* trip, which is kept in bytes and worked out in a signed char.           *)
(***************************************************************************)
EXTENDS Integers

CONSTANTS
  ByteRange,            \* values of a u8_t: 256 in the code
  UIP_RTO, UIP_MAXRTX,
  UIP_TIME_WAIT_TIMEOUT,
  MaxRtt                \* bound: calls of the timer before an answer that is not late

ASSUME RttAssumption ==
  /\ ByteRange \in Nat \ {0} /\ {UIP_RTO, UIP_MAXRTX, UIP_TIME_WAIT_TIMEOUT, MaxRtt} \subseteq Nat

VARIABLES
  phase,        \* "closed", "idle" or "sent": is there data to be acknowledged?
  sa, sv, rto, retimer, nrtx,
  est           \* history: sa and sv as integers
rttVars == <<phase, sa, sv, rto, retimer, nrtx, est>>

RttInit ==
  /\ phase = "closed" /\ sa = 0 /\ sv = 0 /\ rto = 0 /\ retimer = 0 /\ nrtx = 0
  /\ est = [sa |-> 0, sv |-> 0]

\* uip_process for a SYN: the answer to it is to be acknowledged.
RttSyn ==
  /\ phase = "closed" /\ phase' = "sent" /\ nrtx' = 0
  /\ sa' = 0 /\ sv' = 4 /\ rto' = UIP_RTO /\ retimer' = UIP_RTO
  /\ est' = [sa |-> 0, sv |-> 4]

\* The application sends: the timer runs on from where the last answer set it.
RttSend ==
  /\ phase = "idle" /\ phase' = "sent" /\ nrtx' = 0
  /\ UNCHANGED <<sa, sv, rto, retimer, est>>

RttTimer ==
  /\ phase = "sent" /\ UNCHANGED <<sa, sv, rto, est>>
  /\ \/ retimer > 0 /\ retimer' = retimer - 1 /\ UNCHANGED <<phase, nrtx>>
     \/ /\ retimer = 0 /\ nrtx < UIP_MAXRTX /\ nrtx' = nrtx + 1
        /\ retimer' = UIP_RTO * 2 ^ (IF nrtx > 4 THEN 4 ELSE nrtx) /\ UNCHANGED phase
     \/ /\ retimer = 0 /\ nrtx = UIP_MAXRTX
        /\ phase' = "closed" /\ retimer' = ByteRange - 1 /\ UNCHANGED nrtx

\* A number in a u8_t, and in a signed char.
Byte(n) == n % ByteRange
SChar(n) == IF Byte(n) < ByteRange \div 2 THEN Byte(n) ELSE Byte(n) - ByteRange
Abs(n) == IF n < 0 THEN -n ELSE n

\* A slip to rule out: the mean is moved by the size of the error, not by the error.
EstimateBySize(sample) ==
  LET m == SChar(SChar(sample) - sa \div 8)
  IN [sa |-> Byte(sa + Abs(m)), sv |-> Byte(sv + SChar(SChar(Abs(m)) - sv \div 4))]

\* sa is eight times the mean, sv four times the mean deviation.
Estimate(sample) ==
  LET m == SChar(SChar(sample) - sa \div 8)
  IN [sa |-> Byte(sa + m), sv |-> Byte(sv + SChar(SChar(Abs(m)) - sv \div 4))]

\* The same as the paper has it, in integers.
Jacobson(e, sample) ==
  LET m == sample - e.sa \div 8 IN [sa |-> e.sa + m, sv |-> e.sv + Abs(m) - e.sv \div 4]

\* The sample is taken only of what was sent once.
RttAck ==
  /\ phase = "sent" /\ phase' = "idle" /\ UNCHANGED nrtx
  /\ \/ LET sample == rto - retimer IN
        /\ nrtx = 0 /\ sample <= MaxRtt
        /\ sa' = Estimate(sample).sa /\ sv' = Estimate(sample).sv
        /\ rto' = Byte(sa' \div 8 + sv') /\ est' = Jacobson(est, sample)
     \/ nrtx > 0 /\ UNCHANGED <<sa, sv, rto, est>>
  /\ retimer' = rto'

RttNext == RttSyn \/ RttSend \/ RttTimer \/ RttAck
RttSpec == RttInit /\ [][RttNext]_rttVars
---------------------------------------------------------------------------
\* While answers come within MaxRtt calls of the timer (31 at most, where a byte
\* counts 256: beyond, it is not so) the bytes never wrap: the estimate is the one
\* the algorithm gives, the time-out is no shorter than the first one, and a
\* connection that enters FIN_WAIT_2 with it in the timer is closed in time.
EstimateFits ==
  phase # "closed" =>
    /\ sa = est.sa /\ sv = est.sv /\ rto \in {UIP_RTO, est.sa \div 8 + est.sv}
    /\ rto \in UIP_RTO .. UIP_TIME_WAIT_TIMEOUT - 1
=============================================================================
