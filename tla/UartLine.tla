------------------------------ MODULE UartLine ------------------------------
(***************************************************************************)
(* The receiver of the UART on a line that something else drives: a sender *)
(* with a clock of its own, that is, frames that begin at any edge and     *)
(* whose bits last a little more or less than the receiver's.              *)
(***************************************************************************)
EXTENDS UartLink

CONSTANT BitTimes   \* clock edges a bit of the sender may last

ASSUME LineAssumption == BitTimes \subseteq Nat \ {0}

\* From the sample that sees the line fall to the one in bit k, in edges.
SampleOf(k, divisor) == (divisor + 1) * (OVERSAMPLING \div 2 + OVERSAMPLING * k)

(* However late the line was seen to fall, the sample of each bit is in    *)
(* that bit: the clocks of the two ends may differ by no more.             *)
Timely ==
  \A d \in Divisors, t \in BitTimes, k \in 1..(BITS + 1) :
    d # 0 /\ k * t <= SampleOf(k, d) /\ SampleOf(k, d) + d < (k + 1) * t

ASSUME SenderAssumption == Timely

VARIABLES
  frame,      \* the byte being sent
  position,   \* the bit on the line: 0 start, 1..BITS data, BITS + 1 stop
  ticks,      \* edges this bit still lasts
  bit_time    \* edges each bit of this frame lasts

lineVars == << frame, position, ticks, bit_time >>
allVars  == << vars, lineVars >>

Quiet == BITS + 2   \* no frame on the line

Level(byte, bit) ==
  CASE bit = 0        -> FALSE
    [] bit \in 1..BITS -> BitOf(byte, bit - 1)
    [] OTHER          -> TRUE

LineInit ==
  /\ Init
  /\ frame = 0 /\ position = Quiet /\ ticks = 0 /\ bit_time = 0

BeginFrame ==
  /\ position = Quiet
  /\ divisor_writes > 0 /\ ~bus.stb
  /\ Len(sent) < MaxSent
  /\ \E b \in Payloads, t \in BitTimes :
       frame' = b /\ bit_time' = t /\ ticks' = t - 1 /\ sent' = Append(sent, b)
  /\ position' = 0

HoldBit ==
  /\ position # Quiet /\ ticks > 0
  /\ ticks' = ticks - 1
  /\ UNCHANGED << frame, position, bit_time, sent >>

NextBit ==
  /\ position # Quiet /\ ticks = 0
  /\ position' = position + 1
  /\ ticks' = (IF position' = Quiet THEN 0 ELSE bit_time - 1)
  /\ UNCHANGED << frame, bit_time, sent >>

StayQuiet ==
  /\ position = Quiet
  /\ UNCHANGED << lineVars, sent >>

(* The software only sets the divisor.                                     *)
SetUp ==
  \/ uart_set_divisor /\ ~bus.stb
  \/ /\ bus.stb /\ wb_ack_out
     /\ bus' = Idle
     /\ UNCHANGED divisor_writes
  \/ /\ bus.stb => ~wb_ack_out
     /\ UNCHANGED << bus, divisor_writes >>

LineNext ==
  /\ UartClock
  /\ SetUp
  /\ BeginFrame \/ HoldBit \/ NextBit \/ StayQuiet
  /\ rxd' = Level(frame', position')
  /\ RecordArrival
  /\ UNCHANGED << may_send, may_read, read >>

LineSpec == LineInit /\ [][LineNext]_allVars

(* The receiver gets every character right although it samples a line that *)
(* is not aligned with its sample clock and drifts against it (122-172).   *)
LineReceived ==
  /\ IsPrefixOf(arrived, sent)
  /\ position = Quiet => Len(arrived) = Len(sent)
==============================================================================
