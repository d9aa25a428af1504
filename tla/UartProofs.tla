----------------------------- MODULE UartProofs -----------------------------
(***************************************************************************)
(* Proofs about the UART and the software on its bus, for queues of every  *)
(* depth and every number of bytes: what happens between the queues and    *)
(* the bus, for characters and samples of every size, and what happens on  *)
(* the line, its own or that of another device, for characters of at most  *)
(* 8 bits.                                                                 *)
(***************************************************************************)
EXTENDS UartLine, SequenceTheorems, TLAPS

-----------------------------------------------------------------------------
(***************************************************************************)
(* Why the UART and the software on its bus lose, repeat and reorder       *)
(* nothing: an invariant that every edge preserves, in four parts.         *)
(***************************************************************************)

\* What the bus master asks for.
Sending   == bus.stb /\ bus.we /\ bus.adr = "transmit"
Receiving == bus.stb /\ ~bus.we /\ bus.adr = "receive"
Asking    == bus.stb /\ ~bus.we /\ bus.adr = "status"

(* The receive queue is a queue: its indices stay in its memory (pp_fifo   *)
(* 25-37); the bits of a received byte are counted from 0 to 7.            *)
RecvInv ==
  /\ recv \in [ memory   : [ 0..(FIFO_DEPTH - 1) -> Int ],
                top      : 0..(FIFO_DEPTH - 1),
                bottom   : 0..(FIFO_DEPTH - 1),
                prev_op  : { "FIFO_POP", "FIFO_PUSH" },
                data_out : Int ]
  /\ rx_byte \in Int /\ rx_current_bit \in Nat

(* What the two state machines of the bus are at, and that the requests to *)
(* push and to pop last one edge (pp_soc_uart 287-377).                    *)
BusInv ==
  /\ bus.stb \in BOOLEAN /\ bus.we \in BOOLEAN /\ wb_ack \in BOOLEAN
  /\ wb_state \in { "IDLE", "WRITE_ACK", "READ_ACK" }
  /\ wb_ack => wb_state # "IDLE"
  /\ bus.stb /\ wb_state = "WRITE_ACK" => bus.we /\ wb_ack
  /\ bus.stb /\ wb_state = "READ_ACK" => ~bus.we /\ (wb_ack \/ Receiving)
  /\ send_buffer_push \in BOOLEAN /\ (send_buffer_push => wb_state = "WRITE_ACK")
  /\ recv_buffer_pop \in BOOLEAN
  /\ recv_buffer_pop => wb_state = "READ_ACK" /\ Receiving /\ ~wb_ack
  /\ wb_state = "READ_ACK" /\ Receiving /\ wb_ack => wb_dat_out = recv.data_out
  /\ bus.stb /\ bus.we /\ bus.adr = "interrupt" => bus.dat = 1
  /\ ~irq_tx_ready_enable

(* What the software knows of the queues stays true until it acts on it,   *)
(* or the answer that is on its way does (libsoc/uart.h 71-152).           *)
PollingInv ==
  /\ may_send \in BOOLEAN /\ may_read \in BOOLEAN
  /\ may_send => ~Buffer!Full(send) /\ ~send_buffer_push /\ ~Sending
  /\ may_read => ~Buffer!Empty(recv) \/ Receiving
  /\ wb_state = "IDLE" /\ Sending => ~Buffer!Full(send) /\ ~send_buffer_push
  /\ wb_state = "IDLE" /\ Receiving => ~Buffer!Empty(recv)
  /\ wb_state = "READ_ACK" /\ Asking =>
       /\ ~BitOf(wb_dat_out, 0) => ~Buffer!Empty(recv)
       /\ ~BitOf(wb_dat_out, 3) => ~Buffer!Full(send)

(* A state machine tests its queue in one state and acts on it in the next *)
(* (pp_soc_uart 159-169 and 201-212).                                      *)
RequestInv ==
  /\ send_buffer_pop \in BOOLEAN /\ (send_buffer_pop => tx_state = "TRANSMIT")
  /\ recv_buffer_push \in BOOLEAN /\ (recv_buffer_push => rx_state = "IDLE")
  /\ QueuesRespected

HistoryInv == kept \in Seq(Int) /\ read \in Seq(Int) /\ ReadsInOrder

UartInv == RecvInv /\ BusInv /\ PollingInv /\ RequestInv /\ HistoryInv


-----------------------------------------------------------------------------
(* The queue of pp_fifo.vhd is a queue.                                    *)

Depth == FIFO_DEPTH

Queues ==
  [ memory   : [ 0..(Depth - 1) -> Int ],
    top      : 0..(Depth - 1),
    bottom   : 0..(Depth - 1),
    prev_op  : { "FIFO_POP", "FIFO_PUSH" },
    data_out : Int ]

LEMMA DepthPositive == Depth \in Nat \ {0}
  BY UartAssumption DEF Depth

(* The indices go round.                                                   *)
LEMMA Around ==
  ASSUME NEW x \in Nat, x < 2 * Depth
  PROVE  x % Depth = IF x < Depth THEN x ELSE x - Depth
  BY DepthPositive, SMT

LEMMA Difference ==
  ASSUME NEW x \in 0..(Depth - 1), NEW y \in 0..(Depth - 1)
  PROVE  (x - y) % Depth = IF y <= x THEN x - y ELSE x - y + Depth
  BY DepthPositive, SMT

(* Values between the indices t and b.                                     *)
Distance(t, b, full) ==
  IF t = b THEN IF full THEN Depth ELSE 0 ELSE IF b <= t THEN t - b ELSE t - b + Depth

LEMMA QueuedClosed ==
  ASSUME NEW f \in Queues
  PROVE  Buffer!Queued(f) = Distance(f.top, f.bottom, f.prev_op = "FIFO_PUSH")
  <1>1. f.top \in 0..(Depth - 1) /\ f.bottom \in 0..(Depth - 1)
    BY DEF Queues
  <1>2. Buffer!Queued(f) = IF Buffer!Full(f) THEN Depth ELSE (f.top - f.bottom) % Depth
    BY DEF Buffer!Queued, Depth
  <1>3. (f.top - f.bottom) % Depth =
          IF f.bottom <= f.top THEN f.top - f.bottom ELSE f.top - f.bottom + Depth
    BY <1>1, Difference
  <1> QED
    BY <1>1, <1>2, <1>3, DepthPositive DEF Buffer!Full, Distance

(* An index goes round.                                                    *)
Step(x, goes) == IF goes THEN IF x = Depth - 1 THEN 0 ELSE x + 1 ELSE x

LEMMA Counting ==
  ASSUME NEW t \in 0..(Depth - 1), NEW b \in 0..(Depth - 1),
         NEW push \in BOOLEAN, NEW pop \in BOOLEAN, NEW full \in BOOLEAN,
         t = b => (push => ~full) /\ (pop => full)
  PROVE  Distance(Step(t, push), Step(b, pop), ~pop /\ (push \/ full)) =
           Distance(t, b, full) - (IF pop THEN 1 ELSE 0) + (IF push THEN 1 ELSE 0)
  <1>1. CASE push /\ pop
    BY <1>1, DepthPositive DEF Distance, Step
  <1>2. CASE push /\ ~pop
    BY <1>2, DepthPositive DEF Distance, Step
  <1>3. CASE ~push /\ pop
    BY <1>3, DepthPositive DEF Distance, Step
  <1>4. CASE ~push /\ ~pop
    BY <1>4, DepthPositive DEF Distance, Step
  <1> QED
    BY <1>1, <1>2, <1>3, <1>4

LEMMA QueuedRange ==
  ASSUME NEW f \in Queues
  PROVE  /\ Buffer!Queued(f) \in 0..Depth
         /\ ~Buffer!Empty(f) <=> Buffer!Queued(f) > 0
         /\ ~Buffer!Full(f) <=> Buffer!Queued(f) < Depth
  BY QueuedClosed, DepthPositive DEF Queues, Buffer!Empty, Buffer!Full, Distance

LEMMA FollowingClosed ==
  ASSUME NEW x \in 0..(Depth - 1)
  PROVE  Buffer!Following(x) = IF x = Depth - 1 THEN 0 ELSE x + 1
  <1>1. (x + 1) % Depth = IF x + 1 < Depth THEN x + 1 ELSE x + 1 - Depth
    BY Around, DepthPositive
  <1> QED
    BY <1>1, DepthPositive DEF Buffer!Following, Depth

LEMMA ClockTyped ==
  ASSUME NEW f \in Queues, NEW push \in BOOLEAN, NEW pop \in BOOLEAN, NEW d \in Int
  PROVE  Buffer!FifoClock(f, push, pop, d) \in Queues
  <1>1. /\ f.top \in 0..(Depth - 1) /\ f.bottom \in 0..(Depth - 1)
        /\ f.memory \in [ 0..(Depth - 1) -> Int ] /\ f.data_out \in Int
        /\ f.prev_op \in { "FIFO_POP", "FIFO_PUSH" }
    BY DEF Queues
  <1>2. Buffer!Following(f.top) \in 0..(Depth - 1) /\ Buffer!Following(f.bottom) \in 0..(Depth - 1)
    <2>1. \A x \in 0..(Depth - 1) : Buffer!Following(x) \in 0..(Depth - 1)
      BY FollowingClosed, DepthPositive
    <2> QED
      BY <1>1, <2>1
  <1>3. [ f.memory EXCEPT ![f.top] = d ] \in [ 0..(Depth - 1) -> Int ]
    BY <1>1
  <1>4. f.memory[f.bottom] \in Int
    BY <1>1
  <1>5. Buffer!SetPrevOp(f, push, pop) \in { "FIFO_POP", "FIFO_PUSH" }
    BY <1>1 DEF Buffer!SetPrevOp
  <1> QED
    BY <1>1, <1>2, <1>3, <1>4, <1>5 DEF Buffer!FifoClock, Queues

(* How an edge changes what a queue says of itself.                        *)
LEMMA ClockFlags ==
  ASSUME NEW f, NEW push \in BOOLEAN, NEW pop \in BOOLEAN, NEW d
  PROVE  LET g == Buffer!FifoClock(f, push, pop, d)
         IN  /\ ~push /\ ~Buffer!Full(f) => ~Buffer!Full(g)
             /\ ~pop /\ ~Buffer!Empty(f) => ~Buffer!Empty(g)
             /\ ~pop => g.data_out = f.data_out
             /\ pop => g.data_out = f.memory[f.bottom]
  BY DEF Buffer!FifoClock, Buffer!SetPrevOp, Buffer!Full, Buffer!Empty

(* Slot of the value that is i-th from the oldest.                         *)
SlotOf(f, i) == (f.bottom + i - 1) % Depth

LEMMA SlotClosed ==
  ASSUME NEW f \in Queues, NEW i \in 1..(Depth + 1)
  PROVE  SlotOf(f, i) =
           IF f.bottom + i - 1 < Depth THEN f.bottom + i - 1 ELSE f.bottom + i - 1 - Depth
  <1>1. f.bottom \in 0..(Depth - 1)
    BY DEF Queues
  <1>2. CASE f.bottom + i - 1 < 2 * Depth
    BY <1>1, <1>2, Around, DepthPositive DEF SlotOf
  <1> QED
    BY <1>1, <1>2, DepthPositive

LEMMA ContentsAreSequence ==
  ASSUME NEW f \in Queues
  PROVE  /\ Buffer!Contents(f) \in Seq(Int)
         /\ Len(Buffer!Contents(f)) = Buffer!Queued(f)
         /\ \A i \in 1..Buffer!Queued(f) : Buffer!Contents(f)[i] = f.memory[SlotOf(f, i)]
  <1> DEFINE n == Buffer!Queued(f)
             C == Buffer!Contents(f)
  <1>1. n \in 0..Depth /\ n \in Nat
    BY QueuedRange, DepthPositive
  <1>2. C = [ i \in 1..n |-> f.memory[SlotOf(f, i)] ]
    BY DEF Buffer!Contents, SlotOf, Depth
  <1>3. \A i \in 1..n : SlotOf(f, i) \in 0..(Depth - 1)
    <2> TAKE i \in 1..n
    <2>1. i \in 1..(Depth + 1) /\ f.bottom \in 0..(Depth - 1) /\ i <= Depth
      BY <1>1, DepthPositive DEF Queues
    <2> QED
      BY <2>1, SlotClosed, DepthPositive
  <1>4. f.memory \in [ 0..(Depth - 1) -> Int ]
    BY DEF Queues
  <1> HIDE DEF n, C
  <1>5. C \in [ 1..n -> Int ]
    BY <1>2, <1>3, <1>4
  <1>6. C \in Seq(Int)
    BY <1>1, <1>5, SeqDef
  <1>7. Len(C) = n
    <2>1. DOMAIN C = 1..n /\ DOMAIN C = 1..Len(C) /\ Len(C) \in Nat
      BY <1>5, <1>6, LenProperties
    <2> QED
      BY <1>1, <2>1
  <1> QED
    BY <1>2, <1>6, <1>7 DEF n, C

(* The next slot to be written is the one behind the last queued value.    *)
LEMMA TopIsNext ==
  ASSUME NEW f \in Queues
  PROVE  f.top = SlotOf(f, Buffer!Queued(f) + 1)
  <1>1. f.top \in 0..(Depth - 1) /\ f.bottom \in 0..(Depth - 1)
    BY DEF Queues
  <1>2. \A t, b \in 0..(Depth - 1), full \in BOOLEAN :
          LET i == Distance(t, b, full) + 1
          IN  /\ i \in 1..(Depth + 1)
              /\ t = IF b + i - 1 < Depth THEN b + i - 1 ELSE b + i - 1 - Depth
    BY DepthPositive DEF Distance
  <1> DEFINE i == Distance(f.top, f.bottom, f.prev_op = "FIFO_PUSH") + 1
  <1>3. /\ i \in 1..(Depth + 1)
        /\ f.top = IF f.bottom + i - 1 < Depth THEN f.bottom + i - 1 ELSE f.bottom + i - 1 - Depth
    BY <1>1, <1>2
  <1> HIDE DEF i
  <1>4. f.top = SlotOf(f, i)
    BY <1>3, SlotClosed
  <1> QED
    BY <1>4, QueuedClosed DEF i

LEMMA ClockCounts ==
  ASSUME NEW f \in Queues, NEW push \in BOOLEAN, NEW pop \in BOOLEAN, NEW d \in Int,
         push => ~Buffer!Full(f), pop => ~Buffer!Empty(f)
  PROVE  Buffer!Queued(Buffer!FifoClock(f, push, pop, d)) =
           Buffer!Queued(f) - (IF pop THEN 1 ELSE 0) + (IF push THEN 1 ELSE 0)
  <1> DEFINE g == Buffer!FifoClock(f, push, pop, d)
  <1>1. g \in Queues
    BY ClockTyped
  <1>2. /\ f.top \in 0..(Depth - 1) /\ f.bottom \in 0..(Depth - 1)
        /\ f.prev_op \in { "FIFO_POP", "FIFO_PUSH" }
    BY DEF Queues
  <1>3. /\ g.top = Step(f.top, push)
        /\ g.bottom = Step(f.bottom, pop)
        /\ g.prev_op = IF pop THEN "FIFO_POP" ELSE IF push THEN "FIFO_PUSH" ELSE f.prev_op
    BY <1>2, FollowingClosed DEF Buffer!FifoClock, Buffer!SetPrevOp, Step
  <1>4. f.top = f.bottom => (push => ~(f.prev_op = "FIFO_PUSH")) /\ (pop => f.prev_op = "FIFO_PUSH")
    BY <1>2 DEF Buffer!Full, Buffer!Empty
  <1>5. g.prev_op = "FIFO_PUSH" <=> ~pop /\ (push \/ f.prev_op = "FIFO_PUSH")
    BY <1>2, <1>3
  <1>6. Distance(g.top, g.bottom, ~pop /\ (push \/ f.prev_op = "FIFO_PUSH")) =
          Distance(f.top, f.bottom, f.prev_op = "FIFO_PUSH")
            - (IF pop THEN 1 ELSE 0) + (IF push THEN 1 ELSE 0)
    <2>1. \A full \in BOOLEAN :
            (f.top = f.bottom => (push => ~full) /\ (pop => full))
            => Distance(Step(f.top, push), Step(f.bottom, pop), ~pop /\ (push \/ full)) =
                 Distance(f.top, f.bottom, full)
                   - (IF pop THEN 1 ELSE 0) + (IF push THEN 1 ELSE 0)
      BY <1>2, Counting
    <2>2. (f.prev_op = "FIFO_PUSH") \in BOOLEAN
      OBVIOUS
    <2> HIDE DEF g
    <2> QED
      BY <1>3, <1>4, <2>1, <2>2
  <1> HIDE DEF g
  <1>7. Buffer!Queued(g) = Distance(g.top, g.bottom, ~pop /\ (push \/ f.prev_op = "FIFO_PUSH"))
    BY <1>1, <1>5, QueuedClosed
  <1> QED
    BY <1>6, <1>7, QueuedClosed DEF g

(* The arithmetic of it: slots counted from b, and from behind b.          *)
LEMMA SlotsMove ==
  ASSUME NEW b \in 0..(Depth - 1), NEW one \in 0..1, NEW i \in 1..Depth, i + one <= Depth + 1,
         NEW c, c = IF one = 1 THEN IF b = Depth - 1 THEN 0 ELSE b + 1 ELSE b
  PROVE  (IF c + i - 1 < Depth THEN c + i - 1 ELSE c + i - 1 - Depth) =
           IF b + (i + one) - 1 < Depth THEN b + (i + one) - 1 ELSE b + (i + one) - 1 - Depth
  <1>1. CASE one = 0
    BY <1>1, DepthPositive
  <1>2. CASE one = 1 /\ b = Depth - 1
    BY <1>2, DepthPositive
  <1>3. CASE one = 1 /\ b # Depth - 1
    BY <1>3, DepthPositive
  <1> QED
    BY <1>1, <1>2, <1>3

LEMMA SlotsDiffer ==
  ASSUME NEW b \in 0..(Depth - 1), NEW i \in 1..Depth, NEW j \in 1..Depth, i # j
  PROVE  (IF b + i - 1 < Depth THEN b + i - 1 ELSE b + i - 1 - Depth) #
           IF b + j - 1 < Depth THEN b + j - 1 ELSE b + j - 1 - Depth
  BY DepthPositive

(* A pop takes the oldest value, a push adds one behind the others.        *)
LEMMA ClockContents ==
  ASSUME NEW f \in Queues, NEW push \in BOOLEAN, NEW pop \in BOOLEAN, NEW d \in Int,
         push => ~Buffer!Full(f), pop => ~Buffer!Empty(f)
  PROVE  /\ Buffer!Contents(Buffer!FifoClock(f, push, pop, d)) =
              (IF pop THEN Tail(Buffer!Contents(f)) ELSE Buffer!Contents(f))
                \o (IF push THEN << d >> ELSE << >>)
         /\ pop => /\ Buffer!Contents(f) # << >>
                   /\ f.memory[f.bottom] = Head(Buffer!Contents(f))
  <1> DEFINE g == Buffer!FifoClock(f, push, pop, d)
             C == Buffer!Contents(f)
             n == Buffer!Queued(f)
             one == IF pop THEN 1 ELSE 0
             rest == IF pop THEN Tail(C) ELSE C
             last == IF push THEN << d >> ELSE << >>
             more == IF push THEN 1 ELSE 0
  <1>1. /\ C \in Seq(Int) /\ Len(C) = n /\ n \in 0..Depth
        /\ \A i \in 1..n : C[i] = f.memory[SlotOf(f, i)]
    BY ContentsAreSequence, QueuedRange
  <1>2. /\ g \in Queues
        /\ Buffer!Contents(g) \in Seq(Int) /\ Len(Buffer!Contents(g)) = Buffer!Queued(g)
        /\ \A i \in 1..Buffer!Queued(g) : Buffer!Contents(g)[i] = g.memory[SlotOf(g, i)]
    BY ClockTyped, ContentsAreSequence
  <1>3. Buffer!Queued(g) = n - one + more
    BY ClockCounts
  <1>4. /\ f.top \in 0..(Depth - 1) /\ f.bottom \in 0..(Depth - 1)
        /\ f.memory \in [ 0..(Depth - 1) -> Int ]
    BY DEF Queues
  <1>5. /\ g.bottom = IF one = 1 THEN IF f.bottom = Depth - 1 THEN 0 ELSE f.bottom + 1 ELSE f.bottom
        /\ g.memory = IF push THEN [ f.memory EXCEPT ![f.top] = d ] ELSE f.memory
    BY <1>4, FollowingClosed DEF Buffer!FifoClock
  <1>6. pop => n > 0 /\ C # << >> /\ f.memory[f.bottom] = Head(C)
    <2> SUFFICES ASSUME pop PROVE n > 0 /\ C # << >> /\ f.memory[f.bottom] = Head(C)
      OBVIOUS
    <2>1. n > 0
      BY QueuedRange
    <2>2. C[1] = f.memory[SlotOf(f, 1)]
      BY <1>1, <2>1
    <2>3. SlotOf(f, 1) = f.bottom
      BY <1>4, SlotClosed, DepthPositive
    <2>4. C # << >>
      BY <1>1, <2>1, EmptySeq
    <2> QED
      BY <2>1, <2>2, <2>3, <2>4
  <1>7. push => n < Depth
    BY QueuedRange
  <1>8. /\ rest \in Seq(Int) /\ Len(rest) = n - one
        /\ \A i \in 1..(n - one) : rest[i] = C[i + one]
    <2>1. CASE pop
      BY <1>1, <1>6, <2>1, HeadTailProperties
    <2>2. CASE ~pop
      BY <1>1, <2>2
    <2> QED
      BY <2>1, <2>2
  <1>9. last \in Seq(Int) /\ Len(last) = more /\ (push => last[1] = d)
    OBVIOUS
  <1>0. one \in 0..1 /\ more \in 0..1 /\ (pop <=> one = 1) /\ (push <=> more = 1)
    OBVIOUS
  <1> HIDE DEF g, C, n, rest, last, one, more
  <1>10. /\ rest \o last \in Seq(Int)
         /\ Len(rest \o last) = n - one + more
         /\ \A i \in 1..(n - one + more) :
              (rest \o last)[i] = IF i <= n - one THEN C[i + one] ELSE d
    <2>1. /\ rest \o last \in Seq(Int) /\ Len(rest \o last) = Len(rest) + Len(last)
          /\ \A i \in 1..(Len(rest) + Len(last)) : (rest \o last)[i] =
               IF i <= Len(rest) THEN rest[i] ELSE last[i - Len(rest)]
      BY <1>8, <1>9, ConcatProperties
    <2>2. ASSUME NEW i \in 1..(n - one + more)
          PROVE  (rest \o last)[i] = IF i <= n - one THEN C[i + one] ELSE d
      <3>1. CASE i <= n - one
        <4>1. i \in 1..(n - one) /\ i \in 1..(Len(rest) + Len(last))
          BY <1>0, <1>1, <1>8, <1>9, <3>1
        <4> QED
          BY <1>8, <2>1, <3>1, <4>1
      <3>2. CASE ~(i <= n - one)
        <4>1. n - one \in Int /\ n - one >= 0
          BY <1>0, <1>1, <1>6
        <4>2. more = 1 /\ i - (n - one) = 1
          BY <1>0, <3>2, <4>1
        <4> QED
          BY <1>0, <1>8, <1>9, <2>1, <3>2, <4>1, <4>2
      <3> QED
        BY <3>1, <3>2
    <2> QED
      BY <1>8, <1>9, <2>1, <2>2
  <1>11. \A i \in 1..Buffer!Queued(g) :
           g.memory[SlotOf(g, i)] = IF i <= n - one THEN C[i + one] ELSE d
    <2> SUFFICES ASSUME NEW i \in 1..Buffer!Queued(g)
                 PROVE  g.memory[SlotOf(g, i)] = IF i <= n - one THEN C[i + one] ELSE d
      OBVIOUS
    <2>1. Buffer!Queued(g) \in 0..Depth
      BY <1>2, QueuedRange
    <2>2. i \in 1..(Depth + 1) /\ i + one \in 1..(Depth + 1)
      BY <1>0, <1>1, <1>3, <1>6, <1>7, <2>1, DepthPositive
    <2>3. SlotOf(g, i) = SlotOf(f, i + one)
      <3>1. SlotOf(g, i) =
              IF g.bottom + i - 1 < Depth THEN g.bottom + i - 1 ELSE g.bottom + i - 1 - Depth
        BY <1>2, <2>2, SlotClosed
      <3>2. SlotOf(f, i + one) =
              IF f.bottom + (i + one) - 1 < Depth THEN f.bottom + (i + one) - 1
              ELSE f.bottom + (i + one) - 1 - Depth
        BY <2>2, SlotClosed
      <3>3. i <= Depth
        BY <2>1, DepthPositive
      <3> QED
        <4>1. i \in 1..Depth /\ i + one <= Depth + 1
          BY <2>2, <3>3, DepthPositive
        <4>2. (IF g.bottom + i - 1 < Depth THEN g.bottom + i - 1 ELSE g.bottom + i - 1 - Depth) =
                IF f.bottom + (i + one) - 1 < Depth THEN f.bottom + (i + one) - 1
                ELSE f.bottom + (i + one) - 1 - Depth
          <5>1. \A c : c = (IF one = 1 THEN IF f.bottom = Depth - 1 THEN 0 ELSE f.bottom + 1
                             ELSE f.bottom) =>
                  (IF c + i - 1 < Depth THEN c + i - 1 ELSE c + i - 1 - Depth) =
                    IF f.bottom + (i + one) - 1 < Depth THEN f.bottom + (i + one) - 1
                    ELSE f.bottom + (i + one) - 1 - Depth
            BY <1>0, <1>4, <4>1, SlotsMove
          <5> QED
            BY <1>5, <5>1
        <4> QED
          BY <3>1, <3>2, <4>2
    <2>4. CASE i <= n - one
      <3>1. i + one \in 1..n
        BY <1>0, <1>1, <2>4
      <3>2. C[i + one] = f.memory[SlotOf(f, i + one)]
        BY <1>1, <3>1
      <3>3. push => SlotOf(f, i + one) # f.top
        <4>1. f.top = SlotOf(f, n + 1)
          BY TopIsNext DEF n
        <4>2. n + 1 \in 1..(Depth + 1)
          BY <1>1, DepthPositive
        <4>3. SlotOf(f, n + 1) =
                IF f.bottom + (n + 1) - 1 < Depth THEN f.bottom + (n + 1) - 1
                ELSE f.bottom + (n + 1) - 1 - Depth
          BY <4>2, SlotClosed
        <4>4. SlotOf(f, i + one) =
                IF f.bottom + (i + one) - 1 < Depth THEN f.bottom + (i + one) - 1
                ELSE f.bottom + (i + one) - 1 - Depth
          BY <2>2, SlotClosed
        <4> QED
          <5>1. push => i + one \in 1..Depth /\ n + 1 \in 1..Depth /\ i + one # n + 1
            BY <1>0, <1>1, <1>7, <3>1, DepthPositive
          <5> QED
            <6> SUFFICES ASSUME push PROVE SlotOf(f, i + one) # SlotOf(f, n + 1)
              BY <4>1
            <6>1. \A p, q \in 1..Depth : p # q =>
                    (IF f.bottom + p - 1 < Depth THEN f.bottom + p - 1
                     ELSE f.bottom + p - 1 - Depth)
                    # (IF f.bottom + q - 1 < Depth THEN f.bottom + q - 1
                       ELSE f.bottom + q - 1 - Depth)
              BY <1>4, SlotsDiffer
            <6> QED
              BY <4>3, <4>4, <5>1, <6>1
      <3>4. SlotOf(f, i + one) \in 0..(Depth - 1)
        <4>1. SlotOf(f, i + one) =
                IF f.bottom + (i + one) - 1 < Depth THEN f.bottom + (i + one) - 1
                ELSE f.bottom + (i + one) - 1 - Depth
          BY <2>2, SlotClosed
        <4>2. i + one \in 1..Depth
          BY <1>1, <3>1, DepthPositive
        <4> QED
          BY <1>4, <4>1, <4>2, DepthPositive
      <3> QED
        BY <1>4, <1>5, <2>3, <2>4, <3>2, <3>3, <3>4
    <2>5. CASE ~(i <= n - one)
      <3>1. push /\ i + one = n + 1
        BY <1>0, <1>1, <1>3, <1>6, <2>5
      <3>2. SlotOf(f, i + one) = f.top
        BY <3>1, TopIsNext DEF n
      <3> QED
        BY <1>4, <1>5, <2>3, <2>5, <3>1, <3>2
    <2> QED
      BY <2>4, <2>5
  <1>12. Buffer!Contents(g) = rest \o last
    <2> DEFINE s == Buffer!Contents(g)
               t == rest \o last
    <2>1. s \in Seq(Int) /\ t \in Seq(Int) /\ Len(s) = Len(t)
      BY <1>2, <1>3, <1>10
    <2>2. \A i \in 1..Len(s) : s[i] = t[i]
      BY <1>2, <1>3, <1>10, <1>11
    <2> HIDE DEF s, t
    <2>3. s = t
      BY <2>1, <2>2, SeqEqual
    <2> QED
      BY <2>3 DEF s, t
  <1> QED
    BY <1>6, <1>12 DEF g, C, rest, last


-----------------------------------------------------------------------------
(* What the edges of the clock do, case by case.                           *)

LEMMA FlagsKept ==
  ASSUME BusInv, RequestInv, UartClock
  PROVE  /\ ~send_buffer_push /\ ~Buffer!Full(send) => ~Buffer!Full(send')
         /\ ~send_buffer_pop /\ ~Buffer!Empty(send) => ~Buffer!Empty(send')
         /\ ~recv_buffer_push /\ ~Buffer!Full(recv) => ~Buffer!Full(recv')
         /\ ~recv_buffer_pop /\ ~Buffer!Empty(recv) => ~Buffer!Empty(recv')
         /\ ~recv_buffer_pop => recv'.data_out = recv.data_out
  <1>1. /\ send_buffer_push \in BOOLEAN /\ send_buffer_pop \in BOOLEAN
        /\ recv_buffer_push \in BOOLEAN /\ recv_buffer_pop \in BOOLEAN
    BY DEF BusInv, RequestInv
  <1>2. /\ send' = Buffer!FifoClock(send, send_buffer_push, send_buffer_pop, send_buffer_input)
        /\ recv' = Buffer!FifoClock(recv, recv_buffer_push, recv_buffer_pop, rx_byte)
    BY DEF UartClock
  <1>3. /\ ~send_buffer_push /\ ~Buffer!Full(send) => ~Buffer!Full(send')
        /\ ~send_buffer_pop /\ ~Buffer!Empty(send) => ~Buffer!Empty(send')
    BY <1>1, <1>2, ClockFlags
  <1>4. /\ ~recv_buffer_push /\ ~Buffer!Full(recv) => ~Buffer!Full(recv')
        /\ ~recv_buffer_pop /\ ~Buffer!Empty(recv) => ~Buffer!Empty(recv')
        /\ ~recv_buffer_pop => recv'.data_out = recv.data_out
    BY <1>1, <1>2, ClockFlags
  <1> QED
    BY <1>3, <1>4

(* The bits of the status that the software tests.                         *)
LEMMA StatusBits ==
  /\ BitOf(Status, 0) <=> Buffer!Empty(recv)
  /\ BitOf(Status, 3) <=> Buffer!Full(send)
  <1>1. \A a, b, c, d \in BOOLEAN :
          LET s == Flag(a, 1) + Flag(b, 2) + Flag(c, 4) + Flag(d, 8)
          IN  (BitOf(s, 0) <=> a) /\ (BitOf(s, 3) <=> d)
    BY DEF Flag, BitOf
  <1>2. /\ Buffer!Empty(recv) \in BOOLEAN /\ Buffer!Empty(send) \in BOOLEAN
        /\ Buffer!Full(recv) \in BOOLEAN /\ Buffer!Full(send) \in BOOLEAN
    BY DEF Buffer!Empty, Buffer!Full
  <1> QED
    BY <1>1, <1>2 DEF Status

(* No transfer: the interface comes to rest, and the software may begin.   *)
LEMMA BusAtRest ==
  ASSUME BusInv, Next, ~bus.stb
  PROVE  /\ wb_state' = "IDLE" /\ wb_ack' = FALSE
         /\ send_buffer_push' = FALSE /\ recv_buffer_pop' = FALSE
         /\ recv_buffer_pop = FALSE /\ irq_tx_ready_enable' = irq_tx_ready_enable
         /\ read' = read
         /\ \/ bus' = bus /\ UNCHANGED << may_send, may_read >>
            \/ (\E d : bus' = Write("divisor", d)) /\ UNCHANGED << may_send, may_read >>
            \/ bus' = Write("interrupt", 1) /\ UNCHANGED << may_send, may_read >>
            \/ /\ may_send /\ may_send' = FALSE /\ UNCHANGED may_read
               /\ \E b : bus' = Write("transmit", b)
            \/ (may_read \/ irq) /\ bus' = Read("receive") /\ UNCHANGED << may_send, may_read >>
            \/ bus' = Read("status") /\ UNCHANGED << may_send, may_read >>
  <1>1. /\ wb_state' = "IDLE" /\ wb_ack' = FALSE
        /\ send_buffer_push' = FALSE /\ recv_buffer_pop' = FALSE
        /\ recv_buffer_pop = FALSE /\ irq_tx_ready_enable' = irq_tx_ready_enable
    <2>1. wishbone
      BY DEF Next, UartClock
    <2>2. ~recv_buffer_pop
      BY DEF BusInv, Receiving
    <2>3. CASE WbWrite \/ WbRead
      BY <2>3 DEF WbWrite, WbRead
    <2>4. CASE WbIdle
      BY <2>2, <2>4 DEF WbIdle, BusInv
    <2>5. CASE WbWriteAck
      BY <2>2, <2>5 DEF WbWriteAck, WbLeave, PushAfterWrite, BusInv
    <2>6. CASE WbReadAck
      BY <2>2, <2>6 DEF WbReadAck, WbLeave, BusInv
    <2> QED
      BY <2>1, <2>3, <2>4, <2>5, <2>6 DEF wishbone
  <1>2. Software
    BY DEF Next
  <1>3. CASE Finish
    BY <1>3 DEF Finish
  <1>4. CASE Wait
    BY <1>1, <1>4 DEF Wait, softwareVars
  <1>5. CASE uart_set_divisor
    BY <1>1, <1>5 DEF uart_set_divisor
  <1>6. CASE uart_enable_interrupt
    BY <1>1, <1>6 DEF uart_enable_interrupt
  <1>7. CASE uart_tx
    BY <1>1, <1>7 DEF uart_tx
  <1>8. CASE uart_rx
    BY <1>1, <1>8 DEF uart_rx
  <1>9. CASE uart_status
    BY <1>1, <1>9 DEF uart_status, softwareVars
  <1> QED
    BY <1>2, <1>3, <1>4, <1>5, <1>6, <1>7, <1>8, <1>9 DEF Software

(* A transfer that is not answered yet goes on.                            *)
LEMMA Unanswered ==
  ASSUME BusInv, Next, bus.stb, ~wb_ack
  PROVE  UNCHANGED << bus, may_send, may_read, read >>
  <1>1. Software /\ ~wb_ack_out
    BY DEF Next, wb_ack_out
  <1> QED
    BY <1>1 DEF Software, Finish, Wait, softwareVars

LEMMA TakenWrite ==
  ASSUME BusInv, Next, bus.stb, bus.we, wb_state = "IDLE"
  PROVE  /\ UNCHANGED << bus, may_send, may_read, read >>
         /\ wb_state' = "WRITE_ACK" /\ wb_ack' = TRUE
         /\ send_buffer_push' = (bus.adr = "transmit")
         /\ recv_buffer_pop' = FALSE /\ recv_buffer_pop = FALSE
         /\ irq_tx_ready_enable' = FALSE
  <1>1. WbWrite
    BY DEF Next, UartClock, wishbone, WbRead, WbIdle, WbWriteAck, WbReadAck
  <1>2. ~wb_ack /\ ~send_buffer_push /\ ~recv_buffer_pop /\ ~irq_tx_ready_enable
    BY DEF BusInv
  <1>3. BitOf(1, 1) = FALSE
    BY DEF BitOf
  <1>4. bus.adr = "interrupt" => bus.dat = 1
    BY DEF BusInv
  <1>5. UNCHANGED << bus, may_send, may_read, read >>
    BY <1>2, Unanswered
  <1>6. send_buffer_push \in BOOLEAN /\ recv_buffer_pop \in BOOLEAN
    BY DEF BusInv
  <1>7. irq_tx_ready_enable' = FALSE
    <2>1. CASE bus.adr = "interrupt"
      BY <1>1, <1>3, <1>4, <2>1 DEF WbWrite
    <2>2. CASE bus.adr # "interrupt"
      BY <1>1, <2>2 DEF WbWrite, BusInv
    <2> QED
      BY <2>1, <2>2
  <1> QED
    BY <1>1, <1>2, <1>5, <1>6, <1>7 DEF WbWrite

LEMMA TakenRead ==
  ASSUME BusInv, Next, bus.stb, ~bus.we, wb_state = "IDLE"
  PROVE  /\ UNCHANGED << bus, may_send, may_read, read, irq_tx_ready_enable >>
         /\ wb_state' = "READ_ACK" /\ wb_ack' = (bus.adr # "receive")
         /\ send_buffer_push' = FALSE /\ send_buffer_push = FALSE
         /\ recv_buffer_pop' = (bus.adr = "receive") /\ recv_buffer_pop = FALSE
         /\ bus.adr = "status" => wb_dat_out' = Status
  <1>1. WbRead
    BY DEF Next, UartClock, wishbone, WbWrite, WbIdle, WbWriteAck, WbReadAck
  <1>2. /\ ~wb_ack /\ ~send_buffer_push /\ ~recv_buffer_pop
        /\ wb_ack \in BOOLEAN /\ send_buffer_push \in BOOLEAN /\ recv_buffer_pop \in BOOLEAN
    BY DEF BusInv
  <1>3. UNCHANGED << bus, may_send, may_read, read >>
    BY <1>2, Unanswered
  <1>4. bus.adr = "status" => wb_dat_out' = Status
    BY <1>1 DEF WbRead
  <1> QED
    BY <1>1, <1>2, <1>3, <1>4 DEF WbRead

(* The receive queue is asked, and then its output is taken.               *)
LEMMA Delivering ==
  ASSUME BusInv, Next, bus.stb, wb_state # "IDLE", ~wb_ack
  PROVE  /\ wb_state = "READ_ACK" /\ Receiving
         /\ UNCHANGED << bus, may_send, may_read, read, irq_tx_ready_enable, wb_state >>
         /\ wb_ack' = ~recv_buffer_pop /\ recv_buffer_pop' = FALSE
         /\ send_buffer_push' = FALSE
         /\ ~recv_buffer_pop => wb_dat_out' = recv.data_out
  <1>1. wb_state = "READ_ACK" /\ Receiving
    BY DEF BusInv
  <1>2. WbReadAck
    BY <1>1 DEF Next, UartClock, wishbone, WbWrite, WbIdle, WbWriteAck, WbRead
  <1>3. /\ wb_ack = FALSE /\ recv_buffer_pop \in BOOLEAN /\ send_buffer_push = FALSE
    BY <1>1 DEF BusInv
  <1>4. UNCHANGED << bus, may_send, may_read, read >>
    BY Unanswered
  <1> QED
    BY <1>1, <1>2, <1>3, <1>4 DEF WbReadAck, WbLeave, ReadDelivered

(* The edge that sees the acknowledge.                                     *)
LEMMA Answered ==
  ASSUME BusInv, Next, bus.stb, wb_ack
  PROVE  /\ bus' = Idle /\ wb_state' = wb_state /\ wb_state # "IDLE"
         /\ send_buffer_push' = FALSE /\ recv_buffer_pop' = FALSE /\ recv_buffer_pop = FALSE
         /\ UNCHANGED irq_tx_ready_enable
         /\ wb_state = "READ_ACK" <=> ~bus.we
         /\ Asking => /\ may_read' = ~BitOf(wb_dat_out, 0)
                      /\ may_send' = ~BitOf(wb_dat_out, 3)
         /\ Receiving => may_read' = FALSE /\ UNCHANGED may_send
         /\ ~Asking /\ ~Receiving => UNCHANGED << may_read, may_send >>
         /\ read' = IF Receiving THEN Append(read, wb_dat_out) ELSE read
  <1>1. wb_state \in { "WRITE_ACK", "READ_ACK" } /\ recv_buffer_pop = FALSE
    BY DEF BusInv
  <1>2. wb_state = "READ_ACK" <=> ~bus.we
    BY <1>1 DEF BusInv
  <1>3. /\ wb_state' = wb_state /\ send_buffer_push' = FALSE /\ recv_buffer_pop' = FALSE
        /\ UNCHANGED irq_tx_ready_enable
    <2>1. WbWriteAck \/ WbReadAck
      BY <1>1 DEF Next, UartClock, wishbone, WbWrite, WbIdle, WbRead
    <2>2. CASE WbWriteAck
      BY <1>1, <2>2 DEF WbWriteAck, WbLeave, PushAfterWrite
    <2>3. CASE WbReadAck
      BY <1>1, <2>3 DEF WbReadAck, WbLeave, BusInv
    <2> QED
      BY <2>1, <2>2, <2>3
  <1>4. Finish
    BY DEF Next, Software, Wait, wb_ack_out
  <1>5. /\ bus' = Idle
        /\ Asking => /\ may_read' = ~BitOf(wb_dat_out, 0)
                     /\ may_send' = ~BitOf(wb_dat_out, 3)
                     /\ UNCHANGED read
        /\ Receiving => may_read' = FALSE /\ UNCHANGED may_send
                        /\ read' = Append(read, wb_dat_out)
        /\ ~Asking /\ ~Receiving => UNCHANGED << may_read, may_send, read >>
    BY <1>4 DEF Finish, Asking, Receiving
  <1> QED
    BY <1>1, <1>2, <1>3, <1>5 DEF Asking, Receiving

-----------------------------------------------------------------------------
(* Each part of the invariant is preserved.                                *)

LEMMA BitValue == ASSUME NEW n \in Nat PROVE 2^n \in Int
  OBVIOUS

LEMMA RecvStep ==
  ASSUME RecvInv, BusInv, RequestInv, Next
  PROVE  RecvInv'
  <1>1. recv \in Queues /\ rx_byte \in Int /\ rx_current_bit \in Nat
    BY DEF RecvInv, Queues, Depth
  <1>2. recv_buffer_push \in BOOLEAN /\ recv_buffer_pop \in BOOLEAN
    BY DEF BusInv, RequestInv
  <1>3. recv' = Buffer!FifoClock(recv, recv_buffer_push, recv_buffer_pop, rx_byte)
    BY DEF Next, UartClock
  <1>4. recv' \in Queues
    BY <1>1, <1>2, <1>3, ClockTyped
  <1>5. rx_byte' \in Int /\ rx_current_bit' \in Nat
    <2>1. uart_receive
      BY DEF Next, UartClock
    <2>2. CASE RxStart
      BY <1>1, <2>2 DEF RxStart
    <2>3. CASE RxStartBit
      BY <1>1, <2>3 DEF RxStartBit
    <2>4. CASE RxReceive
      <3>1. 2^rx_current_bit \in Int
        BY <1>1, BitValue
      <3>2. WithBit(rx_byte, rx_current_bit, rxd) \in Int
        BY <1>1, <3>1 DEF WithBit
      <3> QED
        BY <1>1, <2>4, <3>2 DEF RxReceive
    <2>5. CASE RxStopBit
      BY <1>1, <2>5 DEF RxStopBit
    <2> QED
      BY <2>1, <2>2, <2>3, <2>4, <2>5 DEF uart_receive
  <1> QED
    BY <1>4, <1>5 DEF RecvInv, Queues, Depth

(* The fields of what the software drives.                                 *)
LEMMA Fields ==
  /\ \A a : Read(a).stb = TRUE /\ Read(a).we = FALSE /\ Read(a).adr = a
  /\ Idle.stb = FALSE /\ Idle.we = FALSE
  BY DEF Read, Idle

(* What the software may begin, and what it must know to do so.            *)
LEMMA Begun ==
  ASSUME BusInv, PollingInv, Next, ~bus.stb
  PROVE  /\ bus'.stb \in BOOLEAN /\ bus'.we \in BOOLEAN
         /\ bus'.stb /\ bus'.we /\ bus'.adr = "interrupt" => bus'.dat = 1
         /\ may_send' \in BOOLEAN /\ may_read' \in BOOLEAN
         /\ may_send' => may_send /\ ~Sending'
         /\ may_read' => may_read
         /\ Sending' => may_send
         /\ Receiving' => may_read \/ irq
  <1>1. may_send \in BOOLEAN /\ may_read \in BOOLEAN
    BY DEF PollingInv
  <1>2. CASE bus' = bus /\ UNCHANGED << may_send, may_read >>
    BY <1>1, <1>2 DEF BusInv, Sending, Receiving
  <1>3. CASE (\E d : bus' = Write("divisor", d)) /\ UNCHANGED << may_send, may_read >>
    <2>1. PICK d : bus' = Write("divisor", d)
      BY <1>3
    <2>2. bus'.stb = TRUE /\ bus'.we = TRUE /\ bus'.adr = "divisor"
      BY <2>1 DEF Write
    <2> QED
      BY <1>1, <1>3, <2>2 DEF Sending, Receiving
  <1>4. CASE bus' = Write("interrupt", 1) /\ UNCHANGED << may_send, may_read >>
    <2>1. bus'.stb = TRUE /\ bus'.we = TRUE /\ bus'.adr = "interrupt" /\ bus'.dat = 1
      BY <1>4 DEF Write
    <2> QED
      BY <1>1, <1>4, <2>1 DEF Sending, Receiving
  <1>5. CASE /\ may_send /\ may_send' = FALSE /\ UNCHANGED may_read
             /\ \E b : bus' = Write("transmit", b)
    <2>1. PICK b : bus' = Write("transmit", b)
      BY <1>5
    <2>2. bus'.stb = TRUE /\ bus'.we = TRUE /\ bus'.adr = "transmit"
      BY <2>1 DEF Write
    <2> QED
      BY <1>1, <1>5, <2>2 DEF Sending, Receiving
  <1>6. CASE (may_read \/ irq) /\ bus' = Read("receive") /\ UNCHANGED << may_send, may_read >>
    BY <1>1, <1>6, Fields DEF Sending, Receiving
  <1>7. CASE bus' = Read("status") /\ UNCHANGED << may_send, may_read >>
    BY <1>1, <1>7, Fields DEF Sending, Receiving
  <1> QED
    BY <1>2, <1>3, <1>4, <1>5, <1>6, <1>7, BusAtRest

LEMMA BusStep ==
  ASSUME BusInv, PollingInv, RequestInv, Next
  PROVE  BusInv'
  <1>1. UartClock
    BY DEF Next
  <1>2. CASE ~bus.stb
    <2>1. /\ wb_state' = "IDLE" /\ wb_ack' = FALSE
          /\ send_buffer_push' = FALSE /\ recv_buffer_pop' = FALSE
          /\ irq_tx_ready_enable' = irq_tx_ready_enable
      BY <1>2, BusAtRest
    <2>2. /\ bus'.stb \in BOOLEAN /\ bus'.we \in BOOLEAN
          /\ bus'.stb /\ bus'.we /\ bus'.adr = "interrupt" => bus'.dat = 1
      BY <1>2, Begun
    <2> QED
      BY <2>1, <2>2 DEF BusInv
  <1>3. CASE bus.stb /\ wb_state = "IDLE" /\ bus.we
    BY <1>3, TakenWrite DEF BusInv, Receiving
  <1>4. CASE bus.stb /\ wb_state = "IDLE" /\ ~bus.we
    <2>1. /\ bus' = bus /\ irq_tx_ready_enable' = irq_tx_ready_enable
          /\ wb_state' = "READ_ACK" /\ wb_ack' = (bus.adr # "receive")
          /\ send_buffer_push' = FALSE /\ recv_buffer_pop' = (bus.adr = "receive")
      BY <1>4, TakenRead
    <2>2. (bus.adr # "receive") \in BOOLEAN /\ (bus.adr = "receive") \in BOOLEAN
      OBVIOUS
    <2> QED
      BY <1>4, <2>1, <2>2 DEF BusInv, Receiving
  <1>5. CASE bus.stb /\ wb_state # "IDLE" /\ ~wb_ack
    <2>1. /\ wb_state = "READ_ACK" /\ Receiving
          /\ bus' = bus /\ irq_tx_ready_enable' = irq_tx_ready_enable /\ wb_state' = wb_state
          /\ wb_ack' = ~recv_buffer_pop /\ recv_buffer_pop' = FALSE
          /\ send_buffer_push' = FALSE
          /\ ~recv_buffer_pop => wb_dat_out' = recv.data_out
      BY <1>5, Delivering
    <2>2. ~recv_buffer_pop => recv'.data_out = recv.data_out
      BY <1>1, FlagsKept
    <2>3. wb_ack' \in BOOLEAN /\ (wb_ack' <=> ~recv_buffer_pop)
      BY <2>1
    <2>4. wb_ack' => wb_dat_out' = recv'.data_out
      BY <2>1, <2>2, <2>3
    <2> QED
      BY <1>5, <2>1, <2>3, <2>4 DEF BusInv, Receiving
  <1>6. CASE bus.stb /\ wb_ack
    <2>1. /\ bus' = Idle /\ wb_state' = wb_state /\ wb_state # "IDLE"
          /\ send_buffer_push' = FALSE /\ recv_buffer_pop' = FALSE
          /\ irq_tx_ready_enable' = irq_tx_ready_enable
      BY <1>6, Answered
    <2>2. bus'.stb = FALSE /\ bus'.we = FALSE
      BY <2>1 DEF Idle
    <2>3. wb_ack' \in BOOLEAN
      BY DEF Next, UartClock, wishbone, WbWrite, WbRead, WbIdle, WbWriteAck, WbReadAck, BusInv
    <2> QED
      BY <1>6, <2>1, <2>2, <2>3 DEF BusInv, Receiving
  <1> QED
    BY <1>2, <1>3, <1>4, <1>5, <1>6 DEF BusInv

LEMMA PollingStep ==
  ASSUME BusInv, PollingInv, RequestInv, Next
  PROVE  PollingInv'
  <1>1. UartClock
    BY DEF Next
  <1>2. CASE ~bus.stb
    <2>1. irq => ~Buffer!Empty(recv)
      BY DEF irq, BusInv
    <2>2. may_send => ~Buffer!Full(send')
      BY <1>1, FlagsKept DEF PollingInv
    <2>3. may_read \/ irq => ~Buffer!Empty(recv')
      BY <1>1, <1>2, <2>1, BusAtRest, FlagsKept DEF PollingInv, Receiving
    <2>5. wb_state' = "IDLE" /\ send_buffer_push' = FALSE
      BY <1>2, BusAtRest
    <2>6. /\ may_send' \in BOOLEAN /\ may_read' \in BOOLEAN
          /\ may_send' => may_send /\ ~Sending'
          /\ may_read' => may_read
          /\ Sending' => may_send
          /\ Receiving' => may_read \/ irq
      BY <1>2, Begun
    <2> QED
      BY <2>2, <2>3, <2>5, <2>6 DEF PollingInv
  <1>3. CASE bus.stb /\ wb_state = "IDLE" /\ bus.we
    BY <1>1, <1>3, TakenWrite, FlagsKept DEF PollingInv, Sending, Receiving, Asking
  <1>4. CASE bus.stb /\ wb_state = "IDLE" /\ ~bus.we
    BY <1>1, <1>4, TakenRead, StatusBits, FlagsKept DEF PollingInv, Sending, Receiving, Asking
  <1>5. CASE bus.stb /\ wb_state # "IDLE" /\ ~wb_ack
    BY <1>1, <1>5, Delivering, FlagsKept DEF PollingInv, Sending, Receiving, Asking
  <1>6. CASE bus.stb /\ wb_ack
    <2>1. /\ bus' = Idle /\ send_buffer_push' = FALSE /\ recv_buffer_pop = FALSE
          /\ wb_state = "READ_ACK" <=> ~bus.we
          /\ Asking => may_read' = ~BitOf(wb_dat_out, 0) /\ may_send' = ~BitOf(wb_dat_out, 3)
          /\ Receiving => may_read' = FALSE /\ may_send' = may_send
          /\ ~Asking /\ ~Receiving => may_read' = may_read /\ may_send' = may_send
      BY <1>6, Answered
    <2>2. ~Sending' /\ ~Receiving' /\ ~Asking'
      BY <2>1, Fields DEF Sending, Receiving, Asking
    <2>3. /\ BitOf(wb_dat_out, 0) \in BOOLEAN /\ BitOf(wb_dat_out, 3) \in BOOLEAN
          /\ may_send \in BOOLEAN /\ may_read \in BOOLEAN
      BY DEF PollingInv, BitOf
    <2>4. may_send' \in BOOLEAN /\ may_read' \in BOOLEAN
      BY <2>1, <2>3
    <2>5. may_send' => ~Buffer!Full(send) /\ ~send_buffer_push
      <3>1. CASE Asking
        <4>1. wb_state = "READ_ACK" /\ ~send_buffer_push
          BY <2>1, <3>1 DEF Asking, BusInv
        <4> QED
          BY <2>1, <2>3, <3>1, <4>1 DEF PollingInv
      <3>2. CASE ~Asking
        BY <2>1, <3>2 DEF PollingInv, Asking, Receiving
      <3> QED
        BY <3>1, <3>2
    <2>6. may_read' => ~Buffer!Empty(recv)
      <3>1. CASE Asking
        <4>1. wb_state = "READ_ACK"
          BY <2>1, <3>1 DEF Asking
        <4> QED
          BY <2>1, <2>3, <3>1, <4>1 DEF PollingInv
      <3>2. CASE ~Asking
        BY <2>1, <3>2 DEF PollingInv
      <3> QED
        BY <3>1, <3>2
    <2> QED
      BY <1>1, <2>1, <2>2, <2>4, <2>5, <2>6, FlagsKept DEF PollingInv
  <1> QED
    BY <1>2, <1>3, <1>4, <1>5, <1>6 DEF BusInv

LEMMA RequestStep ==
  ASSUME BusInv, PollingInv, RequestInv, Next
  PROVE  RequestInv'
  <1>1. UartClock
    BY DEF Next
  <1>2. send_buffer_pop' \in BOOLEAN /\ (send_buffer_pop' => tx_state' = "TRANSMIT")
    <2>1. uart_transmit /\ send_buffer_pop \in BOOLEAN /\ (send_buffer_pop => tx_state = "TRANSMIT")
      BY <1>1 DEF UartClock, RequestInv
    <2>2. CASE TxStart
      BY <2>1, <2>2 DEF TxStart
    <2>3. CASE TxTransmit
      BY <2>1, <2>3 DEF TxTransmit
    <2>4. CASE TxStopBit
      BY <2>1, <2>4 DEF TxStopBit
    <2> QED
      BY <2>1, <2>2, <2>3, <2>4 DEF uart_transmit
  <1>3. recv_buffer_push' \in BOOLEAN /\ (recv_buffer_push' => rx_state' = "IDLE")
    BY <1>1 DEF UartClock, uart_receive, RxStart, RxStartBit, RxReceive, RxStopBit, RxKeeps,
                RequestInv
  <1>4. send_buffer_push' => ~Buffer!Full(send')
    <2>1. send_buffer_push' => wb_state = "IDLE" /\ Sending
      BY BusAtRest, TakenWrite, TakenRead, Delivering, Answered DEF BusInv, Sending
    <2> QED
      BY <1>1, <2>1, FlagsKept DEF PollingInv
  <1>5. send_buffer_pop' => ~Buffer!Empty(send')
    <2>1. send_buffer_pop' => ~Buffer!Empty(send) /\ ~send_buffer_pop
      BY <1>1 DEF UartClock, uart_transmit, TxStart, TxTransmit, TxStopBit, RequestInv
    <2> QED
      BY <1>1, <2>1, FlagsKept
  <1>6. recv_buffer_push' => ~Buffer!Full(recv')
    <2>1. recv_buffer_push' => ~Buffer!Full(recv) /\ ~recv_buffer_push
      BY <1>1 DEF UartClock, uart_receive, RxStart, RxStartBit, RxReceive, RxStopBit, RxKeeps,
                  RequestInv
    <2> QED
      BY <1>1, <2>1, FlagsKept
  <1>7. recv_buffer_pop' => ~Buffer!Empty(recv')
    <2>1. recv_buffer_pop' => wb_state = "IDLE" /\ Receiving /\ ~recv_buffer_pop
      BY BusAtRest, TakenWrite, TakenRead, Delivering, Answered DEF BusInv, Receiving
    <2> QED
      BY <1>1, <2>1, FlagsKept DEF PollingInv
  <1> QED
    BY <1>2, <1>3, <1>4, <1>5, <1>6, <1>7 DEF RequestInv, QueuesRespected

-----------------------------------------------------------------------------
(* The characters kept are those read, handed over, queued and pushed.     *)

LEMMA Taken ==
  ASSUME NEW q \in Seq(Int), q # << >>
  PROVE  q = << Head(q) >> \o Tail(q)
  <1>1. /\ << Head(q) >> \in Seq(Int) /\ Len(<< Head(q) >>) = 1 /\ << Head(q) >>[1] = q[1]
        /\ Tail(q) \in Seq(Int) /\ Len(Tail(q)) = Len(q) - 1 /\ Len(q) \in Nat
        /\ \A i \in 1..Len(Tail(q)) : Tail(q)[i] = q[i + 1]
    BY HeadTailProperties
  <1> DEFINE h == << Head(q) >>
             r == Tail(q)
             t == h \o r
  <1>2. /\ h \in Seq(Int) /\ Len(h) = 1 /\ h[1] = q[1]
        /\ r \in Seq(Int) /\ Len(r) = Len(q) - 1 /\ Len(q) \in Nat
        /\ \A i \in 1..(Len(q) - 1) : r[i] = q[i + 1]
    BY <1>1
  <1> HIDE DEF h, r
  <1>3. /\ t \in Seq(Int) /\ Len(t) = Len(q)
        /\ \A i \in 1..Len(q) : t[i] = IF i <= 1 THEN h[i] ELSE r[i - 1]
    <2>1. /\ h \o r \in Seq(Int) /\ Len(h \o r) = Len(h) + Len(r)
          /\ \A i \in 1..(Len(h) + Len(r)) :
               (h \o r)[i] = IF i <= Len(h) THEN h[i] ELSE r[i - Len(h)]
      <3>1. h \in Seq(Int) /\ r \in Seq(Int)
        BY <1>2
      <3> QED
        BY <3>1, ConcatProperties
    <2>2. Len(h) + Len(r) = Len(q)
      BY <1>2
    <2> QED
      BY <1>2, <2>1, <2>2
  <1> HIDE DEF t
  <1>4. \A i \in 1..Len(q) : t[i] = q[i]
    <2> TAKE i \in 1..Len(q)
    <2>1. CASE i = 1
      BY <1>2, <1>3, <2>1
    <2>2. CASE i # 1
      <3>1. i - 1 \in 1..(Len(q) - 1) /\ (i - 1) + 1 = i /\ ~(i <= 1)
        BY <1>2, <2>2
      <3>2. r[i - 1] = q[(i - 1) + 1]
        BY <1>2, <3>1
      <3> QED
        BY <1>3, <3>1, <3>2
    <2> QED
      BY <2>1, <2>2
  <1>5. q = t
    <2>1. /\ q \in Seq(Int) /\ t \in Seq(Int) /\ Len(q) = Len(t)
          /\ \A i \in 1..Len(q) : q[i] = t[i]
      BY <1>3, <1>4
    <2> QED
      BY <2>1, SeqEqual
  <1> QED
    BY <1>5 DEF t, h, r

LEMMA Regroup ==
  ASSUME NEW s \in Seq(Int), NEW t \in Seq(Int), NEW u \in Seq(Int)
  PROVE  (s \o t) \o u = s \o (t \o u)
  BY ConcatAssociative

LEMMA Shift ==
  ASSUME NEW front \in Seq(Int), NEW q \in Seq(Int), NEW p \in Seq(Int), q # << >>
  PROVE  (front \o q) \o p = (front \o << Head(q) >>) \o (Tail(q) \o p)
  <1> DEFINE h == << Head(q) >>
             t == Tail(q)
  <1>1. h \in Seq(Int) /\ t \in Seq(Int)
    BY HeadTailProperties
  <1>2. q = h \o t
    BY Taken
  <1> HIDE DEF h, t
  <1>3. (front \o h) \o t = front \o (h \o t)
    BY <1>1, Regroup
  <1>4. front \o h \in Seq(Int)
    BY <1>1, ConcatProperties
  <1>5. ((front \o h) \o t) \o p = (front \o h) \o (t \o p)
    BY <1>1, <1>4, Regroup
  <1>6. (front \o q) \o p = (front \o h) \o (t \o p)
    BY <1>2, <1>3, <1>5
  <1> QED
    BY <1>6 DEF h, t

LEMMA FrontStep ==
  ASSUME RecvInv, BusInv, RequestInv, HistoryInv, Next
  PROVE  /\ read' \in Seq(Int)
         /\ read' \o Handing' =
              IF recv_buffer_pop THEN (read \o Handing) \o << recv.memory[recv.bottom] >>
              ELSE read \o Handing
  <1>1. UartClock /\ read \in Seq(Int) /\ recv.data_out \in Int
    BY DEF Next, HistoryInv, RecvInv
  <1>2. recv_buffer_pop \in BOOLEAN /\ recv_buffer_push \in BOOLEAN
    BY DEF BusInv, RequestInv
  <1>3. CASE ~bus.stb
    <2>1. recv_buffer_pop = FALSE /\ wb_state' = "IDLE" /\ read' = read
      BY <1>3, BusAtRest
    <2>2. Handing = << >> /\ Handing' = << >>
      BY <1>3, <2>1 DEF Handing
    <2> QED
      BY <1>1, <2>1, <2>2
  <1>4. CASE bus.stb /\ wb_state = "IDLE" /\ bus.we
    <2>1. recv_buffer_pop = FALSE /\ wb_state' = "WRITE_ACK" /\ read' = read
      BY <1>4, TakenWrite
    <2>2. Handing = << >> /\ Handing' = << >>
      BY <1>4, <2>1 DEF Handing
    <2> QED
      BY <1>1, <2>1, <2>2
  <1>5. CASE bus.stb /\ wb_state = "IDLE" /\ ~bus.we
    <2>1. /\ recv_buffer_pop = FALSE /\ bus' = bus /\ read' = read
          /\ recv_buffer_pop' = (bus.adr = "receive")
      BY <1>5, TakenRead
    <2>2. Handing = << >> /\ Handing' = << >>
      BY <1>5, <2>1 DEF Handing
    <2> QED
      BY <1>1, <2>1, <2>2
  <1>6. CASE bus.stb /\ wb_state # "IDLE" /\ ~wb_ack
    <2>1. /\ wb_state = "READ_ACK" /\ bus.adr = "receive"
          /\ bus' = bus /\ wb_state' = wb_state /\ recv_buffer_pop' = FALSE /\ read' = read
      BY <1>6, Delivering DEF Receiving
    <2>2. Handing' = << recv'.data_out >>
      BY <1>6, <2>1 DEF Handing
    <2>3. CASE recv_buffer_pop
      <3>1. Handing = << >>
        BY <2>3 DEF Handing
      <3>2. recv'.data_out = recv.memory[recv.bottom]
        BY <1>1, <2>3 DEF UartClock, Buffer!FifoClock
      <3>3. read \o << >> = read
        BY <1>1, ConcatEmptySeq
      <3> QED
        BY <1>1, <2>1, <2>2, <2>3, <3>1, <3>2, <3>3
    <2>4. CASE ~recv_buffer_pop
      <3>1. Handing = << recv.data_out >>
        BY <1>6, <2>1, <2>4 DEF Handing
      <3>2. recv'.data_out = recv.data_out
        BY <1>1, <2>4, FlagsKept
      <3> QED
        BY <1>1, <2>1, <2>2, <2>4, <3>1, <3>2
    <2> QED
      BY <2>3, <2>4
  <1>7. CASE bus.stb /\ wb_ack
    <2>1. /\ recv_buffer_pop = FALSE /\ bus' = Idle
          /\ (wb_state = "READ_ACK") <=> ~bus.we
          /\ read' = IF Receiving THEN Append(read, wb_dat_out) ELSE read
      BY <1>7, Answered
    <2>2. Handing' = << >>
      BY <2>1, Fields DEF Handing
    <2>3. CASE Receiving
      <3>1. Handing = << recv.data_out >> /\ wb_dat_out = recv.data_out
        BY <1>7, <2>1, <2>3 DEF Handing, Receiving, BusInv
      <3>2. /\ read' = read \o << recv.data_out >> /\ read' \in Seq(Int)
        BY <1>1, <2>1, <2>3, <3>1, AppendIsConcat, AppendProperties
      <3>3. read' \o << >> = read'
        BY <3>2, ConcatEmptySeq
      <3> QED
        BY <2>1, <2>2, <3>1, <3>2, <3>3
    <2>4. CASE ~Receiving
      <3>1. Handing = << >>
        BY <1>7, <2>1, <2>4 DEF Handing, Receiving
      <3> QED
        BY <1>1, <2>1, <2>2, <2>4, <3>1
    <2> QED
      BY <2>3, <2>4
  <1> QED
    BY <1>3, <1>4, <1>5, <1>6, <1>7

LEMMA KeptStep ==
  ASSUME RecvInv, RequestInv, HistoryInv, Next
  PROVE  /\ kept' \in Seq(Int) /\ Pushing' \in Seq(Int)
         /\ kept' = kept \o Pushing'
  <1>1. kept \in Seq(Int) /\ rx_byte \in Int
    BY DEF HistoryInv, RecvInv
  <1>2. uart_receive /\ RecordArrival
    BY DEF Next, UartClock
  <1>3. kept \o << >> = kept
    BY <1>1, ConcatEmptySeq
  <1>4. recv_buffer_push \in BOOLEAN /\ (recv_buffer_push => rx_state = "IDLE")
    BY DEF RequestInv
  <1>5. CASE RxStart \/ RxStartBit \/ RxReceive
    <2>1. recv_buffer_push' = FALSE /\ rx_state # "STOPBIT"
      BY <1>4, <1>5 DEF RxStart, RxStartBit, RxReceive
    <2>2. Pushing' = << >> /\ kept' = kept
      BY <1>2, <2>1 DEF Pushing, RecordArrival
    <2> QED
      BY <1>1, <1>3, <2>2
  <1>6. CASE RxStopBit
    <2>1. rx_state = "STOPBIT" /\ rx_byte' = rx_byte /\ recv_buffer_push = FALSE
      BY <1>4, <1>6 DEF RxStopBit
    <2>2. recv_buffer_push' => rx_state' = "IDLE"
      BY <1>6, <2>1 DEF RxStopBit
    <2>3. CASE recv_buffer_push'
      <3>1. Pushing' = << rx_byte >> /\ kept' = Append(kept, rx_byte)
        BY <1>2, <2>1, <2>2, <2>3 DEF Pushing, RecordArrival
      <3> QED
        BY <1>1, <3>1, AppendIsConcat, AppendProperties
    <2>4. CASE ~recv_buffer_push'
      <3>1. Pushing' = << >> /\ kept' = kept
        BY <1>2, <2>4 DEF Pushing, RecordArrival
      <3> QED
        BY <1>1, <1>3, <3>1
    <2> QED
      BY <2>3, <2>4
  <1> QED
    BY <1>2, <1>5, <1>6 DEF uart_receive

LEMMA HistoryStep ==
  ASSUME RecvInv, BusInv, RequestInv, HistoryInv, Next
  PROVE  HistoryInv'
  <1> DEFINE q == Buffer!Contents(recv)
             front == read \o Handing
             pop == recv_buffer_pop
  <1>1. /\ recv \in Queues /\ rx_byte \in Int /\ recv.data_out \in Int
        /\ recv_buffer_push \in BOOLEAN /\ pop \in BOOLEAN
        /\ recv_buffer_push => ~Buffer!Full(recv)
        /\ pop => ~Buffer!Empty(recv)
        /\ recv' = Buffer!FifoClock(recv, recv_buffer_push, pop, rx_byte)
    BY DEF RecvInv, BusInv, RequestInv, QueuesRespected, Next, UartClock, Queues, Depth
  <1>2. /\ Buffer!Contents(recv') = (IF pop THEN Tail(q) ELSE q) \o Pushing
        /\ pop => q # << >> /\ recv.memory[recv.bottom] = Head(q)
    BY <1>1, ClockContents DEF Pushing
  <1>3. q \in Seq(Int)
    BY <1>1, ContentsAreSequence
  <1>4. front \in Seq(Int) /\ Pushing \in Seq(Int)
    <2>1. read \in Seq(Int) /\ Handing \in Seq(Int) /\ Pushing \in Seq(Int)
      BY <1>1 DEF HistoryInv, Handing, Pushing
    <2> QED
      BY <2>1, ConcatProperties
  <1>5. /\ read' \in Seq(Int)
        /\ read' \o Handing' = IF pop THEN front \o << recv.memory[recv.bottom] >> ELSE front
    BY FrontStep
  <1>6. kept' \in Seq(Int) /\ Pushing' \in Seq(Int) /\ kept' = kept \o Pushing'
    BY KeptStep
  <1>7. kept = (front \o q) \o Pushing
    BY DEF HistoryInv, ReadsInOrder
  <1> HIDE DEF q, front, pop
  <1>8. (front \o q) \o Pushing = (read' \o Handing') \o Buffer!Contents(recv')
    <2>1. CASE pop
      <3>1. q # << >> /\ recv.memory[recv.bottom] = Head(q)
        BY <1>2, <2>1
      <3>2. (front \o q) \o Pushing = (front \o << Head(q) >>) \o (Tail(q) \o Pushing)
        BY <1>3, <1>4, <3>1, Shift
      <3> QED
        BY <1>2, <1>5, <2>1, <3>1, <3>2
    <2>2. CASE ~pop
      <3>1. (front \o q) \o Pushing = front \o (q \o Pushing)
        BY <1>3, <1>4, Regroup
      <3> QED
        BY <1>2, <1>5, <2>2, <3>1
    <2> QED
      BY <2>1, <2>2
  <1>9. kept' = ((read' \o Handing') \o Buffer!Contents(recv')) \o Pushing'
    BY <1>6, <1>7, <1>8
  <1> QED
    BY <1>5, <1>6, <1>9 DEF HistoryInv, ReadsInOrder

-----------------------------------------------------------------------------
(* The invariant, and what it is for.                                      *)

LEMMA InitInv == Init => UartInv
  <1> SUFFICES ASSUME Init PROVE UartInv
    OBVIOUS
  <1>1. recv = Buffer!NewFifo(0)
    BY DEF Init, UartInit
  <1>2. recv \in Queues
    <2>1. 0 \in 0..(Depth - 1)
      BY DepthPositive
    <2> QED
      BY <1>1, <2>1 DEF Buffer!NewFifo, Buffer!Slots, Queues, Depth
  <1>3. RecvInv
    BY <1>2 DEF RecvInv, Queues, Depth, Init, UartInit
  <1>4. bus = Idle /\ bus.stb = FALSE /\ bus.we = FALSE
    BY Fields DEF Init
  <1>5. BusInv
    BY <1>4 DEF BusInv, Receiving, Init, UartInit
  <1>6. PollingInv
    BY <1>4 DEF PollingInv, Sending, Receiving, Asking, Init, UartInit
  <1>7. RequestInv
    BY DEF RequestInv, QueuesRespected, Init, UartInit
  <1>8. Buffer!Contents(recv) = << >>
    <2>1. Buffer!Queued(recv) = 0
      <3>1. recv.top = recv.bottom /\ recv.prev_op = "FIFO_POP"
        BY <1>1 DEF Buffer!NewFifo
      <3> QED
        BY <1>2, <3>1, QueuedClosed DEF Distance
    <2>2. Buffer!Contents(recv) \in Seq(Int) /\ Len(Buffer!Contents(recv)) = 0
      BY <1>2, <2>1, ContentsAreSequence
    <2> QED
      BY <2>2, EmptySeq
  <1>9. HistoryInv
    <2>1. Handing = << >> /\ Pushing = << >> /\ kept = << >> /\ read = << >>
      BY <1>4 DEF Handing, Pushing, Init, UartInit
    <2> QED
      BY <1>8, <2>1 DEF HistoryInv, ReadsInOrder
  <1> QED
    BY <1>3, <1>5, <1>6, <1>7, <1>9 DEF UartInv

LEMMA StutterInv == UartInv /\ UNCHANGED vars => UartInv'
  <1> SUFFICES ASSUME UartInv, UNCHANGED vars PROVE UartInv'
    OBVIOUS
  <1> USE DEF vars, uartVars, softwareVars
  <1>1. RecvInv'
    BY DEF UartInv, RecvInv
  <1>2. BusInv'
    BY DEF UartInv, BusInv, Receiving
  <1>3. PollingInv'
    BY DEF UartInv, PollingInv, Sending, Receiving, Asking
  <1>4. RequestInv'
    BY DEF UartInv, RequestInv, QueuesRespected
  <1>5. HistoryInv'
    BY DEF UartInv, HistoryInv, ReadsInOrder, Handing, Pushing
  <1> QED
    BY <1>1, <1>2, <1>3, <1>4, <1>5 DEF UartInv

(* Every edge of the clock preserves the invariant: the requests to the    *)
(* queues last one edge, what the software polled stays true until it acts *)
(* on it, and no character is lost between the receiver and the bus        *)
(* (pp_soc_uart 124-172, 195-230 and 265-379, libsoc/uart.h 71-152).       *)
THEOREM UartIsSound == Spec => []UartInv
  <1>1. UartInv /\ Next => UartInv'
    BY RecvStep, BusStep, PollingStep, RequestStep, HistoryStep DEF UartInv
  <1>2. UartInv /\ [Next]_vars => UartInv'
    BY <1>1, StutterInv
  <1> QED
    BY <1>2, InitInv, PTL DEF Spec

(* No queue is popped when it is empty or pushed when it is full, whatever *)
(* the depth of the queues and however the software, the line and the      *)
(* receiver interleave (pp_soc_uart 165, 204, 308 and 331).                *)
THEOREM QueuesKept == Spec => []QueuesRespected
  <1>1. UartInv => QueuesRespected
    BY DEF UartInv, RequestInv
  <1> QED
    BY <1>1, UartIsSound, PTL

(* What the software has read, what is queued and what is on its way are   *)
(* the characters the receiver kept, in order: none is lost, repeated or   *)
(* overtaken (pp_soc_uart 142 and 343-374, pp_fifo 46-84).                 *)
THEOREM ReadsAreInOrder == Spec => []ReadsInOrder
  <1>1. UartInv => ReadsInOrder
    BY DEF UartInv, HistoryInv
  <1> QED
    BY <1>1, UartIsSound, PTL

-----------------------------------------------------------------------------
(***************************************************************************)
(* Why the characters that come out of the receiver are those the software *)
(* wrote: the two state machines count the same ticks, so that the         *)
(* receiver looks at the line in the middle of what the transmitter puts   *)
(* there, however the ticks fall. The time is told in slots: 0 the start   *)
(* bit, n the bit n - 1, BITS + 1 the stop bit and the line at rest.       *)
(***************************************************************************)

(* The code has characters of 8 bits. The prover knows the powers of two   *)
(* one by one only, so that "at most 8" takes the place of "any number".   *)
Octets == BITS <= 8

(* The code takes 16 samples per bit. With two, a divisor that is set to 0 *)
(* and back can make the receiver a slot late.                             *)
EnoughSamples == OVERSAMPLING >= 4

Slot ==
  IF tx_state = "TRANSMIT" THEN tx_current_bit
  ELSE IF tx_state = "STOPBIT" THEN BITS ELSE BITS + 1

ClockInv ==
  /\ sample_clk \in BOOLEAN /\ uart_tx_clk \in BOOLEAN
  /\ rx_sample_counter \in 0..(OVERSAMPLING - 1)
  /\ uart_tx_counter = rx_sample_counter
  /\ uart_tx_clk => rx_sample_counter = 0

(* What is on the line (pp_soc_uart 195-230).                              *)
TxInv ==
  /\ tx_state \in { "IDLE", "TRANSMIT", "STOPBIT" }
  /\ tx_current_bit \in 0..(BITS - 1)
  /\ rxd = txd /\ txd \in BOOLEAN
  /\ Slot = 0 => ~txd
  /\ \A n \in 1..BITS : Slot = n => txd = BitOf(send.data_out, n - 1)
  /\ Slot = BITS + 1 => txd
  /\ send_buffer_pop => rx_state = "IDLE"

(* From the sample in slot n to the sample in the next one.                *)
Between(n) ==
  /\ rx_sample_value \in 2..(OVERSAMPLING - 1)
  /\ \/ Slot = n /\ (uart_tx_clk \/ rx_sample_counter > rx_sample_value)
     \/ Slot = n + 1 /\ ~uart_tx_clk /\ rx_sample_counter <= rx_sample_value

RxWaits ==
  /\ rx_state = "IDLE"
  /\ \/ Slot = BITS + 1
     \/ Slot = 0 /\ ~uart_tx_clk /\ rx_sample_counter <= 1

RxStarts ==
  /\ rx_state = "STARTBIT" /\ Slot = 0 /\ ~uart_tx_clk /\ rx_current_bit = 0
  /\ rx_sample_value \in 0..1 /\ rx_sample_delay \in 0..MiddleOfBit
  /\ rx_sample_counter = rx_sample_value + rx_sample_delay + 1

\* The low n bits of what was received are those of what is sent.
Agree(n) == rx_byte % 2^n = send.data_out % 2^n

RxReceives == rx_state = "RECEIVE" /\ Between(rx_current_bit) /\ Agree(rx_current_bit)

RxStops == rx_state = "STOPBIT" /\ Between(BITS) /\ Agree(BITS)

(* Where the receiver is, and where on the line (pp_soc_uart 122-172).     *)
RxInv ==
  /\ rx_current_bit \in 0..(BITS - 1) /\ rx_byte \in Bytes
  /\ RxWaits \/ RxStarts \/ RxReceives \/ RxStops

\* The character between the send queue and the receiver, and the one
\* between the software and the send queue.
Flying ==
  IF rx_state # "IDLE" \/ (tx_state = "TRANSMIT" /\ ~send_buffer_pop)
  THEN << send.data_out >> ELSE << >>
Queueing == IF send_buffer_push THEN << send_buffer_input >> ELSE << >>
Coming ==
  IF send_buffer_push THEN << send_buffer_input >>
  ELSE IF wb_state = "IDLE" /\ Sending THEN << bus.dat >> ELSE << >>

(* What was written has arrived, is on its way, queued or about to be.     *)
SentInv ==
  /\ send \in Queues /\ send_buffer_input \in Int
  /\ Sending => bus.dat \in Int
  /\ sent \in Seq(Bytes) /\ arrived \in Seq(Int)
  /\ sent = ((arrived \o Flying) \o Buffer!Contents(send)) \o Coming

LineInv == UartInv /\ ClockInv /\ TxInv /\ RxInv /\ SentInv

-----------------------------------------------------------------------------
(* Bits of bytes.                                                          *)

LEMMA Powers ==
  /\ 2^0 = 1 /\ 2^1 = 2 /\ 2^2 = 4 /\ 2^3 = 8 /\ 2^4 = 16
  /\ 2^5 = 32 /\ 2^6 = 64 /\ 2^7 = 128 /\ 2^8 = 256
  OBVIOUS

LEMMA UpToEight ==
  ASSUME NEW n \in Nat, n <= 8
  PROVE  n = 0 \/ n = 1 \/ n = 2 \/ n = 3 \/ n = 4 \/ n = 5 \/ n = 6 \/ n = 7 \/ n = 8
  OBVIOUS

(* Writing bit n makes the low n + 1 bits right if the low n were.         *)
LEMMA BitWritten ==
  ASSUME NEW n \in Nat, n <= 7, NEW b \in Nat, NEW x \in Nat, b % 2^n = x % 2^n
  PROVE  WithBit(b, n, BitOf(x, n)) % 2^(n + 1) = x % 2^(n + 1)
  <1>0. CASE n = 0
    BY <1>0, Powers DEF WithBit, BitOf
  <1>1. CASE n = 1
    BY <1>1, Powers DEF WithBit, BitOf
  <1>2. CASE n = 2
    BY <1>2, Powers DEF WithBit, BitOf
  <1>3. CASE n = 3
    BY <1>3, Powers DEF WithBit, BitOf
  <1>4. CASE n = 4
    BY <1>4, Powers DEF WithBit, BitOf
  <1>5. CASE n = 5
    BY <1>5, Powers DEF WithBit, BitOf
  <1>6. CASE n = 6
    BY <1>6, Powers DEF WithBit, BitOf
  <1>7. CASE n = 7
    BY <1>7, Powers DEF WithBit, BitOf
  <1>8. n # 8
    OBVIOUS
  <1> QED
    BY <1>0, <1>1, <1>2, <1>3, <1>4, <1>5, <1>6, <1>7, <1>8, UpToEight

LEMMA PowerTable ==
  ASSUME NEW n \in Nat, n <= 8
  PROVE  2^n = CASE n = 0 -> 1  [] n = 1 -> 2  [] n = 2 -> 4  [] n = 3 -> 8  [] n = 4 -> 16
                 [] n = 5 -> 32 [] n = 6 -> 64 [] n = 7 -> 128 [] n = 8 -> 256
  <1>0. CASE n = 0
    BY <1>0, Powers
  <1>1. CASE n = 1
    BY <1>1, Powers
  <1>2. CASE n = 2
    BY <1>2, Powers
  <1>3. CASE n = 3
    BY <1>3, Powers
  <1>4. CASE n = 4
    BY <1>4, Powers
  <1>5. CASE n = 5
    BY <1>5, Powers
  <1>6. CASE n = 6
    BY <1>6, Powers
  <1>7. CASE n = 7
    BY <1>7, Powers
  <1>8. CASE n = 8
    BY <1>8, Powers
  <1> QED
    BY <1>0, <1>1, <1>2, <1>3, <1>4, <1>5, <1>6, <1>7, <1>8, UpToEight

LEMMA BytesBound ==
  ASSUME Octets
  PROVE  /\ BITS \in Nat /\ BITS >= 1 /\ BITS <= 8
         /\ 2^BITS \in { 2, 4, 8, 16, 32, 64, 128, 256 }
         /\ Bytes = 0..(2^BITS - 1)
  <1>1. BITS \in Nat /\ BITS >= 1 /\ BITS <= 8
    BY UartAssumption DEF Octets
  <1>2. 2^BITS \in { 2, 4, 8, 16, 32, 64, 128, 256 }
    BY <1>1, PowerTable, UpToEight
  <1> QED
    BY <1>1, <1>2 DEF Bytes

LEMMA PowersGrow ==
  ASSUME Octets, NEW n \in 0..(BITS - 1)
  PROVE  2^n \in { 1, 2, 4, 8, 16, 32, 64, 128 } /\ 2^n < 2^BITS
  <1> DEFINE w == 2^n
             m == 2^BITS
  <1>1. BITS \in Nat /\ BITS <= 8 /\ n \in Nat /\ n < BITS /\ n <= 8
    BY BytesBound
  <1>2. /\ w = CASE n = 0 -> 1  [] n = 1 -> 2  [] n = 2 -> 4  [] n = 3 -> 8  [] n = 4 -> 16
                 [] n = 5 -> 32 [] n = 6 -> 64 [] n = 7 -> 128 [] n = 8 -> 256
        /\ m = CASE BITS = 0 -> 1  [] BITS = 1 -> 2  [] BITS = 2 -> 4  [] BITS = 3 -> 8
                 [] BITS = 4 -> 16 [] BITS = 5 -> 32 [] BITS = 6 -> 64 [] BITS = 7 -> 128
                 [] BITS = 8 -> 256
    BY <1>1, PowerTable
  <1> HIDE DEF w, m
  <1>3. w \in { 1, 2, 4, 8, 16, 32, 64, 128 } /\ w < m
    BY <1>1, <1>2
  <1> QED
    BY <1>3 DEF w, m

(* A bit of the byte may be written.                                       *)
LEMMA ByteWritten ==
  ASSUME Octets, NEW n \in 0..(BITS - 1), NEW b \in Bytes, NEW v \in BOOLEAN
  PROVE  WithBit(b, n, v) \in Bytes
  <1> DEFINE w == 2^n
             m == 2^BITS
             y == b - (IF (b \div w) % 2 = 1 THEN w ELSE 0) + (IF v THEN w ELSE 0)
  <1>1. /\ b \in 0..(m - 1) /\ Bytes = 0..(m - 1)
        /\ m \in { 2, 4, 8, 16, 32, 64, 128, 256 }
    BY BytesBound
  <1>2. w \in { 1, 2, 4, 8, 16, 32, 64, 128 } /\ w < m
    BY PowersGrow
  <1>3. y = WithBit(b, n, v)
    BY DEF WithBit, BitOf
  <1> HIDE DEF w, m
  <1>4. y \in 0..(m - 1)
    <2>1. CASE w = 1
      BY <1>1, <1>2, <2>1
    <2>2. CASE w = 2
      BY <1>1, <1>2, <2>2
    <2>3. CASE w = 4
      BY <1>1, <1>2, <2>3
    <2>4. CASE w = 8
      BY <1>1, <1>2, <2>4
    <2>5. CASE w = 16
      BY <1>1, <1>2, <2>5
    <2>6. CASE w = 32
      BY <1>1, <1>2, <2>6
    <2>7. CASE w = 64
      BY <1>1, <1>2, <2>7
    <2>8. CASE w = 128
      BY <1>1, <1>2, <2>8
    <2> QED
      BY <1>2, <2>1, <2>2, <2>3, <2>4, <2>5, <2>6, <2>7, <2>8
  <1> QED
    BY <1>1, <1>3, <1>4

(* Two bytes all of whose bits agree are one.                              *)
LEMMA SameByte ==
  ASSUME Octets, NEW b \in Bytes, NEW x \in Bytes, b % 2^BITS = x % 2^BITS
  PROVE  b = x
  <1> DEFINE m == 2^BITS
  <1>1. /\ b \in 0..(m - 1) /\ x \in 0..(m - 1) /\ b % m = x % m
        /\ m \in { 2, 4, 8, 16, 32, 64, 128, 256 }
    BY BytesBound
  <1> HIDE DEF m
  <1>2. b % m = b /\ x % m = x
    BY <1>1
  <1> QED
    BY <1>1, <1>2
-----------------------------------------------------------------------------
(* What an edge does to the line.                                          *)

LEMMA Slots ==
  ASSUME TxInv
  PROVE  /\ Slot \in 0..(BITS + 1) /\ BITS \in Nat /\ BITS >= 1
         /\ tx_state = "TRANSMIT" <=> Slot < BITS
         /\ tx_state = "TRANSMIT" => tx_current_bit = Slot
         /\ tx_state = "STOPBIT" <=> Slot = BITS
         /\ tx_state = "IDLE" <=> Slot = BITS + 1
  BY UartAssumption DEF TxInv, Slot

LEMMA Halves ==
  ASSUME EnoughSamples
  PROVE  /\ OVERSAMPLING \in Nat /\ OVERSAMPLING >= 4
         /\ MiddleOfBit \in Nat /\ MiddleOfBit >= 1
         /\ OVERSAMPLING = 2 * (MiddleOfBit + 1)
  BY UartAssumption DEF EnoughSamples, MiddleOfBit

LEMMA Ticks ==
  ASSUME ClockInv, EnoughSamples, UartClock
  PROVE  /\ ClockInv'
         /\ rx_sample_counter' =
              IF sample_clk THEN IF rx_sample_counter = OVERSAMPLING - 1 THEN 0
                                 ELSE rx_sample_counter + 1
              ELSE rx_sample_counter
         /\ uart_tx_clk' \in BOOLEAN
         /\ uart_tx_clk' <=> (sample_clk /\ rx_sample_counter = OVERSAMPLING - 1)
  <1>1. sample_counter /\ uart_tx_clock_generator /\ sample_clock_generator
    BY DEF UartClock
  <1>2. sample_clk' \in BOOLEAN
    BY <1>1 DEF sample_clock_generator, ClockInv
  <1>3. /\ rx_sample_counter' =
             IF sample_clk THEN IF rx_sample_counter = OVERSAMPLING - 1 THEN 0
                                ELSE rx_sample_counter + 1
             ELSE rx_sample_counter
        /\ uart_tx_counter' = rx_sample_counter'
        /\ uart_tx_clk' = (sample_clk /\ rx_sample_counter = OVERSAMPLING - 1)
    BY <1>1 DEF sample_counter, uart_tx_clock_generator, NextSample, ClockInv
  <1>4. rx_sample_counter' \in 0..(OVERSAMPLING - 1)
    BY <1>3, Halves DEF ClockInv
  <1> QED
    BY <1>2, <1>3, <1>4 DEF ClockInv

(* The transmitter asks for a character at the very beginning of a slot 0. *)
LEMMA Popping ==
  ASSUME RequestInv, TxInv, RxInv, send_buffer_pop
  PROVE  rx_state = "IDLE" /\ Slot = 0 /\ ~uart_tx_clk /\ rx_sample_counter <= 1
  <1>1. rx_state = "IDLE" /\ tx_state = "TRANSMIT"
    BY DEF RequestInv, TxInv
  <1>2. Slot < BITS /\ BITS \in Nat /\ Slot \in 0..(BITS + 1)
    BY <1>1, Slots
  <1> QED
    BY <1>1, <1>2 DEF RxInv, RxWaits, RxStarts, RxReceives, RxStops

(* The line changes at the ticks of the transmitter only.                  *)
LEMMA TxMoves ==
  ASSUME RequestInv, TxInv, RxInv, ClockInv, UartClock
  PROVE  /\ tx_state' \in { "IDLE", "TRANSMIT", "STOPBIT" }
         /\ tx_current_bit' \in 0..(BITS - 1) /\ txd' \in BOOLEAN
         /\ ~uart_tx_clk => Slot' = Slot /\ txd' = txd /\ ~send_buffer_pop'
         /\ uart_tx_clk /\ Slot < BITS =>
              Slot' = Slot + 1 /\ txd' = BitOf(send.data_out, Slot) /\ ~send_buffer_pop'
         /\ uart_tx_clk /\ Slot = BITS => Slot' = BITS + 1 /\ txd' /\ ~send_buffer_pop'
         /\ uart_tx_clk /\ Slot = BITS + 1 =>
              \/ Slot' = 0 /\ ~txd' /\ send_buffer_pop'
              \/ Slot' = BITS + 1 /\ txd' /\ ~send_buffer_pop'
         /\ ~send_buffer_pop => send'.data_out = send.data_out
  <1>1. /\ uart_transmit /\ send_buffer_pop \in BOOLEAN /\ txd \in BOOLEAN
        /\ uart_tx_clk \in BOOLEAN /\ tx_current_bit \in 0..(BITS - 1)
        /\ BITS \in Nat /\ BITS >= 1
        /\ send_buffer_pop => tx_state = "TRANSMIT"
    BY UartAssumption DEF UartClock, RequestInv, TxInv, ClockInv
  <1>2. ~send_buffer_pop => send'.data_out = send.data_out
    BY DEF UartClock, Buffer!FifoClock
  <1>3. CASE TxStart
    <2>1. tx_state = "IDLE" /\ Slot = BITS + 1 /\ send_buffer_pop = FALSE
      BY <1>1, <1>3 DEF TxStart, Slot
    <2>2. Slot # BITS /\ ~(Slot < BITS)
      BY <1>1, <2>1
    <2>3. CASE uart_tx_clk /\ ~Buffer!Empty(send)
      <3>1. /\ txd' = FALSE /\ send_buffer_pop' = TRUE
            /\ tx_current_bit' = 0 /\ tx_state' = "TRANSMIT"
        BY <1>3, <2>3 DEF TxStart
      <3>2. Slot' = 0 /\ 0 \in 0..(BITS - 1)
        BY <1>1, <3>1 DEF Slot
      <3> QED
        BY <1>2, <2>1, <2>2, <2>3, <3>1, <3>2
    <2>4. CASE ~(uart_tx_clk /\ ~Buffer!Empty(send))
      <3>1. /\ txd' = (uart_tx_clk \/ txd) /\ send_buffer_pop' = FALSE
            /\ tx_current_bit' = tx_current_bit /\ tx_state' = tx_state
        BY <1>3, <2>1, <2>4 DEF TxStart
      <3>2. Slot' = BITS + 1
        BY <2>1, <3>1 DEF Slot
      <3> QED
        BY <1>1, <1>2, <2>1, <2>2, <3>1, <3>2
    <2> QED
      BY <2>3, <2>4
  <1>4. CASE TxTransmit
    <2>1. tx_state = "TRANSMIT" /\ Slot = tx_current_bit
      BY <1>4 DEF TxTransmit, Slot
    <2>2. BitOf(send.data_out, tx_current_bit) \in BOOLEAN
      BY DEF BitOf
    <2>3. CASE send_buffer_pop
      BY <1>1, <1>4, <2>1, <2>3, Popping DEF TxTransmit, Slot
    <2>4. CASE ~send_buffer_pop /\ ~uart_tx_clk
      BY <1>1, <1>2, <1>4, <2>1, <2>4 DEF TxTransmit, Slot
    <2>5. CASE ~send_buffer_pop /\ uart_tx_clk
      <3>1. /\ send_buffer_pop' = FALSE /\ txd' = BitOf(send.data_out, Slot)
            /\ IF tx_current_bit = BITS - 1
               THEN tx_state' = "STOPBIT" /\ tx_current_bit' = tx_current_bit
               ELSE tx_current_bit' = tx_current_bit + 1 /\ tx_state' = "TRANSMIT"
        BY <1>1, <1>4, <2>1, <2>5 DEF TxTransmit
      <3>2. /\ Slot' = Slot + 1 /\ tx_current_bit' \in 0..(BITS - 1)
            /\ tx_state' \in { "IDLE", "TRANSMIT", "STOPBIT" }
        BY <1>1, <2>1, <3>1 DEF Slot
      <3>3. Slot < BITS /\ Slot # BITS /\ Slot # BITS + 1
        BY <1>1, <2>1
      <3> QED
        BY <1>2, <2>2, <2>1, <2>5, <3>1, <3>2, <3>3
    <2> QED
      BY <1>1, <2>3, <2>4, <2>5
  <1>5. CASE TxStopBit
    BY <1>1, <1>2, <1>5 DEF TxStopBit, Slot
  <1> QED
    BY <1>1, <1>3, <1>4, <1>5 DEF uart_transmit

LEMMA LineStep ==
  ASSUME RequestInv, TxInv, RxInv, ClockInv, Next
  PROVE  TxInv'
  <1>1. UartClock /\ rxd' = txd'
    BY DEF Next
  <1>2. Slot \in 0..(BITS + 1) /\ BITS \in Nat /\ BITS >= 1
    BY Slots
  <1>3. /\ tx_state' \in { "IDLE", "TRANSMIT", "STOPBIT" }
        /\ tx_current_bit' \in 0..(BITS - 1) /\ txd' \in BOOLEAN
    BY <1>1, TxMoves
  <1>4. send_buffer_pop' => rx_state' = "IDLE"
    <2> SUFFICES ASSUME send_buffer_pop' PROVE rx_state' = "IDLE"
      OBVIOUS
    <2>1. uart_tx_clk /\ Slot = BITS + 1
      BY <1>1, <1>2, TxMoves
    <2>2. rxd /\ rx_state = "IDLE"
      BY <1>2, <2>1 DEF TxInv, RxInv, RxStarts, RxReceives, RxStops, RxWaits, Between
    <2> QED
      BY <1>1, <2>2 DEF UartClock, uart_receive, RxStart, RxStartBit, RxReceive, RxStopBit
  <1>5. /\ Slot' = 0 => ~txd'
        /\ \A n \in 1..BITS : Slot' = n => txd' = BitOf(send'.data_out, n - 1)
        /\ Slot' = BITS + 1 => txd'
    <2>1. CASE ~uart_tx_clk /\ send_buffer_pop
      <3>1. Slot' = 0 /\ txd' = txd /\ Slot = 0
        BY <1>1, <2>1, Popping, TxMoves
      <3> QED
        BY <1>2, <3>1 DEF TxInv
    <2>2. CASE ~uart_tx_clk /\ ~send_buffer_pop
      <3>1. Slot' = Slot /\ txd' = txd /\ send'.data_out = send.data_out
        BY <1>1, <2>2, TxMoves
      <3> QED
        BY <1>2, <3>1 DEF TxInv
    <2>3. CASE uart_tx_clk /\ Slot < BITS
      <3>1. /\ Slot' = Slot + 1 /\ txd' = BitOf(send.data_out, Slot)
            /\ send'.data_out = send.data_out
        BY <1>1, <2>3, Popping, TxMoves
      <3>2. (Slot + 1) - 1 = Slot /\ Slot' # 0 /\ Slot' # BITS + 1
        BY <1>2, <2>3, <3>1
      <3> QED
        BY <3>1, <3>2
    <2>4. CASE uart_tx_clk /\ Slot = BITS
      <3>1. Slot' = BITS + 1 /\ txd'
        BY <1>1, <2>4, TxMoves
      <3>2. Slot' # 0 /\ \A n \in 1..BITS : Slot' # n
        BY <1>2, <3>1
      <3> QED
        BY <3>1, <3>2
    <2>5. CASE uart_tx_clk /\ Slot = BITS + 1
      <3>1. (Slot' = 0 /\ ~txd') \/ (Slot' = BITS + 1 /\ txd')
        BY <1>1, <2>5, TxMoves
      <3>2. /\ Slot' = 0 \/ Slot' = BITS + 1
            /\ \A n \in 1..BITS : Slot' # n
        BY <1>2, <3>1
      <3>3. BITS + 1 # 0
        BY <1>2
      <3> QED
        BY <3>1, <3>2, <3>3
    <2> QED
      BY <1>2, <2>1, <2>2, <2>3, <2>4, <2>5
  <1> QED
    BY <1>1, <1>3, <1>4, <1>5 DEF TxInv
-----------------------------------------------------------------------------
(* What an edge does to the receiver.                                      *)

LEMMA BetweenStep ==
  ASSUME EnoughSamples, RequestInv, TxInv, RxInv, ClockInv, UartClock,
         NEW n \in 0..BITS, Between(n), rx_sample_value' = rx_sample_value, ~RxSample
  PROVE  /\ rx_sample_value' \in 2..(OVERSAMPLING - 1)
         /\ \/ Slot' = n /\ (uart_tx_clk' \/ rx_sample_counter' > rx_sample_value')
            \/ Slot' = n + 1 /\ ~uart_tx_clk' /\ rx_sample_counter' <= rx_sample_value'
  <1> DEFINE c == rx_sample_counter
             v == rx_sample_value
  <1>1. /\ OVERSAMPLING \in Nat /\ OVERSAMPLING >= 4 /\ v \in 2..(OVERSAMPLING - 1)
        /\ c \in 0..(OVERSAMPLING - 1) /\ BITS \in Nat
        /\ sample_clk \in BOOLEAN /\ uart_tx_clk \in BOOLEAN
        /\ uart_tx_clk => c = 0
        /\ ~(sample_clk /\ c = v)
    BY Halves, Slots DEF Between, ClockInv, RxSample
  <1>2. /\ c' = IF sample_clk THEN IF c = OVERSAMPLING - 1 THEN 0 ELSE c + 1 ELSE c
        /\ uart_tx_clk' \in BOOLEAN
        /\ uart_tx_clk' <=> (sample_clk /\ c = OVERSAMPLING - 1)
    BY Ticks
  <1>3. CASE Slot = n /\ uart_tx_clk
    <2>1. Slot' = n + 1
      BY <1>1, <1>3, TxMoves
    <2>2. ~uart_tx_clk' /\ c' <= v
      BY <1>1, <1>2, <1>3
    <2> QED
      BY <1>1, <2>1, <2>2
  <1>4. CASE Slot = n /\ ~uart_tx_clk /\ c > v
    <2>1. Slot' = n
      BY <1>4, TxMoves
    <2>2. uart_tx_clk' \/ c' > v
      BY <1>1, <1>2, <1>4
    <2> QED
      BY <1>1, <2>1, <2>2
  <1>5. CASE Slot = n + 1 /\ ~uart_tx_clk /\ c <= v
    <2>1. Slot' = n + 1
      BY <1>5, TxMoves
    <2>2. ~uart_tx_clk' /\ c' <= v
      BY <1>1, <1>2, <1>5
    <2> QED
      BY <1>1, <2>1, <2>2
  <1> QED
    BY <1>3, <1>4, <1>5 DEF Between

(* A sample is taken in the slot that follows.                             *)
LEMMA Sampled ==
  ASSUME EnoughSamples, RequestInv, TxInv, RxInv, ClockInv, UartClock,
         NEW n \in 0..BITS, Between(n), rx_sample_value' = rx_sample_value, RxSample
  PROVE  /\ rx_sample_value' \in 2..(OVERSAMPLING - 1)
         /\ Slot = n + 1 /\ Slot' = n + 1 /\ ~uart_tx_clk
         /\ uart_tx_clk' \/ rx_sample_counter' > rx_sample_value'
  <1> DEFINE c == rx_sample_counter
             v == rx_sample_value
  <1>1. /\ OVERSAMPLING \in Nat /\ OVERSAMPLING >= 4 /\ v \in 2..(OVERSAMPLING - 1)
        /\ uart_tx_clk \in BOOLEAN /\ uart_tx_clk => c = 0
        /\ sample_clk /\ c = v
    BY Halves DEF Between, ClockInv, RxSample
  <1>2. /\ c' = IF c = OVERSAMPLING - 1 THEN 0 ELSE c + 1
        /\ uart_tx_clk' \in BOOLEAN
        /\ uart_tx_clk' <=> (c = OVERSAMPLING - 1)
    BY <1>1, Ticks
  <1>3. Slot = n + 1 /\ ~uart_tx_clk
    <2>1. c = v /\ v \in Int /\ v >= 2
      BY <1>1
    <2>2. ~(c > v)
      BY <2>1
    <2>3. ~uart_tx_clk
      <3>1. c # 0
        BY <2>1
      <3> QED
        BY <1>1, <3>1
    <2> QED
      BY <2>2, <2>3 DEF Between
  <1>4. Slot' = n + 1
    BY <1>3, TxMoves
  <1>5. uart_tx_clk' \/ c' > v
    BY <1>1, <1>2
  <1> QED
    BY <1>1, <1>3, <1>4, <1>5

LEMMA WaitStep ==
  ASSUME EnoughSamples, RequestInv, TxInv, RxInv, ClockInv, UartClock, RxWaits
  PROVE  RxWaits' \/ RxStarts'
  <1>1. RxStart
    BY DEF RxWaits, UartClock, uart_receive, RxStartBit, RxReceive, RxStopBit
  <1>2. /\ OVERSAMPLING \in Nat /\ OVERSAMPLING >= 4 /\ MiddleOfBit \in Nat
        /\ rx_sample_counter \in 0..(OVERSAMPLING - 1) /\ BITS \in Nat /\ BITS >= 1
        /\ sample_clk \in BOOLEAN /\ uart_tx_clk \in BOOLEAN
        /\ uart_tx_clk => rx_sample_counter = 0
    BY Halves, Slots DEF ClockInv
  <1>3. /\ rx_sample_counter' =
             IF sample_clk THEN IF rx_sample_counter = OVERSAMPLING - 1 THEN 0
                                ELSE rx_sample_counter + 1
             ELSE rx_sample_counter
        /\ uart_tx_clk' \in BOOLEAN
        /\ uart_tx_clk' <=> (sample_clk /\ rx_sample_counter = OVERSAMPLING - 1)
    BY Ticks
  <1>4. CASE Slot = BITS + 1
    <2>1. rxd
      BY <1>4 DEF TxInv
    <2>2. rx_state' = "IDLE"
      BY <1>1, <2>1 DEF RxStart
    <2>3. CASE ~uart_tx_clk
      BY <1>4, <2>2, <2>3, TxMoves DEF RxWaits
    <2>4. CASE uart_tx_clk
      <3>1. Slot' = 0 \/ Slot' = BITS + 1
        BY <1>4, <2>4, TxMoves
      <3>2. ~uart_tx_clk' /\ rx_sample_counter' <= 1
        BY <1>2, <1>3, <2>4
      <3> QED
        BY <2>2, <3>1, <3>2 DEF RxWaits
    <2> QED
      BY <2>3, <2>4
  <1>5. CASE Slot = 0 /\ ~uart_tx_clk /\ rx_sample_counter <= 1
    <2>1. ~rxd /\ Slot' = 0
      BY <1>5, TxMoves DEF TxInv
    <2>2. CASE ~sample_clk
      <3>1. rx_state' = "IDLE" /\ ~uart_tx_clk' /\ rx_sample_counter' = rx_sample_counter
        BY <1>1, <1>3, <2>2 DEF RxStart
      <3> QED
        BY <1>5, <2>1, <3>1 DEF RxWaits
    <2>3. CASE sample_clk
      <3>1. /\ rx_state' = "STARTBIT" /\ rx_current_bit' = 0
            /\ rx_sample_value' = rx_sample_counter /\ rx_sample_delay' = 0
        BY <1>1, <2>1, <2>3 DEF RxStart
      <3>2. ~uart_tx_clk' /\ rx_sample_counter' = rx_sample_counter + 0 + 1
        BY <1>2, <1>3, <1>5, <2>3
      <3>3. rx_sample_counter \in 0..1 /\ 0 \in 0..MiddleOfBit
        BY <1>2, <1>5
      <3> QED
        BY <2>1, <3>1, <3>2, <3>3 DEF RxStarts, MiddleOfBit
    <2> QED
      BY <2>2, <2>3
  <1> QED
    BY <1>4, <1>5 DEF RxWaits

LEMMA StartStep ==
  ASSUME EnoughSamples, RequestInv, TxInv, RxInv, ClockInv, UartClock, RxStarts,
         rx_byte \in Int, send'.data_out \in Int
  PROVE  RxStarts' \/ RxReceives'
  <1> DEFINE c == rx_sample_counter
             v == rx_sample_value
             d == rx_sample_delay
  <1>1. RxStartBit
    BY DEF RxStarts, UartClock, uart_receive, RxStart, RxReceive, RxStopBit
  <1>2. /\ OVERSAMPLING \in Nat /\ MiddleOfBit \in Nat /\ MiddleOfBit >= 1
        /\ OVERSAMPLING = 2 * (MiddleOfBit + 1)
        /\ v \in 0..1 /\ d \in 0..MiddleOfBit /\ c = v + d + 1
        /\ sample_clk \in BOOLEAN
    BY Halves DEF ClockInv, RxStarts
  <1>3. /\ c' = IF sample_clk THEN IF c = OVERSAMPLING - 1 THEN 0 ELSE c + 1 ELSE c
        /\ uart_tx_clk' \in BOOLEAN
        /\ uart_tx_clk' <=> (sample_clk /\ c = OVERSAMPLING - 1)
    BY Ticks
  <1>4. Slot' = 0 /\ rx_current_bit' = 0 /\ rx_byte' = rx_byte /\ rx_state = "STARTBIT"
    BY <1>1, TxMoves DEF RxStarts, RxStartBit
  <1>5. CASE ~sample_clk
    <2>1. rx_state' = "STARTBIT" /\ v' = v /\ d' = d /\ c' = c /\ ~uart_tx_clk'
      BY <1>1, <1>3, <1>4, <1>5 DEF RxStartBit
    <2> QED
      BY <1>2, <1>4, <2>1 DEF RxStarts, MiddleOfBit
  <1>6. CASE sample_clk /\ d # MiddleOfBit
    <2>1. rx_state' = "STARTBIT" /\ v' = v /\ d' = d + 1
      BY <1>1, <1>4, <1>6 DEF RxStartBit
    <2>2. c' = v + (d + 1) + 1 /\ ~uart_tx_clk' /\ d + 1 \in 0..MiddleOfBit
      BY <1>2, <1>3, <1>6
    <2> QED
      BY <1>2, <1>4, <2>1, <2>2 DEF RxStarts, MiddleOfBit
  <1>7. CASE sample_clk /\ d = MiddleOfBit
    <2>1. rx_state' = "RECEIVE" /\ v' = c
      BY <1>1, <1>7 DEF RxStartBit
    <2>2. c \in 2..(OVERSAMPLING - 1) /\ (uart_tx_clk' \/ c' > c)
      BY <1>2, <1>3, <1>7
    <2>3. rx_byte' % 2^0 = send'.data_out % 2^0
      BY <1>4, Powers
    <2> QED
      BY <1>4, <2>1, <2>2, <2>3 DEF RxReceives, Between, Agree
  <1> QED
    BY <1>2, <1>5, <1>6, <1>7

LEMMA ReceiveStep ==
  ASSUME Octets, EnoughSamples, RequestInv, TxInv, RxInv, ClockInv, UartClock, RxReceives,
         send.data_out \in Nat
  PROVE  RxReceives' \/ RxStops'
  <1>1. RxReceive
    BY DEF RxReceives, UartClock, uart_receive, RxStart, RxStartBit, RxStopBit
  <1>2. PICK k \in 0..(BITS - 1) : k = rx_current_bit
    BY DEF RxInv
  <1>3. /\ rx_state = "RECEIVE" /\ Between(k) /\ rx_byte % 2^k = send.data_out % 2^k
        /\ BITS \in Nat /\ BITS >= 1 /\ BITS <= 8 /\ k \in 0..BITS /\ k <= 7 /\ k \in Nat
        /\ rx_byte \in Nat
    BY <1>2, BytesBound DEF RxReceives, Agree, RxInv
  <1>4. send'.data_out = send.data_out
    BY <1>3, Popping, TxMoves
  <1>5. rx_sample_value' = rx_sample_value
    BY <1>1 DEF RxReceive
  <1>6. CASE ~RxSample
    <2>1. rx_state' = "RECEIVE" /\ rx_byte' = rx_byte /\ rx_current_bit' = k
      BY <1>1, <1>2, <1>3, <1>6 DEF RxReceive
    <2>2. /\ rx_sample_value' \in 2..(OVERSAMPLING - 1)
          /\ \/ Slot' = k /\ (uart_tx_clk' \/ rx_sample_counter' > rx_sample_value')
             \/ Slot' = k + 1 /\ ~uart_tx_clk' /\ rx_sample_counter' <= rx_sample_value'
      BY <1>3, <1>5, <1>6, BetweenStep
    <2> QED
      BY <1>3, <1>4, <2>1, <2>2 DEF RxReceives, Between, Agree
  <1>7. CASE RxSample
    <2>1. /\ rx_sample_value' \in 2..(OVERSAMPLING - 1)
          /\ Slot = k + 1 /\ Slot' = k + 1
          /\ uart_tx_clk' \/ rx_sample_counter' > rx_sample_value'
      BY <1>3, <1>5, <1>7, Sampled
    <2>2. rxd = BitOf(send.data_out, k)
      <3>1. k + 1 \in 1..BITS /\ (k + 1) - 1 = k
        BY <1>3
      <3> QED
        BY <2>1, <3>1 DEF TxInv
    <2>3. rx_byte' = WithBit(rx_byte, k, BitOf(send.data_out, k))
      BY <1>1, <1>2, <1>7, <2>2 DEF RxReceive
    <2>4. rx_byte' % 2^(k + 1) = send.data_out % 2^(k + 1)
      BY <1>3, <2>3, BitWritten
    <2>5. CASE k # BITS - 1
      <3>1. rx_state' = "RECEIVE" /\ rx_current_bit' = k + 1
        BY <1>1, <1>2, <1>3, <1>7, <2>5 DEF RxReceive
      <3> QED
        BY <1>4, <2>1, <2>4, <3>1 DEF RxReceives, Between, Agree
    <2>6. CASE k = BITS - 1
      <3>1. rx_state' = "STOPBIT" /\ k + 1 = BITS
        BY <1>1, <1>2, <1>3, <1>7, <2>6 DEF RxReceive
      <3> QED
        BY <1>4, <2>1, <2>4, <3>1 DEF RxStops, Between, Agree
    <2> QED
      BY <2>5, <2>6
  <1> QED
    BY <1>6, <1>7

LEMMA StopStep ==
  ASSUME Octets, EnoughSamples, RequestInv, TxInv, RxInv, ClockInv, UartClock, RxStops
  PROVE  RxStops' \/ RxWaits'
  <1>1. RxStopBit
    BY DEF RxStops, UartClock, uart_receive, RxStart, RxStartBit, RxReceive
  <1>2. /\ rx_state = "STOPBIT" /\ Between(BITS) /\ rx_byte % 2^BITS = send.data_out % 2^BITS
        /\ BITS \in 0..BITS
    BY BytesBound DEF RxStops, Agree
  <1>3. send'.data_out = send.data_out
    BY <1>2, Popping, TxMoves
  <1>4. rx_sample_value' = rx_sample_value /\ rx_byte' = rx_byte
    BY <1>1 DEF RxStopBit
  <1>5. CASE ~RxSample
    <2>1. rx_state' = "STOPBIT"
      BY <1>1, <1>2, <1>5 DEF RxStopBit
    <2>2. /\ rx_sample_value' \in 2..(OVERSAMPLING - 1)
          /\ \/ Slot' = BITS /\ (uart_tx_clk' \/ rx_sample_counter' > rx_sample_value')
             \/ Slot' = BITS + 1 /\ ~uart_tx_clk' /\ rx_sample_counter' <= rx_sample_value'
      BY <1>2, <1>4, <1>5, BetweenStep
    <2> QED
      BY <1>2, <1>3, <1>4, <2>1, <2>2 DEF RxStops, Between, Agree
  <1>6. CASE RxSample
    <2>1. rx_state' = "IDLE"
      BY <1>1, <1>6 DEF RxStopBit
    <2>2. Slot' = BITS + 1
      BY <1>2, <1>4, <1>6, Sampled
    <2> QED
      BY <2>1, <2>2 DEF RxWaits
  <1> QED
    BY <1>5, <1>6
LEMMA RxStep ==
  ASSUME Octets, EnoughSamples, RequestInv, TxInv, RxInv, ClockInv, UartClock,
         send \in Queues, send_buffer_push \in BOOLEAN, send_buffer_input \in Int,
         rx_state # "IDLE" => send.data_out \in Bytes
  PROVE  RxInv'
  <1>1. /\ rx_current_bit \in 0..(BITS - 1) /\ rx_byte \in Bytes /\ BITS \in Nat /\ BITS >= 1
        /\ Bytes = 0..(2^BITS - 1) /\ 2^BITS \in Nat
    BY BytesBound DEF RxInv
  <1>2. uart_receive
    BY DEF UartClock
  <1>3. send'.data_out \in Int
    <2>1. send_buffer_pop \in BOOLEAN
      BY DEF RequestInv
    <2>2. send' = Buffer!FifoClock(send, send_buffer_push, send_buffer_pop, send_buffer_input)
      BY DEF UartClock
    <2>3. send' \in Queues
      BY <2>1, <2>2, ClockTyped
    <2> QED
      BY <2>3 DEF Queues
  <1>4. rx_byte' \in Bytes
    <2>1. CASE RxReceive
      <3>1. WithBit(rx_byte, rx_current_bit, rxd) \in Bytes
        BY <1>1, ByteWritten DEF TxInv
      <3> QED
        BY <1>1, <2>1, <3>1 DEF RxReceive
    <2>2. CASE RxStart \/ RxStartBit \/ RxStopBit
      BY <1>1, <2>2 DEF RxStart, RxStartBit, RxStopBit
    <2> QED
      BY <1>2, <2>1, <2>2 DEF uart_receive
  <1>5. rx_current_bit' \in 0..(BITS - 1)
    <2>1. CASE RxReceive
      BY <1>1, <2>1 DEF RxReceive
    <2>2. CASE RxStart \/ RxStartBit \/ RxStopBit
      <3>1. rx_current_bit' = 0 \/ rx_current_bit' = rx_current_bit
        BY <2>2 DEF RxStart, RxStartBit, RxStopBit
      <3> QED
        BY <1>1, <3>1
    <2> QED
      BY <1>2, <2>1, <2>2 DEF uart_receive
  <1>6. (RxWaits \/ RxStarts \/ RxReceives \/ RxStops)'
    <2>1. CASE RxWaits
      BY <2>1, WaitStep
    <2>2. CASE RxStarts
      BY <1>1, <1>3, <2>2, StartStep
    <2>3. CASE RxReceives
      <3>1. send.data_out \in Nat
        BY <1>1, <2>3 DEF RxReceives
      <3> QED
        BY <2>3, <3>1, ReceiveStep
    <2>4. CASE RxStops
      BY <2>4, StopStep
    <2> QED
      BY <2>1, <2>2, <2>3, <2>4 DEF RxInv
  <1> QED
    BY <1>4, <1>5, <1>6 DEF RxInv

-----------------------------------------------------------------------------
(* What was written has arrived, is on its way, queued or about to be.     *)

LEMMA Opening ==
  ASSUME NEW s \in Seq(Int), NEW t \in Seq(Int)
  PROVE  /\ s \o t \in Seq(Int) /\ Len(s \o t) = Len(s) + Len(t)
         /\ \A i \in 1..Len(s) : (s \o t)[i] = s[i]
  <1>1. /\ s \o t \in Seq(Int) /\ Len(s \o t) = Len(s) + Len(t)
        /\ \A i \in 1..(Len(s) + Len(t)) :
             (s \o t)[i] = IF i <= Len(s) THEN s[i] ELSE t[i - Len(s)]
    BY ConcatProperties
  <1>2. Len(s) \in Nat /\ Len(t) \in Nat
    BY LenProperties
  <1> QED
    BY <1>1, <1>2

LEMMA OpeningIsPrefix ==
  ASSUME NEW s \in Seq(Int), NEW t \in Seq(Int)
  PROVE  IsPrefixOf(s, s \o t)
  <1>1. Len(s \o t) = Len(s) + Len(t) /\ Len(s) \in Nat /\ Len(t) \in Nat
    BY Opening, LenProperties
  <1>2. SubSeq(s \o t, 1, Len(s)) = s
    <2>1. CASE Len(s) = 0
      BY <1>1, <2>1, EmptySeq, SubSeqEmpty
    <2>2. CASE Len(s) # 0
      <3>1. 1 \in 1..Len(s) /\ Len(s) \in 1..Len(s)
        BY <1>1, <2>2
      <3> QED
        BY <3>1, SubSeqOfConcat1, SubSeqFull
    <2> QED
      BY <2>1, <2>2
  <1> QED
    BY <1>1, <1>2 DEF IsPrefixOf

LEMMA Parts ==
  ASSUME SentInv, BusInv
  PROVE  /\ arrived \in Seq(Int) /\ Flying \in Seq(Int) /\ Coming \in Seq(Int)
         /\ Queueing \in Seq(Int) /\ Buffer!Contents(send) \in Seq(Int)
         /\ arrived \o Flying \in Seq(Int) /\ sent \in Seq(Int)
  <1>1. /\ arrived \in Seq(Int) /\ send.data_out \in Int /\ send_buffer_input \in Int
        /\ Sending => bus.dat \in Int
        /\ send \in Queues
    BY DEF SentInv, Queues
  <1>2. Flying \in Seq(Int) /\ Coming \in Seq(Int) /\ Queueing \in Seq(Int)
    BY <1>1 DEF Flying, Coming, Queueing
  <1>3. Buffer!Contents(send) \in Seq(Int) /\ arrived \o Flying \in Seq(Int)
    BY <1>1, <1>2, ContentsAreSequence, ConcatProperties
  <1>4. ((arrived \o Flying) \o Buffer!Contents(send)) \o Coming \in Seq(Int)
    <2>1. (arrived \o Flying) \o Buffer!Contents(send) \in Seq(Int)
      BY <1>3, ConcatProperties
    <2> QED
      BY <1>2, <2>1, ConcatProperties
  <1> QED
    BY <1>1, <1>2, <1>3, <1>4 DEF SentInv

(* What is on the line is one of the bytes the software wrote.             *)
LEMMA FlyingIsByte ==
  ASSUME SentInv, BusInv, rx_state # "IDLE"
  PROVE  send.data_out \in Bytes
  <1> DEFINE x == send.data_out
             a == arrived
             C == Buffer!Contents(send)
             K == Coming
             i == Len(a) + 1
  <1>1. /\ a \in Seq(Int) /\ Flying \in Seq(Int) /\ K \in Seq(Int) /\ C \in Seq(Int)
        /\ a \o Flying \in Seq(Int) /\ sent \in Seq(Bytes)
        /\ sent = ((a \o Flying) \o C) \o K
    BY Parts DEF SentInv
  <1>2. Flying = << x >>
    BY DEF Flying
  <1> HIDE DEF x, a, C, K
  <1>3. Len(a) \in Nat /\ Len(C) \in Nat /\ Len(K) \in Nat
    BY <1>1, LenProperties
  <1>4. a \o << x >> \in Seq(Int) /\ Len(a \o << x >>) = i /\ (a \o << x >>)[i] = x
    <2>1. /\ Len(a \o Flying) = Len(a) + Len(Flying)
          /\ \A j \in 1..(Len(a) + Len(Flying)) :
               (a \o Flying)[j] = IF j <= Len(a) THEN a[j] ELSE Flying[j - Len(a)]
      BY <1>1, ConcatProperties
    <2>2. Len(Flying) = 1 /\ Flying[1] = x
      BY <1>2
    <2>3. i \in 1..(Len(a) + Len(Flying)) /\ i - Len(a) = 1 /\ ~(i <= Len(a))
      BY <1>3, <2>2
    <2> QED
      BY <1>1, <1>2, <2>1, <2>2, <2>3
  <1> DEFINE f == a \o << x >>
             g == f \o C
  <1>5. f \in Seq(Int) /\ Len(f) = i /\ f[i] = x /\ i \in Nat /\ i >= 1
    BY <1>3, <1>4
  <1>6. sent = g \o K
    BY <1>1, <1>2
  <1> HIDE DEF f, i
  <1>7. g \in Seq(Int) /\ Len(g) = i + Len(C) /\ g[i] = x
    <2>1. i \in 1..Len(f)
      BY <1>5
    <2> QED
      BY <1>1, <1>5, <2>1, Opening
  <1> HIDE DEF g
  <1>8. Len(sent) = Len(g) + Len(K) /\ sent[i] = x
    <2>1. i \in 1..Len(g)
      BY <1>3, <1>5, <1>7
    <2>2. Len(g \o K) = Len(g) + Len(K) /\ (g \o K)[i] = g[i]
      BY <1>1, <1>7, <2>1, Opening
    <2> QED
      BY <1>6, <1>7, <2>2
  <1>9. sent[i] \in Bytes
    <2>1. Len(sent) = (i + Len(C)) + Len(K)
      BY <1>7, <1>8
    <2>2. i \in 1..Len(sent)
      BY <1>3, <1>5, <2>1
    <2> QED
      BY <1>1, <2>2, ElementOfSeq
  <1> QED
    BY <1>8, <1>9 DEF x
(* A byte written is handed to the send queue once.                        *)
Fresh(f) ==
  /\ sent' = sent \o f
  /\ Coming \o f = Queueing \o Coming'

LEMMA NothingFresh ==
  ASSUME SentInv, BusInv, sent' = sent, Coming = Queueing, Coming' = << >>
  PROVE  Fresh(<< >>) /\ sent' \in Seq(Bytes)
  BY Parts, ConcatEmptySeq DEF SentInv, Fresh

LEMMA ComingStep ==
  ASSUME SentInv, BusInv, Next
  PROVE  /\ send_buffer_input' \in Int /\ (Sending' => bus'.dat \in Int)
         /\ sent' \in Seq(Bytes)
         /\ \E f \in Seq(Int) : Fresh(f)
  <1>1. /\ send_buffer_input \in Int /\ (Sending => bus.dat \in Int) /\ sent \in Seq(Bytes)
        /\ Coming \in Seq(Int) /\ Queueing \in Seq(Int) /\ sent \in Seq(Int)
        /\ << >> \in Seq(Int)
    BY Parts, EmptySeq DEF SentInv
  <1>2. wishbone /\ Software
    BY DEF Next, UartClock
  <1>3. send_buffer_input' \in Int
    <2>1. CASE WbWrite
      BY <1>1, <2>1 DEF WbWrite, Sending
    <2>2. CASE WbRead \/ WbIdle \/ WbWriteAck \/ WbReadAck
      BY <1>1, <2>2 DEF WbRead, WbIdle, WbWriteAck, WbReadAck
    <2> QED
      BY <1>2, <2>1, <2>2 DEF wishbone
  <1>4. bus.stb => sent' = sent
    BY <1>2 DEF Software, Finish, Wait, softwareVars
  <1>5. CASE ~bus.stb
    <2>1. wb_state' = "IDLE" /\ send_buffer_push' = FALSE
      BY <1>5, BusAtRest
    <2>2. Coming = Queueing
      BY <1>5 DEF Coming, Queueing, Sending
    <2>3. CASE uart_tx
      <3>1. PICK b \in Payloads : bus' = Write("transmit", b) /\ sent' = Append(sent, b)
        BY <2>3 DEF uart_tx
      <3>2. bus'.stb = TRUE /\ bus'.we = TRUE /\ bus'.adr = "transmit" /\ bus'.dat = b
        BY <3>1 DEF Write
      <3>3. b \in Bytes /\ b \in Int
        <4>1. b \in Bytes
          BY LinkAssumption
        <4> QED
          BY <4>1 DEF Bytes
      <3>4. Coming' = << b >>
        BY <2>1, <3>2 DEF Coming, Sending
      <3>5. sent' = sent \o << b >> /\ sent' \in Seq(Bytes)
        BY <1>1, <3>1, <3>3, AppendIsConcat, AppendProperties
      <3>6. << b >> \in Seq(Int)
        BY <3>3
      <3>7. Fresh(<< b >>)
        BY <2>2, <3>4, <3>5 DEF Fresh
      <3> QED
        BY <1>3, <3>2, <3>3, <3>5, <3>6, <3>7
    <2>4. CASE ~uart_tx
      <3>1. sent' = sent /\ ~Sending'
        <4>1. CASE Finish
          BY <1>5, <4>1 DEF Finish
        <4>2. CASE Wait
          BY <1>5, <4>2 DEF Wait, softwareVars, Sending
        <4>3. CASE uart_set_divisor
          <5>1. PICK d \in Divisors : bus' = Write("divisor", d)
            BY <4>3 DEF uart_set_divisor
          <5>2. bus'.adr = "divisor"
            BY <5>1 DEF Write
          <5> QED
            BY <4>3, <5>2 DEF uart_set_divisor, Sending
        <4>4. CASE uart_enable_interrupt
          <5>1. bus'.adr = "interrupt"
            BY <4>4 DEF uart_enable_interrupt, Write
          <5> QED
            BY <4>4, <5>1 DEF uart_enable_interrupt, Sending
        <4>5. CASE uart_rx
          BY <4>5, Fields DEF uart_rx, Sending
        <4>6. CASE uart_status
          BY <4>6, Fields DEF uart_status, softwareVars, Sending
        <4> QED
          BY <1>2, <2>4, <4>1, <4>2, <4>3, <4>4, <4>5, <4>6 DEF Software
      <3>2. Coming' = << >>
        BY <2>1, <3>1 DEF Coming
      <3>3. Fresh(<< >>) /\ sent' \in Seq(Bytes)
        BY <2>2, <3>1, <3>2, NothingFresh
      <3> QED
        BY <1>1, <1>3, <3>1, <3>3
    <2> QED
      BY <2>3, <2>4
  <1>6. CASE bus.stb /\ wb_state = "IDLE" /\ Sending
    <2>1. WbWrite
      BY <1>2, <1>6 DEF wishbone, WbRead, WbIdle, WbWriteAck, WbReadAck, Sending
    <2>2. /\ bus' = bus /\ send_buffer_push' = TRUE
          /\ wb_state' = "WRITE_ACK"
      BY <1>6, TakenWrite DEF Sending
    <2>3. send_buffer_input' = bus.dat
      BY <1>6, <2>1 DEF WbWrite, Sending
    <2>4. send_buffer_push = FALSE
      BY <1>6 DEF BusInv
    <2>5. Coming = << bus.dat >> /\ Coming' = << bus.dat >> /\ Queueing = << >>
      BY <1>6, <2>2, <2>3, <2>4 DEF Coming, Queueing
    <2>6. sent' = sent \o << >> /\ Coming \o << >> = << >> \o Coming'
      BY <1>1, <1>4, <1>6, <2>5, ConcatEmptySeq
    <2>7. Fresh(<< >>)
      BY <2>5, <2>6 DEF Fresh
    <2> QED
      BY <1>1, <1>3, <1>4, <1>6, <2>2, <2>7 DEF Sending
  <1>7. CASE bus.stb /\ ~(wb_state = "IDLE" /\ Sending)
    <2>1. Coming = Queueing
      BY <1>7 DEF Coming, Queueing
    <2>2. /\ ~send_buffer_push' /\ ~(wb_state' = "IDLE" /\ Sending')
          /\ Sending' => bus'.dat \in Int
      <3>1. CASE wb_state = "IDLE" /\ bus.we
        BY <1>1, <1>7, <3>1, TakenWrite DEF Sending
      <3>2. CASE wb_state = "IDLE" /\ ~bus.we
        BY <1>1, <1>7, <3>2, TakenRead DEF Sending
      <3>3. CASE wb_state # "IDLE" /\ ~wb_ack
        BY <1>1, <1>7, <3>3, Delivering DEF Sending
      <3>4. CASE wb_state # "IDLE" /\ wb_ack
        BY <1>1, <1>7, <3>4, Answered, Fields DEF Sending
      <3> QED
        BY <3>1, <3>2, <3>3, <3>4
    <2>3. Coming' = << >>
      BY <2>2 DEF Coming
    <2>4. Fresh(<< >>) /\ sent' \in Seq(Bytes)
      BY <1>4, <1>7, <2>1, <2>3, NothingFresh
    <2> QED
      BY <1>1, <1>3, <2>2, <2>4
  <1> QED
    BY <1>5, <1>6, <1>7

(* A byte is on the line from the pop until the receiver has it.           *)
LEMMA FlyingStep ==
  ASSUME Octets, EnoughSamples, SentInv, BusInv, RequestInv, TxInv, RxInv, ClockInv, Next
  PROVE  /\ arrived' \in Seq(Int)
         /\ arrived' \o Flying' =
              IF send_buffer_pop THEN (arrived \o Flying) \o << send.memory[send.bottom] >>
              ELSE arrived \o Flying
  <1>1. /\ UartClock /\ uart_receive /\ uart_transmit
        /\ arrived' = IF rx_state = "STOPBIT" /\ rx_state' = "IDLE"
                      THEN Append(arrived, rx_byte) ELSE arrived
        /\ arrived \in Seq(Int) /\ rx_byte \in Int
        /\ arrived \o << >> = arrived
        /\ BITS \in Nat /\ BITS >= 1 /\ BITS \in 0..BITS
    <2>1. arrived \in Seq(Int)
      BY DEF SentInv
    <2>2. rx_byte \in Int /\ BITS \in Nat /\ BITS >= 1 /\ BITS \in 0..BITS
      BY BytesBound DEF RxInv
    <2> QED
      BY <2>1, <2>2, ConcatEmptySeq DEF Next, UartClock, RecordArrival
  <1>2. CASE send_buffer_pop
    <2>1. rx_state = "IDLE" /\ tx_state = "TRANSMIT"
      BY <1>2, Popping DEF RequestInv
    <2>2. TxTransmit
      BY <1>1, <2>1 DEF uart_transmit, TxStart, TxStopBit
    <2>3. tx_state' = "TRANSMIT" /\ send_buffer_pop' = FALSE
      BY <1>2, <2>1, <2>2 DEF TxTransmit
    <2>4. send'.data_out = send.memory[send.bottom]
      BY <1>1, <1>2 DEF UartClock, Buffer!FifoClock
    <2>5. Flying = << >> /\ Flying' = << send.memory[send.bottom] >> /\ arrived' = arrived
      BY <1>1, <1>2, <2>1, <2>3, <2>4 DEF Flying
    <2> QED
      BY <1>1, <1>2, <2>5
  <1>3. CASE ~send_buffer_pop /\ rx_state = "STOPBIT" /\ rx_state' = "IDLE"
    <2>1. RxStopBit /\ RxStops /\ Between(BITS)
      BY <1>1, <1>3 DEF uart_receive, RxStart, RxStartBit, RxReceive,
                        RxInv, RxWaits, RxStarts, RxReceives, RxStops
    <2>2. RxSample /\ rx_sample_value' = rx_sample_value
      BY <1>3, <2>1 DEF RxStopBit
    <2>3. Slot = BITS + 1 /\ Slot' = BITS + 1 /\ ~uart_tx_clk
      BY <1>1, <2>1, <2>2, Sampled
    <2>4. tx_state' # "TRANSMIT"
      <3>1. tx_current_bit' \in 0..(BITS - 1)
        BY <1>1, TxMoves
      <3>2. tx_current_bit' # BITS + 1
        BY <1>1, <3>1
      <3> QED
        BY <2>3, <3>2 DEF Slot
    <2>5. rx_byte = send.data_out
      <3>1. send.data_out \in Bytes /\ rx_byte \in Bytes
        BY <1>3, FlyingIsByte DEF RxInv
      <3>2. rx_byte % 2^BITS = send.data_out % 2^BITS
        BY <2>1 DEF RxStops, Agree
      <3> QED
        BY <3>1, <3>2, SameByte
    <2>6. Flying = << rx_byte >> /\ Flying' = << >> /\ arrived' = Append(arrived, rx_byte)
      BY <1>1, <1>3, <2>4, <2>5 DEF Flying
    <2>7. arrived' = arrived \o << rx_byte >> /\ arrived' \in Seq(Int)
      BY <1>1, <2>6, AppendIsConcat, AppendProperties
    <2>8. arrived' \o << >> = arrived'
      BY <2>7, ConcatEmptySeq
    <2> QED
      BY <1>3, <2>6, <2>7, <2>8
  <1>4. CASE ~send_buffer_pop /\ ~(rx_state = "STOPBIT" /\ rx_state' = "IDLE")
    <2>1. arrived' = arrived /\ send'.data_out = send.data_out
      BY <1>1, <1>4, TxMoves
    <2>2. CASE rx_state # "IDLE"
      <3>1. rx_state' # "IDLE"
        BY <1>1, <1>4, <2>2 DEF uart_receive, RxStart, RxStartBit, RxReceive, RxStopBit
      <3>2. Flying = << send.data_out >> /\ Flying' = << send.data_out >>
        BY <2>1, <2>2, <3>1 DEF Flying
      <3> QED
        BY <1>1, <1>4, <2>1, <3>2
    <2>3. CASE rx_state = "IDLE" /\ tx_state = "TRANSMIT"
      <3>1. Slot < BITS
        BY <2>3, Slots
      <3>2. Slot # BITS + 1
        BY <1>1, <2>3, <3>1, Slots
      <3>3. Slot = 0 /\ ~uart_tx_clk
        BY <2>3, <3>2 DEF RxInv, RxWaits, RxStarts, RxReceives, RxStops
      <3>4. Slot' = 0 /\ ~send_buffer_pop'
        BY <1>1, <3>3, TxMoves
      <3>5. tx_state' = "TRANSMIT"
        <4>1. BITS # 0 /\ BITS + 1 # 0
          BY <1>1
        <4> QED
          BY <3>4, <4>1 DEF Slot
      <3>6. Flying = << send.data_out >> /\ Flying' = << send.data_out >>
        BY <1>4, <2>1, <2>3, <3>4, <3>5 DEF Flying
      <3> QED
        BY <1>1, <1>4, <2>1, <3>6
    <2>4. CASE rx_state = "IDLE" /\ tx_state # "TRANSMIT"
      <3>1. Slot # 0
        <4>1. BITS # 0 /\ BITS + 1 # 0
          BY <1>1
        <4> QED
          BY <2>4, <4>1 DEF Slot
      <3>2. Slot = BITS + 1
        BY <2>4, <3>1 DEF RxInv, RxWaits, RxStarts, RxReceives, RxStops
      <3>3. rx_state' = "IDLE"
        <4>1. rxd
          BY <3>2 DEF TxInv
        <4> QED
          BY <1>1, <2>4, <4>1 DEF uart_receive, RxStart, RxStartBit, RxReceive, RxStopBit
      <3>4. send_buffer_pop' \/ tx_state' # "TRANSMIT"
        <4>1. send_buffer_pop' \/ Slot' = BITS + 1
          BY <1>1, <3>2, TxMoves
        <4>2. tx_current_bit' \in 0..(BITS - 1)
          BY <1>1, TxMoves
        <4>3. tx_current_bit' # BITS + 1
          BY <1>1, <4>2
        <4> QED
          BY <4>1, <4>3 DEF Slot
      <3>5. Flying = << >> /\ Flying' = << >>
        BY <2>4, <3>3, <3>4 DEF Flying
      <3> QED
        BY <1>1, <1>4, <2>1, <3>5
    <2> QED
      BY <2>2, <2>3, <2>4
  <1> QED
    BY <1>2, <1>3, <1>4 DEF RequestInv

LEMMA SentStep ==
  ASSUME Octets, EnoughSamples, SentInv, BusInv, RequestInv, TxInv, RxInv, ClockInv, Next
  PROVE  SentInv'
  <1> DEFINE q == Buffer!Contents(send)
             front == arrived \o Flying
             pop == send_buffer_pop
  <1>1. /\ send \in Queues /\ send_buffer_input \in Int
        /\ send_buffer_push \in BOOLEAN /\ pop \in BOOLEAN
        /\ send_buffer_push => ~Buffer!Full(send)
        /\ pop => ~Buffer!Empty(send)
        /\ send' = Buffer!FifoClock(send, send_buffer_push, pop, send_buffer_input)
    BY DEF SentInv, BusInv, RequestInv, QueuesRespected, Next, UartClock
  <1>2. /\ Buffer!Contents(send') = (IF pop THEN Tail(q) ELSE q) \o Queueing
        /\ pop => q # << >> /\ send.memory[send.bottom] = Head(q)
    BY <1>1, ClockContents DEF Queueing
  <1>3. send' \in Queues
    BY <1>1, ClockTyped
  <1>4. /\ q \in Seq(Int) /\ front \in Seq(Int) /\ Queueing \in Seq(Int)
        /\ Coming \in Seq(Int) /\ sent = (front \o q) \o Coming
    BY Parts DEF SentInv
  <1>5. /\ arrived' \in Seq(Int)
        /\ arrived' \o Flying' = IF pop THEN front \o << send.memory[send.bottom] >> ELSE front
    BY FlyingStep
  <1>6. /\ send_buffer_input' \in Int /\ (Sending' => bus'.dat \in Int) /\ sent' \in Seq(Bytes)
        /\ \E f \in Seq(Int) : Fresh(f)
    BY ComingStep
  <1>7. PICK f \in Seq(Int) : sent' = sent \o f /\ Coming \o f = Queueing \o Coming'
    BY <1>6 DEF Fresh
  <1>8. Coming' \in Seq(Int)
    <2>1. send_buffer_input' \in Int /\ (Sending' => bus'.dat \in Int)
      BY <1>6
    <2> QED
      BY <2>1 DEF Coming
  <1>9. Buffer!Contents(send') \in Seq(Int)
    BY <1>3, ContentsAreSequence
  <1> HIDE DEF q, front, pop
  <1>10. (front \o q) \o Queueing = (arrived' \o Flying') \o Buffer!Contents(send')
    <2>1. CASE pop
      <3>1. q # << >> /\ send.memory[send.bottom] = Head(q)
        BY <1>2, <2>1
      <3>2. (front \o q) \o Queueing = (front \o << Head(q) >>) \o (Tail(q) \o Queueing)
        BY <1>4, <3>1, Shift
      <3> QED
        BY <1>2, <1>5, <2>1, <3>1, <3>2
    <2>2. CASE ~pop
      <3>1. (front \o q) \o Queueing = front \o (q \o Queueing)
        BY <1>4, Regroup
      <3> QED
        BY <1>2, <1>5, <2>2, <3>1
    <2> QED
      BY <2>1, <2>2
  <1>11. sent' = ((arrived' \o Flying') \o Buffer!Contents(send')) \o Coming'
    <2> DEFINE o == front \o q
    <2>1. o \in Seq(Int)
      BY <1>4, ConcatProperties
    <2>2. sent' = (o \o Coming) \o f
      BY <1>4, <1>7
    <2> HIDE DEF o
    <2>3. (o \o Coming) \o f = o \o (Coming \o f)
      BY <1>4, <1>7, <2>1, Regroup
    <2>4. o \o (Queueing \o Coming') = (o \o Queueing) \o Coming'
      BY <1>4, <1>8, <2>1, Regroup
    <2>5. sent' = (o \o Queueing) \o Coming'
      BY <1>7, <2>2, <2>3, <2>4
    <2> QED
      BY <1>10, <2>5 DEF o
  <1> QED
    BY <1>3, <1>5, <1>6, <1>11 DEF SentInv

-----------------------------------------------------------------------------
(* The invariant of the line, and what it is for.                          *)

LEMMA EmptyAtFirst ==
  ASSUME NEW f, f = Buffer!NewFifo(0)
  PROVE  f \in Queues /\ Buffer!Contents(f) = << >>
  <1>1. f \in Queues
    <2>1. 0 \in 0..(Depth - 1)
      BY DepthPositive
    <2> QED
      BY <2>1 DEF Buffer!NewFifo, Buffer!Slots, Queues, Depth
  <1>2. Buffer!Queued(f) = 0
    <2>1. f.top = f.bottom /\ f.prev_op = "FIFO_POP"
      BY DEF Buffer!NewFifo
    <2> QED
      BY <1>1, <2>1, QueuedClosed DEF Distance
  <1> QED
    BY <1>1, <1>2, ContentsAreSequence, EmptySeq

LEMMA InitLine ==
  ASSUME Octets, EnoughSamples, Init
  PROVE  LineInv
  <1>1. BITS \in Nat /\ BITS >= 1 /\ 0 \in Bytes /\ 0 \in 0..(BITS - 1)
    <2>1. 2^BITS >= 1 /\ 2^BITS \in Nat
      BY BytesBound
    <2> QED
      BY <2>1, BytesBound
  <1>2. Slot = BITS + 1
    BY DEF Slot, Init, UartInit
  <1>3. UartInv
    BY InitInv
  <1>4. ClockInv
    <2>1. 0 \in 0..(OVERSAMPLING - 1)
      BY Halves
    <2> QED
      BY <2>1 DEF ClockInv, Init, UartInit
  <1>5. TxInv
    <2>1. Slot # 0 /\ \A n \in 1..BITS : Slot # n
      BY <1>1, <1>2
    <2>2. rxd = TRUE /\ txd = TRUE /\ tx_state = "IDLE" /\ tx_current_bit = 0
          /\ send_buffer_pop = FALSE
      BY DEF Init, UartInit
    <2> QED
      BY <1>1, <2>1, <2>2 DEF TxInv
  <1>6. RxInv
    BY <1>1, <1>2 DEF RxInv, RxWaits, Init, UartInit
  <1>7. SentInv
    <2>1. send \in Queues /\ Buffer!Contents(send) = << >>
      BY EmptyAtFirst DEF Init, UartInit
    <2>2. Flying = << >> /\ Coming = << >> /\ ~Sending
      BY Fields DEF Flying, Coming, Sending, Init, UartInit
    <2>3. /\ sent = << >> /\ arrived = << >> /\ send_buffer_input = 0
      BY DEF Init, UartInit
    <2>4. << >> \o << >> = << >>
      BY EmptySeq, ConcatEmptySeq
    <2> QED
      BY <2>1, <2>2, <2>3, <2>4, EmptySeq DEF SentInv
  <1> QED
    BY <1>3, <1>4, <1>5, <1>6, <1>7 DEF LineInv

LEMMA StutterLine == LineInv /\ UNCHANGED vars => LineInv'
  <1> SUFFICES ASSUME LineInv, UNCHANGED vars PROVE LineInv'
    OBVIOUS
  <1>1. UartInv'
    BY StutterInv DEF LineInv
  <1> USE DEF vars, uartVars, softwareVars
  <1>2. ClockInv'
    BY DEF LineInv, ClockInv
  <1>3. Slot' = Slot
    BY DEF Slot
  <1>4. TxInv'
    BY <1>3 DEF LineInv, TxInv
  <1>5. RxInv'
    BY <1>3 DEF LineInv, RxInv, RxWaits, RxStarts, RxReceives, RxStops, Between, Agree
  <1>6. SentInv'
    BY DEF LineInv, SentInv, Flying, Coming, Sending
  <1> QED
    BY <1>1, <1>2, <1>4, <1>5, <1>6 DEF LineInv

(* The receiver samples every bit in its own slot, and what the software   *)
(* has written is what arrived, what is on the line, what is queued and    *)
(* what is being handed over (pp_soc_uart 122-254).                        *)
THEOREM LineIsSound ==
  ASSUME Octets, EnoughSamples
  PROVE  Spec => []LineInv
  <1>1. LineInv /\ Next => LineInv'
    <2> SUFFICES ASSUME LineInv, Next PROVE LineInv'
      OBVIOUS
    <2>1. /\ UartInv /\ RecvInv /\ BusInv /\ PollingInv /\ RequestInv /\ HistoryInv
          /\ ClockInv /\ TxInv /\ RxInv /\ SentInv /\ UartClock
      BY DEF LineInv, UartInv, Next
    <2>2. UartInv'
      BY <2>1, RecvStep, BusStep, PollingStep, RequestStep, HistoryStep DEF UartInv
    <2>3. ClockInv'
      BY <2>1, Ticks
    <2>4. TxInv'
      BY <2>1, LineStep
    <2>5. RxInv'
      <3>1. /\ send \in Queues /\ send_buffer_push \in BOOLEAN /\ send_buffer_input \in Int
            /\ rx_state # "IDLE" => send.data_out \in Bytes
        BY <2>1, FlyingIsByte DEF SentInv, BusInv
      <3> QED
        BY <2>1, <3>1, RxStep
    <2>6. SentInv'
      BY <2>1, SentStep
    <2> QED
      BY <2>2, <2>3, <2>4, <2>5, <2>6 DEF LineInv
  <1>2. LineInv /\ [Next]_vars => LineInv'
    BY <1>1, StutterLine
  <1> QED
    BY <1>2, InitLine, PTL DEF Spec

(* The characters that come out of the receiver are those the software     *)
(* wrote, in order, each once, for queues of every depth, every payload    *)
(* and every sequence of values the divisor is given, and whatever the     *)
(* software does meanwhile (pp_soc_uart 122-254 and 287-377).              *)
THEOREM LineIsInOrder ==
  ASSUME Octets, EnoughSamples
  PROVE  Spec => []LineInOrder
  <1>1. LineInv => LineInOrder
    <2> SUFFICES ASSUME LineInv PROVE LineInOrder
      OBVIOUS
    <2>1. SentInv /\ BusInv
      BY DEF LineInv, UartInv
    <2> DEFINE q == Buffer!Contents(send)
               rest == (Flying \o q) \o Coming
    <2>2. /\ arrived \in Seq(Int) /\ Flying \in Seq(Int) /\ Coming \in Seq(Int)
          /\ q \in Seq(Int) /\ sent = ((arrived \o Flying) \o q) \o Coming
      BY <2>1, Parts DEF SentInv
    <2>3. Flying \o q \in Seq(Int) /\ rest \in Seq(Int)
      <3>1. Flying \o q \in Seq(Int)
        BY <2>2, ConcatProperties
      <3> QED
        BY <2>2, <3>1, ConcatProperties
    <2> HIDE DEF q
    <2>4. (arrived \o Flying) \o q = arrived \o (Flying \o q)
      BY <2>2, Regroup
    <2>5. (arrived \o (Flying \o q)) \o Coming = arrived \o rest
      BY <2>2, <2>3, Regroup
    <2>6. sent = arrived \o rest
      BY <2>2, <2>4, <2>5
    <2> QED
      BY <2>2, <2>3, <2>6, OpeningIsPrefix DEF LineInOrder
  <1> QED
    BY <1>1, LineIsSound, PTL


-----------------------------------------------------------------------------
(***************************************************************************)
(* Why the receiver gets the characters of a sender with a clock of its    *)
(* own. Time is the age of a frame, the edges since the line fell. The     *)
(* sample that sees it fall comes within one period of the sample clock,   *)
(* and every later one is a whole number of periods after that one.        *)
(***************************************************************************)

\* The divisor is set once, as the software does.
DivisorOnce == MaxDivisorWrites = 1

(* The divisor is 0 until it is written, and then one of Divisors.         *)
DivisorInv ==
  /\ divisor_writes \in 0..1
  /\ wb_state \in { "IDLE", "WRITE_ACK" }
  /\ divisor_writes = 0 => bus = Idle /\ wb_state = "IDLE" /\ ~wb_ack /\ sample_clk_divisor = 0
  /\ bus \in { Idle } \cup { Write("divisor", d) : d \in Divisors }
  /\ bus.stb => (wb_ack <=> wb_state = "WRITE_ACK")
  /\ bus.stb /\ wb_ack => sample_clk_divisor = bus.dat
  /\ bus.stb /\ ~wb_ack => sample_clk_divisor = 0
  /\ divisor_writes = 1 /\ ~bus.stb => sample_clk_divisor \in Divisors

(* The sample clock stands until the divisor is written, and has begun a   *)
(* period when the bus is idle again.                                      *)
PaceInv ==
  /\ sample_clk \in BOOLEAN
  /\ sample_clk_divisor = 0 => ~sample_clk /\ sample_clk_counter = 0
  /\ sample_clk_divisor # 0 =>
       /\ sample_clk_divisor \in Divisors
       /\ sample_clk_counter \in 0..sample_clk_divisor
       /\ sample_clk => sample_clk_counter = 0
       /\ sample_clk_counter = 0 => sample_clk \/ bus.stb

\* Edges until the sample clock ticks.
UntilTick == IF sample_clk THEN 0 ELSE sample_clk_divisor + 1 - sample_clk_counter

\* Edges since the line fell.
FrameAge == position * bit_time + (bit_time - 1 - ticks)

(* The sender (UartLine: BeginFrame, HoldBit, NextBit, StayQuiet).         *)
SenderInv ==
  /\ position \in 0..Quiet /\ frame \in Bytes
  /\ rxd = Level(frame, position)
  /\ sent \in Seq(Bytes)
  /\ position # Quiet =>
       /\ bit_time \in BitTimes /\ ticks \in 0..(bit_time - 1)
       /\ divisor_writes = 1 /\ ~bus.stb

\* Ticks that a counter of samples takes to a value.
Left(counter, value) ==
  IF counter <= value THEN value - counter ELSE value - counter + OVERSAMPLING

\* Ticks from the next one to the one that is the sample of the bit.
TicksLeft ==
  IF rx_state = "STARTBIT" THEN MiddleOfBit - rx_sample_delay
  ELSE IF rx_state = "IDLE" THEN 0
  ELSE Left(rx_sample_counter, rx_sample_value)

\* Age of the frame at that tick.
SampleAge == FrameAge + UntilTick + TicksLeft * (sample_clk_divisor + 1)

\* It is where bit k is to be sampled, less than a period late.
Aims(at) == at <= SampleAge /\ SampleAge <= at + sample_clk_divisor

\* The low n bits of what was received are those of the frame.
Fits(n) == rx_byte % 2^n = frame % 2^n

FrameEnds == rx_state = "IDLE" /\ position \in { BITS + 1, Quiet } /\ arrived = sent

FrameBegins == rx_state = "IDLE" /\ position # Quiet /\ Aims(0)

FrameStarts ==
  /\ rx_state = "STARTBIT" /\ position # Quiet /\ rx_current_bit = 0
  /\ rx_sample_delay \in 0..MiddleOfBit
  /\ Aims(SampleOf(0, sample_clk_divisor))

FrameReceives ==
  /\ rx_state = "RECEIVE" /\ position # Quiet
  /\ Aims(SampleOf(rx_current_bit + 1, sample_clk_divisor))
  /\ Fits(rx_current_bit)

FrameStops ==
  /\ rx_state = "STOPBIT" /\ position # Quiet
  /\ Aims(SampleOf(BITS + 1, sample_clk_divisor))
  /\ Fits(BITS)

ReceiverTyped ==
  /\ rx_sample_counter \in 0..(OVERSAMPLING - 1) /\ rx_sample_value \in 0..(OVERSAMPLING - 1)
  /\ rx_current_bit \in 0..(BITS - 1) /\ rx_byte \in Bytes /\ arrived \in Seq(Bytes)

(* The receiver waits for the sample of the next bit (pp_soc_uart 122-172).*)
FrameInv ==
  /\ FrameEnds \/ FrameBegins \/ FrameStarts \/ FrameReceives \/ FrameStops
  /\ ~FrameEnds => sent = Append(arrived, frame)

DriftInv == DivisorInv /\ PaceInv /\ SenderInv /\ ReceiverTyped /\ FrameInv

-----------------------------------------------------------------------------
(* Arithmetic of times.                                                    *)

LEMMA SampleHalves ==
  /\ OVERSAMPLING \in Nat /\ OVERSAMPLING >= 2
  /\ MiddleOfBit \in Nat /\ OVERSAMPLING = 2 * (MiddleOfBit + 1)
  /\ OVERSAMPLING \div 2 = MiddleOfBit + 1
  BY UartAssumption DEF MiddleOfBit

LEMMA ProductGrows ==
  ASSUME NEW a \in Nat, NEW b \in Nat, a <= b, NEW t \in Nat
  PROVE  a * t <= b * t
  <1>1. PICK c \in Nat : b = a + c
    <2>1. b - a \in Nat /\ b = a + (b - a)
      OBVIOUS
    <2> QED
      BY <2>1
  <1>2. c * t >= 0 /\ b * t = a * t + c * t
    BY <1>1
  <1>3. a * t \in Int /\ b * t \in Int /\ c * t \in Int
    OBVIOUS
  <1> QED
    BY <1>2, <1>3

(* An age is in one bit only.                                              *)
LEMMA OneBit ==
  ASSUME NEW k \in Nat, NEW q \in Nat, NEW t \in Nat, NEW a \in Nat,
         k * t <= a, a < (k + 1) * t, q * t <= a, a < (q + 1) * t
  PROVE  k = q
  <1>1. k * t \in Nat /\ q * t \in Nat /\ (k + 1) * t \in Nat /\ (q + 1) * t \in Nat
    OBVIOUS
  <1>2. k + 1 <= q => FALSE
    <2>1. k + 1 <= q => (k + 1) * t <= q * t
      BY ProductGrows
    <2> QED
      BY <1>1, <2>1
  <1>3. q + 1 <= k => FALSE
    <2>1. q + 1 <= k => (q + 1) * t <= k * t
      BY ProductGrows
    <2> QED
      BY <1>1, <2>1
  <1> QED
    BY <1>2, <1>3

LEMMA SamplesApart ==
  ASSUME NEW k \in Nat, NEW d \in Nat
  PROVE  /\ SampleOf(k, d) \in Nat
         /\ SampleOf(0, d) = (MiddleOfBit + 1) * (d + 1)
         /\ SampleOf(k + 1, d) = SampleOf(k, d) + OVERSAMPLING * (d + 1)
         /\ SampleOf(k, d) <= SampleOf(k + 1, d)
         /\ SampleOf(k, d) >= d
  <1> DEFINE h == MiddleOfBit + 1
             n == OVERSAMPLING
             p == d + 1
  <1>1. h \in Nat /\ h >= 1 /\ n \in Nat /\ p \in Nat /\ p >= 1 /\ OVERSAMPLING \div 2 = h
    BY SampleHalves
  <1>2. \A j \in Nat : SampleOf(j, d) = p * (h + n * j)
    BY <1>1 DEF SampleOf
  <1> HIDE DEF h, n, p
  <1>3. SampleOf(k, d) = p * (h + n * k) /\ SampleOf(k + 1, d) = p * (h + n * (k + 1)) /\ SampleOf(0, d) = p * (h + n * 0)
    BY <1>2
  <1>4. n * k \in Nat /\ p * n \in Nat /\ p * (n * k) \in Nat /\ p * h \in Nat
    BY <1>1
  <1>5. p * (h + n * k) = p * h + p * (n * k) /\ p * (h + n * (k + 1)) = p * h + p * (n * k) + p * n
    BY <1>1, <1>4
  <1>6. p <= p * h
    <2>1. 1 * p <= h * p
      BY <1>1, ProductGrows
    <2> QED
      BY <1>1, <2>1
  <1>7. SampleOf(0, d) = h * p /\ p * n = n * p
    BY <1>1, <1>3
  <1>8. p >= d
    BY DEF p
  <1>9. SampleOf(k, d) \in Nat /\ SampleOf(k, d) <= SampleOf(k + 1, d) /\ SampleOf(k, d) >= d
    BY <1>1, <1>3, <1>4, <1>5, <1>6, <1>8
  <1>10. SampleOf(k + 1, d) = SampleOf(k, d) + n * p
    BY <1>3, <1>4, <1>5, <1>7
  <1> QED
    BY <1>7, <1>9, <1>10 DEF h, n, p

(* Where a sample aimed at bit k falls; the line is seen to fall in bit 0. *)
LEMMA SampleFalls ==
  ASSUME Timely, NEW d \in Divisors, NEW t \in BitTimes, NEW k \in 1..(BITS + 1)
  PROVE  /\ d \in Nat /\ d >= 1 /\ t \in Nat /\ t >= 1 /\ BITS \in Nat
         /\ SampleOf(k, d) \in Nat /\ k * t \in Nat /\ (k + 1) * t \in Nat
         /\ k * t <= SampleOf(k, d) /\ SampleOf(k, d) + d < (k + 1) * t
         /\ d < t
         /\ SampleOf(0, d) \in Nat /\ SampleOf(0, d) + d < 2 * t
  <1>1. d \in Nat /\ t \in Nat /\ t >= 1 /\ BITS \in Nat /\ d # 0
    BY UartAssumption, LinkAssumption, LineAssumption DEF Timely
  <1>2. k * t <= SampleOf(k, d) /\ SampleOf(k, d) + d < (k + 1) * t
    BY DEF Timely
  <1>3. 1 \in 1..(BITS + 1)
    BY <1>1
  <1>4. SampleOf(1, d) + d < (1 + 1) * t
    BY <1>3 DEF Timely
  <1>5. /\ SampleOf(k, d) \in Nat /\ SampleOf(0, d) \in Nat /\ SampleOf(1, d) \in Nat
        /\ SampleOf(0, d) <= SampleOf(1, d) /\ SampleOf(0, d) >= d
    <2>1. k \in Nat /\ 0 \in Nat /\ 1 \in Nat /\ 0 + 1 = 1
      BY <1>1
    <2>2. SampleOf(0, d) \in Nat /\ SampleOf(0, d) >= d /\ SampleOf(0, d) <= SampleOf(0 + 1, d)
      BY <1>1, SamplesApart
    <2>3. SampleOf(k, d) \in Nat /\ SampleOf(1, d) \in Nat
      BY <1>1, <2>1, SamplesApart
    <2> QED
      BY <2>1, <2>2, <2>3
  <1>6. k * t \in Nat /\ (k + 1) * t \in Nat /\ (1 + 1) * t = 2 * t
    BY <1>1
  <1>7. SampleOf(0, d) + d < 2 * t /\ 2 * d < 2 * t
    BY <1>1, <1>4, <1>5, <1>6
  <1> QED
    BY <1>1, <1>2, <1>5, <1>6, <1>7

-----------------------------------------------------------------------------
(* The bus, the sample clock and the sender.                               *)

LEMMA BusShapes ==
  /\ ~Idle.stb
  /\ \A d : LET w == Write("divisor", d) IN w.stb /\ w.we /\ w.adr = "divisor" /\ w.dat = d
  BY DEF Idle, Write

(* The sample clock, as long as the divisor is what it is.                 *)
LEMMA TickStep ==
  ASSUME PaceInv, sample_clk_divisor # 0, sample_clock_generator,
         sample_clk_divisor' = sample_clk_divisor
  PROVE  /\ sample_clk_divisor \in Nat
         /\ sample_clk' \in BOOLEAN /\ sample_clk_counter' \in 0..sample_clk_divisor
         /\ sample_clk' => sample_clk_counter' = 0
         /\ sample_clk_counter' = 0 => sample_clk'
         /\ sample_clk => UntilTick = 0 /\ UntilTick' = sample_clk_divisor
         /\ ~sample_clk => UntilTick \in Nat /\ UntilTick >= 1 /\ UntilTick' = UntilTick - 1
         /\ UntilTick' \in 0..sample_clk_divisor
  <1> DEFINE d == sample_clk_divisor
             c == sample_clk_counter
  <1>1. /\ d \in 1..(CounterRange - 1) /\ c \in 0..d /\ sample_clk \in BOOLEAN
        /\ sample_clk => c = 0
    <2>1. d \in Divisors /\ c \in 0..d /\ sample_clk \in BOOLEAN /\ (sample_clk => c = 0)
      BY DEF PaceInv
    <2>2. Divisors \subseteq 0..(CounterRange - 1) /\ CounterRange \in Nat
      BY LinkAssumption, UartAssumption
    <2>3. d \in 1..(CounterRange - 1)
      BY <2>1, <2>2
    <2> QED
      BY <2>1, <2>3
  <1>2. CounterRange \in Nat
    BY UartAssumption
  <1>3. CASE c = d
    <2>1. sample_clk' = TRUE /\ c' = 0
      BY <1>3 DEF sample_clock_generator
    <2>2. ~sample_clk
      BY <1>1, <1>3
    <2>3. UntilTick = 1 /\ UntilTick' = 0
      BY <1>1, <1>3, <2>1, <2>2 DEF UntilTick
    <2> QED
      BY <1>1, <2>1, <2>2, <2>3
  <1>4. CASE c # d
    <2>1. c + 1 \in 1..d /\ (c + 1) % CounterRange = c + 1
      BY <1>1, <1>2, <1>4
    <2>2. sample_clk' = FALSE /\ c' = c + 1
      BY <1>4, <2>1 DEF sample_clock_generator
    <2>3. UntilTick' = d + 1 - (c + 1)
      BY <2>2 DEF UntilTick
    <2>4. CASE sample_clk
      <3>1. UntilTick = 0 /\ UntilTick' = d
        BY <1>1, <2>3, <2>4 DEF UntilTick
      <3>2. d \in 0..d /\ d \in Nat /\ c' # 0 /\ c' \in 0..d
        BY <1>1, <2>1, <2>2
      <3>3. UntilTick' \in 0..d
        BY <3>1, <3>2
      <3> QED
        BY <2>2, <2>4, <3>1, <3>2, <3>3
    <2>5. CASE ~sample_clk
      <3>1. UntilTick = d + 1 - c
        BY <2>5 DEF UntilTick
      <3>2. UntilTick \in Nat /\ UntilTick >= 1 /\ UntilTick' = UntilTick - 1 /\ UntilTick' \in 0..d
        BY <1>1, <2>1, <2>3, <3>1
      <3>3. d \in Nat /\ c' # 0 /\ c' \in 0..d
        BY <1>1, <2>1, <2>2
      <3> QED
        BY <2>2, <2>5, <3>2, <3>3
    <2> QED
      BY <2>4, <2>5
  <1> QED
    BY <1>3, <1>4

(* Nothing is written while the bus is idle.                               *)
LEMMA IdleBus ==
  ASSUME DivisorInv, ~bus.stb, LineNext, DivisorOnce
  PROVE  /\ sample_clk_divisor' = sample_clk_divisor
         /\ wb_state' = "IDLE"
         /\ divisor_writes = 1 => bus' = bus /\ divisor_writes' = 1
         /\ wb_state = "IDLE" => wb_ack' = wb_ack
  <1>1. wishbone /\ SetUp
    BY DEF LineNext, UartClock
  <1>2. WbIdle \/ WbWriteAck
    BY <1>1 DEF wishbone, WbWrite, WbRead, WbReadAck, DivisorInv
  <1>3. sample_clk_divisor' = sample_clk_divisor /\ wb_state' = "IDLE"
    BY <1>2 DEF WbIdle, WbWriteAck, WbLeave
  <1>4. divisor_writes = 1 => bus' = bus /\ divisor_writes' = 1
    BY <1>1 DEF SetUp, uart_set_divisor, DivisorOnce
  <1>5. wb_state = "IDLE" => wb_ack' = wb_ack
    BY <1>2 DEF WbIdle, WbWriteAck
  <1> QED
    BY <1>3, <1>4, <1>5

(* The one write: taken at the edge after the strobe, then acknowledged.   *)
LEMMA DivisorTaken ==
  ASSUME DivisorInv, bus.stb, ~wb_ack, LineNext
  PROVE  /\ bus' = bus /\ divisor_writes' = divisor_writes /\ sample_clk_divisor = 0
         /\ sample_clk_divisor' = bus.dat /\ wb_ack' = TRUE /\ wb_state' = "WRITE_ACK"
  <1>1. wishbone /\ SetUp
    BY DEF LineNext, UartClock
  <1>2. wb_state = "IDLE" /\ sample_clk_divisor = 0
    BY DEF DivisorInv
  <1>3. bus.we /\ bus.adr = "divisor"
    BY BusShapes DEF DivisorInv
  <1>4. WbWrite
    BY <1>1, <1>2, <1>3 DEF wishbone, WbRead, WbIdle, WbWriteAck, WbReadAck
  <1>5. sample_clk_divisor' = bus.dat /\ wb_ack' = TRUE /\ wb_state' = "WRITE_ACK"
    BY <1>3, <1>4 DEF WbWrite
  <1>6. bus' = bus /\ divisor_writes' = divisor_writes
    BY <1>1 DEF SetUp, wb_ack_out
  <1> QED
    BY <1>2, <1>5, <1>6

LEMMA DivisorAnswered ==
  ASSUME DivisorInv, bus.stb, wb_ack, LineNext
  PROVE  /\ bus' = Idle /\ divisor_writes' = divisor_writes /\ wb_state' = "WRITE_ACK"
         /\ sample_clk_divisor' = sample_clk_divisor /\ sample_clk_divisor = bus.dat
  <1>1. wishbone /\ SetUp
    BY DEF LineNext, UartClock
  <1>2. wb_state = "WRITE_ACK" /\ sample_clk_divisor = bus.dat
    BY DEF DivisorInv
  <1>3. WbWriteAck
    BY <1>1, <1>2 DEF wishbone, WbWrite, WbRead, WbIdle, WbReadAck
  <1>4. sample_clk_divisor' = sample_clk_divisor /\ wb_state' = "WRITE_ACK"
    BY <1>3 DEF WbWriteAck, WbLeave
  <1>5. bus' = Idle /\ divisor_writes' = divisor_writes
    BY <1>1 DEF SetUp, wb_ack_out
  <1> QED
    BY <1>2, <1>4, <1>5

LEMMA DivisorStep ==
  ASSUME DivisorInv, LineNext, DivisorOnce
  PROVE  DivisorInv'
  <1>1. CASE ~bus.stb
    <2>1. bus = Idle
      BY <1>1, BusShapes DEF DivisorInv
    <2>2. /\ sample_clk_divisor' = sample_clk_divisor /\ wb_state' = "IDLE"
          /\ divisor_writes = 1 => bus' = bus /\ divisor_writes' = 1
          /\ wb_state = "IDLE" => wb_ack' = wb_ack
      BY <1>1, IdleBus
    <2>3. CASE divisor_writes = 0
      <3>1. sample_clk_divisor' = 0 /\ wb_state' = "IDLE" /\ ~wb_ack'
        BY <2>2, <2>3 DEF DivisorInv
      <3>2. \/ divisor_writes' = 1 /\ \E d \in Divisors : bus' = Write("divisor", d)
            \/ divisor_writes' = 0 /\ bus' = Idle
        BY <1>1, <2>1, <2>3 DEF LineNext, SetUp, uart_set_divisor
      <3>3. divisor_writes' = 1 => bus'.stb \/ sample_clk_divisor' \in Divisors
        BY <3>2, BusShapes
      <3> QED
        BY <3>1, <3>2, <3>3, BusShapes DEF DivisorInv
    <2>4. CASE divisor_writes = 1
      <3>1. bus' = Idle /\ divisor_writes' = 1 /\ ~Idle.stb
        BY <2>1, <2>2, <2>4, BusShapes
      <3>2. sample_clk_divisor \in Divisors
        BY <1>1, <2>4 DEF DivisorInv
      <3> QED
        BY <2>2, <3>1, <3>2 DEF DivisorInv
    <2> QED
      BY <2>3, <2>4 DEF DivisorInv
  <1>2. CASE bus.stb
    <2>1. divisor_writes = 1 /\ bus.dat \in Divisors
      BY <1>2, BusShapes DEF DivisorInv
    <2>2. CASE ~wb_ack
      <3>1. /\ bus' = bus /\ divisor_writes' = divisor_writes
            /\ sample_clk_divisor' = bus.dat /\ wb_state' = "WRITE_ACK"
        BY <1>2, <2>2, DivisorTaken
      <3>2. wb_ack'
        BY <1>2, <2>2, DivisorTaken
      <3>3. bus \in { Idle } \cup { Write("divisor", d) : d \in Divisors }
        BY DEF DivisorInv
      <3> QED
        BY <1>2, <2>1, <3>1, <3>2, <3>3 DEF DivisorInv
    <2>3. CASE wb_ack
      BY <1>2, <2>1, <2>3, DivisorAnswered, BusShapes DEF DivisorInv
    <2> QED
      BY <2>2, <2>3
  <1> QED
    BY <1>1, <1>2

LEMMA PaceStep ==
  ASSUME DivisorInv, PaceInv, LineNext, DivisorOnce
  PROVE  PaceInv'
  <1>1. sample_clock_generator
    BY DEF LineNext, UartClock
  <1>2. CASE sample_clk_divisor = 0
    <2>1. ~sample_clk' /\ sample_clk_counter' = 0 /\ sample_clk' \in BOOLEAN
      BY <1>1, <1>2 DEF sample_clock_generator, PaceInv
    <2>2. sample_clk_divisor' # 0 => sample_clk_divisor' \in Divisors /\ bus'.stb
      <3>1. CASE ~bus.stb
        BY <1>2, <3>1, IdleBus
      <3>2. CASE bus.stb /\ ~wb_ack
        <4>1. bus.dat \in Divisors
          BY <3>2, BusShapes DEF DivisorInv
        <4> QED
          BY <3>2, <4>1, DivisorTaken
      <3>3. CASE bus.stb /\ wb_ack
        BY <1>2, <3>3, DivisorAnswered
      <3> QED
        BY <3>1, <3>2, <3>3
    <2>3. sample_clk_divisor' # 0 => 0 \in 0..sample_clk_divisor'
      <3>1. \A d \in Divisors : d \in Nat
        BY LinkAssumption, UartAssumption
      <3> QED
        BY <2>2, <3>1
    <2> QED
      BY <2>1, <2>2, <2>3 DEF PaceInv
  <1>3. CASE sample_clk_divisor # 0
    <2>1. sample_clk_divisor' = sample_clk_divisor
      BY <1>3, IdleBus, DivisorTaken, DivisorAnswered
    <2>2. /\ sample_clk' \in BOOLEAN /\ sample_clk_counter' \in 0..sample_clk_divisor
          /\ sample_clk' => sample_clk_counter' = 0
          /\ sample_clk_counter' = 0 => sample_clk'
      BY <1>1, <1>3, <2>1, TickStep
    <2> QED
      BY <1>3, <2>1, <2>2 DEF PaceInv
  <1> QED
    BY <1>2, <1>3

LEMMA SenderCases ==
  ASSUME SenderInv, LineNext
  PROVE  /\ BITS \in Nat /\ BITS >= 1 /\ Quiet \in Nat /\ Quiet = BITS + 2
         /\ rxd' = Level(frame', position')
         /\ \/ /\ position = Quiet /\ position' = 0 /\ divisor_writes > 0 /\ ~bus.stb
               /\ frame' \in Bytes /\ bit_time' \in BitTimes /\ ticks' = bit_time' - 1
               /\ sent' = Append(sent, frame')
            \/ /\ position # Quiet /\ ticks > 0 /\ ticks' = ticks - 1
               /\ UNCHANGED << position, frame, bit_time, sent >>
            \/ /\ position # Quiet /\ ticks = 0 /\ position' = position + 1
               /\ ticks' = (IF position' = Quiet THEN 0 ELSE bit_time - 1)
               /\ UNCHANGED << frame, bit_time, sent >>
            \/ position = Quiet /\ UNCHANGED << lineVars, sent >>
  BY UartAssumption, LinkAssumption
     DEF LineNext, BeginFrame, HoldBit, NextBit, StayQuiet, Quiet

LEMMA SenderStep ==
  ASSUME SenderInv, DivisorInv, LineNext, DivisorOnce
  PROVE  SenderInv'
  <1>1. position' = Quiet \/ (~bus.stb /\ divisor_writes = 1)
    BY SenderCases DEF SenderInv, DivisorInv, lineVars
  <1>2. position' # Quiet => divisor_writes' = 1 /\ ~bus'.stb
    BY <1>1, IdleBus
  <1>3. position' \in 0..Quiet
    BY SenderCases DEF SenderInv, lineVars
  <1>4. frame' \in Bytes /\ sent' \in Seq(Bytes)
    <2>1. frame \in Bytes /\ sent \in Seq(Bytes)
      BY DEF SenderInv
    <2> QED
      BY <2>1, SenderCases DEF lineVars
  <1>5. position' # Quiet => bit_time' \in BitTimes /\ ticks' \in 0..(bit_time' - 1)
    <2>1. position # Quiet => bit_time \in BitTimes /\ ticks \in 0..(bit_time - 1)
      BY DEF SenderInv
    <2>2. \A t \in BitTimes : t \in Nat /\ t >= 1
      BY LineAssumption
    <2>3. CASE position = Quiet
      <3>1. position' # Quiet => bit_time' \in BitTimes /\ ticks' = bit_time' - 1
        BY <2>3, SenderCases DEF lineVars
      <3> QED
        BY <2>2, <3>1
    <2>4. CASE position # Quiet
      <3>1. /\ bit_time' = bit_time
            /\ \/ ticks > 0 /\ ticks' = ticks - 1
               \/ ticks' = (IF position' = Quiet THEN 0 ELSE bit_time - 1)
        BY <2>4, SenderCases
      <3> QED
        BY <2>1, <2>2, <2>4, <3>1
    <2> QED
      BY <2>3, <2>4
  <1> QED
    BY <1>2, <1>3, <1>4, <1>5, SenderCases DEF SenderInv

(* How old a frame is.                                                     *)
LEMMA AgeInBit ==
  ASSUME SenderInv, position # Quiet
  PROVE  /\ bit_time \in Nat /\ bit_time >= 1 /\ position \in 0..(BITS + 1) /\ BITS \in Nat
         /\ FrameAge \in Nat
         /\ position * bit_time <= FrameAge /\ FrameAge < (position + 1) * bit_time
  <1>1. /\ bit_time \in Nat /\ bit_time >= 1 /\ ticks \in 0..(bit_time - 1)
        /\ BITS \in Nat /\ position \in 0..(BITS + 1)
    <2>1. bit_time \in BitTimes /\ ticks \in 0..(bit_time - 1) /\ position \in 0..(BITS + 2)
      BY DEF SenderInv, Quiet
    <2>2. position # BITS + 2 /\ BITS \in Nat
      BY UartAssumption DEF Quiet
    <2> QED
      BY <2>1, <2>2, LineAssumption
  <1>2. position * bit_time \in Nat /\ (position + 1) * bit_time = position * bit_time + bit_time
    BY <1>1
  <1> QED
    BY <1>1, <1>2 DEF FrameAge

LEMMA FirstEdge ==
  ASSUME NEW t \in BitTimes
  PROVE  t \in Nat /\ 0 * t + (t - 1 - (t - 1)) = 0
  <1>1. t \in Nat
    BY LineAssumption
  <1>2. 0 * t = 0
    BY <1>1
  <1> QED
    BY <1>1, <1>2

LEMMA AgeStep ==
  ASSUME SenderInv, LineNext
  PROVE  /\ position # Quiet /\ position' # Quiet =>
              FrameAge' = FrameAge + 1 /\ UNCHANGED << frame, bit_time, sent >>
         /\ position # Quiet /\ position' = Quiet =>
              position = BITS + 1 /\ FrameAge + 1 = (BITS + 2) * bit_time /\ UNCHANGED << frame, sent >>
         /\ position = Quiet /\ position' # Quiet => position' = 0 /\ FrameAge' = 0
  <1>1. position # Quiet => /\ bit_time \in Nat /\ bit_time >= 1 /\ ticks \in 0..(bit_time - 1)
                            /\ position \in 0..(BITS + 1) /\ position * bit_time \in Nat
                            /\ (position + 1) * bit_time = position * bit_time + bit_time
    BY AgeInBit DEF SenderInv
  <1>2. CASE position # Quiet /\ ticks > 0 /\ ticks' = ticks - 1 /\ UNCHANGED << position, frame, bit_time, sent >>
    BY <1>1, <1>2 DEF FrameAge
  <1>3. CASE /\ position # Quiet /\ ticks = 0 /\ position' = position + 1
             /\ ticks' = (IF position' = Quiet THEN 0 ELSE bit_time - 1)
             /\ UNCHANGED << frame, bit_time, sent >>
    <2>1. position' # Quiet => FrameAge' = (position + 1) * bit_time + (bit_time - 1 - (bit_time - 1))
      BY <1>3 DEF FrameAge
    <2>2. FrameAge = position * bit_time + (bit_time - 1 - 0)
      BY <1>3 DEF FrameAge
    <2>3. position' = Quiet => position = BITS + 1 /\ (BITS + 2) * bit_time = (position + 1) * bit_time
      BY <1>1, <1>3, SenderCases
    <2>4. position' # Quiet => FrameAge' = FrameAge + 1
      BY <1>1, <1>3, <2>1, <2>2
    <2>5. position' = Quiet => FrameAge + 1 = (BITS + 2) * bit_time
      BY <1>1, <1>3, <2>2, <2>3
    <2> QED
      BY <1>3, <2>3, <2>4, <2>5
  <1>4. CASE position = Quiet /\ UNCHANGED << lineVars, sent >>
    BY <1>4 DEF lineVars
  <1>5. CASE /\ position = Quiet /\ position' = 0 /\ bit_time' \in BitTimes /\ ticks' = bit_time' - 1
    <2>1. 0 * bit_time' + (bit_time' - 1 - (bit_time' - 1)) = 0
      BY <1>5, FirstEdge
    <2>2. FrameAge' = 0 * bit_time' + (bit_time' - 1 - (bit_time' - 1))
      BY <1>5 DEF FrameAge
    <2>3. FrameAge' = 0
      BY <2>1, <2>2, Zenon
    <2> QED
      BY <1>5, <2>3
  <1> QED
    BY <1>2, <1>3, <1>4, <1>5, SenderCases

(* While a frame is on the line the sample clock runs.                     *)
LEMMA Running ==
  ASSUME DivisorInv, PaceInv, ~bus.stb, divisor_writes = 1, Timely, NEW t \in BitTimes
  PROVE  /\ sample_clk_divisor \in Divisors /\ sample_clk_divisor \in Nat /\ sample_clk_divisor # 0
         /\ sample_clk \in BOOLEAN
         /\ sample_clk => UntilTick = 0
         /\ ~sample_clk => UntilTick >= 1
         /\ UntilTick \in 0..sample_clk_divisor
  <1> DEFINE d == sample_clk_divisor
             c == sample_clk_counter
  <1>1. d \in Divisors
    BY DEF DivisorInv
  <1>2. d \in Nat /\ d # 0
    <2>1. \A x \in Divisors : x \in Nat
      BY LinkAssumption, UartAssumption
    <2>2. 1 \in 1..(BITS + 1)
      BY UartAssumption
    <2>3. d # 0
      BY <1>1, <2>2 DEF Timely
    <2> QED
      BY <1>1, <2>1, <2>3
  <1>3. c \in 0..d /\ sample_clk \in BOOLEAN /\ (c = 0 => sample_clk)
    BY <1>2 DEF PaceInv
  <1>4. CASE sample_clk
    <2>1. UntilTick = 0
      BY <1>4 DEF UntilTick
    <2> QED
      BY <1>1, <1>2, <1>3, <1>4, <2>1
  <1>5. CASE ~sample_clk
    <2>1. UntilTick = d + 1 - c /\ c \in 1..d
      BY <1>3, <1>5 DEF UntilTick
    <2> QED
      BY <1>1, <1>2, <1>3, <1>5, <2>1
  <1> QED
    BY <1>3, <1>4, <1>5

LEMMA ProductMore ==
  ASSUME NEW n \in Nat, NEW p \in Nat
  PROVE  n * p \in Nat /\ (n + 1) * p = n * p + p /\ 0 * p = 0
  OBVIOUS

(* How the time of the next sample moves with an edge.                     *)
LEMMA SampleStep ==
  ASSUME DivisorInv, PaceInv, SenderInv, LineNext, DivisorOnce, Timely,
         position # Quiet, position' # Quiet, TicksLeft \in Nat, TicksLeft' \in Nat
  PROVE  /\ sample_clk_divisor' = sample_clk_divisor
         /\ UNCHANGED << frame, bit_time, sent >>
         /\ ~sample_clk /\ TicksLeft' = TicksLeft => SampleAge' = SampleAge
         /\ sample_clk /\ TicksLeft = TicksLeft' + 1 => SampleAge' = SampleAge
         /\ sample_clk /\ TicksLeft = 0 =>
              SampleAge' = SampleAge + (TicksLeft' + 1) * (sample_clk_divisor + 1)
  <1> DEFINE d == sample_clk_divisor
             n == TicksLeft
             m == TicksLeft'
             u == UntilTick
             v == UntilTick'
             a == FrameAge
             b == FrameAge'
  <1>1. ~bus.stb /\ divisor_writes = 1 /\ bit_time \in BitTimes
    BY DEF SenderInv
  <1>2. d \in Nat /\ d # 0 /\ sample_clk_divisor' = d
    BY <1>1, Running, IdleBus
  <1>3. sample_clock_generator
    BY DEF LineNext, UartClock
  <1>4. /\ sample_clk => u = 0 /\ v = d
        /\ ~sample_clk => u \in Nat /\ v = u - 1
    BY <1>2, <1>3, TickStep
  <1>5. a \in Nat /\ b = a + 1 /\ UNCHANGED << frame, bit_time, sent >>
    BY AgeInBit, AgeStep
  <1>6. SampleAge = a + u + n * (d + 1) /\ SampleAge' = b + v + m * (d + 1)
    BY <1>2 DEF SampleAge
  <1> DEFINE p == d + 1
  <1>7. /\ p \in Nat /\ n \in Nat /\ m \in Nat
        /\ n * p \in Nat /\ m * p \in Nat
        /\ (m + 1) * p = m * p + p
        /\ 0 * p = 0
    <2>1. p \in Nat /\ n \in Nat /\ m \in Nat
      BY <1>2
    <2> HIDE DEF p, n, m
    <2> QED
      BY <2>1, ProductMore
  <1> HIDE DEF a, b, u, v, n, m
  <1>8. ~sample_clk /\ m = n => SampleAge' = SampleAge
    BY <1>2, <1>4, <1>5, <1>6, <1>7
  <1>9. sample_clk /\ n = m + 1 => SampleAge' = SampleAge
    <2>1. sample_clk /\ n = m + 1 => SampleAge' = a + 1 + d + m * p /\ SampleAge = a + 0 + (m + 1) * p
      BY <1>4, <1>5, <1>6
    <2> QED
      BY <1>2, <1>5, <1>7, <2>1
  <1>10. sample_clk /\ n = 0 => SampleAge' = SampleAge + (m + 1) * p
    <2>1. sample_clk /\ n = 0 => SampleAge' = a + 1 + d + m * p /\ SampleAge = a + 0 + 0 * p
      BY <1>4, <1>5, <1>6
    <2> QED
      BY <1>2, <1>5, <1>7, <2>1
  <1> QED
    BY <1>2, <1>5, <1>8, <1>9, <1>10 DEF n, m

(* Before the sample the age of the frame has not reached that of it.      *)
LEMMA SampleAhead ==
  ASSUME DivisorInv, PaceInv, SenderInv, Timely, position # Quiet, TicksLeft \in Nat
  PROVE  /\ SampleAge \in Nat /\ FrameAge \in Nat /\ FrameAge <= SampleAge
         /\ sample_clk /\ TicksLeft = 0 => FrameAge = SampleAge
         /\ ~(sample_clk /\ TicksLeft = 0) => FrameAge + 1 <= SampleAge
  <1> DEFINE d == sample_clk_divisor
             n == TicksLeft
             u == UntilTick
             a == FrameAge
             p == d + 1
  <1>1. ~bus.stb /\ divisor_writes = 1 /\ bit_time \in BitTimes
    BY DEF SenderInv
  <1>2. /\ d \in Nat /\ u \in 0..d /\ sample_clk \in BOOLEAN
        /\ sample_clk => u = 0
        /\ ~sample_clk => u >= 1
    BY <1>1, Running
  <1>3. a \in Nat
    BY AgeInBit
  <1>4. SampleAge = a + u + n * p
    BY DEF SampleAge
  <1>5. p \in Nat /\ p >= 1 /\ n * p \in Nat /\ 0 * p = 0 /\ (n >= 1 => n * p >= p)
    <2>1. p \in Nat /\ n \in Nat /\ p >= 1
      BY <1>2
    <2> HIDE DEF p, n
    <2>2. n * p \in Nat /\ 0 * p = 0 /\ 1 * p = p
      BY <2>1, ProductMore
    <2>3. n >= 1 => n * p >= 1 * p
      BY <2>1, ProductGrows
    <2> QED
      BY <2>1, <2>2, <2>3
  <1> HIDE DEF a, u, n, p
  <1>6. SampleAge \in Nat /\ a <= SampleAge
    BY <1>2, <1>3, <1>4, <1>5
  <1>7. sample_clk /\ n = 0 => a = SampleAge
    BY <1>2, <1>3, <1>4, <1>5
  <1>8. ~sample_clk => a + 1 <= SampleAge
    BY <1>2, <1>3, <1>4, <1>5
  <1>9. n # 0 => a + 1 <= SampleAge
    <2>1. n \in Nat
      BY DEF n
    <2> QED
      BY <1>2, <1>3, <1>4, <1>5, <2>1
  <1> QED
    BY <1>2, <1>3, <1>6, <1>7, <1>8, <1>9 DEF a, n

-----------------------------------------------------------------------------
(* The receiver.                                                           *)

(* The ticks left, as the counter goes round.                              *)
LEMMA LeftStep ==
  ASSUME NEW c \in 0..(OVERSAMPLING - 1), NEW v \in 0..(OVERSAMPLING - 1)
  PROVE  /\ Left(c, v) \in Nat /\ NextSample(c) \in 0..(OVERSAMPLING - 1)
         /\ c = v => Left(c, v) = 0 /\ Left(NextSample(c), v) = OVERSAMPLING - 1
         /\ c # v => Left(c, v) = Left(NextSample(c), v) + 1
         /\ Left(NextSample(c), v) \in Nat
  <1> DEFINE n == OVERSAMPLING
             e == NextSample(c)
  <1>1. n \in Nat /\ n >= 2 /\ c \in 0..(n - 1) /\ v \in 0..(n - 1)
    BY SampleHalves
  <1>2. e = (IF c = n - 1 THEN 0 ELSE c + 1)
    BY DEF NextSample
  <1>3. /\ Left(c, v) = (IF c <= v THEN v - c ELSE v - c + n)
        /\ Left(e, v) = (IF e <= v THEN v - e ELSE v - e + n)
    BY DEF Left
  <1> HIDE DEF n, e
  <1>4. e \in 0..(n - 1)
    BY <1>1, <1>2
  <1>5. c = v => Left(c, v) = 0 /\ Left(e, v) = n - 1
    BY <1>1, <1>2, <1>3
  <1>6. c # v => Left(c, v) = Left(e, v) + 1
    BY <1>1, <1>2, <1>3
  <1>7. Left(c, v) \in Nat /\ Left(e, v) \in Nat
    BY <1>1, <1>3, <1>4
  <1> QED
    BY <1>4, <1>5, <1>6, <1>7 DEF n, e

(* The line shows the bit that is sent.                                    *)
LEMMA LineLevel ==
  ASSUME SenderInv
  PROVE  /\ rxd \in BOOLEAN /\ frame \in Bytes
         /\ position = 0 => rxd = FALSE
         /\ \A k \in 0..(BITS - 1) : position = k + 1 => (rxd <=> BitOf(frame, k))
         /\ position \in { BITS + 1, Quiet } => rxd = TRUE
  <1>1. rxd = Level(frame, position) /\ position \in 0..(BITS + 2) /\ frame \in Bytes
    BY DEF SenderInv, Quiet
  <1>2. BITS \in Nat /\ BITS >= 1
    BY UartAssumption
  <1>3. CASE position = 0
    BY <1>1, <1>2, <1>3 DEF Level, Quiet
  <1>4. CASE position \in 1..BITS
    <2>1. rxd = BitOf(frame, position - 1)
      BY <1>1, <1>2, <1>4 DEF Level
    <2>2. BitOf(frame, position - 1) \in BOOLEAN
      BY DEF BitOf
    <2>3. \A k \in 0..(BITS - 1) : position = k + 1 => position - 1 = k
      BY <1>2
    <2>4. position # 0 /\ position # BITS + 1 /\ position # Quiet
      BY <1>2, <1>4 DEF Quiet
    <2>5. \A k \in 0..(BITS - 1) : position = k + 1 => (rxd <=> BitOf(frame, k))
      BY <2>1, <2>3
    <2> QED
      BY <1>1, <2>1, <2>2, <2>4, <2>5
  <1>5. CASE position \in { BITS + 1, BITS + 2 }
    <2>1. position \notin 1..BITS /\ position # 0
      BY <1>2, <1>5
    <2>2. rxd = TRUE
      BY <1>1, <2>1 DEF Level
    <2>3. \A k \in 0..(BITS - 1) : position # k + 1
      BY <1>2, <1>5
    <2> QED
      BY <1>1, <2>1, <2>2, <2>3
  <1>6. position = 0 \/ position \in 1..BITS \/ position \in { BITS + 1, BITS + 2 }
    BY <1>1, <1>2
  <1> QED
    BY <1>3, <1>4, <1>5, <1>6

LEMMA TypedStep ==
  ASSUME Octets, SenderInv, ReceiverTyped, LineNext
  PROVE  ReceiverTyped'
  <1>1. uart_receive /\ sample_counter
    BY DEF LineNext, UartClock
  <1>2. rx_sample_counter' \in 0..(OVERSAMPLING - 1)
    <2>1. rx_sample_counter \in 0..(OVERSAMPLING - 1)
      BY DEF ReceiverTyped
    <2>2. NextSample(rx_sample_counter) \in 0..(OVERSAMPLING - 1)
      BY <2>1, LeftStep
    <2> QED
      BY <1>1, <2>1, <2>2 DEF sample_counter
  <1>3. rx_sample_value' \in { rx_sample_value, rx_sample_counter }
    BY <1>1 DEF uart_receive, RxStart, RxStartBit, RxReceive, RxStopBit
  <1>4. rx_current_bit' \in 0..(BITS - 1)
    <2>1. rx_current_bit \in 0..(BITS - 1) /\ BITS \in Nat /\ BITS >= 1
      BY UartAssumption DEF ReceiverTyped
    <2>2. \/ rx_current_bit' \in { rx_current_bit, 0 }
          \/ rx_current_bit # BITS - 1 /\ rx_current_bit' = rx_current_bit + 1
      BY <1>1 DEF uart_receive, RxStart, RxStartBit, RxReceive, RxStopBit
    <2> QED
      BY <2>1, <2>2
  <1>5. rx_byte' \in Bytes
    <2>1. rx_byte' \in { rx_byte, WithBit(rx_byte, rx_current_bit, rxd) }
      BY <1>1 DEF uart_receive, RxStart, RxStartBit, RxReceive, RxStopBit
    <2>2. rxd \in BOOLEAN
      BY LineLevel
    <2>3. WithBit(rx_byte, rx_current_bit, rxd) \in Bytes
      BY <2>2, ByteWritten DEF ReceiverTyped
    <2> QED
      BY <2>1, <2>3 DEF ReceiverTyped
  <1>6. arrived' \in Seq(Bytes)
    <2>1. arrived' \in { arrived, Append(arrived, rx_byte) }
      BY DEF LineNext, RecordArrival
    <2>2. rx_byte \in Bytes /\ arrived \in Seq(Bytes)
      BY DEF ReceiverTyped
    <2> QED
      BY <2>1, <2>2
  <1> QED
    BY <1>2, <1>3, <1>4, <1>5, <1>6 DEF ReceiverTyped

(* Every sample the receiver waits for is in the frame.                    *)
LEMMA InFrame ==
  ASSUME DivisorInv, PaceInv, SenderInv, Timely, position # Quiet, NEW k \in 1..(BITS + 1)
  PROVE  /\ sample_clk_divisor \in Divisors /\ bit_time \in BitTimes
         /\ SampleOf(k, sample_clk_divisor) + sample_clk_divisor < (BITS + 2) * bit_time
         /\ SampleOf(0, sample_clk_divisor) + sample_clk_divisor < (BITS + 2) * bit_time
         /\ sample_clk_divisor < (BITS + 2) * bit_time
  <1> DEFINE d == sample_clk_divisor
             t == bit_time
  <1>1. d \in Divisors /\ t \in BitTimes
    BY Running DEF SenderInv
  <1>2. /\ d \in Nat /\ t \in Nat /\ BITS \in Nat /\ BITS >= 1
        /\ SampleOf(k, d) + d < (k + 1) * t /\ SampleOf(0, d) + d < 2 * t
        /\ SampleOf(k, d) \in Nat /\ SampleOf(0, d) \in Nat
        /\ d < t /\ (k + 1) * t \in Nat
    BY <1>1, SampleFalls, UartAssumption
  <1> HIDE DEF d, t
  <1>3. (k + 1) * t <= (BITS + 2) * t /\ 2 * t <= (BITS + 2) * t
    <2>1. k + 1 \in Nat /\ k + 1 <= BITS + 2 /\ BITS + 2 \in Nat /\ 2 <= BITS + 2
      BY <1>2
    <2> QED
      BY <1>2, <2>1, ProductGrows
  <1>4. (BITS + 2) * t \in Nat
    BY <1>2
  <1>5. /\ SampleOf(k, d) + d < (BITS + 2) * t /\ SampleOf(0, d) + d < (BITS + 2) * t
        /\ d < (BITS + 2) * t
    BY <1>2, <1>3, <1>4
  <1> QED
    BY <1>1, <1>5 DEF d, t

(* The sample of bit k is taken in bit k.                                  *)
LEMMA AtSample ==
  ASSUME DivisorInv, PaceInv, SenderInv, Timely, position # Quiet,
         sample_clk, TicksLeft = 0,
         NEW k \in 1..(BITS + 1), Aims(SampleOf(k, sample_clk_divisor))
  PROVE  position = k
  <1> DEFINE d == sample_clk_divisor
             t == bit_time
             a == FrameAge
  <1>1. d \in Divisors /\ t \in BitTimes
    BY InFrame
  <1>2. /\ d \in Nat /\ t \in Nat /\ k * t <= SampleOf(k, d) /\ SampleOf(k, d) + d < (k + 1) * t
        /\ SampleOf(k, d) \in Nat /\ k * t \in Nat /\ (k + 1) * t \in Nat
    BY <1>1, SampleFalls
  <1>3. a \in Nat /\ SampleOf(k, d) <= a /\ a <= SampleOf(k, d) + d
    BY SampleAhead DEF Aims
  <1>4. position \in Nat /\ position * t <= a /\ a < (position + 1) * t
    BY AgeInBit
  <1> HIDE DEF d, t, a
  <1>5. k * t <= a /\ a < (k + 1) * t
    BY <1>2, <1>3
  <1>6. k \in Nat
    BY UartAssumption
  <1> QED
    BY <1>2, <1>3, <1>4, <1>5, <1>6, OneBit

(* Until its sample comes the receiver waits, and the frame goes on.       *)
LEMMA Waiting ==
  ASSUME DivisorInv, PaceInv, SenderInv, LineNext, DivisorOnce, Timely,
         position # Quiet, TicksLeft \in Nat, TicksLeft' \in Nat,
         SampleAge < (BITS + 2) * bit_time,
         \/ ~sample_clk /\ TicksLeft' = TicksLeft
         \/ sample_clk /\ TicksLeft = TicksLeft' + 1
  PROVE  /\ position' # Quiet /\ SampleAge' = SampleAge
         /\ UNCHANGED << sample_clk_divisor, frame, bit_time, sent >>
  <1>1. ~(sample_clk /\ TicksLeft = 0)
    <2> DEFINE m == TicksLeft'
    <2>1. m \in Nat
      OBVIOUS
    <2> HIDE DEF m
    <2>2. m + 1 # 0
      BY <2>1
    <2> QED
      BY <2>2 DEF m
  <1>2. FrameAge + 1 <= SampleAge /\ SampleAge \in Nat /\ FrameAge \in Nat
    BY <1>1, SampleAhead
  <1>3. position' # Quiet
    <2>1. (BITS + 2) * bit_time \in Nat
      <3>1. BITS \in Nat /\ bit_time \in Nat
        BY AgeInBit
      <3> QED
        BY <3>1
    <2>2. FrameAge + 1 # (BITS + 2) * bit_time
      BY <1>2, <2>1
    <2> QED
      BY <2>2, AgeStep
  <1> QED
    BY <1>3, SampleStep

(* With a sample the time of the next one is fixed.                        *)
LEMMA Sampling ==
  ASSUME DivisorInv, PaceInv, SenderInv, LineNext, DivisorOnce, Timely,
         position # Quiet, position # BITS + 1, TicksLeft = 0, TicksLeft' \in Nat, sample_clk
  PROVE  /\ position' # Quiet
         /\ SampleAge' = SampleAge + (TicksLeft' + 1) * (sample_clk_divisor + 1)
         /\ UNCHANGED << sample_clk_divisor, frame, bit_time, sent >>
  <1>1. position' # Quiet
    BY AgeStep
  <1> QED
    BY <1>1, SampleStep

(* A frame that has been received, or none yet: the next one may begin.    *)
LEMMA EndsStep ==
  ASSUME DivisorInv, PaceInv, SenderInv, LineNext, DivisorOnce, Timely, FrameEnds
  PROVE  FrameInv'
  <1>1. /\ rx_state = "IDLE" /\ position \in { BITS + 1, Quiet } /\ arrived = sent
        /\ uart_receive /\ RecordArrival /\ sample_clock_generator
    BY DEF FrameEnds, LineNext, UartClock
  <1>2. rxd = TRUE
    BY <1>1, LineLevel
  <1>3. rx_state' = "IDLE"
    BY <1>1, <1>2 DEF uart_receive, RxStart, RxStartBit, RxReceive, RxStopBit
  <1>4. arrived' = arrived
    BY <1>1 DEF RecordArrival
  <1>5. CASE /\ position = Quiet /\ position' = 0 /\ divisor_writes > 0 /\ ~bus.stb
             /\ bit_time' \in BitTimes /\ sent' = Append(sent, frame')
    <2>1. divisor_writes = 1
      BY <1>5 DEF DivisorInv
    <2>2. /\ sample_clk_divisor \in Nat /\ sample_clk_divisor # 0
          /\ sample_clk_divisor' = sample_clk_divisor
      BY <1>5, <2>1, Running, IdleBus
    <2>3. UntilTick' \in 0..sample_clk_divisor
      BY <1>1, <2>2, TickStep
    <2>4. position' # Quiet
      BY <1>5, UartAssumption DEF Quiet
    <2>5. FrameAge' = 0
      BY <1>5, <2>4, AgeStep
    <2>6. TicksLeft' = 0
      BY <1>3 DEF TicksLeft
    <2> DEFINE u == UntilTick'
               p == sample_clk_divisor + 1
    <2>7. SampleAge' = 0 + u + 0 * p
      BY <2>2, <2>5, <2>6 DEF SampleAge
    <2>8. 0 * p = 0
      <3>1. p \in Nat
        BY <2>2
      <3> HIDE DEF p
      <3> QED
        BY <3>1, ProductMore
    <2>9. u \in 0..sample_clk_divisor
      BY <2>3
    <2> HIDE DEF u, p
    <2>10. 0 <= SampleAge' /\ SampleAge' <= 0 + sample_clk_divisor
      BY <2>2, <2>7, <2>8, <2>9
    <2>11. Aims(0)'
      BY <2>2, <2>10 DEF Aims
    <2>12. FrameBegins'
      BY <1>3, <2>4, <2>11 DEF FrameBegins
    <2>13. sent' = Append(arrived', frame')
      BY <1>1, <1>4, <1>5
    <2> QED
      BY <2>12, <2>13 DEF FrameInv
  <1>6. CASE position' \in { BITS + 1, Quiet } /\ sent' = sent
    <2>1. FrameEnds'
      BY <1>1, <1>3, <1>4, <1>6 DEF FrameEnds, Quiet
    <2> QED
      BY <2>1 DEF FrameInv
  <1>7. position = BITS + 1 => position # Quiet /\ position + 1 = Quiet
    BY UartAssumption DEF Quiet
  <1> QED
    BY <1>1, <1>5, <1>6, <1>7, SenderCases DEF lineVars

(* The line has fallen, or is seen to fall.                                *)
LEMMA BeginsStep ==
  ASSUME DivisorInv, PaceInv, SenderInv, LineNext, DivisorOnce, Timely,
         FrameBegins, sent = Append(arrived, frame)
  PROVE  FrameInv'
  <1> DEFINE d == sample_clk_divisor
  <1>1. /\ rx_state = "IDLE" /\ position # Quiet /\ Aims(0)
        /\ uart_receive /\ RecordArrival
    BY DEF FrameBegins, LineNext, UartClock
  <1>2. arrived' = arrived
    BY <1>1 DEF RecordArrival
  <1>3. TicksLeft = 0
    BY <1>1 DEF TicksLeft
  <1>4. BITS \in Nat /\ BITS >= 1 /\ BITS + 1 \in 1..(BITS + 1) /\ 1 \in 1..(BITS + 1)
    BY UartAssumption
  <1>5. d < (BITS + 2) * bit_time /\ d \in Divisors /\ bit_time \in BitTimes
    BY <1>1, <1>4, InFrame
  <1>6. d \in Nat /\ bit_time \in Nat /\ d < bit_time
    BY <1>4, <1>5, SampleFalls
  <1>7. SampleAge \in Nat /\ SampleAge <= d
    BY <1>1, <1>3, <1>6, SampleAhead DEF Aims
  <1>8. RxStart
    BY <1>1 DEF uart_receive, RxStartBit, RxReceive, RxStopBit
  <1>9. sample_clk \in BOOLEAN
    BY DEF PaceInv
  <1>10. CASE ~sample_clk
    <2>1. rx_state' = "IDLE"
      BY <1>1, <1>8, <1>10 DEF RxStart
    <2>2. TicksLeft' = 0
      BY <2>1 DEF TicksLeft
    <2>3. SampleAge < (BITS + 2) * bit_time
      <3>1. (BITS + 2) * bit_time \in Nat
        BY <1>4, <1>6
      <3> QED
        BY <1>5, <1>6, <1>7, <3>1
    <2>4. /\ position' # Quiet /\ SampleAge' = SampleAge
          /\ sample_clk_divisor' = d /\ frame' = frame /\ sent' = sent
      BY <1>1, <1>3, <1>10, <2>2, <2>3, Waiting
    <2>5. Aims(0)'
      BY <1>1, <2>4 DEF Aims
    <2>6. FrameBegins'
      BY <2>1, <2>4, <2>5 DEF FrameBegins
    <2> QED
      BY <1>2, <2>4, <2>6 DEF FrameInv
  <1>11. CASE sample_clk
    <2>1. position = 0
      <3> DEFINE a == FrameAge
                 t == bit_time
      <3>1. a = SampleAge
        BY <1>1, <1>3, <1>11, SampleAhead
      <3>2. position \in Nat /\ position * t <= a /\ a < (position + 1) * t
        BY <1>1, AgeInBit
      <3>3. a \in Nat /\ t \in Nat /\ a < t
        BY <1>6, <1>7, <3>1
      <3> HIDE DEF a, t
      <3>4. 0 * t <= a /\ a < (0 + 1) * t
        BY <3>3, ProductMore
      <3> QED
        BY <3>2, <3>3, <3>4, OneBit
    <2>2. ~rxd
      BY <2>1, LineLevel
    <2>3. rx_state' = "STARTBIT" /\ rx_sample_delay' = 0 /\ rx_current_bit' = 0
      BY <1>8, <1>11, <2>2 DEF RxStart
    <2>4. TicksLeft' = MiddleOfBit - 0
      BY <2>3 DEF TicksLeft
    <2>5. MiddleOfBit \in Nat /\ TicksLeft' = MiddleOfBit
      BY <2>4, SampleHalves
    <2>6. position # BITS + 1
      BY <1>4, <2>1
    <2>7. /\ position' # Quiet
          /\ SampleAge' = SampleAge + (MiddleOfBit + 1) * (d + 1)
          /\ sample_clk_divisor' = d /\ frame' = frame /\ sent' = sent
      BY <1>1, <1>3, <1>11, <2>5, <2>6, Sampling
    <2>8. SampleOf(0, d) = (MiddleOfBit + 1) * (d + 1) /\ SampleOf(0, d) \in Nat
      BY <1>6, SamplesApart
    <2>9. SampleOf(0, d) <= SampleAge' /\ SampleAge' <= SampleOf(0, d) + d
      BY <1>6, <1>7, <2>7, <2>8
    <2>10. SampleOf(0, d)' = SampleOf(0, d)
      BY <2>7 DEF SampleOf
    <2>11. Aims(SampleOf(0, d))'
      BY <2>7, <2>9, <2>10 DEF Aims
    <2>12. FrameStarts'
      BY <2>3, <2>5, <2>7, <2>11 DEF FrameStarts
    <2> QED
      BY <1>2, <2>7, <2>12 DEF FrameInv
  <1> QED
    BY <1>9, <1>10, <1>11

LEMMA ModuloOne ==
  ASSUME NEW x \in Nat, NEW y \in Nat
  PROVE  x % 2^0 = y % 2^0
  BY Powers

(* The start bit is passed by: half a bit after it was seen.               *)
LEMMA StartsStep ==
  ASSUME Octets, DivisorInv, PaceInv, SenderInv, ReceiverTyped, LineNext, DivisorOnce, Timely,
         FrameStarts, sent = Append(arrived, frame)
  PROVE  FrameInv'
  <1> DEFINE d == sample_clk_divisor
             at == SampleOf(0, d)
  <1>1. /\ rx_state = "STARTBIT" /\ position # Quiet /\ Aims(at) /\ rx_current_bit = 0
        /\ rx_sample_delay \in 0..MiddleOfBit
        /\ uart_receive /\ sample_counter /\ RecordArrival
    BY DEF FrameStarts, LineNext, UartClock
  <1>2. arrived' = arrived
    BY <1>1 DEF RecordArrival
  <1>3. TicksLeft = MiddleOfBit - rx_sample_delay /\ TicksLeft \in Nat /\ MiddleOfBit \in Nat
    <2>1. TicksLeft = MiddleOfBit - rx_sample_delay
      BY <1>1 DEF TicksLeft
    <2> QED
      BY <1>1, <2>1, SampleHalves
  <1>4. BITS \in Nat /\ BITS >= 1 /\ 1 \in 1..(BITS + 1)
    BY UartAssumption
  <1>5. at + d < (BITS + 2) * bit_time /\ d \in Divisors /\ bit_time \in BitTimes
    BY <1>1, <1>4, InFrame
  <1>6. d \in Nat /\ bit_time \in Nat /\ at \in Nat /\ at + d < 2 * bit_time
    BY <1>4, <1>5, SampleFalls
  <1>7. SampleAge \in Nat /\ at <= SampleAge /\ SampleAge <= at + d
    BY <1>1, <1>3, SampleAhead DEF Aims
  <1>8. RxStartBit
    BY <1>1 DEF uart_receive, RxStart, RxReceive, RxStopBit
  <1>9. sample_clk \in BOOLEAN
    BY DEF PaceInv
  <1>10. rx_current_bit' = 0
    BY <1>1, <1>8 DEF RxStartBit
  <1>11. SampleAge < (BITS + 2) * bit_time
    <2>1. (BITS + 2) * bit_time \in Nat
      BY <1>4, <1>6
    <2> HIDE DEF d, at
    <2> QED
      BY <1>5, <1>6, <1>7, <2>1
  <1>12. CASE ~(sample_clk /\ rx_sample_delay = MiddleOfBit)
    <2>1. /\ rx_state' = "STARTBIT"
          /\ ~sample_clk => rx_sample_delay' = rx_sample_delay
          /\ sample_clk => rx_sample_delay' = rx_sample_delay + 1
      BY <1>1, <1>8, <1>12 DEF RxStartBit
    <2>2. TicksLeft' = MiddleOfBit - rx_sample_delay'
      BY <2>1 DEF TicksLeft
    <2>3. rx_sample_delay' \in 0..MiddleOfBit
      BY <1>1, <1>3, <1>9, <1>12, <2>1
    <2>4. TicksLeft' \in Nat
      <3>1. \A x \in 0..MiddleOfBit : MiddleOfBit - x \in Nat
        BY <1>3
      <3>2. MiddleOfBit - rx_sample_delay' \in Nat
        BY <2>3, <3>1
      <3> QED
        BY <2>2, <3>2, Zenon
    <2>5. \/ ~sample_clk /\ TicksLeft' = TicksLeft
          \/ sample_clk /\ TicksLeft = TicksLeft' + 1
      <3>1. sample_clk => TicksLeft = TicksLeft' + 1
        BY <1>1, <1>3, <2>1, <2>2
      <3>2. ~sample_clk => TicksLeft' = TicksLeft
        BY <1>3, <2>1, <2>2
      <3> QED
        BY <1>9, <3>1, <3>2
    <2>6. /\ position' # Quiet /\ SampleAge' = SampleAge
          /\ sample_clk_divisor' = d /\ frame' = frame /\ sent' = sent
      BY <1>1, <1>3, <1>11, <2>4, <2>5, Waiting
    <2>7. at' = at
      BY <2>6 DEF SampleOf
    <2>8. Aims(at)'
      BY <1>1, <2>6, <2>7 DEF Aims
    <2>9. FrameStarts'
      BY <1>10, <2>1, <2>3, <2>6, <2>8 DEF FrameStarts
    <2> QED
      BY <1>2, <2>6, <2>9 DEF FrameInv
  <1>13. CASE sample_clk /\ rx_sample_delay = MiddleOfBit
    <2>1. /\ rx_state' = "RECEIVE" /\ rx_sample_value' = rx_sample_counter
          /\ rx_sample_counter' = NextSample(rx_sample_counter)
          /\ rx_byte' = rx_byte
      BY <1>1, <1>8, <1>13 DEF RxStartBit, sample_counter
    <2>2. TicksLeft = 0
      BY <1>3, <1>13
    <2>3. TicksLeft' = Left(rx_sample_counter', rx_sample_value')
      BY <2>1 DEF TicksLeft
    <2>4. rx_sample_counter \in 0..(OVERSAMPLING - 1)
      BY DEF ReceiverTyped
    <2>5. TicksLeft' = OVERSAMPLING - 1 /\ OVERSAMPLING - 1 \in Nat
      <3>1. Left(NextSample(rx_sample_counter), rx_sample_counter) = OVERSAMPLING - 1
        BY <2>4, LeftStep
      <3> QED
        BY <2>1, <2>3, <3>1, SampleHalves
    <2>6. position # BITS + 1
      <3> DEFINE a == FrameAge
                 t == bit_time
      <3>1. a = SampleAge
        BY <1>1, <1>13, <2>2, SampleAhead
      <3>2. position \in Nat /\ position * t <= a /\ t \in Nat /\ t >= 1
        BY <1>1, AgeInBit
      <3>3. a \in Nat /\ a < 2 * t
        BY <1>6, <1>7, <3>1
      <3> HIDE DEF a, t
      <3>4. position >= 2 => position * t >= 2 * t
        BY <3>2, ProductGrows
      <3>5. position * t \in Nat /\ 2 * t \in Nat
        BY <3>2
      <3> QED
        BY <1>4, <3>2, <3>3, <3>4, <3>5
    <2>7. /\ position' # Quiet
          /\ SampleAge' = SampleAge + (OVERSAMPLING - 1 + 1) * (d + 1)
          /\ sample_clk_divisor' = d /\ frame' = frame /\ sent' = sent
      <3>1. TicksLeft' \in Nat
        BY <2>5
      <3>2. /\ position' # Quiet
            /\ SampleAge' = SampleAge + (TicksLeft' + 1) * (d + 1)
            /\ sample_clk_divisor' = d /\ frame' = frame /\ sent' = sent
        BY <1>1, <1>13, <2>2, <2>6, <3>1, Sampling
      <3> QED
        BY <2>5, <3>2
    <2>8. OVERSAMPLING - 1 + 1 = OVERSAMPLING
      BY SampleHalves
    <2>9. SampleOf(0 + 1, d) = at + OVERSAMPLING * (d + 1) /\ SampleOf(0 + 1, d) \in Nat
      BY <1>6, SamplesApart
    <2> DEFINE next == SampleOf(0 + 1, d)
    <2>10. next <= SampleAge' /\ SampleAge' <= next + d
      <3> DEFINE w == OVERSAMPLING * (d + 1)
                 s == SampleAge
      <3>1. w \in Nat /\ SampleAge' = s + w /\ next = at + w
        BY <1>6, <2>7, <2>8, <2>9, SampleHalves
      <3>2. s \in Nat /\ at \in Nat /\ d \in Nat /\ at <= s /\ s <= at + d
        BY <1>6, <1>7
      <3> HIDE DEF w, s, at, next, d
      <3> QED
        BY <3>1, <3>2
    <2>11. next' = next
      BY <2>7 DEF SampleOf
    <2>12. Aims(next)'
      BY <2>7, <2>10, <2>11 DEF Aims
    <2>13. Aims(SampleOf(rx_current_bit + 1, sample_clk_divisor))'
      BY <1>10, <2>12
    <2>14. Fits(rx_current_bit)'
      <3>1. rx_byte' \in Nat /\ frame' \in Nat
        BY <2>1, <2>7, BytesBound DEF ReceiverTyped, SenderInv
      <3>2. rx_byte' % 2^0 = frame' % 2^0
        BY <3>1, ModuloOne
      <3> QED
        BY <1>10, <3>2 DEF Fits
    <2>15. FrameReceives'
      BY <2>1, <2>7, <2>13, <2>14 DEF FrameReceives
    <2> QED
      BY <1>2, <2>7, <2>15 DEF FrameInv
  <1> QED
    BY <1>12, <1>13

(* The counter of samples says when the next bit is taken.                 *)
LEMMA CounterStep ==
  ASSUME ReceiverTyped, LineNext, sample_clk \in BOOLEAN,
         rx_state \in { "RECEIVE", "STOPBIT" }
  PROVE  /\ TicksLeft \in Nat
         /\ sample_clk /\ TicksLeft = 0 <=> RxSample
         /\ rx_state' \in { "RECEIVE", "STOPBIT" } =>
              /\ TicksLeft' \in Nat
              /\ RxSample => TicksLeft' = OVERSAMPLING - 1
              /\ ~RxSample => \/ ~sample_clk /\ TicksLeft' = TicksLeft
                              \/ sample_clk /\ TicksLeft = TicksLeft' + 1
  <1> DEFINE c == rx_sample_counter
             v == rx_sample_value
  <1>1. sample_counter /\ uart_receive
    BY DEF LineNext, UartClock
  <1>2. c \in 0..(OVERSAMPLING - 1) /\ v \in 0..(OVERSAMPLING - 1)
    BY DEF ReceiverTyped
  <1>3. TicksLeft = Left(c, v)
    BY DEF TicksLeft
  <1>4. rx_sample_value' = v
    BY <1>1 DEF uart_receive, RxStart, RxStartBit, RxReceive, RxStopBit
  <1>5. rx_sample_counter' = (IF sample_clk THEN NextSample(c) ELSE c)
    BY <1>1 DEF sample_counter
  <1>6. /\ Left(c, v) \in Nat /\ Left(NextSample(c), v) \in Nat
        /\ c = v => Left(c, v) = 0 /\ Left(NextSample(c), v) = OVERSAMPLING - 1
        /\ c # v => Left(c, v) = Left(NextSample(c), v) + 1
    BY <1>2, LeftStep
  <1>7. c = v <=> Left(c, v) = 0
    <2> DEFINE x == Left(c, v)
               y == Left(NextSample(c), v)
    <2>1. x \in Nat /\ y \in Nat /\ (c = v => x = 0) /\ (c # v => x = y + 1)
      BY <1>6
    <2> HIDE DEF x, y
    <2>2. c = v <=> x = 0
      BY <2>1
    <2> QED
      BY <2>2 DEF x
  <1>8. sample_clk /\ TicksLeft = 0 <=> RxSample
    BY <1>3, <1>7 DEF RxSample
  <1>9. ASSUME rx_state' \in { "RECEIVE", "STOPBIT" }
        PROVE  TicksLeft' = (IF sample_clk THEN Left(NextSample(c), v) ELSE Left(c, v))
    <2>1. TicksLeft' = Left(rx_sample_counter', rx_sample_value')
      BY <1>9 DEF TicksLeft
    <2> QED
      BY <1>4, <1>5, <2>1
  <1>10. ASSUME rx_state' \in { "RECEIVE", "STOPBIT" }
         PROVE  /\ TicksLeft' \in Nat
                /\ RxSample => TicksLeft' = OVERSAMPLING - 1
                /\ ~RxSample => \/ ~sample_clk /\ TicksLeft' = TicksLeft
                                \/ sample_clk /\ TicksLeft = TicksLeft' + 1
    <2>1. CASE ~sample_clk
      <3>1. TicksLeft' = TicksLeft /\ TicksLeft' \in Nat
        BY <1>3, <1>6, <1>9, <1>10, <2>1
      <3> QED
        BY <2>1, <3>1 DEF RxSample
    <2>2. CASE sample_clk /\ c = v
      <3>1. TicksLeft' = OVERSAMPLING - 1 /\ TicksLeft' \in Nat
        BY <1>6, <1>9, <1>10, <2>2
      <3> QED
        BY <2>2, <3>1 DEF RxSample
    <2>3. CASE sample_clk /\ c # v
      <3>1. TicksLeft = TicksLeft' + 1 /\ TicksLeft' \in Nat
        BY <1>3, <1>6, <1>9, <1>10, <2>3
      <3> QED
        BY <2>3, <3>1 DEF RxSample
    <2> QED
      BY <2>1, <2>2, <2>3
  <1> QED
    BY <1>3, <1>6, <1>8, <1>10

(* A bit is taken where it is on the line.                                 *)
LEMMA ReceivesStep ==
  ASSUME Octets, DivisorInv, PaceInv, SenderInv, ReceiverTyped, LineNext, DivisorOnce, Timely,
         FrameReceives, sent = Append(arrived, frame)
  PROVE  FrameInv'
  <1> DEFINE d == sample_clk_divisor
             k == rx_current_bit
             at == SampleOf(k + 1, d)
  <1>1. /\ rx_state = "RECEIVE" /\ position # Quiet /\ Aims(at) /\ Fits(k)
        /\ uart_receive /\ RecordArrival
    BY DEF FrameReceives, LineNext, UartClock
  <1>2. arrived' = arrived
    BY <1>1 DEF RecordArrival
  <1>3. sample_clk \in BOOLEAN
    BY DEF PaceInv
  <1>4. /\ BITS \in Nat /\ BITS >= 1 /\ BITS <= 8 /\ k \in 0..(BITS - 1)
        /\ k \in Nat /\ k + 1 \in 1..(BITS + 1)
    BY BytesBound DEF ReceiverTyped
  <1>5. at + d < (BITS + 2) * bit_time /\ d \in Divisors /\ bit_time \in BitTimes
    BY <1>1, <1>4, InFrame
  <1>6. d \in Nat /\ bit_time \in Nat /\ at \in Nat
    BY <1>4, <1>5, SampleFalls
  <1>7. TicksLeft \in Nat /\ (sample_clk /\ TicksLeft = 0 <=> RxSample)
    BY <1>1, <1>3, CounterStep
  <1>8. SampleAge \in Nat /\ at <= SampleAge /\ SampleAge <= at + d
    BY <1>1, <1>7, SampleAhead DEF Aims
  <1>9. RxReceive
    BY <1>1 DEF uart_receive, RxStart, RxStartBit, RxStopBit
  <1>10. SampleAge < (BITS + 2) * bit_time
    <2>1. (BITS + 2) * bit_time \in Nat
      BY <1>4, <1>6
    <2> HIDE DEF d, at
    <2> QED
      BY <1>5, <1>6, <1>8, <2>1
  <1>11. CASE ~RxSample
    <2>1. rx_state' = "RECEIVE" /\ rx_current_bit' = k /\ rx_byte' = rx_byte
      BY <1>1, <1>9, <1>11 DEF RxReceive
    <2>2. /\ TicksLeft' \in Nat
          /\ \/ ~sample_clk /\ TicksLeft' = TicksLeft
             \/ sample_clk /\ TicksLeft = TicksLeft' + 1
      BY <1>1, <1>3, <1>11, <2>1, CounterStep
    <2>3. /\ position' # Quiet /\ SampleAge' = SampleAge
          /\ sample_clk_divisor' = d /\ frame' = frame /\ sent' = sent
      BY <1>1, <1>7, <1>10, <2>2, Waiting
    <2>4. at' = at
      BY <2>1, <2>3 DEF SampleOf
    <2>5. Aims(at)'
      BY <1>1, <2>3, <2>4 DEF Aims
    <2>6. Fits(k)'
      BY <1>1, <2>1, <2>3 DEF Fits
    <2>7. FrameReceives'
      BY <2>1, <2>3, <2>5, <2>6 DEF FrameReceives
    <2> QED
      BY <1>2, <2>3, <2>7 DEF FrameInv
  <1>12. CASE RxSample
    <2>1. sample_clk /\ TicksLeft = 0
      BY <1>7, <1>12
    <2>2. position = k + 1
      BY <1>1, <1>4, <2>1, AtSample
    <2>3. rxd \in BOOLEAN /\ (rxd <=> BitOf(frame, k)) /\ frame \in Bytes
      BY <1>4, <2>2, LineLevel
    <2>4. /\ rx_byte' = WithBit(rx_byte, k, rxd)
          /\ k # BITS - 1 => rx_state' = "RECEIVE" /\ rx_current_bit' = k + 1
          /\ k = BITS - 1 => rx_state' = "STOPBIT"
      BY <1>1, <1>9, <1>12 DEF RxReceive
    <2>5. position # BITS + 1
      BY <1>4, <2>2
    <2>6. TicksLeft' = OVERSAMPLING - 1 /\ TicksLeft' \in Nat
      BY <1>1, <1>3, <1>12, <2>4, CounterStep
    <2>7. /\ position' # Quiet
          /\ SampleAge' = SampleAge + (TicksLeft' + 1) * (d + 1)
          /\ sample_clk_divisor' = d /\ frame' = frame /\ sent' = sent
      BY <1>1, <2>1, <2>5, <2>6, Sampling
    <2> DEFINE next == SampleOf(k + 1 + 1, d)
    <2>8. next <= SampleAge' /\ SampleAge' <= next + d
      <3> DEFINE w == OVERSAMPLING * (d + 1)
                 s == SampleAge
      <3>1. OVERSAMPLING - 1 + 1 = OVERSAMPLING /\ w \in Nat
        BY <1>6, SampleHalves
      <3>2. SampleAge' = s + w
        BY <2>6, <2>7, <3>1
      <3>3. next = at + w
        BY <1>4, <1>6, SamplesApart
      <3>4. s \in Nat /\ at \in Nat /\ d \in Nat /\ at <= s /\ s <= at + d
        BY <1>6, <1>8
      <3> HIDE DEF w, s, at, next, d
      <3> QED
        BY <3>1, <3>2, <3>3, <3>4
    <2>9. rx_byte' % 2^(k + 1) = frame' % 2^(k + 1)
      <3>1. rx_byte \in Nat /\ frame \in Nat
        BY <2>3, BytesBound DEF ReceiverTyped
      <3>2. rx_byte % 2^k = frame % 2^k
        BY <1>1 DEF Fits
      <3>3. k <= 7
        BY <1>4
      <3>4. WithBit(rx_byte, k, BitOf(frame, k)) % 2^(k + 1) = frame % 2^(k + 1)
        BY <1>4, <3>1, <3>2, <3>3, BitWritten
      <3>5. WithBit(rx_byte, k, rxd) = WithBit(rx_byte, k, BitOf(frame, k))
        BY <2>3 DEF WithBit
      <3> QED
        BY <2>4, <2>7, <3>4, <3>5
    <2>10. CASE k # BITS - 1
      <3>1. rx_state' = "RECEIVE" /\ rx_current_bit' = k + 1
        BY <2>4, <2>10
      <3>2. SampleOf(rx_current_bit' + 1, sample_clk_divisor') = next
        BY <2>7, <3>1
      <3>3. Aims(SampleOf(rx_current_bit + 1, sample_clk_divisor))'
        BY <2>7, <2>8, <3>2 DEF Aims, SampleOf
      <3>4. Fits(rx_current_bit)'
        BY <2>9, <3>1 DEF Fits
      <3>5. FrameReceives'
        BY <2>7, <3>1, <3>3, <3>4 DEF FrameReceives
      <3> QED
        BY <1>2, <2>7, <3>5 DEF FrameInv
    <2>11. CASE k = BITS - 1
      <3>1. rx_state' = "STOPBIT" /\ k + 1 = BITS
        BY <1>4, <2>4, <2>11
      <3>2. SampleOf(BITS + 1, sample_clk_divisor') = next
        BY <2>7, <3>1
      <3>3. Aims(SampleOf(BITS + 1, sample_clk_divisor))'
        BY <2>7, <2>8, <3>2 DEF Aims, SampleOf
      <3>4. Fits(BITS)'
        BY <2>9, <3>1 DEF Fits
      <3>5. FrameStops'
        BY <2>7, <3>1, <3>3, <3>4 DEF FrameStops
      <3> QED
        BY <1>2, <2>7, <3>5 DEF FrameInv
    <2> QED
      BY <2>10, <2>11
  <1> QED
    BY <1>11, <1>12

(* In the stop bit the character is complete.                              *)
LEMMA StopsStep ==
  ASSUME Octets, DivisorInv, PaceInv, SenderInv, ReceiverTyped, LineNext, DivisorOnce, Timely,
         FrameStops, sent = Append(arrived, frame)
  PROVE  FrameInv'
  <1> DEFINE d == sample_clk_divisor
             at == SampleOf(BITS + 1, d)
  <1>1. /\ rx_state = "STOPBIT" /\ position # Quiet /\ Aims(at) /\ Fits(BITS)
        /\ uart_receive /\ RecordArrival
    BY DEF FrameStops, LineNext, UartClock
  <1>2. sample_clk \in BOOLEAN
    BY DEF PaceInv
  <1>3. BITS \in Nat /\ BITS >= 1 /\ BITS + 1 \in 1..(BITS + 1)
    BY UartAssumption
  <1>4. at + d < (BITS + 2) * bit_time /\ d \in Divisors /\ bit_time \in BitTimes
    BY <1>1, <1>3, InFrame
  <1>5. d \in Nat /\ bit_time \in Nat /\ at \in Nat
    BY <1>3, <1>4, SampleFalls
  <1>6. TicksLeft \in Nat /\ (sample_clk /\ TicksLeft = 0 <=> RxSample)
    BY <1>1, <1>2, CounterStep
  <1>7. SampleAge \in Nat /\ at <= SampleAge /\ SampleAge <= at + d
    BY <1>1, <1>6, SampleAhead DEF Aims
  <1>8. RxStopBit
    BY <1>1 DEF uart_receive, RxStart, RxStartBit, RxReceive
  <1>9. SampleAge < (BITS + 2) * bit_time
    <2>1. (BITS + 2) * bit_time \in Nat
      BY <1>3, <1>5
    <2> HIDE DEF d, at
    <2> QED
      BY <1>4, <1>5, <1>7, <2>1
  <1>10. CASE ~RxSample
    <2>1. rx_state' = "STOPBIT" /\ rx_byte' = rx_byte
      BY <1>1, <1>8, <1>10 DEF RxStopBit
    <2>2. arrived' = arrived
      BY <1>1, <2>1 DEF RecordArrival
    <2>3. /\ TicksLeft' \in Nat
          /\ \/ ~sample_clk /\ TicksLeft' = TicksLeft
             \/ sample_clk /\ TicksLeft = TicksLeft' + 1
      BY <1>1, <1>2, <1>10, <2>1, CounterStep
    <2>4. /\ position' # Quiet /\ SampleAge' = SampleAge
          /\ sample_clk_divisor' = d /\ frame' = frame /\ sent' = sent
      BY <1>1, <1>6, <1>9, <2>3, Waiting
    <2>5. at' = at
      BY <2>4 DEF SampleOf
    <2>6. Aims(at)'
      BY <1>1, <2>4, <2>5 DEF Aims
    <2>7. Fits(BITS)'
      BY <1>1, <2>1, <2>4 DEF Fits
    <2>8. FrameStops'
      BY <2>1, <2>4, <2>6, <2>7 DEF FrameStops
    <2> QED
      BY <2>2, <2>4, <2>8 DEF FrameInv
  <1>11. CASE RxSample
    <2>1. sample_clk /\ TicksLeft = 0
      BY <1>6, <1>11
    <2>2. position = BITS + 1
      BY <1>1, <1>3, <2>1, AtSample
    <2>3. rx_state' = "IDLE"
      BY <1>1, <1>8, <1>11 DEF RxStopBit
    <2>4. arrived' = Append(arrived, rx_byte)
      BY <1>1, <2>3 DEF RecordArrival
    <2>5. rx_byte = frame
      <3>1. rx_byte \in Bytes /\ frame \in Bytes /\ rx_byte % 2^BITS = frame % 2^BITS
        BY <1>1 DEF ReceiverTyped, SenderInv, Fits
      <3> QED
        BY <3>1, SameByte
    <2>6. position' \in { BITS + 1, Quiet } /\ sent' = sent
      BY <1>1, <2>2, SenderCases DEF lineVars
    <2>7. FrameEnds'
      BY <2>3, <2>4, <2>5, <2>6 DEF FrameEnds, Quiet
    <2> QED
      BY <2>7 DEF FrameInv
  <1> QED
    BY <1>10, <1>11

-----------------------------------------------------------------------------
LEMMA DriftStep ==
  ASSUME Octets, Timely, DivisorOnce, DriftInv, LineNext
  PROVE  DriftInv'
  <1>1. DivisorInv' /\ PaceInv' /\ SenderInv'
    BY DivisorStep, PaceStep, SenderStep DEF DriftInv
  <1>2. ReceiverTyped'
    BY TypedStep DEF DriftInv
  <1>3. FrameInv'
    BY EndsStep, BeginsStep, StartsStep, ReceivesStep, StopsStep DEF DriftInv, FrameInv
  <1> QED
    BY <1>1, <1>2, <1>3 DEF DriftInv

LEMMA DriftInit ==
  ASSUME Octets, LineInit
  PROVE  DriftInv
  <1>1. DivisorInv
    BY BusShapes DEF LineInit, Init, UartInit, DivisorInv, Idle
  <1>2. PaceInv
    BY DEF LineInit, Init, UartInit, PaceInv
  <1>3. SenderInv
    <2>1. 0 \in Bytes /\ BITS \in Nat /\ BITS >= 1
      BY BytesBound
    <2>2. rxd = Level(frame, position)
      <3>1. rxd = TRUE /\ position = BITS + 2
        BY DEF LineInit, Init, Quiet
      <3>2. position # 0 /\ position \notin 1..BITS
        BY <2>1, <3>1
      <3>3. Level(frame, position) = TRUE
        BY <3>2 DEF Level
      <3> QED
        BY <3>1, <3>3
    <2> QED
      BY <2>1, <2>2 DEF LineInit, Init, SenderInv, Quiet
  <1>4. ReceiverTyped
    <2>1. 0 \in Bytes /\ 0 \in 0..(BITS - 1)
      BY BytesBound
    <2>2. 0 \in 0..(OVERSAMPLING - 1)
      BY SampleHalves
    <2> QED
      BY <2>1, <2>2 DEF LineInit, Init, UartInit, ReceiverTyped
  <1>5. FrameInv
    <2>1. FrameEnds
      BY DEF LineInit, Init, UartInit, FrameEnds
    <2> QED
      BY <2>1 DEF FrameInv
  <1> QED
    BY <1>1, <1>2, <1>3, <1>4, <1>5 DEF DriftInv

LEMMA DriftStutter == DriftInv /\ UNCHANGED allVars => DriftInv'
  <1> SUFFICES ASSUME DriftInv, UNCHANGED allVars PROVE DriftInv'
    OBVIOUS
  <1> USE DEF allVars, vars, uartVars, softwareVars, lineVars
  <1>1. DivisorInv'
    BY DEF DriftInv, DivisorInv
  <1>2. PaceInv'
    BY DEF DriftInv, PaceInv
  <1>3. SenderInv'
    BY DEF DriftInv, SenderInv, Level
  <1>4. ReceiverTyped'
    BY DEF DriftInv, ReceiverTyped
  <1>5. SampleAge' = SampleAge
    BY DEF SampleAge, FrameAge, UntilTick, TicksLeft, Left
  <1>6. FrameInv'
    BY <1>5 DEF DriftInv, FrameInv, FrameEnds, FrameBegins, FrameStarts, FrameReceives,
                FrameStops, Aims, Fits, SampleOf
  <1> QED
    BY <1>1, <1>2, <1>3, <1>4, <1>6 DEF DriftInv

(* What has arrived is what was sent, but for the frame on the line.       *)
LEMMA DriftReceives ==
  ASSUME DriftInv
  PROVE  LineReceived
  <1>1. CASE FrameEnds
    <2>1. arrived = sent /\ sent \in Seq(Bytes)
      BY <1>1 DEF FrameEnds, DriftInv, SenderInv
    <2>2. sent = SubSeq(sent, 1, Len(sent)) /\ Len(sent) \in Nat
      BY <2>1
    <2> QED
      BY <2>1, <2>2 DEF LineReceived, IsPrefixOf
  <1>2. CASE ~FrameEnds
    <2>1. sent = Append(arrived, frame) /\ position # Quiet
      BY <1>2 DEF DriftInv, FrameInv, FrameBegins, FrameStarts, FrameReceives, FrameStops
    <2>2. arrived \in Seq(Bytes) /\ frame \in Bytes
      BY DEF DriftInv, ReceiverTyped, SenderInv
    <2>3. Len(arrived) <= Len(sent) /\ arrived = SubSeq(sent, 1, Len(arrived))
      <3>1. Len(sent) = Len(arrived) + 1 /\ Len(arrived) \in Nat
        BY <2>1, <2>2
      <3>2. arrived = SubSeq(sent, 1, Len(arrived))
        BY <2>1, <2>2
      <3> QED
        BY <3>1, <3>2
    <2> QED
      BY <2>1, <2>3 DEF LineReceived, IsPrefixOf
  <1> QED
    BY <1>1, <1>2

-----------------------------------------------------------------------------
(* The receiver waits for the middle of the bits of the frame on the line, *)
(* and what it has is what the frame has so far (pp_soc_uart 122-172).     *)
THEOREM DriftIsSound ==
  ASSUME Octets, DivisorOnce
  PROVE  LineSpec => []DriftInv
  <1>1. LineInit => DriftInv
    BY DriftInit
  <1>2. DriftInv /\ [LineNext]_allVars => DriftInv'
    BY SenderAssumption, DriftStep, DriftStutter
  <1> QED
    BY <1>1, <1>2, PTL DEF LineSpec

(* Every character that a sender with a clock of its own sends, a little   *)
(* faster or slower, arrives as it was sent, in order (UartLine).          *)
THEOREM CharactersAreReceived ==
  ASSUME Octets, DivisorOnce
  PROVE  LineSpec => []LineReceived
  <1>1. DriftInv => LineReceived
    BY DriftReceives
  <1> QED
    BY <1>1, DriftIsSound, PTL
=============================================================================
