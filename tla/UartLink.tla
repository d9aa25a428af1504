------------------------------ MODULE UartLink ------------------------------
(***************************************************************************)
(* The UART with its output wired to its input, and the software that uses *)
(* it through the functions of src/libsoc/uart.h: it sets the divisor,     *)
(* sends only after it saw that the send buffer is not full, and reads     *)
(* only after it saw, in the status or by the interrupt, that something    *)
(* was received.  The bus is driven as by the processor's bus adapter: the *)
(* strobe falls at the edge that sees the acknowledge and may rise at the  *)
(* next one.  A load is one read of the bus here; that the processor makes *)
(* two of it is a matter of MemorySystem.                                  *)
(***************************************************************************)
EXTENDS Uart

CONSTANTS
  Payloads,          \* bytes the software sends
  Divisors,          \* values it gives the divisor
  MaxSent,           \* bound: bytes sent
  MaxDivisorWrites   \* bound: times the divisor is written

ASSUME LinkAssumption ==
  /\ Payloads \subseteq Bytes
  /\ Divisors \subseteq 0 .. CounterRange - 1
  /\ MaxSent \in Nat /\ MaxDivisorWrites \in Nat

VARIABLES
  may_send,   \* a status read after the last transmission showed room
  may_read,   \* a status read after the last reception showed a byte
  divisor_writes,
  sent,       \* history: bytes written to the transmit register
  arrived,    \* history: characters received from the line
  kept,       \* history: those of them that were queued
  read        \* history: bytes read from the receive register

softwareVars == << may_send, may_read, divisor_writes, sent, read >>
vars == << uartVars, softwareVars, arrived, kept >>

Idle == [ stb |-> FALSE, we |-> FALSE, adr |-> "other", dat |-> 0 ]
Read(adr) == [ stb |-> TRUE, we |-> FALSE, adr |-> adr, dat |-> 0 ]
Write(adr, dat) == [ stb |-> TRUE, we |-> TRUE, adr |-> adr, dat |-> dat ]

Init ==
  /\ UartInit
  /\ rxd = TRUE
  /\ bus = Idle
  /\ may_send = FALSE /\ may_read = FALSE /\ divisor_writes = 0
  /\ sent = << >> /\ arrived = << >> /\ kept = << >> /\ read = << >>

-------------------------------------------------------------------------------
uart_set_divisor ==
  /\ divisor_writes < MaxDivisorWrites
  /\ \E d \in Divisors : bus' = Write("divisor", d)
  /\ divisor_writes' = divisor_writes + 1
  /\ UNCHANGED << may_send, may_read, sent, read >>

uart_enable_interrupt ==
  /\ ~irq_recv_enable
  /\ bus' = Write("interrupt", 1)
  /\ UNCHANGED << may_send, may_read, divisor_writes, sent, read >>

uart_tx ==
  /\ may_send /\ Len(sent) < MaxSent
  /\ \E b \in Payloads : bus' = Write("transmit", b) /\ sent' = Append(sent, b)
  /\ may_send' = FALSE
  /\ UNCHANGED << may_read, divisor_writes, read >>

(* The only interrupt enabled is that of the receiver.                     *)
uart_rx ==
  /\ may_read \/ irq
  /\ bus' = Read("receive")
  /\ UNCHANGED << may_send, may_read, divisor_writes, sent, read >>

uart_status ==
  /\ ~may_send \/ ~may_read
  /\ bus' = Read("status")
  /\ UNCHANGED softwareVars

(* The edge that sees the acknowledge ends the transfer.                   *)
Finish ==
  /\ bus.stb /\ wb_ack_out
  /\ bus' = Idle
  /\ CASE ~bus.we /\ bus.adr = "status" ->
            /\ may_read' = ~BitOf(wb_dat_out, 0)
            /\ may_send' = ~BitOf(wb_dat_out, 3)
            /\ UNCHANGED read
       [] ~bus.we /\ bus.adr = "receive" ->
            /\ read' = Append(read, wb_dat_out)
            /\ may_read' = FALSE
            /\ UNCHANGED may_send
       [] OTHER -> UNCHANGED << may_send, may_read, read >>
  /\ UNCHANGED << divisor_writes, sent >>

Wait ==
  /\ bus.stb => ~wb_ack_out
  /\ UNCHANGED << bus, softwareVars >>

(* The divisor comes first, as in src/software/bootloader/main.c.          *)
Software ==
  \/ Finish
  \/ Wait
  \/ /\ ~bus.stb
     /\ \/ uart_set_divisor
        \/ /\ divisor_writes > 0
           /\ uart_enable_interrupt \/ uart_tx \/ uart_rx \/ uart_status

(* The histories grow when the receiver leaves the stop bit.               *)
RecordArrival ==
  LET leaves == rx_state = "STOPBIT" /\ rx_state' = "IDLE"
  IN  /\ arrived' = IF leaves THEN Append(arrived, rx_byte) ELSE arrived
      /\ kept' = IF leaves /\ recv_buffer_push' THEN Append(kept, rx_byte) ELSE kept

Next ==
  /\ UartClock
  /\ rxd' = txd'
  /\ Software
  /\ RecordArrival

Spec == Init /\ [][Next]_vars
FairSpec == Spec /\ WF_vars(Next)

-------------------------------------------------------------------------------
IsPrefixOf(s, t) == Len(s) <= Len(t) /\ s = SubSeq(t, 1, Len(s))

(* The characters that come out of the receiver are those the software     *)
(* wrote, in order, each once: a write is pushed once, popped once, and    *)
(* goes over the line with every bit in its place (195-230, 124-172).      *)
LineInOrder == IsPrefixOf(arrived, sent)

\* A byte the receive queue has delivered and the bus has not, and one that
\* the receiver wants queued.
Handing ==
  IF wb_state = "READ_ACK" /\ bus.stb /\ bus.adr = "receive" /\ ~recv_buffer_pop
  THEN << recv.data_out >> ELSE << >>
Pushing == IF recv_buffer_push THEN << rx_byte >> ELSE << >>

(* What the software reads, what is still queued and what is just being    *)
(* pushed or handed over make up the kept characters: none is lost,        *)
(* repeated or reordered between the receiver and the bus (142, 343-374).  *)
ReadsInOrder == kept = read \o Handing \o Buffer!Contents(recv) \o Pushing

(* No queue is popped when empty or pushed when full, although the tests   *)
(* were made edges earlier (165, 204) or by software that polled before.   *)
QueuesRespected ==
  /\ send_buffer_push => ~Buffer!Full(send)
  /\ send_buffer_pop  => ~Buffer!Empty(send)
  /\ recv_buffer_push => ~Buffer!Full(recv)
  /\ recv_buffer_pop  => ~Buffer!Empty(recv)

(* Every character written arrives, whatever the software does meanwhile.  *)
AllArrives == \A n \in 1 .. MaxSent : (Len(sent) >= n) ~> (Len(arrived) >= n)
==============================================================================
