-------------------------------- MODULE Uart --------------------------------
(***************************************************************************)
(* The UART, src/soc/pp_soc_uart.vhd: receiver, transmitter, sample clock, *)
(* two queues and the bus interface.  Each clocked process is an operator  *)
(* with its name and UartClock is one edge of the clock.  Signals keep     *)
(* their names, a std_logic is a boolean, a byte is a number.              *)
(*                                                                         *)
(* The width of a character, the samples per bit and the range of the      *)
(* sample counter are parameters: 8, 16 and 256 in the code.  What drives  *)
(* the bus and rxd is left to the modules that extend this one.            *)
(***************************************************************************)
EXTENDS Integers, Sequences

CONSTANTS
  BITS,              \* bits of a character
  OVERSAMPLING,      \* samples per bit
  CounterRange,      \* values of sample_clk_counter and of the divisor
  FIFO_DEPTH         \* entries of each queue

ASSUME UartAssumption ==
  /\ BITS \in Nat \ {0}
  /\ OVERSAMPLING \in Nat /\ OVERSAMPLING >= 2 /\ OVERSAMPLING % 2 = 0
  /\ CounterRange \in Nat \ {0}
  /\ FIFO_DEPTH \in Nat \ {0}

VARIABLES
  sample_clk, sample_clk_divisor, sample_clk_counter,
  rx_state, rx_byte, rx_current_bit,
  rx_sample_counter, rx_sample_value, rx_sample_delay,
  tx_state, tx_current_bit, uart_tx_counter, uart_tx_clk,
  txd, rxd,
  send, send_buffer_input, send_buffer_push, send_buffer_pop,
  recv, recv_buffer_push, recv_buffer_pop,
  irq_recv_enable, irq_tx_ready_enable,
  wb_state, wb_ack, wb_dat_out,
  bus                \* what the bus master drives: stb (and cyc), we, adr, dat

uartVars ==
  << sample_clk, sample_clk_divisor, sample_clk_counter, rx_state, rx_byte,
     rx_current_bit, rx_sample_counter, rx_sample_value, rx_sample_delay,
     tx_state, tx_current_bit, uart_tx_counter, uart_tx_clk, txd, rxd, send,
     send_buffer_input, send_buffer_push, send_buffer_pop, recv,
     recv_buffer_push, recv_buffer_pop, irq_recv_enable, irq_tx_ready_enable,
     wb_state, wb_ack, wb_dat_out, bus >>

Bytes == 0 .. 2^BITS - 1

Buffer == INSTANCE Fifo WITH DEPTH <- FIFO_DEPTH, Data <- Bytes

BitOf(byte, n) == (byte \div 2^n) % 2 = 1
WithBit(byte, n, high) ==
  byte - (IF BitOf(byte, n) THEN 2^n ELSE 0) + (IF high THEN 2^n ELSE 0)

Addresses == {"transmit", "receive", "status", "divisor", "interrupt", "other"}

UartInit ==
  /\ sample_clk = FALSE /\ sample_clk_divisor = 0 /\ sample_clk_counter = 0
  /\ rx_state = "IDLE" /\ rx_byte = 0 /\ rx_current_bit = 0
  /\ rx_sample_counter = 0 /\ rx_sample_value = 0 /\ rx_sample_delay = 0
  /\ tx_state = "IDLE" /\ tx_current_bit = 0
  /\ uart_tx_counter = 0 /\ uart_tx_clk = FALSE
  /\ txd = TRUE
  /\ send = Buffer!NewFifo(0) /\ send_buffer_input = 0
  /\ send_buffer_push = FALSE /\ send_buffer_pop = FALSE
  /\ recv = Buffer!NewFifo(0)
  /\ recv_buffer_push = FALSE /\ recv_buffer_pop = FALSE
  /\ irq_recv_enable = FALSE /\ irq_tx_ready_enable = FALSE
  /\ wb_state = "IDLE" /\ wb_ack = FALSE /\ wb_dat_out = 0

irq ==
  \/ irq_recv_enable /\ ~Buffer!Empty(recv)
  \/ irq_tx_ready_enable /\ Buffer!Empty(send)

-------------------------------------------------------------------------------
(* Receiver.                                                               *)

RxSample == sample_clk /\ rx_sample_counter = rx_sample_value

RxStart ==
  /\ rx_state = "IDLE"
  /\ recv_buffer_push' = FALSE
  /\ IF sample_clk /\ ~rxd
     THEN /\ rx_sample_value' = rx_sample_counter
          /\ rx_sample_delay' = 0
          /\ rx_current_bit' = 0
          /\ rx_state' = "STARTBIT"
     ELSE UNCHANGED << rx_sample_value, rx_sample_delay, rx_current_bit, rx_state >>
  /\ UNCHANGED rx_byte

(* Mutant: the bits are sampled where they begin, not in their middle.     *)
MiddleOfBitEarly == 0

MiddleOfBit == OVERSAMPLING \div 2 - 1

RxStartBit ==
  /\ rx_state = "STARTBIT"
  /\ IF sample_clk
     THEN IF rx_sample_delay = MiddleOfBit
          THEN /\ rx_state' = "RECEIVE"
               /\ rx_sample_value' = rx_sample_counter
               /\ rx_sample_delay' = 0
          ELSE /\ rx_sample_delay' = rx_sample_delay + 1
               /\ UNCHANGED << rx_state, rx_sample_value >>
     ELSE UNCHANGED << rx_state, rx_sample_value, rx_sample_delay >>
  /\ UNCHANGED << rx_byte, rx_current_bit, recv_buffer_push >>

RxReceive ==
  /\ rx_state = "RECEIVE"
  /\ IF RxSample
     THEN /\ rx_byte' = WithBit(rx_byte, rx_current_bit, rxd)
          /\ IF rx_current_bit # BITS - 1
             THEN /\ rx_current_bit' = rx_current_bit + 1
                  /\ UNCHANGED rx_state
             ELSE /\ rx_state' = "STOPBIT"
                  /\ UNCHANGED rx_current_bit
     ELSE UNCHANGED << rx_byte, rx_current_bit, rx_state >>
  /\ UNCHANGED << rx_sample_value, rx_sample_delay, recv_buffer_push >>

(* Mutant: a character is queued although there is no room for it.         *)
RxKeepsAlways == TRUE

RxKeeps == ~Buffer!Full(recv)

RxStopBit ==
  /\ rx_state = "STOPBIT"
  /\ IF RxSample
     THEN /\ rx_state' = "IDLE"
          /\ recv_buffer_push' = (IF RxKeeps THEN TRUE ELSE recv_buffer_push)
     ELSE UNCHANGED << rx_state, recv_buffer_push >>
  /\ UNCHANGED << rx_byte, rx_current_bit, rx_sample_value, rx_sample_delay >>

uart_receive == RxStart \/ RxStartBit \/ RxReceive \/ RxStopBit

NextSample(counter) ==
  IF counter = OVERSAMPLING - 1 THEN 0 ELSE counter + 1

sample_counter ==
  rx_sample_counter' =
    IF sample_clk THEN NextSample(rx_sample_counter) ELSE rx_sample_counter

-------------------------------------------------------------------------------
(* Transmitter.                                                            *)

TxStart ==
  /\ tx_state = "IDLE"
  /\ IF uart_tx_clk /\ ~Buffer!Empty(send)
     THEN /\ txd' = FALSE
          /\ send_buffer_pop' = TRUE
          /\ tx_current_bit' = 0
          /\ tx_state' = "TRANSMIT"
     ELSE /\ txd' = (uart_tx_clk \/ txd)
          /\ UNCHANGED << send_buffer_pop, tx_current_bit, tx_state >>

TxTransmit ==
  /\ tx_state = "TRANSMIT"
  /\ IF send_buffer_pop
     THEN /\ send_buffer_pop' = FALSE
          /\ UNCHANGED << txd, tx_current_bit, tx_state >>
     ELSE /\ IF uart_tx_clk
             THEN /\ txd' = BitOf(send.data_out, tx_current_bit)
                  /\ IF tx_current_bit = BITS - 1
                     THEN tx_state' = "STOPBIT" /\ UNCHANGED tx_current_bit
                     ELSE tx_current_bit' = tx_current_bit + 1 /\ UNCHANGED tx_state
             ELSE UNCHANGED << txd, tx_current_bit, tx_state >>
          /\ UNCHANGED send_buffer_pop

TxStopBit ==
  /\ tx_state = "STOPBIT"
  /\ txd' = (uart_tx_clk \/ txd)
  /\ tx_state' = (IF uart_tx_clk THEN "IDLE" ELSE "STOPBIT")
  /\ UNCHANGED << send_buffer_pop, tx_current_bit >>

uart_transmit == TxStart \/ TxTransmit \/ TxStopBit

uart_tx_clock_generator ==
  /\ uart_tx_counter' =
       IF sample_clk THEN NextSample(uart_tx_counter) ELSE uart_tx_counter
  /\ uart_tx_clk' = (sample_clk /\ uart_tx_counter = OVERSAMPLING - 1)

(* The divisor is written while the counter is anywhere: the comparison is *)
(* for equality, and the counter may have to wrap to meet it.              *)
sample_clock_generator ==
  IF sample_clk_divisor # 0
  THEN /\ sample_clk' = (sample_clk_counter = sample_clk_divisor)
       /\ sample_clk_counter' =
            IF sample_clk_counter = sample_clk_divisor
            THEN 0 ELSE (sample_clk_counter + 1) % CounterRange
  ELSE UNCHANGED << sample_clk, sample_clk_counter >>

-------------------------------------------------------------------------------
(* Bus interface.                                                          *)

Flag(b, weight) == IF b THEN weight ELSE 0

Status ==
  Flag(Buffer!Empty(recv), 1) + Flag(Buffer!Empty(send), 2)
    + Flag(Buffer!Full(recv), 4) + Flag(Buffer!Full(send), 8)

InterruptEnables == Flag(irq_recv_enable, 1) + Flag(irq_tx_ready_enable, 2)

WbWrite ==
  /\ wb_state = "IDLE" /\ bus.stb /\ bus.we
  /\ send_buffer_push' = (IF bus.adr = "transmit" THEN TRUE ELSE send_buffer_push)
  /\ send_buffer_input' = (IF bus.adr = "transmit" THEN bus.dat ELSE send_buffer_input)
  /\ sample_clk_divisor' = (IF bus.adr = "divisor" THEN bus.dat ELSE sample_clk_divisor)
  /\ IF bus.adr = "interrupt"
     THEN /\ irq_recv_enable' = BitOf(bus.dat, 0)
          /\ irq_tx_ready_enable' = BitOf(bus.dat, 1)
     ELSE UNCHANGED << irq_recv_enable, irq_tx_ready_enable >>
  /\ wb_ack' = TRUE
  /\ wb_state' = "WRITE_ACK"
  /\ UNCHANGED << recv_buffer_pop, wb_dat_out >>

(* A read of the receive register is acknowledged two edges later, when    *)
(* the queue has delivered.                                                *)
WbRead ==
  /\ wb_state = "IDLE" /\ bus.stb /\ ~bus.we
  /\ IF bus.adr = "receive"
     THEN /\ recv_buffer_pop' = TRUE
          /\ UNCHANGED << wb_dat_out, wb_ack >>
     ELSE /\ wb_dat_out' = CASE bus.adr = "status"    -> Status
                             [] bus.adr = "divisor"   -> sample_clk_divisor
                             [] bus.adr = "interrupt" -> InterruptEnables
                             [] OTHER                 -> 0
          /\ wb_ack' = TRUE
          /\ UNCHANGED recv_buffer_pop
  /\ wb_state' = "READ_ACK"
  /\ UNCHANGED << send_buffer_push, send_buffer_input, sample_clk_divisor,
                  irq_recv_enable, irq_tx_ready_enable >>

WbIdle ==
  /\ wb_state = "IDLE" /\ ~bus.stb
  /\ UNCHANGED << send_buffer_push, send_buffer_input, sample_clk_divisor,
                  irq_recv_enable, irq_tx_ready_enable, recv_buffer_pop,
                  wb_dat_out, wb_ack, wb_state >>

(* Both acknowledge states leave when the strobe falls.                    *)
WbLeave(state) ==
  wb_state' = IF bus.stb THEN state ELSE "IDLE"

(* Mutant: the push request stays until the bus master lets go.            *)
PushAfterWriteHeld == bus.stb

PushAfterWrite == FALSE

WbWriteAck ==
  /\ wb_state = "WRITE_ACK"
  /\ send_buffer_push' = PushAfterWrite
  /\ wb_ack' = (wb_ack /\ bus.stb)
  /\ WbLeave("WRITE_ACK")
  /\ UNCHANGED << send_buffer_input, sample_clk_divisor, irq_recv_enable,
                  irq_tx_ready_enable, recv_buffer_pop, wb_dat_out >>

(* Mutant: the answer is given together with the end of the pop request.   *)
ReadDelivers(popping) == TRUE

ReadDelivered(popping) == ~popping

WbReadAck ==
  /\ wb_state = "READ_ACK"
  /\ recv_buffer_pop' = FALSE
  /\ wb_dat_out' = (IF ReadDelivered(recv_buffer_pop) THEN recv.data_out ELSE wb_dat_out)
  /\ wb_ack' = (bus.stb /\ (wb_ack \/ ReadDelivered(recv_buffer_pop)))
  /\ WbLeave("READ_ACK")
  /\ UNCHANGED << send_buffer_push, send_buffer_input, sample_clk_divisor,
                  irq_recv_enable, irq_tx_ready_enable >>

wishbone == WbWrite \/ WbRead \/ WbIdle \/ WbWriteAck \/ WbReadAck

wb_ack_out == wb_ack /\ bus.stb

(* One edge of the clock.                                                  *)
UartClock ==
  /\ uart_receive
  /\ sample_counter
  /\ uart_transmit
  /\ uart_tx_clock_generator
  /\ sample_clock_generator
  /\ wishbone
  /\ send' = Buffer!FifoClock(send, send_buffer_push, send_buffer_pop, send_buffer_input)
  /\ recv' = Buffer!FifoClock(recv, recv_buffer_push, recv_buffer_pop, rx_byte)
==============================================================================
