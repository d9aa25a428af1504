------------------------------- MODULE Serial -------------------------------
(***************************************************************************)
(* The UART as the programs use it through src/libsoc/uart.h: how many     *)
(* characters wait to be sent, and the characters received. A string is    *)
(* sent as one character. The UART itself is module Uart.                  *)
(***************************************************************************)
EXTENDS Integers, Sequences

CONSTANT Slots   \* room of each queue

ASSUME SlotsAssumption == Slots \in Nat \ {0}

VARIABLES tx, rx

serialVars == << tx, rx >>

SerialInit == tx = 0 /\ rx = << >>

uart_tx_fifo_full == tx >= Slots

uart_rx_fifo_empty == rx = << >>

uart_rx_fifo_full == Len(rx) >= Slots

(* A byte comes in; the receiver drops it when its queue is full.          *)
Arrives(byte) == rx' = IF uart_rx_fifo_full THEN rx ELSE Append(rx, byte)

(* A character of uart_tx_string or uart_tx_array: the loop that reads the *)
(* status until there is room changes nothing.                             *)
uart_tx_string == ~uart_tx_fifo_full /\ tx' = tx + 1 /\ UNCHANGED rx

(* The other end of the line takes a character.                            *)
Drain == tx > 0 /\ tx' = tx - 1 /\ UNCHANGED rx

=============================================================================
