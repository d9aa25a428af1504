------------------------------ MODULE Platform ------------------------------
(***************************************************************************)
(* The board as its software knows it (src/platform.h, the divisor of      *)
(* src/libsoc/uart.h) and as example/toplevel.vhd builds it. An address is *)
(* a pair of its upper half word and the four bits below, as the address   *)
(* decoder of WbArbiter takes it.                                          *)
(***************************************************************************)
EXTENDS Integers

Bus == INSTANCE WbArbiter

PLATFORM_SYSCLK_FREQ == 50000000

PLATFORM_BASE == [
  TIMER0  |-> << \hc000, \h0 >>, TIMER1   |-> << \hc000, \h1 >>,
  UART0   |-> << \hc000, \h2 >>, UART1    |-> << \hc000, \h3 >>,
  GPIO    |-> << \hc000, \h4 >>, ICERROR  |-> << \hc000, \h5 >>,
  PAEE_ROM |-> << \hffff, \h8 >>, PAEE_RAM |-> << \hffff, \hc >> ]

PLATFORM_IRQ == [ TIMER0 |-> 0, TIMER1 |-> 1, UART0 |-> 2, UART1 |-> 3, BUS_ERROR |-> 4 ]

(* The constants IRQ_*_INDEX of the top level, by which irq_array is set.  *)
IRQ_INDEX == [ TIMER0 |-> 0, TIMER1 |-> 1, UART0 |-> 2, UART1 |-> 3, BUS_ERROR |-> 4 ]

irq_array(lines) == { IRQ_INDEX[d] : d \in lines }

(* Mutant: the counter of the clock is not one less.                       *)
uart_baud2divisorPlain(baudrate, system_clk) == system_clk \div (baudrate * 16)

uart_baud2divisor(baudrate, system_clk) == (system_clk \div (baudrate * 16)) - 1

=============================================================================
