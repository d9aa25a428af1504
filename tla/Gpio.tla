-------------------------------- MODULE Gpio --------------------------------
(***************************************************************************)
(* The general purpose pins, src/soc/pp_soc_gpio.vhd, and their driver,    *)
(* src/libsoc/gpio.h. Registers are the sets of their bits that are 1.     *)
(***************************************************************************)
EXTENDS Integers

CONSTANT NUM_GPIOS

ASSUME GpioAssumption == NUM_GPIOS \in 1..32

Pins == 0..(NUM_GPIOS - 1)

NewGpio == [ direction |-> {}, output |-> {} ]

(* A pin is driven when it is an output and read when it is an input.      *)
Driven(g) == g.output \cap g.direction

input_register(g, outside) == (outside \cap Pins) \ g.direction

WriteOutput(g, bits) == [g EXCEPT !.output = bits \cap Pins]

WriteDirection(g, bits) == [g EXCEPT !.direction = bits \cap Pins]

-----------------------------------------------------------------------------
(* libsoc/gpio.h. Setting or clearing a pin reads the output register and  *)
(* writes it back.                                                         *)

gpio_set_direction(g, dir) == WriteDirection(g, dir)

gpio_get_input(g, outside) == input_register(g, outside)

gpio_set_output(g, output) == WriteOutput(g, output)

gpio_set_pin(g, pin) == WriteOutput(g, g.output \cup {pin})

(* Mutant: the mask is not complemented.                                   *)
gpio_clear_pinOthers(g, pin) == WriteOutput(g, g.output \cap {pin})

gpio_clear_pin(g, pin) == WriteOutput(g, g.output \ {pin})

=============================================================================
