-------------------------------- MODULE Port -------------------------------
(***************************************************************************)
(* The pins of one port of the top board's microcontroller (port.h has the *)
(* same functions for each of the ports A to F).  A register is the set of *)
(* the pins whose bit is 1.                                                *)
(***************************************************************************)
EXTENDS Integers

Pin == 0..7

ISC == {"INTDISABLE", "BOTHEDGES", "RISING", "FALLING", "INPUT_DISABLE", "LEVEL"}

PortType ==
  [DIR : SUBSET Pin, OUT : SUBSET Pin, PULLUPEN : SUBSET Pin, INVEN : SUBSET Pin,
   ISC : [Pin -> ISC]]

\* After a reset every pin is an input.
PortReset ==
  [DIR |-> {}, OUT |-> {}, PULLUPEN |-> {}, INVEN |-> {}, ISC |-> [p \in Pin |-> "INTDISABLE"]]

Bit(set, pin, on) == IF on THEN set \cup {pin} ELSE set \ {pin}

set_pin_pull_mode(port, pin, pull_mode) ==
  [port EXCEPT !.PULLUPEN = Bit(@, pin, pull_mode = "PORT_PULL_UP")]

pin_set_inverted(port, pin, inverted) == [port EXCEPT !.INVEN = Bit(@, pin, inverted)]

pin_set_isc(port, pin, isc) == [port EXCEPT !.ISC[pin] = isc]

\* A pin that is switched off keeps its direction.
set_pin_dir(port, pin, dir) ==
  IF dir = "PORT_DIR_OFF"
  THEN [port EXCEPT !.PULLUPEN = Bit(@, pin, TRUE)]
  ELSE [port EXCEPT !.DIR = Bit(@, pin, dir = "PORT_DIR_OUT")]

set_pin_level(port, pin, level) == [port EXCEPT !.OUT = Bit(@, pin, level)]

\* What the microcontroller drives at the pin.
Driven(port, pin) == pin \in port.DIR /\ (pin \in port.OUT <=> pin \notin port.INVEN)
=============================================================================
