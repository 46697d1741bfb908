-------------------------------- MODULE Pins -------------------------------
(***************************************************************************)
(* What the pins of the top board are used for (atmel_start_pins.h) and    *)
(* how they are set up before main's loop (driver_init.c).  The functions  *)
(* of a name are those of its port with its pin.                           *)
(***************************************************************************)
EXTENDS Port

Name(p, n) == [port |-> p, pin |-> n]

PA0 == Name("A", 0)  \* pulse width modulation
PA2 == Name("A", 2)  \* I2C
PA3 == Name("A", 3)  \* I2C

LED5 == Name("A", 1)
LED4 == Name("A", 4)
LED3 == Name("A", 5)
LED2 == Name("A", 6)
LED1 == Name("A", 7)
LED12 == Name("C", 0)
LED11 == Name("C", 1)
LED10 == Name("C", 2)
LED9 == Name("C", 3)
LED8 == Name("C", 4)
LED7 == Name("D", 0)
LED18 == Name("D", 4)
LED17 == Name("D", 5)
LED16 == Name("D", 6)
LED15 == Name("D", 7)
LED14 == Name("E", 0)
LED13 == Name("E", 1)
LED24 == Name("E", 2)
LED23 == Name("E", 3)
LED22 == Name("F", 0)
LED21 == Name("F", 1)
LED20 == Name("F", 2)
LED19 == Name("F", 5)
LED6 == Name("F", 6)

Ports == [{"A", "C", "D", "E", "F"} -> PortType]
PortsReset == [p \in {"A", "C", "D", "E", "F"} |-> PortReset]

set_dir(ports, name, dir) == [ports EXCEPT ![name.port] = set_pin_dir(@, name.pin, dir)]
set_level(ports, name, level) == [ports EXCEPT ![name.port] = set_pin_level(@, name.pin, level)]
set_pull_mode(ports, name, mode) == [ports EXCEPT ![name.port] = set_pin_pull_mode(@, name.pin, mode)]
set_inverted(ports, name, inverted) == [ports EXCEPT ![name.port] = pin_set_inverted(@, name.pin, inverted)]
set_isc(ports, name, isc) == [ports EXCEPT ![name.port] = pin_set_isc(@, name.pin, isc)]

On(ports, name) == Driven(ports[name.port], name.pin)

Output(ports, name) == set_level(set_dir(ports, name, "PORT_DIR_OUT"), name, FALSE)

\* set_level and Output of one name after the other, in any order.
PinsAt(p, names) == {n \in Pin : Name(p, n) \in names}

set_levels(ports, names, level) ==
  [p \in DOMAIN ports |->
    [ports[p] EXCEPT !.OUT = IF level THEN @ \cup PinsAt(p, names) ELSE @ \ PinsAt(p, names)]]

Outputs(ports, names) ==
  [p \in DOMAIN ports |->
    [ports[p] EXCEPT !.DIR = @ \cup PinsAt(p, names), !.OUT = @ \ PinsAt(p, names)]]

PortA == {LED5, LED4, LED3, LED2, LED1}
PortC == {LED12, LED11, LED10, LED9, LED8}
PortD == {LED7, LED18, LED17, LED16, LED15}
PortE == {LED14, LED13, LED24, LED23}
PortF == {LED22, LED21, LED20, LED19, LED6}

PWM_0_initialization(ports) == Output(ports, PA0)

\* Each line of the bus is low, not pulled up, not inverted and without interrupt.
BusLine(ports, name) ==
  set_isc(set_inverted(set_pull_mode(Output(ports, name), name, "PORT_PULL_OFF"),
                       name, FALSE), name, "INTDISABLE")

I2C_0_initialization(ports) == BusLine(BusLine(ports, PA3), PA2)

system_init ==
  I2C_0_initialization(PWM_0_initialization(
    Outputs(PortsReset, PortA \cup PortC \cup PortD \cup PortE \cup PortF)))
=============================================================================
