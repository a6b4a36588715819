-------------------------------- MODULE Pins --------------------------------
(***************************************************************************)
(* The GPIO driver of the F401 board (gpio.c) and the pins each driver and *)
(* program configures with it.  A pin has a mode (with the alternate       *)
(* function it selects) and an output type; pull resistors and speed are   *)
(* left out.  The registers of a port take no value before its clock runs. *)
(***************************************************************************)
EXTENDS Naturals, Sequences, SequencesExt

A(n) == <<"A", n>>
B(n) == <<"B", n>>
C(n) == <<"C", n>>
Pins == {A(n) : n \in {0, 1, 2, 3, 4, 5, 6, 9, 10, 15}} \cup {B(n) : n \in {0, 2, 3, 4, 5, 6, 7, 8, 9}}
          \cup {C(n) : n \in {13, 14}}
NoType == "as it was"

\* A pin and what a driver wants of it; First has init_gpio called before it.
Use(pin, mode, type) == [pin |-> pin, mode |-> mode, type |-> type, init |-> FALSE]
First(use) == [use EXCEPT !.init = TRUE]

SetModer(g, pin, mode) == [g EXCEPT ![pin].mode = mode]

(* The mask 0b11 clears two bits of a register that has one for each pin,   *)
(* so the next pin becomes push-pull as well.                              *)
SetOtyper(g, pin, type) ==
  [p \in Pins |-> [g[p] EXCEPT !.type = CASE p = pin -> type
                                          [] p = <<pin[1], pin[2] + 1>> -> "PushPull"
                                          [] OTHER -> @]]

\* One pin of an initialisation, and all of them in the order of the code.
Set(g, u) == SetModer(IF u.type = NoType THEN g ELSE SetOtyper(g, u.pin, u.type), u.pin, u.mode)

\* init_gpio starts the clock of the pin's port.
InitGpio(clocks, u) == IF u.init THEN clocks \cup {u.pin[1]} ELSE clocks

SetAll(ports, uses) ==
  LET Step(p, u) ==
        LET clocks == InitGpio(p.clocks, u)
        IN [clocks |-> clocks, pins |-> IF u.pin[1] \in clocks THEN Set(p.pins, u) ELSE p.pins]
  IN FoldLeft(Step, ports, uses)

AfterReset == [p \in Pins |-> [mode |-> "Input", type |-> "PushPull"]]

UartPins == <<First(Use(A(9), "AF7", "PushPull")), Use(A(10), "AF7", NoType)>>

(* Mutant: the open-drain output is configured before its neighbour below.  *)
SpiPins_MosiFirst ==
  <<First(Use(B(3), "AF5", "PushPull")), Use(B(5), "AF5", "OpenDrain"), Use(B(4), "AF5", "PushPull"),
    First(Use(A(15), "AF5", "PushPull")), Use(A(5), "Output", NoType)>>

\* Clock, MISO, MOSI, chip select, and CE of the radio.
SpiPins ==
  <<First(Use(B(3), "AF5", "PushPull")), Use(B(4), "AF5", "PushPull"), Use(B(5), "AF5", "OpenDrain"),
    First(Use(A(15), "AF5", "PushPull")), Use(A(5), "Output", NoType)>>
PwmPins == <<First(Use(A(0), "AF1", "OpenDrain"))>> \o [i \in 1..3 |-> Use(A(i), "AF1", "OpenDrain")]
TransmitPins == <<First(Use(B(2), "Input", "PushPull")), First(Use(B(7), "Output", "PushPull"))>>
ReceivePins == <<First(Use(B(8), "Output", "PushPull"))>>
AdcPins == <<First(Use(A(1), "Analog", NoType))>>
Am2302Pins == <<First(Use(C(13), "Output", "PushPull"))>>
=============================================================================
