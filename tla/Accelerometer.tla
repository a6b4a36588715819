---------------------------- MODULE Accelerometer ----------------------------
(***************************************************************************)
(* The i2c package: main.c drives an ADXL345 by polling the I2C peripheral *)
(* of the F303 board.  The peripheral and the sensor are external: a       *)
(* transmit register, the byte being shifted out, the bytes still to be    *)
(* transferred, and the sensor's data registers, which change any time.    *)
(***************************************************************************)
EXTENDS Board

Axes == <<"x", "y", "z">>
Samples == {{0}, {1}}   \* bits of a data register's byte
Empty == <<>>           \* a transmit or receive register without a byte
Beyond == "beyond"      \* the byte after the payload in memory

\* init_adxl345: power_on, remap_interrupts, enable_interrupts, write_fifo_ctl.
InitAdxl345 == << <<"POWER_CTL", "8">>, <<"INT_MAP", "81">>,
                  <<"INT_ENABLE", "WATERMARK">>, <<"FIFO_CTL", "bypass">> >>

\* read_xyz reads the low and the high byte of each axis.
Sweep == <<"x0", "x1", "y0", "y1", "z0", "z1">>

AccelerometerStart ==
  [pc |-> "next", todo |-> InitAdxl345, payload |-> <<>>, sent |-> 0,
   txdr |-> Empty, left |-> 0, bus |-> <<>>, rxdr |-> Empty, reads |-> FALSE,
   position |-> [r \in ToSet(Sweep) |-> {}]]

Polls(from) == MainLoop("i2c", from) /\ UNCHANGED board

(* Mutant: the peripheral is not switched off and on.                       *)
BeginWrite_KeepsEnabled(payload) ==
  app' = [app EXCEPT !.pc = "write", !.payload = payload, !.sent = 0, !.left = Len(payload),
                     !.bus = <<>>]

(* write: switching the peripheral off and on empties its transmit          *)
(* register and its receive register; NBYTES, the direction and START.     *)
BeginWrite(payload) ==
  app' = [app EXCEPT !.pc = "write", !.payload = payload, !.sent = 0, !.left = Len(payload),
                     !.bus = <<>>, !.txdr = Empty, !.rxdr = Empty]

WritesConfiguration ==
  /\ Polls("next") /\ app.todo # <<>> /\ ~app.reads
  /\ BeginWrite(Head(app.todo))

\* Every register is read with a write of its address first.
ReadsRegister ==
  /\ Polls("next") /\ app.todo # <<>> /\ app.reads
  /\ BeginWrite(<<Head(app.todo)>>)

(* The loop writes whenever the transmit register is empty and knows no     *)
(* end: it may take a byte from behind the payload before TC is set.       *)
WritesTxdr ==
  /\ Polls("write") /\ app.txdr = Empty
  /\ app' = [app EXCEPT !.sent = @ + 1,
               !.txdr = <<IF app.sent < Len(app.payload) THEN app.payload[app.sent + 1] ELSE Beyond>>]

\* The peripheral puts a byte on the bus (external).
Shifts ==
  /\ program = "i2c" /\ app.pc = "write" /\ app.left > 0 /\ app.txdr # Empty
  /\ app' = [app EXCEPT !.bus = @ \o app.txdr, !.txdr = Empty, !.left = @ - 1]
  /\ UNCHANGED <<board, calls, nvic, handler>>

\* TC is set: i2c_stop, and for a read START in the other direction.
EndsWrite ==
  /\ Polls("write") /\ app.left = 0
  /\ app' = [app EXCEPT !.pc = IF app.reads THEN "read" ELSE "next",
                        !.todo = IF app.reads THEN @ ELSE Tail(@)]

\* The sensor sends the register's present content (external).
Receives ==
  /\ program = "i2c" /\ app.pc = "read" /\ app.rxdr = Empty
  /\ \E sample \in Samples : app' = [app EXCEPT !.rxdr = <<sample>>]
  /\ UNCHANGED <<board, calls, nvic, handler>>

\* RXNE is set: the byte is or-ed into its half of the axis.
TakesByte ==
  /\ Polls("read") /\ app.rxdr # Empty
  /\ app' = [app EXCEPT !.pc = "next", !.todo = Tail(@), !.rxdr = Empty,
                        !.position[Head(app.todo)] = @ \cup Head(app.rxdr)]

\* The axes are cleared, since the bytes are or-ed into them.
StartsSweep ==
  /\ Polls("next") /\ app.todo = <<>>
  /\ app' = [app EXCEPT !.todo = Sweep, !.reads = TRUE, !.position = AccelerometerStart.position]

AccelerometerThread ==
  WritesConfiguration \/ ReadsRegister \/ WritesTxdr \/ EndsWrite \/ TakesByte \/ StartsSweep

----------------------------------------------------------------------------
\* The byte that write may take from behind its payload never reaches the bus,
\* neither in its own transfer nor at the head of the next one.
WritesArriveExactly ==
  program = "i2c" =>
    \A i \in 1..Len(app.bus) : i <= Len(app.payload) /\ app.bus[i] = app.payload[i]
=============================================================================
