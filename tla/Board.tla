-------------------------------- MODULE Board --------------------------------
(***************************************************************************)
(* One F401 board from the end of bootstrap on: the calls with which the   *)
(* kernel and the program it runs set up pins, EXTI lines, the NVIC and    *)
(* the callback slots of gpio_isr.c, while edges arrive and interrupts     *)
(* pre-empt the set-up.  All interrupts have the same priority, so that a  *)
(* handler is never interrupted itself.                                    *)
(***************************************************************************)
EXTENDS Pins, Timers, FiniteSets

CONSTANT MaxEdges  \* bound: edges on the program's interrupt pin
ASSUME BoardAssumption == MaxEdges \in Nat

VARIABLES
  program, \* the program the board runs
  calls,   \* the initialising calls still to be made
  pins,    \* GPIO: the ports with a clock, and the registers of the pins
  timers,  \* the registers of timers 2 and 3
  wanted,  \* ghost: what each pin was last configured for
  slots,   \* gpio_config_exti.isr_handler
  vector,  \* gpio_config_exti.exti_pos_vector_table
  nvic,    \* interrupts enabled and interrupts pending
  exti,    \* per line: port, unmasked, edge detection, pending
  handler, \* the interrupt being handled, or NoIrq
  acked,   \* the handler has acknowledged its line
  edges,   \* edges so far
  owed,    \* ghost: an edge was detected and the callback has not run since
  app      \* variables of the running program

board == <<program, timers, pins, wanted, slots, vector, exti, acked, edges, owed>>
vars == <<board, calls, nvic, handler, app>>

NoIrq == 999
Adc == 18
Lines == 0..15
Slots == 0..5
RadioPrograms == {"nrf2401_transmit", "weathernodeV2", "nrf2401_receive_module",
                  "nrf2401_receive", "drone_rpm"}
BoardPrograms == RadioPrograms \cup {"remote", "weathernode", "i2c", "sleepers"}

\* The pin whose falling edge a program listens to.
IrqPin(p) == IF p = "remote" THEN A(6) ELSE B(0)

(* The vectors of bootstrap's table that gpio_isr.c serves, and the slot    *)
(* each of its handlers calls through.                                     *)
Dispatch == [v \in 6..10 \cup {23} |-> IF v = 23 THEN 5 ELSE v - 6]

\* Lines 5 to 9 share one interrupt, wired in the chip (external).
WiredTo(line) == IF line <= 4 THEN 6 + line ELSE 23

SlotOf(pin) == IF pin[2] <= 4 THEN pin[2] ELSE 5

(* Mutant: the offset of the first EXTI vector is one less.                 *)
VectorOf_OffByOne(pin) == IF pin[2] <= 4 THEN pin[2] + 5 ELSE 23
VectorOf(pin) == IF pin[2] <= 4 THEN pin[2] + 6 ELSE 23

(* The port is or-ed into EXTICR shifted by four times the pin, which is    *)
(* its field for the first four pins only; port A is zero.                 *)
PortBits(port) == CASE port = "A" -> {} [] port = "B" -> {0} [] port = "C" -> {1}
SelectPort(pin) ==
  [exti EXCEPT !.port = IF pin[2] < 4 THEN [@ EXCEPT ![pin[2]] = @ \cup PortBits(pin[1])] ELSE @]

----------------------------------------------------------------------------
(* What the main functions call before their loops.                         *)

KernelCalls == <<"init_uart", "init_exti_isr_handling">>
ListenCalls == <<"link_exti_src", "enable_nvic", "syscfg", "activate", "detect">>
TransmitCalls == <<"configure_device">> \o ListenCalls \o <<"gpio_b2_b7">>
WeatherV2Calls == <<"configure_device">> \o ListenCalls
ReceiveModuleCalls == <<"configure_device", "gpio_b8">> \o ListenCalls
ReceiveCalls == <<"configure_device">> \o ListenCalls
DroneCalls == <<"configure_device">> \o ListenCalls \o <<"timer_pwm_init">>
RemoteCalls == <<"adc_init", "link_adc_isr", "configure_device">> \o ListenCalls
                 \o <<"reset_idx", "reset_state">>
WeatherCalls == <<"configure_device", "am2302_init">>

MainCalls(p) ==
  CASE p = "nrf2401_transmit" -> TransmitCalls
    [] p = "weathernodeV2" -> WeatherV2Calls
    [] p = "nrf2401_receive_module" -> ReceiveModuleCalls
    [] p = "nrf2401_receive" -> ReceiveCalls
    [] p = "drone_rpm" -> DroneCalls
    [] p = "remote" -> RemoteCalls
    [] p = "weathernode" -> WeatherCalls
    [] p = "sleepers" -> <<>>

(* bootstrap has cleared the RAM and enabled the interrupts of timers 2 and *)
(* 3.  i2c runs on the F303 board; only its own thread is modelled.        *)
Boot(p) ==
  /\ program = p
  /\ calls = IF p = "i2c" THEN <<>> ELSE KernelCalls \o MainCalls(p)
  /\ timers = RunScheduler
  /\ pins = [clocks |-> {}, pins |-> AfterReset] /\ wanted = AfterReset
  /\ slots = [s \in Slots |-> "null"] /\ vector = 0
  /\ nvic = [enabled |-> {28, 29}, pending |-> {}]
  /\ exti = [port |-> [l \in Lines |-> {}], imr |-> {}, ftsr |-> {}, pr |-> {}]
  /\ handler = NoIrq /\ acked = FALSE
  /\ edges = 0 /\ owed = FALSE

\* An enabled interrupt that is pending pre-empts the thread at once.
Requested == nvic.enabled \cap nvic.pending
ThreadRuns == handler = NoIrq /\ Requested = {}
Calls(c) == ThreadRuns /\ calls # <<>> /\ Head(calls) = c /\ calls' = Tail(calls)

\* The program has reached its main loop and stands at the given place of it.
MainLoop(p, from) ==
  /\ ThreadRuns /\ program = p /\ calls = <<>>
  /\ app.pc = from
  /\ UNCHANGED <<calls, nvic, handler>>

Configure(uses) ==
  /\ pins' = SetAll(pins, uses)
  /\ wanted' = [p \in Pins |->
                  IF \E i \in 1..Len(uses) : uses[i].pin = p
                  THEN LET u == CHOOSE u \in {uses[i] : i \in 1..Len(uses)} : u.pin = p
                       IN [mode |-> u.mode, type |-> IF u.type = NoType THEN wanted[p].type ELSE u.type]
                  ELSE wanted[p]]

\* init_uart and init_isr, called by setup_devices.
InitUart ==
  /\ Calls("init_uart")
  /\ Configure(UartPins)
  /\ nvic' = [nvic EXCEPT !.enabled = @ \cup {68, 37}]
  /\ UNCHANGED <<program, timers, slots, vector, exti, handler, acked, edges, owed, app>>

\* The first thing the idle task does, before any module or package runs.
InitExtiIsrHandling ==
  /\ Calls("init_exti_isr_handling")
  /\ slots' = [s \in Slots |-> "empty_isr"]
  /\ UNCHANGED <<program, timers, pins, wanted, vector, nvic, exti, handler, acked, edges, owed, app>>

ConfiguresPins(call, uses) ==
  /\ Calls(call)
  /\ Configure(uses)
  /\ UNCHANGED <<program, slots, vector, nvic, exti, handler, acked, edges, owed, app>>

InitSpi == ConfiguresPins("configure_device", SpiPins) /\ UNCHANGED timers
InitTransmitPins == ConfiguresPins("gpio_b2_b7", TransmitPins) /\ UNCHANGED timers
InitReceivePins == ConfiguresPins("gpio_b8", ReceivePins) /\ UNCHANGED timers

(* The driver passes timer_init one argument more than it takes; a cycle of *)
(* one microsecond is what it means.  The timer does not run afterwards.   *)
Am2302Init ==
  /\ ConfiguresPins("am2302_init", Am2302Pins)
  /\ timers' = [timers EXCEPT ![2] = TimerInit(2, 1)]

\* set_udis(~2) at the end finds no timer and changes none.
TimerPwmInit ==
  /\ ConfiguresPins("timer_pwm_init", PwmPins)
  /\ timers' = [timers EXCEPT ![2] = TimerPwm(@)]

LinkExtiSrc ==
  /\ Calls("link_exti_src")
  /\ vector' = VectorOf(IrqPin(program))
  /\ slots' = [slots EXCEPT ![SlotOf(IrqPin(program))] = program]
  /\ Configure(<<First(Use(IrqPin(program), "Input", NoType))>>)
  /\ UNCHANGED <<program, timers, nvic, exti, handler, acked, edges, owed, app>>

\* enable_cpu_interrupt_exti, run by the system call execPriv.
EnableCpuInterruptExti ==
  /\ Calls("enable_nvic")
  /\ nvic' = [nvic EXCEPT !.enabled = @ \cup {vector}]
  /\ UNCHANGED <<board, handler, app>>

SyscfgExtiConfig ==
  /\ Calls("syscfg")
  /\ exti' = SelectPort(IrqPin(program))
  /\ UNCHANGED <<program, timers, pins, wanted, slots, vector, nvic, handler, acked, edges, owed, app>>

ExtiActivateIrLine ==
  /\ Calls("activate")
  /\ exti' = [exti EXCEPT !.imr = @ \cup {IrqPin(program)[2]}]
  /\ UNCHANGED <<program, timers, pins, wanted, slots, vector, nvic, handler, acked, edges, owed, app>>

ExtiDetectFallingEdge ==
  /\ Calls("detect")
  /\ exti' = [exti EXCEPT !.ftsr = @ \cup {IrqPin(program)[2]}]
  /\ UNCHANGED <<program, timers, pins, wanted, slots, vector, nvic, handler, acked, edges, owed, app>>

----------------------------------------------------------------------------
(* Interrupts.                                                              *)

(* The pin falls: its line becomes pending when its detector is on and it   *)
(* is wired to the pin's port, and requests its interrupt unless masked.   *)
Edge ==
  /\ program \in RadioPrograms \cup {"remote"} /\ edges < MaxEdges
  /\ edges' = edges + 1
  /\ LET pin == IrqPin(program)
         seen == pin[2] \in exti.ftsr
         wired == exti.port[pin[2]] = PortBits(pin[1])
     IN /\ owed' = (owed \/ seen)
        /\ IF seen /\ wired
           THEN /\ exti' = [exti EXCEPT !.pr = @ \cup {pin[2]}]
                /\ nvic' = [nvic EXCEPT !.pending =
                              IF pin[2] \in exti.imr THEN @ \cup {WiredTo(pin[2])} ELSE @]
           ELSE UNCHANGED <<exti, nvic>>
  /\ UNCHANGED <<program, timers, calls, pins, wanted, slots, vector, handler, acked, app>>

\* Of several interrupts of one priority the lowest number goes first.
TakesInterrupt(v) ==
  /\ handler = NoIrq
  /\ v \in Requested /\ \A w \in Requested : v <= w
  /\ handler' = v
  /\ nvic' = [nvic EXCEPT !.pending = @ \ {v}]
  /\ acked' = FALSE
  /\ UNCHANGED <<program, timers, calls, pins, wanted, slots, vector, exti, edges, owed, app>>

Callback(p) == handler \in DOMAIN Dispatch /\ slots[Dispatch[handler]] = p

(* Mutant: only the bit of the given pin is written.                        *)
Acknowledged_OwnBit(pr, pin) == pr \ pin

(* exti_acknowledge_interrupt reads the pending register, sets the bit of   *)
(* the pin and writes it back; a bit is cleared by writing one, so every   *)
(* line that was pending is cleared.                                       *)
Acknowledged(pr, pin) == pr \ (pr \cup pin)

\* drone_rpm passes a null pointer: the pin is what lies at address 4.
PinsNamed == IF program = "drone_rpm" THEN {{l} : l \in {0, 7}} \cup {{}} ELSE {{IrqPin(program)[2]}}

(* The callback acknowledges the line first; whatever it finds to do then   *)
(* covers all edges up to here.                                            *)
Acknowledges ==
  /\ Callback(program) /\ ~acked
  /\ acked' = TRUE /\ owed' = FALSE
  /\ \E pin \in PinsNamed : exti' = [exti EXCEPT !.pr = Acknowledged(@, pin)]
  /\ UNCHANGED <<program, timers, calls, pins, wanted, slots, vector, nvic, handler, edges>>

\* A line that is still pending when its handler returns requests it again.
Returns ==
  /\ handler \in DOMAIN Dispatch /\ (Callback(program) => acked)
  /\ handler' = NoIrq
  /\ nvic' = [nvic EXCEPT !.pending =
                IF \E l \in exti.pr \cap exti.imr : WiredTo(l) = handler THEN @ \cup {handler} ELSE @]
  /\ UNCHANGED <<board, calls, app>>
=============================================================================
