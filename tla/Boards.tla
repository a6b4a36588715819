-------------------------------- MODULE Boards --------------------------------
(***************************************************************************)
(* A Board running any of the programs: the kernel's and the program's set *)
(* up, the interrupts that arrive meanwhile, and the main loops of the     *)
(* programs that Remote, Am2302, Accelerometer and SleepTimer model.  The  *)
(* loops of the other radio programs only yield; RadioLink has their       *)
(* handlers.                                                               *)
(***************************************************************************)
EXTENDS Remote, Am2302, Accelerometer, SleepTimer

AppStarts(p) ==
  CASE p = "remote" -> {RemoteStart}
    [] p = "weathernode" -> {WeatherStart}
    [] p = "i2c" -> {AccelerometerStart}
    [] p = "sleepers" -> {SleepersStart(pids) : pids \in [Sleepers -> Pids]}
    [] OTHER -> {[pc |-> "loop"]}

BoardsInit == \E p \in BoardPrograms : Boot(p) /\ app \in AppStarts(p)

SetUp ==
  \/ InitUart \/ InitExtiIsrHandling \/ InitSpi \/ InitTransmitPins \/ InitReceivePins
  \/ TimerPwmInit \/ Am2302Init \/ LinkExtiSrc \/ EnableCpuInterruptExti \/ SyscfgExtiConfig
  \/ ExtiActivateIrLine \/ ExtiDetectFallingEdge
Thread == SetUp \/ RemoteThread \/ WeatherThread \/ AccelerometerThread \/ SleepThread

\* The callback of the remote control also switches the state.
CallbackRuns ==
  /\ Acknowledges
  /\ app' = IF program = "remote" THEN SwitchesState(app) ELSE app
Handler == CallbackRuns \/ Returns \/ AdcIsrRuns \/ Tim3IsrRuns
ExtiInterrupt == \E v \in DOMAIN Dispatch : TakesInterrupt(v)

BoardsNext ==
  \/ Thread \/ TakesInterrupt(Adc) \/ TakesInterrupt(Tim3) \/ ExtiInterrupt \/ Handler
  \/ Edge \/ Converted \/ SensorAnswers \/ Shifts \/ Receives \/ Tick

(* The processor takes interrupts and executes handlers; conversions leave  *)
(* the thread and the other handlers time between them; the I2C peripheral *)
(* shifts.  Edges, conversions and the sensors' answers may come or not.   *)
BoardsSpec ==
  /\ BoardsInit /\ [][BoardsNext]_vars
  /\ SF_vars(Thread) /\ SF_vars(ExtiInterrupt) /\ WF_vars(TakesInterrupt(Adc))
  /\ WF_vars(Handler) /\ WF_vars(Shifts)

----------------------------------------------------------------------------
\* Type invariant; the remote's idx stays an index of its five slots, also while
\* its callback runs before main has set it, and the global timer counts
\* microseconds whatever timer_pwm_init writes to it.
BoardTypeOK ==
  /\ pins.pins \in [Pins -> [mode : {"Input", "Output", "Analog", "AF1", "AF5", "AF7"},
                             type : {"PushPull", "OpenDrain"}]]
  /\ nvic.enabled \subseteq 0..81 /\ nvic.pending \subseteq 0..81
  /\ exti.imr \subseteq Lines /\ exti.ftsr \subseteq Lines /\ exti.pr \subseteq Lines
  /\ handler \in {NoIrq, Adc, Tim3} \cup DOMAIN Dispatch
  /\ timers[2].prescaler = TimerGetPrescaler(1) /\ timers[3].cnt \in 0..SleepTop
  /\ owed \in BOOLEAN /\ edges \in 0..MaxEdges
  /\ (program = "remote" => app.idx \in 0..4)

\* The drivers share the ports: each one starts the clock of its port first,
\* and changes neither mode nor output type of a pin another one has configured.
PinsKeepTheirUse == pins.pins = wanted

\* A detected edge is followed by a run of the callback, also when it arrives
\* during set-up or inside the handler.
EdgeIsServed == owed ~> ~owed

\* The initialisation completes: no line requests its interrupt for ever.
InitCompletes == <>(calls = <<>>)
=============================================================================
