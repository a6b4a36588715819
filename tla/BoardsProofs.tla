---------------------------- MODULE BoardsProofs ----------------------------
(***************************************************************************)
(* Theorems about Boards: what handlers, peripherals and main loops may do *)
(* to the variables they share, for any number of edges, any width of the  *)
(* sleep timer and any times tasks ask for.                                *)
(***************************************************************************)
EXTENDS Boards, FiniteSetTheorems, SequenceTheorems, WellFoundedInduction, TLAPS

-----------------------------------------------------------------------------
(* The inductive invariant, program by program.                             *)

(* Interrupts: the registers of the NVIC are two sets, the sleep timer's    *)
(* interrupt is always enabled, and conversions and ticks come only to the *)
(* programs that make use of them.                                         *)
Interrupts ==
  /\ nvic = [enabled |-> nvic.enabled, pending |-> nvic.pending]
  /\ Tim3 \in nvic.enabled
  /\ program # "remote" => Adc \notin nvic.pending /\ handler # Adc
  /\ program # "sleepers" => Tim3 \notin nvic.pending /\ handler # Tim3

RemoteFields ==
  app = [pc |-> app.pc, idx |-> app.idx, state |-> app.state, reading |-> app.reading,
         mutex |-> app.mutex, converts |-> app.converts, eocie |-> app.eocie,
         crc |-> app.crc, sent |-> app.sent]

(* The remote control: until main has made its calls its loop stands at the *)
(* start; a conversion can only be pending when its interrupt is enabled;  *)
(* from adc_disable_interrupts to the end of the loop no conversion        *)
(* requests an interrupt; the mutex is taken only at the place of the loop *)
(* where the last request has been served.                                 *)
RemoteKnows ==
  /\ RemoteFields
  /\ calls # <<>> => app.pc = "loop"
  /\ Adc \in nvic.pending => app.converts = TRUE
  /\ app.converts = TRUE => Adc \in nvic.enabled
  /\ app.pc \in {"lock", "clamp", "crc", "send", "enable"} => app.eocie = FALSE
  /\ app.pc = "clamp" => Adc \notin nvic.pending /\ handler # Adc
  /\ app.mutex = 1 => app.pc = "clamp"

AccelerometerFields ==
  app = [pc |-> app.pc, todo |-> app.todo, payload |-> app.payload, sent |-> app.sent,
         txdr |-> app.txdr, left |-> app.left, bus |-> app.bus, rxdr |-> app.rxdr,
         reads |-> app.reads, position |-> app.position]

(* What the driver sends: names of registers, and what it writes to them.   *)
Bytes == {"x0", "x1", "y0", "y1", "z0", "z1", "POWER_CTL", "8", "INT_MAP", "81",
          "INT_ENABLE", "WATERMARK", "FIFO_CTL", "bypass"}

(* The next byte write puts into the transmit register, when n are on the bus. *)
NextByte(n) == IF n < Len(app.payload) THEN app.payload[n + 1] ELSE Beyond

(* The accelerometer: what is on the bus is a beginning of the payload; in  *)
(* write the bytes left are the rest of it, and the transmit register is   *)
(* empty or holds the byte that comes next.                                *)
AccelerometerKnows ==
  /\ AccelerometerFields
  /\ calls = <<>>
  /\ app.reads \in BOOLEAN
  /\ IF app.reads THEN app.todo \in Seq(Bytes) ELSE app.todo \in Seq(Seq(Bytes))
  /\ app.pc \in {"write", "read"} => app.todo # <<>>
  /\ app.payload \in Seq(Bytes) /\ app.bus \in Seq(Bytes) /\ app.left \in Nat /\ app.sent \in Nat
  /\ \A i \in 1..Len(app.bus) : i <= Len(app.payload) /\ app.bus[i] = app.payload[i]
  /\ app.pc = "write" =>
       /\ Len(app.bus) + app.left = Len(app.payload)
       /\ app.txdr = Empty => app.sent = Len(app.bus)
       /\ app.txdr # Empty => /\ app.sent = Len(app.bus) + 1
                              /\ app.txdr = <<NextByte(Len(app.bus))>>

Places == {"away", "set_ccr", "flush", "start", "block", "asleep"}
TimerFields(t) ==
  t = [cr1 |-> t.cr1, dier |-> t.dier, sr |-> t.sr, cnt |-> t.cnt, psc |-> t.psc,
       prescaler |-> t.prescaler, arr |-> t.arr, ccr |-> t.ccr]

SleeperFields ==
  app = [pc |-> app.pc, at |-> app.at, pids |-> app.pids, pid |-> app.pid, by |-> app.by,
         ahead |-> app.ahead, wants |-> app.wants, since |-> app.since]

(* The task that has stored its pid in task_sleep_request last has got to   *)
(* the given part of task_sleep.                                           *)
Requester(places) == app.by \in Sleepers /\ app.at[app.by] \in places

(* Nobody's pid is none that a task has. *)
PidOf(by) == IF by \in Sleepers THEN app.pids[by] ELSE Nobody

SleepersTyped ==
  /\ calls \in Seq({"init_uart", "init_exti_isr_handling"})
  /\ SleeperFields
  /\ app.at \in [Sleepers -> Places] /\ app.by \in Sleepers \cup {Nobody}
  /\ app.pids \in [Sleepers -> Pids] /\ app.pid = PidOf(app.by)
  /\ app.wants \in [Sleepers -> Nat] /\ app.since \in [Sleepers -> Nat]
  /\ timers = [n \in {2, 3} |-> timers[n]] /\ TimerFields(timers[3])
  /\ timers[3].dier = {1} /\ timers[3].sr \subseteq Nat /\ timers[3].cnt \in Nat
  /\ timers[3].ccr = [i \in 1..4 |-> timers[3].ccr[i]]

(* A match of the compare register has requested its interrupt.             *)
MatchIsRequested == 1 \in timers[3].sr => Tim3 \in nvic.pending \/ handler = Tim3

(* A task inside task_sleep is the one that is registered.                  *)
OneInside == \A t \in Sleepers : app.at[t] \in {"set_ccr", "flush", "start", "block"} => app.by = t

(* Its time is in the compare register once it has been set; since the      *)
(* flush the counter is not ahead of the task's own time; a match that      *)
(* finds the task asleep comes late enough.                                *)
TimesAgree ==
  /\ Requester(Places \ {"away"}) => app.wants[app.by] >= 1
  /\ Requester({"flush", "start", "block", "asleep"}) => timers[3].ccr[1] = app.wants[app.by]
  /\ Requester({"start", "block", "asleep"}) =>
       timers[3].cnt <= app.since[app.by] \/ app.since[app.by] >= app.wants[app.by]
  /\ Requester({"asleep"}) /\ 1 \in timers[3].sr => app.since[app.by] >= app.wants[app.by]

(* Two tasks that sleep. *)
SleepersKnow == SleepersTyped /\ MatchIsRequested /\ OneInside /\ TimesAgree

IInv ==
  /\ Interrupts
  /\ program = "remote" => RemoteKnows
  /\ program = "i2c" => AccelerometerKnows
  /\ program = "sleepers" => SleepersKnow
-----------------------------------------------------------------------------
(* What an action may do to the interrupts.                                 *)
Quiet == nvic' = nvic /\ handler' = handler /\ program' = program

(* A call of the set-up enables interrupts at most. *)
LEMMA SetUpEnables ==
  ASSUME Interrupts, SetUp
  PROVE  /\ calls # <<>> /\ calls' = Tail(calls) /\ ThreadRuns
         /\ app' = app /\ handler' = handler /\ program' = program
         /\ nvic' = [enabled |-> nvic'.enabled, pending |-> nvic.pending]
         /\ nvic.enabled \subseteq nvic'.enabled
<1>1. nvic = [enabled |-> nvic.enabled, pending |-> nvic.pending]
  BY DEF Interrupts
<1>2. CASE InitUart
  BY <1>1, <1>2 DEF InitUart, Calls
<1>3. CASE InitExtiIsrHandling
  BY <1>1, <1>3 DEF InitExtiIsrHandling, Calls
<1>4. CASE InitSpi \/ InitTransmitPins \/ InitReceivePins \/ TimerPwmInit \/ Am2302Init
  BY <1>1, <1>4
     DEF InitSpi, InitTransmitPins, InitReceivePins, TimerPwmInit, Am2302Init, ConfiguresPins, Calls
<1>5. CASE LinkExtiSrc
  BY <1>1, <1>5 DEF LinkExtiSrc, Calls
<1>6. CASE EnableCpuInterruptExti
  BY <1>1, <1>6 DEF EnableCpuInterruptExti, Calls, board
<1>7. CASE SyscfgExtiConfig \/ ExtiActivateIrLine \/ ExtiDetectFallingEdge
  BY <1>1, <1>7 DEF SyscfgExtiConfig, ExtiActivateIrLine, ExtiDetectFallingEdge, Calls
<1> QED
  BY <1>2, <1>3, <1>4, <1>5, <1>6, <1>7 DEF SetUp

(* The calls of the remote control's main, and its loop. *)
RemoteCall == AdcInit \/ LinkAdcIsr \/ ResetIdx \/ ResetState
RemoteLoop ==
  ChecksState \/ DisablesAdc \/ LocksMutex \/ ClampsReading \/ FeedsCrc \/ Transmits \/ EnablesAdc

(* The initialising calls of the remote control enable at most the ADC.     *)
LEMMA RemoteCallsEnable ==
  ASSUME Interrupts, RemoteCall
  PROVE  /\ calls # <<>> /\ calls' = Tail(calls) /\ ThreadRuns
         /\ handler' = handler /\ program' = program
         /\ nvic' = [enabled |-> nvic'.enabled, pending |-> nvic.pending]
         /\ nvic.enabled \subseteq nvic'.enabled
<1>1. nvic = [enabled |-> nvic.enabled, pending |-> nvic.pending]
  BY DEF Interrupts
<1>2. CASE AdcInit
  BY <1>1, <1>2 DEF AdcInit, Calls
<1>3. CASE LinkAdcIsr
  BY <1>1, <1>3 DEF LinkAdcIsr, Calls, board
<1>4. CASE ResetIdx \/ ResetState
  BY <1>1, <1>4 DEF ResetIdx, ResetState, Calls, board
<1> QED
  BY <1>2, <1>3, <1>4 DEF RemoteCall

(* Its main loop leaves the interrupts alone.                               *)
LEMMA RemoteLoopIsQuiet ==
  ASSUME RemoteLoop
  PROVE  Quiet /\ program = "remote" /\ calls' = calls /\ calls = <<>> /\ ThreadRuns
BY DEF RemoteLoop, ChecksState, DisablesAdc, LocksMutex, ClampsReading, FeedsCrc, Transmits,
       EnablesAdc, RemoteAt, MainLoop, board, Quiet

(* The loop of the weather node, and its sensor. *)
LEMMA WeatherIsQuiet ==
  ASSUME WeatherThread \/ SensorAnswers
  PROVE  Quiet /\ program = "weathernode"
BY DEF WeatherThread, PullsLineLow, ReleasesLine, ReadsPulse, MissesPulse, MeasurementEnds,
       TransmitsMeasurement, SleepsAfterSending, SensorAnswers, SensorRuns, SensorAt, MainLoop, Quiet

(* The loop of the accelerometer, its sensor and the I2C peripheral. *)
LEMMA AccelerometerIsQuiet ==
  ASSUME AccelerometerThread \/ Shifts \/ Receives
  PROVE  Quiet /\ program = "i2c" /\ calls' = calls
BY DEF AccelerometerThread, WritesConfiguration, ReadsRegister, WritesTxdr, EndsWrite, TakesByte,
       StartsSweep, Shifts, Receives, Polls, MainLoop, board, Quiet

(* task_sleep. *)
LEMMA SleepIsQuiet ==
  ASSUME SleepThread
  PROVE  Quiet /\ program = "sleepers" /\ calls' = calls /\ ThreadRuns
BY DEF SleepThread, TaskSleep, CallsTaskSleep, SetsCcr, FlushesCounter, StartsTimer, Blocks,
       TaskRuns, TaskAt, board, Quiet

(* A handler that calls back. *)
LEMMA CallbackIsQuiet ==
  ASSUME CallbackRuns
  PROVE  Quiet /\ calls' = calls /\ timers' = timers
BY DEF CallbackRuns, Acknowledges, Quiet

(* Interrupts are requested by the pins' lines, by conversions and by ticks. *)
LEMMA RequestsComeFrom ==
  ASSUME Interrupts, Edge \/ Converted \/ Tick
  PROVE  /\ handler' = handler /\ program' = program /\ calls' = calls
         /\ nvic' = [enabled |-> nvic.enabled, pending |-> nvic'.pending]
         /\ nvic.pending \subseteq nvic'.pending
         /\ Adc \in nvic'.pending \ nvic.pending => Converted /\ program = "remote"
         /\ Tim3 \in nvic'.pending \ nvic.pending => program = "sleepers"
<1>1. nvic = [enabled |-> nvic.enabled, pending |-> nvic.pending]
  BY DEF Interrupts
<1>2. CASE Edge
  <2>1. IrqPin(program)[2] \in {0, 6}
    BY DEF IrqPin, A, B
  <2>2. WiredTo(IrqPin(program)[2]) \in {6, 23}
    BY <2>1 DEF WiredTo
  <2> QED BY <1>1, <1>2, <2>2 DEF Edge, Adc, Tim3
<1>3. CASE Converted
  BY <1>1, <1>3 DEF Converted, board, Adc, Tim3
<1>4. CASE Tick
  <2>1. \/ nvic' = nvic
        \/ nvic' = [enabled |-> nvic.enabled, pending |-> nvic.pending \cup {Tim3}]
    <3>1. \/ nvic' = nvic
          \/ nvic' = [nvic EXCEPT !.pending = @ \cup {Tim3}]
      BY <1>4 DEF Tick
    <3> QED BY <1>1, <3>1
  <2>2. handler' = handler /\ program' = program /\ calls' = calls /\ program = "sleepers"
    BY <1>4 DEF Tick
  <2>3. Adc # Tim3
    BY DEF Adc, Tim3
  <2> QED BY <1>1, <2>1, <2>2, <2>3
<1> QED
  BY <1>2, <1>3, <1>4

(* An interrupt is taken when it is pending and enabled. *)
LEMMA TakenInterrupts ==
  ASSUME Interrupts, NEW v, TakesInterrupt(v)
  PROVE  /\ handler = NoIrq /\ v \in nvic.pending /\ v \in nvic.enabled /\ handler' = v
         /\ program' = program /\ calls' = calls /\ app' = app /\ timers' = timers
         /\ nvic' = [enabled |-> nvic.enabled, pending |-> nvic.pending \ {v}]
BY DEF Interrupts, TakesInterrupt, Requested

(* A handler of gpio_isr.c returns; it may request its own interrupt again. *)
LEMMA ReturnRequests ==
  ASSUME Interrupts, Returns
  PROVE  /\ handler # Adc /\ handler # Tim3 /\ handler' = NoIrq
         /\ program' = program /\ calls' = calls /\ app' = app /\ timers' = timers
         /\ nvic' = [enabled |-> nvic.enabled, pending |-> nvic'.pending]
         /\ nvic.pending \subseteq nvic'.pending
         /\ Adc \notin nvic'.pending \ nvic.pending /\ Tim3 \notin nvic'.pending \ nvic.pending
<1>1. handler \in 6..10 \cup {23}
  BY DEF Returns, Dispatch
<1>2. handler # Adc /\ handler # Tim3
  BY <1>1 DEF Adc, Tim3
<1> QED
  BY <1>2 DEF Interrupts, Returns, board

(* The handlers of the ADC and of the sleep timer. *)
LEMMA HandlersReturn ==
  ASSUME AdcIsrRuns \/ Tim3IsrRuns
  PROVE  /\ handler \in {Adc, Tim3} /\ handler' = NoIrq
         /\ program' = program /\ calls' = calls /\ nvic' = nvic
BY DEF AdcIsrRuns, Tim3IsrRuns, board

(* Conversions and ticks stay with the programs that use them. *)
LEMMA InterruptsStay ==
  ASSUME Interrupts, BoardsNext
  PROVE  Interrupts'
<1>1. CASE SetUp
  BY <1>1, SetUpEnables DEF Interrupts
<1>2. CASE RemoteCall
  BY <1>2, RemoteCallsEnable DEF Interrupts
<1>3. CASE RemoteLoop \/ WeatherThread \/ SensorAnswers \/ AccelerometerThread \/ Shifts \/ Receives
           \/ SleepThread \/ CallbackRuns
  <2>1. Quiet
    BY <1>3, RemoteLoopIsQuiet, WeatherIsQuiet, AccelerometerIsQuiet, SleepIsQuiet, CallbackIsQuiet
  <2> QED BY <2>1 DEF Interrupts, Quiet
<1>4. ASSUME NEW v, TakesInterrupt(v) PROVE Interrupts'
  BY <1>4, TakenInterrupts DEF Interrupts
<1>5. CASE Returns
  <2>1. NoIrq # Adc /\ NoIrq # Tim3
    BY DEF NoIrq, Adc, Tim3
  <2> QED BY <1>5, <2>1, ReturnRequests DEF Interrupts
<1>6. CASE AdcIsrRuns \/ Tim3IsrRuns
  <2>1. NoIrq # Adc /\ NoIrq # Tim3
    BY DEF NoIrq, Adc, Tim3
  <2> QED BY <1>6, <2>1, HandlersReturn DEF Interrupts
<1>7. CASE Edge \/ Converted \/ Tick
  BY <1>7, RequestsComeFrom DEF Interrupts
<1> QED
  BY <1>1, <1>2, <1>3, <1>4, <1>5, <1>6, <1>7
     DEF BoardsNext, Thread, ExtiInterrupt, Handler, RemoteThread, RemoteCall, RemoteLoop
-----------------------------------------------------------------------------
(* The remote control.                                                      *)

\* No request is left when the thread runs.
LEMMA NoConversionPending ==
  ASSUME RemoteKnows, ThreadRuns
  PROVE  Adc \notin nvic.pending /\ handler # Adc
BY DEF RemoteKnows, ThreadRuns, Requested, NoIrq, Adc

(* Every step of the remote control's board keeps what its parts know. *)
LEMMA RemoteStep ==
  ASSUME Interrupts, program = "remote", RemoteKnows, BoardsNext
  PROVE  RemoteKnows'
<1>1. CASE SetUp
  BY <1>1, SetUpEnables DEF RemoteKnows, RemoteFields
<1>2. CASE RemoteCall
  <2>1. /\ calls # <<>> /\ handler' = handler
        /\ nvic'.pending = nvic.pending /\ nvic.enabled \subseteq nvic'.enabled
    BY <1>2, RemoteCallsEnable
  <2>2. CASE AdcInit
    BY <2>1, <2>2 DEF AdcInit, RemoteKnows, RemoteFields
  <2>3. CASE LinkAdcIsr
    <3>1. Adc \in nvic'.enabled
      BY <2>3 DEF LinkAdcIsr, Interrupts
    <3> QED BY <2>1, <2>3, <3>1 DEF LinkAdcIsr, RemoteKnows, RemoteFields
  <2>4. CASE ResetIdx
    BY <2>1, <2>4 DEF ResetIdx, RemoteKnows, RemoteFields
  <2>5. CASE ResetState
    <3>1. /\ app'.pc = app.pc /\ app'.mutex = 0 /\ RemoteFields'
          /\ app'.converts = app.converts /\ app'.eocie = app.eocie
      BY <2>5 DEF ResetState, RemoteKnows, RemoteFields
    <3>2. app'.mutex # 1
      BY <3>1
    <3> QED BY <2>1, <3>1, <3>2 DEF RemoteKnows
  <2> QED BY <1>2, <2>2, <2>3, <2>4, <2>5 DEF RemoteCall
<1>3. CASE RemoteLoop
  <2>1. nvic' = nvic /\ handler' = handler /\ calls' = calls /\ calls = <<>> /\ ThreadRuns
    BY <1>3, RemoteLoopIsQuiet DEF Quiet
  <2>2. Adc \notin nvic.pending /\ handler # Adc
    BY <2>1, NoConversionPending
  <2>3. CASE ChecksState
    BY <2>1, <2>3 DEF ChecksState, RemoteAt, MainLoop, RemoteKnows, RemoteFields
  <2>4. CASE DisablesAdc
    BY <2>1, <2>4 DEF DisablesAdc, AdcDisableInterrupts, RemoteAt, MainLoop, RemoteKnows, RemoteFields
  <2>5. CASE LocksMutex
    BY <2>1, <2>2, <2>5 DEF LocksMutex, RemoteAt, MainLoop, RemoteKnows, RemoteFields
  <2>6. CASE ClampsReading
    <3>1. /\ app'.pc = "crc" /\ app.pc = "clamp" /\ app'.mutex = 0 /\ RemoteFields'
          /\ app'.converts = app.converts /\ app'.eocie = app.eocie
      BY <2>6 DEF ClampsReading, RemoteAt, MainLoop, RemoteKnows, RemoteFields
    <3>2. app'.mutex # 1
      BY <3>1
    <3> QED BY <2>1, <3>1, <3>2 DEF RemoteKnows
  <2>7. CASE FeedsCrc
    BY <2>1, <2>7 DEF FeedsCrc, RemoteAt, MainLoop, RemoteKnows, RemoteFields
  <2>8. CASE Transmits
    BY <2>1, <2>8 DEF Transmits, RemoteAt, MainLoop, RemoteKnows, RemoteFields
  <2>9. CASE EnablesAdc
    BY <2>1, <2>9 DEF EnablesAdc, RemoteAt, MainLoop, RemoteKnows, RemoteFields
  <2> QED BY <1>3, <2>3, <2>4, <2>5, <2>6, <2>7, <2>8, <2>9 DEF RemoteLoop
<1>4. ASSUME NEW v, TakesInterrupt(v) PROVE RemoteKnows'
  BY <1>4, TakenInterrupts DEF RemoteKnows, RemoteFields
<1>5. CASE CallbackRuns
  <2>1. nvic' = nvic /\ handler' = handler /\ calls' = calls
    BY <1>5, CallbackIsQuiet DEF Quiet
  <2>2. app' = SwitchesState(app)
    BY <1>5 DEF CallbackRuns
  <2> QED BY <2>1, <2>2 DEF SwitchesState, RemoteKnows, RemoteFields
<1>6. CASE Returns
  <2>1. NoIrq # Adc
    BY DEF NoIrq, Adc
  <2> QED BY <1>6, <2>1, ReturnRequests DEF RemoteKnows, RemoteFields
<1>7. CASE AdcIsrRuns \/ Tim3IsrRuns
  <2>1. nvic' = nvic /\ calls' = calls /\ handler' = NoIrq /\ NoIrq # Adc
    BY <1>7, HandlersReturn DEF NoIrq, Adc
  <2>2. AdcIsrRuns
    BY <1>7 DEF Tim3IsrRuns, Interrupts
  <2>3. /\ app'.pc = app.pc /\ app'.mutex = 0 /\ RemoteFields'
        /\ app'.converts = app.converts /\ app'.eocie = app.eocie
    BY <2>2 DEF AdcIsrRuns, RemoteKnows, RemoteFields
  <2>4. app'.mutex # 1
    BY <2>3
  <2>5. Adc \notin nvic.pending \/ app.pc # "clamp"
    BY DEF RemoteKnows
  <2> QED BY <2>1, <2>3, <2>4, <2>5 DEF RemoteKnows
<1>8. CASE Edge \/ Converted \/ Tick
  <2>1. /\ handler' = handler /\ calls' = calls /\ nvic'.enabled = nvic.enabled
        /\ Adc \in nvic'.pending => Adc \in nvic.pending \/ Converted
    BY <1>8, RequestsComeFrom
  <2>2. app' = app
    BY <1>8 DEF Edge, Converted, Tick
  <2>3. Converted => app.converts = TRUE /\ app.eocie # FALSE
    BY DEF Converted, RemoteKnows
  <2> QED BY <2>1, <2>2, <2>3 DEF RemoteKnows, RemoteFields
<1> QED
  BY <1>1, <1>2, <1>3, <1>4, <1>5, <1>6, <1>7, <1>8,
     WeatherIsQuiet, AccelerometerIsQuiet, SleepIsQuiet
     DEF BoardsNext, Thread, ExtiInterrupt, Handler, RemoteThread, RemoteCall, RemoteLoop

-----------------------------------------------------------------------------
(* The accelerometer.                                                       *)

(* What is left of a sequence, and its first element. *)
LEMMA HeadAndTail ==
  ASSUME NEW S, NEW s \in Seq(S), s # <<>>
  PROVE  Head(s) \in S /\ Tail(s) \in Seq(S)
OBVIOUS

(* A sweep names the six data registers, the configuration writes pairs. *)
LEMMA SixAreASequence ==
  ASSUME NEW S, NEW a \in S, NEW b \in S, NEW c \in S, NEW d \in S, NEW e \in S, NEW f \in S
  PROVE  <<a, b, c, d, e, f>> \in Seq(S)
OBVIOUS
LEMMA TwoAreASequence ==
  ASSUME NEW S, NEW a \in S, NEW b \in S
  PROVE  <<a, b>> \in Seq(S)
OBVIOUS
LEMMA FourAreASequence ==
  ASSUME NEW S, NEW a \in S, NEW b \in S, NEW c \in S, NEW d \in S
  PROVE  <<a, b, c, d>> \in Seq(S)
OBVIOUS
LEMMA TodoIsTyped == Sweep \in Seq(Bytes) /\ InitAdxl345 \in Seq(Seq(Bytes))
<1>1. /\ "x0" \in Bytes /\ "x1" \in Bytes /\ "y0" \in Bytes
      /\ "y1" \in Bytes /\ "z0" \in Bytes /\ "z1" \in Bytes
  BY Zenon DEF Bytes
<1>2. /\ "POWER_CTL" \in Bytes /\ "8" \in Bytes /\ "INT_MAP" \in Bytes /\ "81" \in Bytes
      /\ "INT_ENABLE" \in Bytes /\ "WATERMARK" \in Bytes
      /\ "FIFO_CTL" \in Bytes /\ "bypass" \in Bytes
  BY Zenon DEF Bytes
<1>3. Sweep \in Seq(Bytes)
  BY <1>1, SixAreASequence, Zenon DEF Sweep
<1>4. /\ <<"POWER_CTL", "8">> \in Seq(Bytes) /\ <<"INT_MAP", "81">> \in Seq(Bytes)
      /\ <<"INT_ENABLE", "WATERMARK">> \in Seq(Bytes) /\ <<"FIFO_CTL", "bypass">> \in Seq(Bytes)
  BY <1>2, TwoAreASequence, Zenon
<1>5. InitAdxl345 \in Seq(Seq(Bytes))
  BY <1>4, FourAreASequence, Zenon DEF InitAdxl345
<1> QED
  BY <1>3, <1>5

(* One of l bytes goes out after n others, of m. *)
LEMMA OneByteMore ==
  ASSUME NEW n \in Nat, NEW l \in Nat, NEW m \in Nat, l > 0, n + l = m
  PROVE  n < m /\ l - 1 \in Nat /\ n + 1 \in Nat /\ (n + 1) + (l - 1) = m
OBVIOUS

(* A transfer starts with nothing on the bus and nothing in the register. *)
LEMMA BeginWriteKnows ==
  ASSUME AccelerometerKnows, NEW payload \in Seq(Bytes), BeginWrite(payload), calls' = calls,
         app.todo # <<>>
  PROVE  AccelerometerKnows'
<1>1. /\ app'.pc = "write" /\ app'.payload = payload /\ app'.sent = 0 /\ app'.left = Len(payload)
      /\ app'.bus = <<>> /\ app'.txdr = Empty /\ app'.reads = app.reads /\ app'.todo = app.todo
      /\ AccelerometerFields'
  BY DEF BeginWrite, AccelerometerKnows, AccelerometerFields
<1>2. Len(<<>>) = 0 /\ <<>> \in Seq(Bytes) /\ Len(payload) \in Nat
  OBVIOUS
<1> QED
  BY <1>1, <1>2 DEF AccelerometerKnows, Empty
\* Nothing of it changes.
LEMMA AccelerometerIdles ==
  ASSUME AccelerometerKnows, app' = app, calls' = calls
  PROVE  AccelerometerKnows'
BY DEF AccelerometerKnows, AccelerometerFields, NextByte

(* The driver's calls. *)
LEMMA AccelerometerThreadKnows ==
  ASSUME AccelerometerKnows, AccelerometerThread
  PROVE  AccelerometerKnows'
<1>0. calls' = calls
  BY AccelerometerIsQuiet
<1>1. CASE WritesConfiguration
  <2>1. BeginWrite(Head(app.todo)) /\ app.todo # <<>> /\ Head(app.todo) \in Seq(Bytes)
    BY <1>1 DEF WritesConfiguration, AccelerometerKnows
  <2> QED BY <1>0, <2>1, BeginWriteKnows
<1>2. CASE ReadsRegister
  <2>1. BeginWrite(<<Head(app.todo)>>) /\ app.todo # <<>> /\ <<Head(app.todo)>> \in Seq(Bytes)
    BY <1>2 DEF ReadsRegister, AccelerometerKnows
  <2> QED BY <1>0, <2>1, BeginWriteKnows
<1>3. CASE WritesTxdr
  <2>1. /\ app.pc = "write" /\ app.txdr = Empty /\ app.sent = Len(app.bus)
        /\ app.bus \in Seq(Bytes) /\ AccelerometerFields
    BY <1>3 DEF WritesTxdr, Polls, MainLoop, AccelerometerKnows
  <2>2. app' = [app EXCEPT !.sent = Len(app.bus) + 1, !.txdr = <<NextByte(Len(app.bus))>>]
    BY <1>3, <2>1 DEF WritesTxdr, NextByte
  <2> DEFINE byte == <<NextByte(Len(app.bus))>>
  <2>3. byte # Empty
    BY DEF Empty
  <2> HIDE DEF byte
  <2>4. /\ app'.sent = Len(app.bus) + 1 /\ app'.txdr = byte /\ app'.pc = app.pc
        /\ app'.todo = app.todo /\ app'.payload = app.payload /\ app'.left = app.left
        /\ app'.bus = app.bus /\ app'.reads = app.reads /\ AccelerometerFields'
    BY <2>1, <2>2 DEF AccelerometerFields, byte
  <2>5. byte = <<NextByte(Len(app.bus))'>>
    BY <2>4 DEF NextByte, byte
  <2> QED BY <1>0, <2>1, <2>3, <2>4, <2>5 DEF AccelerometerKnows, NextByte, byte
<1>4. CASE EndsWrite
  <2>1. /\ app.pc = "write" /\ app' = [app EXCEPT !.pc = IF app.reads THEN "read" ELSE "next",
                                                  !.todo = IF app.reads THEN @ ELSE Tail(@)]
    BY <1>4 DEF EndsWrite, Polls, MainLoop
  <2>2. /\ app'.pc = (IF app.reads THEN "read" ELSE "next")
        /\ app'.todo = (IF app.reads THEN app.todo ELSE Tail(app.todo))
        /\ app'.payload = app.payload /\ app'.left = app.left /\ app'.sent = app.sent
        /\ app'.bus = app.bus /\ app'.reads = app.reads /\ AccelerometerFields'
    BY <2>1 DEF AccelerometerKnows, AccelerometerFields
  <2>3. app'.pc # "write" /\ (app'.pc = "read" => app.reads /\ app'.todo # <<>>)
    BY <2>1, <2>2 DEF AccelerometerKnows
  <2>4. IF app'.reads THEN app'.todo \in Seq(Bytes) ELSE app'.todo \in Seq(Seq(Bytes))
    <3>1. app.todo # <<>> /\ app.reads \in BOOLEAN
      BY <2>1 DEF AccelerometerKnows
    <3>2. CASE app.reads
      BY <2>2, <3>2 DEF AccelerometerKnows
    <3>3. CASE ~app.reads
      <4>1. Tail(app.todo) \in Seq(Seq(Bytes))
        BY <3>1, <3>3, HeadAndTail DEF AccelerometerKnows
      <4> QED BY <2>2, <3>3, <4>1
    <3> QED BY <3>2, <3>3
  <2> QED BY <1>0, <2>2, <2>3, <2>4 DEF AccelerometerKnows
<1>5. CASE TakesByte
  <2>1. /\ app.pc = "read"
        /\ app' = [app EXCEPT !.pc = "next", !.todo = Tail(@), !.rxdr = Empty,
                              !.position[Head(app.todo)] = @ \cup Head(app.rxdr)]
    BY <1>5 DEF TakesByte, Polls, MainLoop
  <2>2. /\ app'.pc = "next" /\ app'.todo = Tail(app.todo)
        /\ app'.payload = app.payload /\ app'.left = app.left /\ app'.sent = app.sent
        /\ app'.bus = app.bus /\ app'.reads = app.reads /\ AccelerometerFields'
    BY <2>1 DEF AccelerometerKnows, AccelerometerFields
  <2>3. IF app'.reads THEN app'.todo \in Seq(Bytes) ELSE app'.todo \in Seq(Seq(Bytes))
    <3>1. app.todo # <<>> /\ app.reads \in BOOLEAN
      BY <2>1 DEF AccelerometerKnows
    <3>2. CASE app.reads
      <4>1. Tail(app.todo) \in Seq(Bytes)
        BY <3>1, <3>2, HeadAndTail DEF AccelerometerKnows
      <4> QED BY <2>2, <3>2, <4>1
    <3>3. CASE ~app.reads
      <4>1. Tail(app.todo) \in Seq(Seq(Bytes))
        BY <3>1, <3>3, HeadAndTail DEF AccelerometerKnows
      <4> QED BY <2>2, <3>3, <4>1
    <3> QED BY <3>2, <3>3
  <2> QED BY <1>0, <2>2, <2>3 DEF AccelerometerKnows
<1>6. CASE StartsSweep
  <2>1. /\ app'.pc = app.pc /\ app'.todo = Sweep /\ app'.reads = TRUE /\ app.pc = "next"
        /\ app'.payload = app.payload /\ app'.left = app.left /\ app'.sent = app.sent
        /\ app'.bus = app.bus /\ AccelerometerFields'
    BY <1>6 DEF StartsSweep, Polls, MainLoop, AccelerometerKnows, AccelerometerFields
  <2> QED BY <1>0, <2>1, TodoIsTyped DEF AccelerometerKnows
<1> QED
  BY <1>1, <1>2, <1>3, <1>4, <1>5, <1>6 DEF AccelerometerThread

(* A byte goes out: it is the next one of the payload, for a byte from      *)
(* behind the payload finds nothing left to be transferred.                *)
LEMMA ShiftKnows ==
  ASSUME AccelerometerKnows, Shifts
  PROVE  AccelerometerKnows'
<1> DEFINE n == Len(app.bus)
           byte == app.payload[n + 1]
<1>1. /\ app.pc = "write" /\ app.left > 0 /\ app.txdr # Empty /\ calls' = calls
      /\ app' = [app EXCEPT !.bus = @ \o app.txdr, !.txdr = Empty, !.left = @ - 1]
  BY DEF Shifts
<1>2. /\ n \in Nat /\ n + app.left = Len(app.payload) /\ app.left \in Nat /\ Len(app.payload) \in Nat
      /\ app.bus \in Seq(Bytes) /\ app.payload \in Seq(Bytes) /\ AccelerometerFields
      /\ app.sent = n + 1 /\ app.txdr = <<NextByte(n)>>
      /\ \A i \in 1..n : i <= Len(app.payload) /\ app.bus[i] = app.payload[i]
  BY <1>1 DEF AccelerometerKnows
<1>3. /\ n < Len(app.payload) /\ app.left - 1 \in Nat /\ n + 1 \in Nat
      /\ (n + 1) + (app.left - 1) = Len(app.payload)
  <2> HIDE DEF n
  <2> QED BY <1>1, <1>2, OneByteMore
<1>4. app.txdr = <<byte>> /\ byte \in Bytes
  BY <1>2, <1>3 DEF NextByte
<1>5. /\ app.bus \o <<byte>> \in Seq(Bytes) /\ Len(app.bus \o <<byte>>) = n + 1
      /\ (app.bus \o <<byte>>)[n + 1] = byte
      /\ \A i \in 1..n : (app.bus \o <<byte>>)[i] = app.bus[i]
  BY <1>2, <1>4
<1>6. /\ app'.bus = app.bus \o <<byte>> /\ app'.txdr = Empty /\ app'.left = app.left - 1
      /\ app'.pc = app.pc /\ app'.sent = app.sent /\ app'.todo = app.todo
      /\ app'.payload = app.payload /\ app'.reads = app.reads /\ AccelerometerFields'
  BY <1>1, <1>2, <1>4 DEF AccelerometerFields
<1>7. \A i \in 1..(n + 1) : i <= Len(app.payload) /\ (app.bus \o <<byte>>)[i] = app.payload[i]
  <2> SUFFICES ASSUME NEW i \in 1..(n + 1)
               PROVE  i <= Len(app.payload) /\ (app.bus \o <<byte>>)[i] = app.payload[i]
    OBVIOUS
  <2>1. CASE i = n + 1
    BY <1>2, <1>3, <1>5, <2>1
  <2>2. CASE i # n + 1
    <3>1. i \in 1..n
      BY <1>2, <2>2
    <3> QED BY <1>2, <1>5, <3>1
  <2> QED BY <2>1, <2>2
<1> HIDE DEF n, byte
<1>8. /\ Len(app'.bus) = n + 1 /\ app'.bus \in Seq(Bytes)
      /\ \A i \in 1..(n + 1) : i <= Len(app.payload) /\ app'.bus[i] = app.payload[i]
  BY <1>5, <1>6, <1>7
<1> QED
  BY <1>1, <1>2, <1>3, <1>6, <1>8 DEF AccelerometerKnows

(* Every step of the accelerometer's board keeps what it knows.             *)
LEMMA AccelerometerStep ==
  ASSUME Interrupts, program = "i2c", AccelerometerKnows, BoardsNext
  PROVE  AccelerometerKnows'
<1>1. ~SetUp /\ ~RemoteCall
  BY SetUpEnables, RemoteCallsEnable DEF AccelerometerKnows
<1>2. ~RemoteLoop /\ ~WeatherThread /\ ~SensorAnswers /\ ~SleepThread
  BY RemoteLoopIsQuiet, WeatherIsQuiet, SleepIsQuiet
<1>3. ~Edge /\ ~Converted /\ ~Tick
  BY DEF Edge, Converted, Tick, RadioPrograms
<1>4. ~AdcIsrRuns /\ ~Tim3IsrRuns
  BY HandlersReturn DEF Interrupts
<1>5. CASE AccelerometerThread
  BY <1>5, AccelerometerThreadKnows
<1>6. CASE Shifts
  BY <1>6, ShiftKnows
<1>7. CASE Receives
  <2>1. /\ app'.pc = app.pc /\ app.pc = "read" /\ app'.sent = app.sent /\ app'.todo = app.todo
        /\ app'.bus = app.bus /\ app'.left = app.left /\ calls' = calls
        /\ app'.payload = app.payload /\ app'.reads = app.reads /\ AccelerometerFields'
    BY <1>7 DEF Receives, AccelerometerKnows, AccelerometerFields
  <2> QED BY <2>1 DEF AccelerometerKnows
<1>8. CASE CallbackRuns
  <2>1. app' = app /\ calls' = calls
    BY <1>8, CallbackIsQuiet DEF CallbackRuns
  <2> QED BY <2>1, AccelerometerIdles
<1>9. ASSUME NEW v, TakesInterrupt(v) PROVE AccelerometerKnows'
  BY <1>9, TakenInterrupts, AccelerometerIdles
<1>10. CASE Returns
  BY <1>10, ReturnRequests, AccelerometerIdles
<1> QED
  BY <1>1, <1>2, <1>3, <1>4, <1>5, <1>6, <1>7, <1>8, <1>9, <1>10
     DEF BoardsNext, Thread, ExtiInterrupt, Handler, RemoteThread, RemoteCall, RemoteLoop

-----------------------------------------------------------------------------
(* The sleep timer.                                                         *)

(* Neither tasks nor timer move, and no request is lost. *)
LEMMA SleepersIdle ==
  ASSUME SleepersKnow, app' = app, timers' = timers,
         calls' \in Seq({"init_uart", "init_exti_isr_handling"}),
         1 \in timers[3].sr => Tim3 \in nvic'.pending \/ handler' = Tim3
  PROVE  SleepersKnow'
BY DEF SleepersKnow, SleepersTyped, SleeperFields, PidOf, MatchIsRequested, OneInside, TimesAgree,
       Requester, TimerFields

(* A task gets to the next place; all that changes besides is who is before  *)
(* it in waiting_tasks.                                                    *)
Advances(t, to) ==
  /\ SleeperFields' /\ app'.at = [app.at EXCEPT ![t] = to]
  /\ app'.by = app.by /\ app'.pid = app.pid /\ app'.pids = app.pids
  /\ app'.wants = app.wants /\ app'.since = app.since

LEMMA TasksAdvance ==
  ASSUME SleepersTyped, NEW t, NEW to
  PROVE  /\ \A from : TaskRuns(t, from, to) => TaskAt(t, from) /\ Advances(t, to)
         /\ Blocks(t) => TaskAt(t, "block") /\ Advances(t, "asleep")
<1>1. SleeperFields
  BY DEF SleepersTyped
<1>2. ASSUME app' = [app EXCEPT !.at[t] = to] PROVE Advances(t, to)
  BY <1>1, <1>2 DEF SleeperFields, Advances
<1>3. ASSUME NEW ahead, app' = [app EXCEPT !.at[t] = "asleep", !.ahead[t] = ahead]
      PROVE  Advances(t, "asleep")
  BY <1>1, <1>3 DEF SleeperFields, Advances
<1> QED
  BY <1>2, <1>3 DEF TaskRuns, Blocks

(* An assignment of task_sleep: the task that makes it is registered, and no *)
(* match is waiting for the thread.                                        *)
LEMMA TaskMoves ==
  ASSUME Interrupts, SleepersKnow, NEW t \in Sleepers,
         NEW from \in {"set_ccr", "flush", "start", "block"}, NEW to \in Places \ {"away"},
         TaskAt(t, from), Advances(t, to)
  PROVE  /\ app.by = t /\ app.at[t] = from /\ 1 \notin timers[3].sr
         /\ nvic' = nvic /\ handler' = handler /\ calls' = calls
         /\ SleeperFields'
         /\ app'.at \in [Sleepers -> Places] /\ app'.at[t] = to
         /\ app'.by = t /\ app'.wants = app.wants /\ app'.since = app.since
         /\ app'.pids = app.pids /\ app'.pid = app.pid
         /\ OneInside'
<1>1. /\ ThreadRuns /\ app.at[t] = from
      /\ nvic' = nvic /\ handler' = handler /\ calls' = calls
  BY DEF TaskAt
<1>2. app.by = t
  BY <1>1 DEF SleepersKnow, OneInside
<1>3. 1 \notin timers[3].sr
  BY <1>1 DEF SleepersKnow, MatchIsRequested, Interrupts, ThreadRuns, Requested, NoIrq, Tim3
<1>4. /\ SleeperFields'
      /\ app'.at = [app.at EXCEPT ![t] = to]
      /\ app'.pid = app.pid /\ app'.by = app.by /\ app'.pids = app.pids
      /\ app'.wants = app.wants /\ app'.since = app.since
  BY DEF Advances
<1>5. app.at \in [Sleepers -> Places]
  BY DEF SleepersKnow, SleepersTyped
<1>6. app'.at \in [Sleepers -> Places] /\ app'.at[t] = to
  BY <1>4, <1>5
<1>7. \A u \in Sleepers : app'.at[u] \in {"set_ccr", "flush", "start", "block"} => u = t
  BY <1>2, <1>4, <1>5 DEF SleepersKnow, OneInside
<1> QED
  BY <1>1, <1>2, <1>3, <1>4, <1>6, <1>7 DEF OneInside

(* What the tasks' assignments write to the timer.                          *)
TimerWrites ==
  /\ timers' = [n \in {2, 3} |-> timers'[n]] /\ TimerFields(timers'[3])
  /\ timers'[3].dier = timers[3].dier /\ timers'[3].sr = timers[3].sr

(* timer_set_ccr writes one compare register.                               *)
LEMMA SetCcrWrites ==
  ASSUME SleepersTyped, NEW v, timers' = [timers EXCEPT ![3] = SetCcr(@, v, 1)]
  PROVE  /\ TimerWrites /\ timers'[3].cnt = timers[3].cnt
         /\ timers'[3].ccr = [i \in 1..4 |-> timers'[3].ccr[i]] /\ timers'[3].ccr[1] = v
<1>1. timers = [n \in {2, 3} |-> timers[n]]
  BY DEF SleepersTyped
<1>2. timers'[3] = SetCcr(timers[3], v, 1) /\ timers' = [n \in {2, 3} |-> timers'[n]]
  BY <1>1
<1>3. timers[3].ccr = [i \in 1..4 |-> timers[3].ccr[i]] /\ TimerFields(timers[3])
  BY DEF SleepersTyped
<1> QED
  BY <1>2, <1>3 DEF SetCcr, TimerFields, TimerWrites

(* timer_flush_counter writes the counter.                                  *)
LEMMA FlushWrites ==
  ASSUME SleepersTyped, timers' = [timers EXCEPT ![3] = TimerFlushCounter(@)]
  PROVE  TimerWrites /\ timers'[3].cnt = 0 /\ timers'[3].ccr = timers[3].ccr
<1>1. timers = [n \in {2, 3} |-> timers[n]] /\ TimerFields(timers[3])
  BY DEF SleepersTyped
<1>2. timers'[3] = TimerFlushCounter(timers[3]) /\ timers' = [n \in {2, 3} |-> timers'[n]]
  BY <1>1
<1> QED
  BY <1>1, <1>2 DEF TimerFlushCounter, TimerFields, TimerWrites

(* timer_start writes the first control register.                           *)
LEMMA StartWrites ==
  ASSUME SleepersTyped, timers' = [timers EXCEPT ![3] = TimerStart(@)]
  PROVE  TimerWrites /\ timers'[3].cnt = timers[3].cnt /\ timers'[3].ccr = timers[3].ccr
<1>1. timers = [n \in {2, 3} |-> timers[n]] /\ TimerFields(timers[3])
  BY DEF SleepersTyped
<1>2. timers'[3] = TimerStart(timers[3]) /\ timers' = [n \in {2, 3} |-> timers'[n]]
  BY <1>1
<1> QED
  BY <1>1, <1>2 DEF TimerStart, TimerFields, TimerWrites
(* Every assignment of task_sleep keeps what the sleepers know. *)
LEMMA SleepThreadKnows ==
  ASSUME Interrupts, program = "sleepers", SleepersKnow, SleepThread
  PROVE  SleepersKnow'
<1> PICK t \in Sleepers : TaskSleep(t)
  BY DEF SleepThread
<1>0. /\ SleepersTyped /\ MatchIsRequested /\ OneInside /\ TimesAgree
      /\ app.wants \in [Sleepers -> Nat] /\ app.since \in [Sleepers -> Nat]
      /\ timers[3].cnt \in Nat /\ timers[3].dier = {1} /\ timers[3].sr \subseteq Nat
      /\ timers[3].ccr = [i \in 1..4 |-> timers[3].ccr[i]]
      /\ calls \in Seq({"init_uart", "init_exti_isr_handling"})
  BY DEF SleepersKnow, SleepersTyped
<1>1. CASE CallsTaskSleep(t)
  <2> PICK time \in Requests :
        app' = [app EXCEPT !.at[t] = "set_ccr", !.pid = app.pids[t], !.by = t,
                           !.wants[t] = time, !.since[t] = 0]
    BY <1>1 DEF CallsTaskSleep
  <2>1. time \in Nat /\ time >= 1
    BY SleepAssumption, TimersAssumption
  <2>2. /\ timers' = timers /\ calls' = calls /\ nvic' = nvic /\ handler' = handler
        /\ \A u \in Sleepers : app.at[u] \in {"away", "asleep"}
    BY <1>1 DEF CallsTaskSleep, board
  <2>3. /\ SleeperFields'
        /\ app'.at = [app.at EXCEPT ![t] = "set_ccr"] /\ app'.by = t
        /\ app'.pid = app.pids[t] /\ app'.pids = app.pids
        /\ app'.wants = [app.wants EXCEPT ![t] = time]
        /\ app'.since = [app.since EXCEPT ![t] = 0]
    BY <1>0 DEF SleepersTyped, SleeperFields
  <2>4. app.at \in [Sleepers -> Places] /\ "set_ccr" \in Places
    BY <1>0 DEF SleepersTyped, Places
  <2>5. /\ app'.at \in [Sleepers -> Places] /\ app'.at[t] = "set_ccr"
        /\ app'.wants \in [Sleepers -> Nat] /\ app'.wants[t] >= 1
        /\ app'.since \in [Sleepers -> Nat]
    BY <1>0, <2>1, <2>3, <2>4
  <2>6. OneInside'
    BY <2>2, <2>3, <2>4 DEF OneInside
  <2>7. SleepersTyped'
    BY <1>0, <2>2, <2>3, <2>5 DEF SleepersTyped, PidOf, TimerFields
  <2>8. MatchIsRequested'
    BY <1>0, <2>2 DEF MatchIsRequested
  <2>9. TimesAgree'
    BY <2>3, <2>5 DEF TimesAgree, Requester
  <2> QED BY <2>6, <2>7, <2>8, <2>9 DEF SleepersKnow
<1>2. ASSUME NEW from \in {"set_ccr", "flush", "start", "block"}, NEW to \in Places \ {"away"},
             TaskAt(t, from), Advances(t, to),
             TimerWrites \/ timers' = timers,
             timers'[3].cnt \in Nat, timers'[3].ccr = [i \in 1..4 |-> timers'[3].ccr[i]]
      PROVE  SleepersTyped' /\ MatchIsRequested' /\ OneInside' /\ app'.by = t /\ app'.at[t] = to
             /\ app.at[t] = from /\ app.by = t /\ app'.wants = app.wants /\ app'.since = app.since
             /\ app.wants[t] \in Nat /\ app.since[t] \in Nat
             /\ 1 \notin timers'[3].sr /\ app.wants[t] >= 1
  <2>1. /\ app.by = t /\ app.at[t] = from /\ 1 \notin timers[3].sr
        /\ nvic' = nvic /\ handler' = handler /\ calls' = calls
        /\ SleeperFields'
        /\ app'.at \in [Sleepers -> Places] /\ app'.at[t] = to
        /\ app'.by = t /\ app'.wants = app.wants /\ app'.since = app.since
        /\ app'.pids = app.pids /\ app'.pid = app.pid
        /\ OneInside'
    BY <1>2, TaskMoves
  <2>2. /\ timers' = [n \in {2, 3} |-> timers'[n]] /\ TimerFields(timers'[3])
        /\ timers'[3].dier = timers[3].dier /\ timers'[3].sr = timers[3].sr
    BY <1>0, <1>2 DEF TimerWrites, SleepersTyped, TimerFields
  <2>3. from \in Places \ {"away"}
    BY DEF Places
  <2>4. app.wants[t] >= 1
    BY <1>0, <2>1, <2>3 DEF TimesAgree, Requester
  <2>5. SleepersTyped'
    BY <1>0, <1>2, <2>1, <2>2 DEF SleepersTyped, PidOf, TimerFields
  <2> QED BY <1>0, <2>1, <2>2, <2>4, <2>5 DEF MatchIsRequested
<1>3. CASE SetsCcr(t)
  <2>1. TaskAt(t, "set_ccr") /\ Advances(t, "flush") /\ "flush" \in Places \ {"away"}
    BY <1>0, <1>3, TasksAdvance DEF SetsCcr, Places
  <2>2. /\ TimerWrites /\ timers'[3].cnt = timers[3].cnt
        /\ timers'[3].ccr = [i \in 1..4 |-> timers'[3].ccr[i]] /\ timers'[3].ccr[1] = app.wants[t]
    BY <1>0, <1>3, SetCcrWrites DEF SetsCcr
  <2>3. /\ SleepersTyped' /\ MatchIsRequested' /\ OneInside' /\ app'.by = t /\ app'.at[t] = "flush"
        /\ app'.wants = app.wants /\ app.wants[t] >= 1
    BY <1>0, <1>2, <2>1, <2>2
  <2>4. TimesAgree'
    BY <2>2, <2>3 DEF TimesAgree, Requester
  <2> QED BY <2>3, <2>4 DEF SleepersKnow
<1>4. CASE FlushesCounter(t)
  <2>1. TaskAt(t, "flush") /\ Advances(t, "start") /\ "start" \in Places \ {"away"}
    BY <1>0, <1>4, TasksAdvance DEF FlushesCounter, Places
  <2>2. TimerWrites /\ timers'[3].cnt = 0 /\ timers'[3].ccr = timers[3].ccr
    BY <1>0, <1>4, FlushWrites DEF FlushesCounter
  <2>3. /\ SleepersTyped' /\ MatchIsRequested' /\ OneInside' /\ app'.by = t /\ app'.at[t] = "start"
        /\ app'.wants = app.wants /\ app'.since = app.since /\ app.wants[t] >= 1
        /\ app.since[t] \in Nat /\ app.at[t] = "flush" /\ app.by = t
    BY <1>0, <1>2, <2>1, <2>2
  <2>4. timers[3].ccr[1] = app.wants[t]
    BY <1>0, <2>3 DEF TimesAgree, Requester
  <2>5. 0 <= app.since[t]
    BY <2>3
  <2>6. TimesAgree'
    BY <2>2, <2>3, <2>4, <2>5 DEF TimesAgree, Requester
  <2> QED BY <2>3, <2>6 DEF SleepersKnow
<1>5. ASSUME NEW from \in {"start", "block"}, NEW to \in {"block", "asleep"},
             TaskAt(t, from), Advances(t, to),
             TimerWrites \/ timers' = timers,
             timers'[3].cnt = timers[3].cnt, timers'[3].ccr = timers[3].ccr
      PROVE  SleepersKnow'
  <2>1. from \in {"set_ccr", "flush", "start", "block"} /\ to \in Places \ {"away"}
    BY DEF Places
  <2>2. /\ SleepersTyped' /\ MatchIsRequested' /\ OneInside' /\ app'.by = t /\ app'.at[t] = to
        /\ app'.wants = app.wants /\ app'.since = app.since /\ app.wants[t] >= 1
        /\ app.at[t] = from /\ app.by = t /\ 1 \notin timers'[3].sr
    BY <1>0, <1>2, <1>5, <2>1
  <2>3. /\ timers[3].ccr[1] = app.wants[t]
        /\ timers[3].cnt <= app.since[t] \/ app.since[t] >= app.wants[t]
    BY <1>0, <2>2 DEF TimesAgree, Requester
  <2>4. TimesAgree'
    BY <1>5, <2>2, <2>3 DEF TimesAgree, Requester
  <2> QED BY <2>2, <2>4 DEF SleepersKnow
<1>6. CASE StartsTimer(t)
  <2>1. TimerWrites /\ timers'[3].cnt = timers[3].cnt /\ timers'[3].ccr = timers[3].ccr
    BY <1>0, <1>6, StartWrites DEF StartsTimer
  <2>2. TaskAt(t, "start") /\ Advances(t, "block")
    BY <1>0, <1>6, TasksAdvance DEF StartsTimer
  <2> QED BY <1>5, <2>1, <2>2
<1>7. CASE Blocks(t)
  <2>1. TaskAt(t, "block") /\ Advances(t, "asleep")
    BY <1>0, <1>7, TasksAdvance
  <2>2. timers' = timers
    BY <1>7 DEF Blocks
  <2> QED BY <1>5, <2>1, <2>2
<1> QED
  BY <1>1, <1>3, <1>4, <1>6, <1>7 DEF TaskSleep
(* The counter is not ahead of the ticks since the call, so that a match    *)
(* finds the time over; it requests its interrupt at once.                 *)
LEMMA TickKnows ==
  ASSUME Interrupts, SleepersKnow, Tick
  PROVE  SleepersKnow'
<1> DEFINE next == IF timers[3].cnt = timers[3].arr THEN 0 ELSE timers[3].cnt + 1
           matches == {i \in 1..3 : timers[3].ccr[i] = next}
<1>0. /\ SleepersTyped /\ MatchIsRequested /\ OneInside /\ TimesAgree
      /\ app.wants \in [Sleepers -> Nat] /\ app.since \in [Sleepers -> Nat]
      /\ timers[3].cnt \in Nat /\ timers[3].dier = {1} /\ timers[3].sr \subseteq Nat
      /\ timers = [n \in {2, 3} |-> timers[n]] /\ TimerFields(timers[3])
      /\ timers[3].ccr = [i \in 1..4 |-> timers[3].ccr[i]]
      /\ calls \in Seq({"init_uart", "init_exti_isr_handling"})
  BY DEF SleepersKnow, SleepersTyped
<1>1. /\ timers' = [timers EXCEPT ![3] = Counted(@)] /\ calls' = calls /\ handler' = handler
      /\ nvic' = IF timers'[3].sr \cap timers'[3].dier # {}
                 THEN [nvic EXCEPT !.pending = @ \cup {Tim3}] ELSE nvic
      /\ app' = [app EXCEPT !.since =
                   [t \in Sleepers |-> IF @[t] < app.wants[t] THEN @[t] + 1 ELSE @[t]]]
  BY DEF Tick
<1>2. next \in Nat /\ (next = 0 \/ next = timers[3].cnt + 1) /\ matches \subseteq Nat
      /\ (1 \in matches => timers[3].ccr[1] = next)
  BY <1>0
<1>3. timers'[3] = Counted(timers[3]) /\ timers' = [n \in {2, 3} |-> timers'[n]]
  BY <1>0, <1>1
<1>4. Counted(timers[3]) = [timers[3] EXCEPT !.cnt = next, !.sr = @ \cup matches]
  BY Zenon DEF Counted
<1> HIDE DEF next, matches
<1>5. /\ TimerFields(timers'[3]) /\ timers'[3].cnt = next /\ timers'[3].sr = timers[3].sr \cup matches
      /\ timers'[3].ccr = timers[3].ccr /\ timers'[3].dier = timers[3].dier
  BY <1>0, <1>3, <1>4 DEF TimerFields
<1>6. /\ SleeperFields'
      /\ app'.at = app.at /\ app'.by = app.by /\ app'.wants = app.wants
      /\ app'.pid = app.pid /\ app'.pids = app.pids
      /\ app'.since = [t \in Sleepers |-> IF app.since[t] < app.wants[t] THEN app.since[t] + 1
                                                                        ELSE app.since[t]]
  BY <1>0, <1>1 DEF SleepersTyped, SleeperFields
<1>7. app'.since \in [Sleepers -> Nat]
  BY <1>0, <1>6
<1>8. SleepersTyped'
  BY <1>0, <1>1, <1>2, <1>3, <1>5, <1>6, <1>7 DEF SleepersTyped, PidOf
<1>9. MatchIsRequested'
  <2> SUFFICES ASSUME 1 \in timers'[3].sr PROVE Tim3 \in nvic'.pending
    BY DEF MatchIsRequested
  <2>1. 1 \in timers'[3].sr \cap timers'[3].dier
    BY <1>0, <1>5
  <2>2. nvic' = [nvic EXCEPT !.pending = @ \cup {Tim3}]
    BY <1>1, <2>1
  <2> QED BY <2>2 DEF Interrupts
<1>10. OneInside'
  BY <1>0, <1>6 DEF OneInside
<1>11. TimesAgree'
  <2>1. CASE app.by \notin Sleepers
    BY <1>6, <2>1 DEF TimesAgree, Requester
  <2>2. CASE app.by \in Sleepers
    <3> DEFINE s == app.since[app.by]
               w == app.wants[app.by]
               c == timers[3].cnt
    <3>1. s \in Nat /\ w \in Nat /\ c \in Nat
      BY <1>0, <2>2
    <3>2. app'.since[app'.by] = (IF s < w THEN s + 1 ELSE s) /\ app'.wants[app'.by] = w
      BY <1>6, <2>2
    <3>3. /\ Requester(Places \ {"away"})' <=> Requester(Places \ {"away"})
          /\ Requester({"flush", "start", "block", "asleep"})'
               <=> Requester({"flush", "start", "block", "asleep"})
          /\ Requester({"start", "block", "asleep"})' <=> Requester({"start", "block", "asleep"})
          /\ Requester({"asleep"})' <=> Requester({"asleep"})
          /\ Requester({"asleep"}) => Requester(Places \ {"away"})
          /\ Requester({"asleep"}) => Requester({"flush", "start", "block", "asleep"})
          /\ Requester({"asleep"}) => Requester({"start", "block", "asleep"})
      BY <1>6 DEF Requester, Places
    <3>4. next \in Nat /\ (next = 0 \/ next = c + 1)
      BY <1>2
    <3>5. /\ Requester(Places \ {"away"}) => w >= 1
          /\ Requester({"flush", "start", "block", "asleep"}) => timers[3].ccr[1] = w
          /\ Requester({"start", "block", "asleep"}) => c <= s \/ s >= w
          /\ Requester({"asleep"}) /\ 1 \in timers[3].sr => s >= w
      BY <1>0 DEF TimesAgree
    <3>6. /\ 1 \in timers'[3].sr => 1 \in timers[3].sr \/ timers[3].ccr[1] = next
          /\ timers'[3].cnt = next /\ timers'[3].ccr[1] = timers[3].ccr[1]
      BY <1>2, <1>5
    <3> HIDE DEF s, w, c
    <3> DEFINE s1 == IF s < w THEN s + 1 ELSE s
    <3>7. /\ c <= s \/ s >= w => next <= s1 \/ s1 >= w
          /\ s >= w => s1 >= w
          /\ (c <= s \/ s >= w) /\ w >= 1 /\ w = next => s1 >= w
      BY <3>1, <3>4
    <3> HIDE DEF s1
    <3>8. app'.since[app'.by] = s1
      BY <3>2 DEF s1
    <3>9. /\ Requester(Places \ {"away"})' => w >= 1
          /\ Requester({"flush", "start", "block", "asleep"})' => timers'[3].ccr[1] = w
          /\ Requester({"start", "block", "asleep"})' => next <= s1 \/ s1 >= w
          /\ Requester({"asleep"})' /\ 1 \in timers'[3].sr => s1 >= w
      BY <3>3, <3>5, <3>6, <3>7
    <3> QED BY <3>2, <3>6, <3>8, <3>9 DEF TimesAgree
  <2> QED BY <2>1, <2>2
<1> QED
  BY <1>8, <1>9, <1>10, <1>11 DEF SleepersKnow

(* The handler of the sleep timer clears the match that it has served. *)
LEMMA Tim3IsrKnows ==
  ASSUME SleepersKnow, Tim3IsrRuns
  PROVE  SleepersKnow'
<1>0. /\ SleepersTyped /\ OneInside /\ TimesAgree
      /\ timers = [n \in {2, 3} |-> timers[n]] /\ TimerFields(timers[3])
      /\ timers[3].sr \subseteq Nat
      /\ calls \in Seq({"init_uart", "init_exti_isr_handling"})
      /\ app.at \in [Sleepers -> Places]
  BY DEF SleepersKnow, SleepersTyped
<1>1. calls' = calls
  BY DEF Tim3IsrRuns
<1>2. CASE 1 \notin timers[3].sr
  BY <1>0, <1>1, <1>2, SleepersIdle DEF Tim3IsrRuns
<1>3. CASE 1 \in timers[3].sr
  <2>1. /\ timers' = [timers EXCEPT ![3] = TimerSetSr(TimerStop(@), @.sr \ {1})]
        /\ WakeupPid(app.pid)
    BY <1>3 DEF Tim3IsrRuns
  <2>2. /\ timers'[3] = TimerSetSr(TimerStop(timers[3]), timers[3].sr \ {1})
        /\ timers' = [n \in {2, 3} |-> timers'[n]]
    BY <1>0, <2>1
  <2>3. /\ TimerFields(timers'[3]) /\ timers'[3].cnt = timers[3].cnt
        /\ timers'[3].sr = timers[3].sr \ {1}
        /\ timers'[3].ccr = timers[3].ccr /\ timers'[3].dier = timers[3].dier
    BY <1>0, <2>2 DEF TimerFields, TimerSetSr, TimerStop
  <2>4. 1 \notin timers'[3].sr /\ timers'[3].sr \subseteq Nat
    BY <1>0, <2>3
  <2>5. ASSUME NEW w \in Sleepers,
               app' = [app EXCEPT !.at[w] = "away", !.ahead = [u \in Sleepers |-> @[u] \ {w}]]
        PROVE  SleepersKnow'
    <3>1. /\ SleeperFields'
          /\ app'.at = [app.at EXCEPT ![w] = "away"]
          /\ app'.by = app.by /\ app'.pid = app.pid /\ app'.pids = app.pids
          /\ app'.wants = app.wants /\ app'.since = app.since
      BY <1>0, <2>5 DEF SleepersTyped, SleeperFields
    <3>2. "away" \in Places
      BY DEF Places
    <3>3. app'.at \in [Sleepers -> Places]
      BY <1>0, <3>1, <3>2
    <3>4. SleepersTyped'
      BY <1>0, <1>1, <2>2, <2>3, <2>4, <3>1, <3>3 DEF SleepersTyped, PidOf
    <3>5. OneInside'
      BY <1>0, <3>1 DEF OneInside
    <3>6. ASSUME NEW places, "away" \notin places, Requester(places)' PROVE Requester(places)
      BY <1>0, <3>1, <3>6 DEF Requester
    <3>7. /\ "away" \notin Places \ {"away"} /\ "away" \notin {"flush", "start", "block", "asleep"}
          /\ "away" \notin {"start", "block", "asleep"}
      OBVIOUS
    <3>8. TimesAgree'
      BY <1>0, <2>3, <2>4, <3>1, <3>6, <3>7 DEF TimesAgree
    <3> QED BY <2>4, <3>4, <3>5, <3>8 DEF SleepersKnow, MatchIsRequested
  <2>6. CASE app' = app
    <3>1. SleepersTyped'
      BY <1>0, <1>1, <2>2, <2>3, <2>4, <2>6 DEF SleepersTyped, SleeperFields, PidOf
    <3>2. OneInside' /\ TimesAgree'
      BY <1>0, <2>3, <2>4, <2>6 DEF OneInside, TimesAgree, Requester
    <3> QED BY <2>4, <3>1, <3>2 DEF SleepersKnow, MatchIsRequested
  <2> QED BY <2>1, <2>5, <2>6 DEF WakeupPid
<1> QED
  BY <1>2, <1>3

(* The calls of the remote control are none of the kernel's. *)
LEMMA SleepersMakeNoRemoteCall ==
  ASSUME Interrupts, SleepersKnow
  PROVE  ~RemoteCall
<1> SUFFICES ASSUME RemoteCall PROVE FALSE
  OBVIOUS
<1>1. calls \in Seq({"init_uart", "init_exti_isr_handling"}) /\ calls # <<>>
  BY RemoteCallsEnable DEF SleepersKnow, SleepersTyped
<1>2. Head(calls) \in {"init_uart", "init_exti_isr_handling"}
  BY <1>1, HeadAndTail
<1> QED
  BY <1>2 DEF RemoteCall, AdcInit, LinkAdcIsr, ResetIdx, ResetState, Calls

(* Every step of the sleepers' board keeps what its parts know. *)
LEMMA SleepersStep ==
  ASSUME Interrupts, program = "sleepers", SleepersKnow, BoardsNext
  PROVE  SleepersKnow'
<1>0. /\ calls \in Seq({"init_uart", "init_exti_isr_handling"})
      /\ 1 \in timers[3].sr => Tim3 \in nvic.pending \/ handler = Tim3
  BY DEF SleepersKnow, SleepersTyped, MatchIsRequested
<1>1. CASE SetUp
  <2>1. /\ calls # <<>> /\ calls' = Tail(calls) /\ app' = app /\ handler' = handler
        /\ nvic'.pending = nvic.pending
    BY <1>1, SetUpEnables
  <2>2. /\ calls' \in Seq({"init_uart", "init_exti_isr_handling"})
        /\ Head(calls) \in {"init_uart", "init_exti_isr_handling"}
    BY <1>0, <2>1, HeadAndTail
  <2>3. ~TimerPwmInit /\ ~Am2302Init
    BY <2>2 DEF TimerPwmInit, Am2302Init, ConfiguresPins, Calls
  <2>4. timers' = timers
    BY <1>1, <2>3 DEF SetUp, InitUart, InitExtiIsrHandling, InitSpi, InitTransmitPins,
         InitReceivePins, LinkExtiSrc, EnableCpuInterruptExti, SyscfgExtiConfig,
         ExtiActivateIrLine, ExtiDetectFallingEdge, board
  <2> QED BY <1>0, <2>1, <2>2, <2>4, SleepersIdle
<1>2. ~RemoteCall
  BY SleepersMakeNoRemoteCall
<1>3. ~RemoteLoop /\ ~WeatherThread /\ ~SensorAnswers /\ ~AccelerometerThread /\ ~Shifts /\ ~Receives
  BY RemoteLoopIsQuiet, WeatherIsQuiet, AccelerometerIsQuiet
<1>4. ~Edge /\ ~Converted
  BY DEF Edge, Converted, RadioPrograms
<1>5. ~AdcIsrRuns
  BY DEF AdcIsrRuns, Interrupts
<1>6. CASE SleepThread
  BY <1>6, SleepThreadKnows
<1>7. CASE Tick
  BY <1>7, TickKnows
<1>8. CASE Tim3IsrRuns
  BY <1>8, Tim3IsrKnows
<1>9. CASE CallbackRuns
  <2>1. app' = app
    BY <1>9 DEF CallbackRuns
  <2>2. calls' = calls /\ timers' = timers /\ nvic' = nvic /\ handler' = handler
    BY <1>9, CallbackIsQuiet DEF Quiet
  <2> QED BY <1>0, <2>1, <2>2, SleepersIdle
<1>10. ASSUME NEW v, TakesInterrupt(v) PROVE SleepersKnow'
  <2>1. /\ handler = NoIrq /\ handler' = v /\ nvic'.pending = nvic.pending \ {v}
        /\ calls' = calls /\ app' = app /\ timers' = timers
    BY <1>10, TakenInterrupts
  <2>2. NoIrq # Tim3
    BY DEF NoIrq, Tim3
  <2> QED BY <1>0, <2>1, <2>2, SleepersIdle
<1>11. CASE Returns
  <2>1. /\ handler # Tim3 /\ nvic.pending \subseteq nvic'.pending
        /\ calls' = calls /\ app' = app /\ timers' = timers
    BY <1>11, ReturnRequests
  <2> QED BY <1>0, <2>1, SleepersIdle
<1> QED
  BY <1>1, <1>2, <1>3, <1>4, <1>5, <1>6, <1>7, <1>8, <1>9, <1>10, <1>11
     DEF BoardsNext, Thread, ExtiInterrupt, Handler, RemoteThread, RemoteCall, RemoteLoop
-----------------------------------------------------------------------------
(* The whole board.                                                         *)

(* What run_scheduler leaves in timer 3. *)
LEMMA TimersAtBoot ==
  /\ RunScheduler = [n \in {2, 3} |-> RunScheduler[n]] /\ TimerFields(RunScheduler[3])
  /\ RunScheduler[3].dier = {1} /\ RunScheduler[3].sr = {0} /\ RunScheduler[3].cnt = 0
  /\ RunScheduler[3].ccr = [i \in 1..4 |-> RunScheduler[3].ccr[i]]
<1>1. /\ RunScheduler[3] = EnableCcxIr(TimerInit(3, ResolutionForSleepFunction), 1)
      /\ RunScheduler = [n \in {2, 3} |-> RunScheduler[n]]
  BY DEF RunScheduler
<1> DEFINE cycle == ResolutionForSleepFunction
           psc == TimerGetPrescaler(cycle)
           loaded == SetUdis(GenerateUe(SetPrescaler(ResetTimer(3), psc)))
<1>2. TimerInit(3, cycle) = TimerFlushCounter(SetCcr(loaded, Unknown, 4))
  BY Zenon DEF TimerInit
<1> HIDE DEF cycle, psc
<1>3. /\ TimerFields(loaded) /\ loaded.dier = {} /\ loaded.sr = {0}
      /\ loaded.ccr = [i \in 1..4 |-> 0]
  <2> DEFINE reset == SetPrescaler(ResetTimer(3), psc)
             event == GenerateUe(reset)
  <2>1. /\ TimerFields(reset) /\ reset.cr1 = {} /\ reset.dier = {} /\ reset.sr = {}
        /\ reset.ccr = [i \in 1..4 |-> 0]
    BY DEF SetPrescaler, ResetTimer, TimerFields
  <2> HIDE DEF reset
  <2>2. "UDIS" \notin reset.cr1
    BY <2>1
  <2>3. event = [reset EXCEPT !.prescaler = reset.psc, !.cnt = 0, !.sr = @ \cup {0}]
    BY <2>2 DEF GenerateUe
  <2>4. /\ TimerFields(event) /\ event.dier = {} /\ event.sr = {0}
        /\ event.ccr = [i \in 1..4 |-> 0]
    BY <2>1, <2>3 DEF TimerFields
  <2> HIDE DEF event
  <2>5. /\ TimerFields(SetUdis(event)) /\ SetUdis(event).dier = {} /\ SetUdis(event).sr = {0}
        /\ SetUdis(event).ccr = [i \in 1..4 |-> 0]
    BY <2>4 DEF SetUdis, TimerFields
  <2> QED BY <2>5 DEF event, reset
<1> HIDE DEF loaded
<1>4. /\ TimerFields(TimerInit(3, cycle)) /\ TimerInit(3, cycle).dier = {}
      /\ TimerInit(3, cycle).sr = {0} /\ TimerInit(3, cycle).cnt = 0
      /\ TimerInit(3, cycle).ccr = [[i \in 1..4 |-> 0] EXCEPT ![4] = Unknown]
  BY <1>2, <1>3 DEF TimerFlushCounter, SetCcr, TimerFields
<1>5. /\ TimerFields(RunScheduler[3])
      /\ RunScheduler[3].dier = {1} /\ RunScheduler[3].sr = {0} /\ RunScheduler[3].cnt = 0
      /\ RunScheduler[3].ccr = [[i \in 1..4 |-> 0] EXCEPT ![4] = Unknown]
  BY <1>1, <1>4 DEF EnableCcxIr, TimerFields, cycle
<1> QED
  BY <1>1, <1>5

(* The invariant holds when bootstrap ends.                                 *)
LEMMA BootKnows ==
  ASSUME BoardsInit
  PROVE  IInv
<1> PICK p \in BoardPrograms : Boot(p) /\ app \in AppStarts(p)
  BY DEF BoardsInit
<1>1. /\ program = p /\ timers = RunScheduler /\ handler = NoIrq
      /\ calls = (IF p = "i2c" THEN <<>> ELSE KernelCalls \o MainCalls(p))
      /\ nvic = [enabled |-> {28, 29}, pending |-> {}]
  BY DEF Boot
<1>2. Interrupts
  BY <1>1 DEF Interrupts, NoIrq, Adc, Tim3
<1>3. ASSUME program = "remote" PROVE RemoteKnows
  <2>0. app = RemoteStart
    BY <1>1, <1>3 DEF AppStarts
  <2>1. RemoteFields /\ app.pc = "loop" /\ app.converts = FALSE /\ app.mutex = 0
    BY <2>0 DEF RemoteStart, RemoteFields
  <2>2. app.mutex # 1
    BY <2>1
  <2>3. Adc \notin nvic.pending
    BY <1>1
  <2> QED BY <2>1, <2>2, <2>3 DEF RemoteKnows
<1>4. ASSUME program = "i2c" PROVE AccelerometerKnows
  <2>1. app = AccelerometerStart /\ calls = <<>>
    BY <1>1, <1>4 DEF AppStarts
  <2>2. /\ AccelerometerFields /\ app.pc = "next" /\ app.todo = InitAdxl345 /\ app.reads = FALSE
        /\ app.payload = <<>> /\ app.bus = <<>> /\ app.left = 0 /\ app.sent = 0
    BY <2>1 DEF AccelerometerStart, AccelerometerFields
  <2>3. app.payload \in Seq(Bytes) /\ app.bus \in Seq(Bytes) /\ Len(app.bus) = 0
    BY <2>2
  <2>4. app.pc # "write" /\ app.pc # "read"
    BY <2>2
  <2>5. \A i \in 1..Len(app.bus) : i <= Len(app.payload) /\ app.bus[i] = app.payload[i]
    BY <2>3
  <2>6. app.reads \in BOOLEAN /\ ~app.reads /\ app.todo \in Seq(Seq(Bytes))
    BY <2>2, TodoIsTyped
  <2>7. app.left \in Nat /\ app.sent \in Nat
    BY <2>2
  <2> QED BY <2>1, <2>2, <2>3, <2>4, <2>5, <2>6, <2>7, Zenon DEF AccelerometerKnows
<1>5. ASSUME program = "sleepers" PROVE SleepersKnow
  <2> PICK pids \in [Sleepers -> Pids] : app = SleepersStart(pids)
    BY <1>1, <1>5 DEF AppStarts
  <2>2. /\ SleeperFields /\ app.pids = pids /\ app.by = Nobody
        /\ app.at = [t \in Sleepers |-> "away"] /\ app.pid = Nobody
        /\ app.wants = [t \in Sleepers |-> 0] /\ app.since = [t \in Sleepers |-> 0]
    BY DEF SleepersStart, SleeperFields
  <2>3. calls \in Seq({"init_uart", "init_exti_isr_handling"})
    <3>1. MainCalls(p) = <<>>
      BY <1>1, <1>5 DEF MainCalls
    <3>2. calls = KernelCalls \o <<>>
      BY <1>1, <1>5, <3>1
    <3>3. KernelCalls \in Seq({"init_uart", "init_exti_isr_handling"})
      BY TwoAreASequence DEF KernelCalls
    <3> HIDE DEF KernelCalls
    <3> QED BY <3>2, <3>3
  <2>4. Nobody \notin Sleepers /\ "away" \in Places
    BY DEF Nobody, Sleepers, Places
  <2>5. SleepersTyped
    BY <1>1, <2>2, <2>3, <2>4, TimersAtBoot DEF SleepersTyped, PidOf
  <2>6. MatchIsRequested
    BY <1>1, TimersAtBoot DEF MatchIsRequested
  <2>7. OneInside /\ TimesAgree
    BY <2>2, <2>4 DEF OneInside, TimesAgree, Requester
  <2> QED BY <2>5, <2>6, <2>7 DEF SleepersKnow
<1> QED
  BY <1>2, <1>3, <1>4, <1>5 DEF IInv

(* It does not depend on anything outside the variables.                    *)
LEMMA StutterKnows ==
  ASSUME IInv, UNCHANGED vars
  PROVE  IInv'
BY DEF IInv, vars, board, Interrupts, RemoteKnows, RemoteFields, AccelerometerKnows,
       AccelerometerFields, NextByte, SleepersKnow, SleepersTyped, SleeperFields, PidOf,
       MatchIsRequested, OneInside, TimesAgree, Requester, TimerFields

(* Every step keeps it.                                                     *)
LEMMA StepKnows ==
  ASSUME IInv, [BoardsNext]_vars
  PROVE  IInv'
<1>1. CASE BoardsNext
  <2>1. Interrupts'
    BY <1>1, InterruptsStay DEF IInv
  <2>2. program' = program
    <3>1. \A v : TakesInterrupt(v) => program' = program
      BY TakenInterrupts DEF IInv
    <3> QED BY <1>1, <3>1, SetUpEnables, RemoteCallsEnable, RemoteLoopIsQuiet, WeatherIsQuiet,
               AccelerometerIsQuiet, SleepIsQuiet, CallbackIsQuiet, ReturnRequests, HandlersReturn,
               RequestsComeFrom
            DEF IInv, Quiet, BoardsNext, Thread, ExtiInterrupt, Handler, RemoteThread, RemoteCall,
                RemoteLoop
  <2> QED BY <1>1, <2>1, <2>2, RemoteStep, AccelerometerStep, SleepersStep DEF IInv
<1> QED
  BY <1>1, StutterKnows

(* It holds at all times.                                                   *)
LEMMA BoardsKnow == BoardsSpec => []IInv
<1>1. BoardsInit => IInv
  BY BootKnows
<1>2. IInv /\ [BoardsNext]_vars => IInv'
  BY StepKnows
<1> QED
  BY <1>1, <1>2, PTL DEF BoardsSpec
(* adc_isr never finds the mutex of the remote control taken: the handler,  *)
(* which cannot be interrupted and could wait for ever, does not wait.      *)
THEOREM AdcHandlerNeverWaits == BoardsSpec => []AdcNeverSpins
<1>1. IInv => AdcNeverSpins
  <2> SUFFICES ASSUME IInv, handler = Adc PROVE app.mutex # 1
    BY DEF AdcNeverSpins
  <2> QED BY DEF IInv, Interrupts, RemoteKnows
<1> QED
  BY <1>1, BoardsKnow, PTL

(* What write puts on the I2C bus is a beginning of its payload, and never   *)
(* the byte behind it that the loop may put into the transmit register.     *)
THEOREM BytesOnTheBusArePayload == BoardsSpec => []WritesArriveExactly
<1>1. IInv => WritesArriveExactly
  BY DEF IInv, AccelerometerKnows, WritesArriveExactly
<1> QED
  BY <1>1, BoardsKnow, PTL

(* A task that tim3_isr_handler wakes has slept as long as it asked for,     *)
(* whichever task stored its time in the timer before, and whenever the     *)
(* interrupt comes; unless another task with its pid has called task_sleep *)
(* since, whose time is over or who does not sleep yet.                    *)
THEOREM SleepersWakeInTime == BoardsSpec => SleepIsLongEnough
<1> DEFINE Slept(t) ==
             \/ app.since[t] >= app.wants[t]
             \/ /\ app.by # t /\ app.pids[app.by] = app.pids[t]
                /\ app.at[app.by] = "asleep" => app.since[app.by] >= app.wants[app.by]
           Early == program = "sleepers" =>
             \A t \in Sleepers : app.at[t] = "asleep" /\ app'.at[t] = "away" => Slept(t)
<1>1. ASSUME IInv, BoardsNext PROVE Early
  <2> SUFFICES ASSUME program = "sleepers", NEW t \in Sleepers,
                      app.at[t] = "asleep", app'.at[t] = "away"
               PROVE  Slept(t)
    OBVIOUS
  <2>1. /\ SleepersKnow /\ Interrupts /\ SleeperFields
        /\ app.at \in [Sleepers -> Places]
    BY <1>1 DEF IInv, SleepersKnow, SleepersTyped
  <2>2. app'.at # app.at
    OBVIOUS
  <2>3. CASE Tim3IsrRuns
    <3>1. app' # app
      BY <2>2
    <3>2. 1 \in timers[3].sr /\ WakeupPid(app.pid)
      BY <2>3, <3>1 DEF Tim3IsrRuns
    <3> PICK w \in Sleepers :
          /\ IsFirst(w, app.pid)
          /\ app' = [app EXCEPT !.at[w] = "away", !.ahead = [u \in Sleepers |-> @[u] \ {w}]]
      BY <3>1, <3>2 DEF WakeupPid
    <3>3. app'.at = [app.at EXCEPT ![w] = "away"]
      BY <2>1 DEF SleeperFields
    <3>4. t = w
      BY <2>1, <3>3
    <3>5. app.pids[t] = app.pid
      BY <3>4 DEF IsFirst
    <3>6. app.by \in Sleepers /\ app.pids[app.by] = app.pids[t]
      <4>1. app.pids[t] \in Pids /\ app.pid = PidOf(app.by)
        BY <2>1 DEF SleepersKnow, SleepersTyped
      <4>2. app.pid # Nobody
        BY <3>5, <4>1 DEF Pids, Nobody
      <4> QED BY <3>5, <4>1, <4>2 DEF PidOf
    <3>7. app.at[app.by] = "asleep" => app.since[app.by] >= app.wants[app.by]
      BY <2>1, <3>2, <3>6 DEF SleepersKnow, TimesAgree, Requester
    <3> QED BY <3>6, <3>7
  <2>4. CASE SleepThread
    <3> PICK u \in Sleepers : TaskSleep(u)
      BY <2>4 DEF SleepThread
    <3>1. CASE CallsTaskSleep(u)
      <4>1. app'.at = [app.at EXCEPT ![u] = "set_ccr"]
        BY <2>1, <3>1 DEF CallsTaskSleep, SleeperFields
      <4> QED BY <2>1, <4>1
    <3>2. ASSUME NEW to \in {"flush", "start", "block", "asleep"}, Advances(u, to)
          PROVE  FALSE
      <4>1. app'.at = [app.at EXCEPT ![u] = to]
        BY <3>2 DEF Advances
      <4> QED BY <2>1, <4>1
    <3>3. \/ CallsTaskSleep(u) \/ Blocks(u)
          \/ \E from, to \in {"set_ccr", "flush", "start", "block"} :
               TaskRuns(u, from, to) /\ to # "set_ccr"
      BY DEF TaskSleep, SetsCcr, FlushesCounter, StartsTimer
    <3> QED BY <2>1, <3>1, <3>2, <3>3, TasksAdvance DEF SleepersKnow
  <2>5. ~RemoteCall
    BY <2>1, SleepersMakeNoRemoteCall
  <2>6. ~SetUp /\ ~CallbackRuns /\ ~Returns /\ ~AdcIsrRuns /\ ~Edge /\ ~Converted /\ ~Tick
    <3>1. ~SetUp
      BY <2>1, <2>2, SetUpEnables
    <3>2. ~CallbackRuns /\ ~Edge /\ ~Converted
      BY <2>2 DEF CallbackRuns, Edge, Converted
    <3>3. ~Returns /\ ~AdcIsrRuns
      BY <2>1, <2>2, ReturnRequests DEF AdcIsrRuns, Interrupts
    <3>4. ~Tick
      BY <2>1, <2>2 DEF Tick, SleeperFields
    <3> QED BY <3>1, <3>2, <3>3, <3>4
  <2>7. \A v : ~TakesInterrupt(v)
    BY <2>1, <2>2, TakenInterrupts
  <2>8. ~RemoteLoop /\ ~WeatherThread /\ ~SensorAnswers /\ ~AccelerometerThread /\ ~Shifts /\ ~Receives
    BY RemoteLoopIsQuiet, WeatherIsQuiet, AccelerometerIsQuiet
  <2> QED BY <1>1, <2>3, <2>4, <2>5, <2>6, <2>7, <2>8
          DEF BoardsNext, Thread, ExtiInterrupt, Handler, RemoteThread, RemoteCall, RemoteLoop
<1>2. IInv /\ [BoardsNext]_vars => [Early]_vars
  BY <1>1
<1>3. BoardsSpec => [][Early]_vars
  BY <1>2, BoardsKnow, PTL DEF BoardsSpec
<1> QED
  BY <1>3 DEF SleepIsLongEnough

-----------------------------------------------------------------------------
(* The ports.                                                               *)

(* A nonempty set of numbers has a least element. *)
LEMMA LeastOf ==
  ASSUME NEW S \in SUBSET Nat, S # {}
  PROVE  \E n \in S : \A m \in S : n <= m
<1> DEFINE Less == {ss \in Nat \X Nat : ss[1] < ss[2]}
<1>1. OpToRel(<, Nat) = Less
  BY DEF OpToRel
<1>2. IsWellFoundedOn(Less, Nat)
  BY <1>1, NatLessThanWellFounded
<1> HIDE DEF Less
<1>3. PICK n \in S : \A m \in S : ~(<<m, n>> \in Less)
  BY <1>2, WFMin
<1>4. ASSUME NEW m \in S PROVE n <= m
  <2>1. (<<m, n>> \in Less) <=> (m < n)
    BY DEF Less
  <2> QED BY <1>3, <2>1
<1> QED
  BY <1>4

(* One call for a pin, as SetAll applies it to the ports. *)
PutPin(p, u) ==
  LET clocks == InitGpio(p.clocks, u)
  IN [clocks |-> clocks, pins |-> IF u.pin[1] \in clocks THEN Set(p.pins, u) ELSE p.pins]

(* The ports after each of n calls. *)
Takes(after, ports, uses, n) ==
  /\ after[0] = ports
  /\ \A i \in 1..n : after[i] = PutPin(after[i - 1], uses[i])

(* The calls of an initialisation take effect one after the other. *)
LEMMA SetAllSteps ==
  ASSUME NEW ports, NEW uses, NEW n \in Nat, DOMAIN uses = 1..n
  PROVE  \E after : Takes(after, ports, uses, n) /\ SetAll(ports, uses) = after[n]
<1> DEFINE Unrolled(s, f) == IF s = {} THEN ports ELSE PutPin(f[s \ {Max(s)}], uses[Max(s)])
           Folds(k, f) == f = [s \in SUBSET (1..k) |-> Unrolled(s, f)]
           iter == CHOOSE f : Folds(n, f)
<1>1. SetAll(ports, uses) = iter[1..n]
  BY DEF SetAll, FoldLeft, MapThenFoldSet, PutPin
<1>2. \A k \in Nat : \A s \in SUBSET (1..(k + 1)) : k + 1 \in s => Max(s) = k + 1
  <2> SUFFICES ASSUME NEW k \in Nat, NEW s \in SUBSET (1..(k + 1)), k + 1 \in s PROVE Max(s) = k + 1
    OBVIOUS
  <2>1. \A y \in s : k + 1 >= y
    OBVIOUS
  <2>2. \A x \in s : (\A y \in s : x >= y) => x = k + 1
    <3> SUFFICES ASSUME NEW x \in s, \A y \in s : x >= y PROVE x = k + 1
      OBVIOUS
    <3>1. x >= k + 1 /\ x \in 1..(k + 1)
      OBVIOUS
    <3> QED BY <3>1
  <2> QED BY <2>1, <2>2 DEF Max
<1>3. \A k \in Nat : \E f : Folds(k, f)
  <2> DEFINE Wrong == {k \in Nat : ~ \E f : Folds(k, f)}
  <2>1. SUFFICES ASSUME Wrong # {} PROVE FALSE
    OBVIOUS
  <2>2. PICK k \in Wrong : \A m \in Wrong : k <= m
    BY <2>1, LeastOf
  <2>3. CASE k = 0
    <3> DEFINE f == [s \in SUBSET (1..0) |-> ports]
    <3>1. \A s \in SUBSET (1..0) : s = {}
      OBVIOUS
    <3>2. Folds(0, f)
      BY <3>1
    <3> QED BY <2>2, <2>3, <3>2
  <2>4. CASE k # 0
    <3> DEFINE j == k - 1
    <3>1. j \in Nat /\ ~(k <= j) /\ k = j + 1
      BY <2>4
    <3> HIDE DEF j
    <3>2. PICK g : Folds(j, g)
      BY <2>2, <3>1
    <3> DEFINE f == [s \in SUBSET (1..k) |-> IF k \in s THEN PutPin(g[s \ {k}], uses[k]) ELSE g[s]]
    <3>3. ASSUME NEW s \in SUBSET (1..k) PROVE f[s] = Unrolled(s, f)
      <4>1. CASE k \in s
        <5>1. Max(s) = k
          BY <1>2, <3>1, <4>1
        <5>2. s \ {k} \in SUBSET (1..k) /\ k \notin s \ {k}
          OBVIOUS
        <5>3. f[s \ {k}] = g[s \ {k}]
          BY <5>2
        <5> QED BY <4>1, <5>1, <5>3
      <4>2. CASE k \notin s
        <5>1. s \in SUBSET (1..j)
          BY <3>1, <4>2
        <5>2. g[s] = Unrolled(s, g)
          BY <3>2, <5>1
        <5>3. CASE s = {}
          BY <5>2, <5>3
        <5>4. CASE s # {}
          <6>1. s \ {Max(s)} \in SUBSET (1..k) /\ k \notin s \ {Max(s)}
            BY <4>2
          <6>2. f[s \ {Max(s)}] = g[s \ {Max(s)}]
            BY <6>1
          <6> QED BY <4>2, <5>2, <5>4, <6>2
        <5> QED BY <5>3, <5>4
      <4> QED BY <4>1, <4>2
    <3>4. Folds(k, f)
      BY <3>3
    <3> QED BY <2>2, <3>4
  <2> QED BY <2>3, <2>4
<1>4. Folds(n, iter)
  BY <1>3
<1> HIDE DEF iter
<1> DEFINE after == [i \in 0..n |-> iter[1..i]]
<1>5. after[0] = ports
  <2>1. iter[{}] = ports /\ 1..0 = {}
    BY <1>4
  <2> QED BY <2>1
<1>6. ASSUME NEW i \in 1..n PROVE after[i] = PutPin(after[i - 1], uses[i])
  <2>1. i - 1 \in Nat /\ (i - 1) + 1 = i /\ i - 1 \in 0..n /\ i \in 0..n
    OBVIOUS
  <2>2. 1..i \in SUBSET (1..n) /\ i \in 1..i /\ 1..i # {} /\ (1..i) \ {i} = 1..(i - 1)
    <3>1. i \in Nat /\ 1 <= i /\ i <= n
      OBVIOUS
    <3>2. 1..i \in SUBSET (1..n) /\ i \in 1..i
      BY <3>1
    <3>3. \A x : x \in (1..i) \ {i} <=> x \in 1..(i - 1)
      BY <3>1
    <3> QED BY <3>2, <3>3
  <2>3. Max(1..i) = i
    BY <1>2, <2>1, <2>2
  <2>4. iter[1..i] = PutPin(iter[(1..i) \ {i}], uses[i])
    BY <1>4, <2>2, <2>3
  <2> QED BY <2>1, <2>2, <2>4
<1>7. SetAll(ports, uses) = after[n]
  BY <1>1
<1> HIDE DEF after
<1>8. Takes(after, ports, uses, n)
  BY <1>5, <1>6 DEF Takes
<1> QED
  BY <1>7, <1>8
Modes == {"Input", "Output", "Analog", "AF1", "AF5", "AF7"}
Types == {"PushPull", "OpenDrain"}
Registers == [Pins -> [mode : Modes, type : Types]]
Above(pin) == <<pin[1], pin[2] + 1>>

(* The neighbour whose type a call spoils is another pin.                   *)
LEMMA NoPinIsAboveItself ==
  ASSUME NEW pin \in Pins
  PROVE  pin # Above(pin)
<1>1. pin[2] \in Nat
  BY DEF Pins, A, B, C
<1> HIDE DEF Pins
<1>2. pin[2] # pin[2] + 1
  BY <1>1
<1>3. Above(pin)[2] = pin[2] + 1
  BY DEF Above
<1> QED
  BY <1>2, <1>3

\* A pin's registers are what its two fields say.
LEMMA RegistersAgree ==
  ASSUME NEW g \in Registers, NEW h \in Registers,
         \A p \in Pins : g[p].mode = h[p].mode /\ g[p].type = h[p].type
  PROVE  g = h
<1>1. ASSUME NEW p \in Pins PROVE g[p] = h[p]
  <2>1. g[p] \in [mode : Modes, type : Types] /\ h[p] \in [mode : Modes, type : Types]
    BY DEF Registers
  <2> QED BY <2>1
<1> HIDE DEF Pins, Modes, Types
<1> QED
  BY <1>1 DEF Registers

IsUse(u) == u.pin \in Pins /\ u.mode \in Modes /\ u.type \in Types \cup {NoType}

(* What one call writes: the pin, and the type of the pin above it. *)
LEMMA SetWrites ==
  ASSUME NEW g \in Registers, NEW u, IsUse(u)
  PROVE  /\ Set(g, u) \in Registers
         /\ \A p \in Pins :
              /\ Set(g, u)[p].mode = IF p = u.pin THEN u.mode ELSE g[p].mode
              /\ u.type = NoType => Set(g, u)[p].type = g[p].type
              /\ u.type # NoType =>
                   Set(g, u)[p].type = IF p = u.pin THEN u.type
                                       ELSE IF p = Above(u.pin) THEN "PushPull" ELSE g[p].type
<1>0. u.pin \in Pins /\ u.mode \in Modes /\ u.type \in Types \cup {NoType} /\ "PushPull" \in Types
  BY DEF IsUse, Types
<1> HIDE DEF Pins, Modes, Types
<1>1. ASSUME NEW h \in Registers
      PROVE  /\ SetModer(h, u.pin, u.mode) \in Registers
             /\ \A p \in Pins : /\ SetModer(h, u.pin, u.mode)[p].type = h[p].type
                                /\ SetModer(h, u.pin, u.mode)[p].mode =
                                     IF p = u.pin THEN u.mode ELSE h[p].mode
  <2>1. h \in [Pins -> [mode : Modes, type : Types]]
    BY DEF Registers
  <2>2. SetModer(h, u.pin, u.mode) = [h EXCEPT ![u.pin] = [h[u.pin] EXCEPT !.mode = u.mode]]
    BY DEF SetModer
  <2>3. [h[u.pin] EXCEPT !.mode = u.mode] \in [mode : Modes, type : Types]
    BY <1>0, <2>1
  <2>4. SetModer(h, u.pin, u.mode) \in Registers
    BY <2>1, <2>2, <2>3 DEF Registers
  <2>5. ASSUME NEW p \in Pins
        PROVE  /\ SetModer(h, u.pin, u.mode)[p].type = h[p].type
               /\ SetModer(h, u.pin, u.mode)[p].mode = IF p = u.pin THEN u.mode ELSE h[p].mode
    <3>1. h[p] \in [mode : Modes, type : Types]
      BY <2>1
    <3> QED BY <1>0, <2>1, <2>2, <3>1
  <2> QED BY <2>4, <2>5
<1>2. CASE u.type = NoType
  <2>1. Set(g, u) = SetModer(g, u.pin, u.mode)
    BY <1>2 DEF Set
  <2> QED BY <1>1, <1>2, <2>1
<1>3. CASE u.type # NoType
  <2> DEFINE h == SetOtyper(g, u.pin, u.type)
             t(p) == IF p = u.pin THEN u.type ELSE IF p = Above(u.pin) THEN "PushPull" ELSE g[p].type
  <2>1. Set(g, u) = SetModer(h, u.pin, u.mode)
    BY <1>3 DEF Set
  <2> DEFINE c(p) == CASE p = u.pin -> u.type [] p = Above(u.pin) -> "PushPull" [] OTHER -> g[p].type
  <2>a. \A p \in Pins : c(p) = t(p)
    <3> SUFFICES ASSUME NEW p \in Pins PROVE c(p) = t(p)
      OBVIOUS
    <3>1. u.pin # Above(u.pin)
      BY <1>0, NoPinIsAboveItself
    <3>2. CASE p = u.pin
      BY <3>1, <3>2
    <3>3. CASE p # u.pin /\ p = Above(u.pin)
      BY <3>3
    <3>4. CASE p # u.pin /\ p # Above(u.pin)
      BY <3>4
    <3> QED BY <3>2, <3>3, <3>4
  <2>b. h = [p \in Pins |-> [g[p] EXCEPT !.type = c(p)]]
    BY Zenon DEF SetOtyper, Above
  <2> HIDE DEF c, t, h
  <2>2. h = [p \in Pins |-> [g[p] EXCEPT !.type = t(p)]]
    BY <2>a, <2>b
  <2> USE DEF t
  <2>3. ASSUME NEW p \in Pins
        PROVE  h[p] \in [mode : Modes, type : Types] /\ h[p].mode = g[p].mode /\ h[p].type = t(p)
    <3>1. g[p] \in [mode : Modes, type : Types]
      BY DEF Registers
    <3>2. t(p) \in Types
      BY <1>0, <1>3, <3>1
    <3> HIDE DEF t
    <3> QED BY <2>2, <3>1, <3>2
  <2> HIDE DEF h
  <2>4. h \in Registers
    BY <2>2, <2>3 DEF Registers
  <2> QED BY <1>1, <1>3, <2>1, <2>3, <2>4
<1> QED
  BY <1>2, <1>3

(* The calls of an initialisation fit the ports they find: no pin is        *)
(* configured twice, the clock of the port runs, and a pin whose type a     *)
(* call for the pin below it spoils is push-pull or gets its type later.    *)
ClocksRun(ports, uses, n) ==
  \A i \in 1..n : \/ uses[i].pin[1] \in ports.clocks
                 \/ \E j \in 1..i : uses[j].init /\ uses[j].pin[1] = uses[i].pin[1]
SpoilsNothing(ports, uses, n, i) ==
  uses[i].type # NoType /\ Above(uses[i].pin) \in Pins =>
    /\ \A j \in 1..n : j < i /\ uses[j].pin = Above(uses[i].pin) => uses[j].type = "PushPull"
    /\ \/ ports.pins[Above(uses[i].pin)].type = "PushPull"
       \/ \E j \in 1..n : uses[j].pin = Above(uses[i].pin) /\ uses[j].type # NoType
Fits(ports, uses) ==
  LET n == Len(uses)
  IN /\ n \in Nat /\ DOMAIN uses = 1..n
     /\ \A i \in 1..n : IsUse(uses[i])
     /\ \A i \in 1..n, j \in 1..n : uses[i].pin = uses[j].pin => i = j
     /\ ClocksRun(ports, uses, n)
     /\ \A i \in 1..n : SpoilsNothing(ports, uses, n, i)

(* A call whose port has its clock. *)
LEMMA PutPinWrites ==
  ASSUME NEW p, NEW u, p.pins \in Registers, IsUse(u), u.pin[1] \in p.clocks \/ u.init
  PROVE  /\ PutPin(p, u).pins = Set(p.pins, u) /\ p.clocks \subseteq PutPin(p, u).clocks
         /\ u.init => u.pin[1] \in PutPin(p, u).clocks
BY DEF PutPin, InitGpio

(* An initialisation that fits configures every pin it names for what it    *)
(* says, and no other.                                                      *)
LEMMA ConfigureKeeps ==
  ASSUME pins.pins = wanted, wanted \in Registers, NEW uses, Fits(pins, uses), Configure(uses)
  PROVE  /\ pins'.pins = wanted' /\ wanted' \in Registers
         /\ pins.clocks \subseteq pins'.clocks
         /\ \A i \in DOMAIN uses : uses[i].init => uses[i].pin[1] \in pins'.clocks
         /\ \A p \in Pins : \/ wanted'[p].type = wanted[p].type
                            \/ \E i \in DOMAIN uses : uses[i].pin = p /\ wanted'[p].type = uses[i].type
<1> DEFINE n == Len(uses)
<1>0. /\ n \in Nat /\ DOMAIN uses = 1..n
      /\ \A i \in 1..n : IsUse(uses[i])
      /\ \A i \in 1..n, j \in 1..n : uses[i].pin = uses[j].pin => i = j
      /\ \A i \in 1..n : \/ uses[i].pin[1] \in pins.clocks
                         \/ \E j \in 1..i : uses[j].init /\ uses[j].pin[1] = uses[i].pin[1]
      /\ \A i \in 1..n : uses[i].type # NoType /\ Above(uses[i].pin) \in Pins =>
           /\ \A j \in 1..n : j < i /\ uses[j].pin = Above(uses[i].pin) => uses[j].type = "PushPull"
           /\ \/ wanted[Above(uses[i].pin)].type = "PushPull"
              \/ \E j \in 1..n : uses[j].pin = Above(uses[i].pin) /\ uses[j].type # NoType
  BY DEF Fits, ClocksRun, SpoilsNothing
<1> HIDE DEF n
<1>a. PICK after : Takes(after, pins, uses, n) /\ SetAll(pins, uses) = after[n]
  BY <1>0, SetAllSteps
<1>1. /\ after[0] = pins /\ SetAll(pins, uses) = after[n]
      /\ \A i \in 1..n : after[i] = PutPin(after[i - 1], uses[i])
  BY <1>a DEF Takes
<1>2. pins' = after[n] /\ \A i \in 1..n : IsUse(uses[i])
  BY <1>0, <1>1 DEF Configure
<1>w. wanted' = [p \in Pins |->
                   IF \E i \in 1..n : uses[i].pin = p
                   THEN LET u == CHOOSE u \in {uses[i] : i \in 1..n} : u.pin = p
                        IN [mode |-> u.mode, type |-> IF u.type = NoType THEN wanted[p].type ELSE u.type]
                   ELSE wanted[p]]
  BY DEF Configure, n
<1> HIDE DEF Pins, Modes, Types
<1> DEFINE Named(p) == \E i \in 1..n : uses[i].pin = p
           After(k, i) ==
             LET g == after[k].pins[uses[i].pin]
             IN /\ i <= k => /\ g.mode = uses[i].mode
                             /\ uses[i].type # NoType => g.type = uses[i].type
                /\ uses[i].type = NoType => g.type = wanted[uses[i].pin].type
           Good(k) ==
             /\ after[k].pins \in Registers
             /\ pins.clocks \subseteq after[k].clocks
             /\ \A j \in 1..k : uses[j].init => uses[j].pin[1] \in after[k].clocks
             /\ \A p \in Pins : ~Named(p) => /\ after[k].pins[p].mode = wanted[p].mode
                                             /\ after[k].pins[p].type = wanted[p].type
             /\ \A i \in 1..n : After(k, i)
<1>3. Good(0)
  <2>1. after[0].pins = wanted /\ after[0].clocks = pins.clocks
    BY <1>1
  <2> QED BY <1>0, <2>1
<1>4. ASSUME NEW k \in 1..n, Good(k - 1) PROVE Good(k)
  <2> DEFINE u == uses[k]
             g == after[k - 1].pins
             h == after[k].pins
  <2>1. k - 1 \in Nat /\ k \in Nat /\ k - 1 < k
    BY <1>0
  <2>2. IsUse(u) /\ after[k] = PutPin(after[k - 1], u) /\ g \in Registers
    BY <1>1, <1>2, <1>4
  <2>3. u.pin[1] \in after[k - 1].clocks \/ u.init
    <3>1. CASE u.pin[1] \in pins.clocks
      BY <1>4, <3>1
    <3>2. ASSUME NEW j \in 1..k, uses[j].init, uses[j].pin[1] = u.pin[1]
          PROVE  u.pin[1] \in after[k - 1].clocks \/ u.init
      <4>1. CASE j = k
        BY <3>2, <4>1
      <4>2. CASE j # k
        <5>1. j \in 1..(k - 1)
          BY <2>1, <4>2
        <5> QED BY <1>4, <3>2, <5>1
      <4> QED BY <4>1, <4>2
    <3> QED BY <1>0, <3>1, <3>2
  <2>4. /\ h = Set(g, u) /\ after[k - 1].clocks \subseteq after[k].clocks
        /\ u.init => u.pin[1] \in after[k].clocks
    BY <2>2, <2>3, PutPinWrites
  <2>5. /\ h \in Registers
        /\ \A p \in Pins :
             /\ h[p].mode = IF p = u.pin THEN u.mode ELSE g[p].mode
             /\ u.type = NoType => h[p].type = g[p].type
             /\ u.type # NoType => h[p].type = IF p = u.pin THEN u.type
                                               ELSE IF p = Above(u.pin) THEN "PushPull" ELSE g[p].type
    BY <2>2, <2>4, SetWrites
  <2>6. \A j \in 1..k : uses[j].init => uses[j].pin[1] \in after[k].clocks
    <3> SUFFICES ASSUME NEW j \in 1..k, uses[j].init PROVE uses[j].pin[1] \in after[k].clocks
      OBVIOUS
    <3>1. CASE j = k
      BY <2>4, <3>1
    <3>2. CASE j # k
      <4>1. j \in 1..(k - 1)
        BY <2>1, <3>2
      <4> QED BY <1>4, <2>4, <4>1
    <3> QED BY <3>1, <3>2
  <2>7. ASSUME NEW p \in Pins, ~Named(p)
        PROVE  h[p].mode = wanted[p].mode /\ h[p].type = wanted[p].type
    <3>1. p # u.pin /\ g[p].mode = wanted[p].mode /\ g[p].type = wanted[p].type
      BY <1>4, <2>7
    <3>2. CASE u.type # NoType /\ p = Above(u.pin)
      <4>1. wanted[p].type = "PushPull"
        BY <1>0, <2>7, <3>2
      <4> QED BY <2>5, <3>1, <3>2, <4>1
    <3>3. CASE ~(u.type # NoType /\ p = Above(u.pin))
      BY <2>5, <3>1, <3>3
    <3> QED BY <3>2, <3>3
  <2>8. ASSUME NEW i \in 1..n PROVE After(k, i)
    <3> DEFINE q == uses[i].pin
    <3>1. q \in Pins /\ (i <= k /\ i # k => i <= k - 1 /\ i < k) /\ (i = k <=> q = u.pin)
      BY <1>0, <2>1 DEF IsUse
    <3>2. After(k - 1, i)
      BY <1>4
    <3>3. CASE i = k
      BY <2>1, <2>5, <3>1, <3>2, <3>3
    <3>4. CASE i # k /\ u.type # NoType /\ q = Above(u.pin)
      <4>1. h[q].type = "PushPull" /\ h[q].mode = g[q].mode
        BY <2>5, <3>1, <3>4
      <4>2. i < k => uses[i].type = "PushPull"
        BY <1>0, <3>1, <3>4
      <4>3. uses[i].type = NoType => wanted[q].type = "PushPull"
        BY <1>0, <3>1, <3>4
      <4> QED BY <3>1, <3>2, <3>4, <4>1, <4>2, <4>3
    <3>5. CASE i # k /\ ~(u.type # NoType /\ q = Above(u.pin))
      <4>1. h[q].type = g[q].type /\ h[q].mode = g[q].mode
        BY <2>5, <3>1, <3>5
      <4> QED BY <3>1, <3>2, <3>5, <4>1
    <3> QED BY <3>3, <3>4, <3>5
  <2>9. pins.clocks \subseteq after[k].clocks
    BY <1>4, <2>4
  <2> QED BY <2>5, <2>6, <2>7, <2>8, <2>9
<1>5. Good(n)
  <2> HIDE DEF Good
  <2> DEFINE Bad == {k \in 0..n : ~Good(k)}
  <2>1. SUFFICES ASSUME Bad # {} PROVE FALSE
    BY <1>0
  <2>2. Bad \in SUBSET Nat
    BY <1>0
  <2>3. PICK k \in Bad : \A m \in Bad : k <= m
    BY <2>1, <2>2, LeastOf
  <2>4. k # 0 /\ k \in 0..n /\ ~Good(k)
    BY <1>3, <2>3
  <2>5. k \in 1..n /\ k - 1 \in 0..n /\ ~(k <= k - 1)
    BY <1>0, <2>4
  <2>6. Good(k - 1)
    BY <2>3, <2>5
  <2> QED BY <1>4, <2>4, <2>5, <2>6
<1>6. ASSUME NEW p \in Pins
      PROVE  /\ wanted'[p].mode = after[n].pins[p].mode /\ wanted'[p].type = after[n].pins[p].type
             /\ \/ wanted'[p].type = wanted[p].type
                \/ \E i \in 1..n : uses[i].pin = p /\ wanted'[p].type = uses[i].type
             /\ wanted'[p] \in [mode : Modes, type : Types]
  <2>0. wanted[p] \in [mode : Modes, type : Types]
    BY DEF Registers
  <2>1. CASE ~Named(p)
    <3>1. wanted'[p] = wanted[p]
      BY <1>w, <2>1
    <3> QED BY <1>5, <2>0, <2>1, <3>1
  <2>2. ASSUME NEW i \in 1..n, uses[i].pin = p
        PROVE  /\ wanted'[p].mode = after[n].pins[p].mode /\ wanted'[p].type = after[n].pins[p].type
               /\ \/ wanted'[p].type = wanted[p].type
                  \/ \E j \in 1..n : uses[j].pin = p /\ wanted'[p].type = uses[j].type
               /\ wanted'[p] \in [mode : Modes, type : Types]
    <3> DEFINE v == CHOOSE v \in {uses[j] : j \in 1..n} : v.pin = p
    <3>1. v = uses[i]
      <4>1. v \in {uses[j] : j \in 1..n} /\ v.pin = p
        BY <2>2
      <4> HIDE DEF v
      <4> QED BY <1>0, <2>2, <4>1
    <3> HIDE DEF v
    <3>2. wanted'[p] = [mode |-> v.mode, type |-> IF v.type = NoType THEN wanted[p].type ELSE v.type]
      BY <1>w, <2>2 DEF v
    <3>3. /\ wanted'[p].mode = uses[i].mode
          /\ uses[i].type = NoType => wanted'[p].type = wanted[p].type
          /\ uses[i].type # NoType => wanted'[p].type = uses[i].type
      BY <3>1, <3>2
    <3>4. After(n, i) /\ i <= n
      BY <1>0, <1>5
    <3>5. wanted'[p] \in [mode : Modes, type : Types]
      BY <1>2, <2>0, <3>1, <3>2 DEF IsUse
    <3> QED BY <2>2, <3>3, <3>4, <3>5
  <2> QED BY <2>1, <2>2
<1>7. wanted' \in Registers
  BY <1>6, <1>w DEF Registers
<1>8. pins'.pins = wanted'
  BY <1>2, <1>5, <1>6, <1>7, RegistersAgree
<1> QED
  BY <1>0, <1>2, <1>5, <1>6, <1>7, <1>8
(* The pins some driver makes open drain.                                   *)
OpenPins == {B(5), A(0), A(1), A(2), A(3)}

PinsKnow ==
  /\ pins.pins = wanted /\ wanted \in Registers
  /\ \A p \in Pins \ OpenPins : wanted[p].type = "PushPull"

(* A list of calls that fits whatever has been configured before.           *)
FitsAlways(uses) ==
  /\ Fits(pins, uses)
  /\ \A i \in DOMAIN uses : uses[i].type = "OpenDrain" => uses[i].pin \in OpenPins

(* A single call fits when it starts the clock of its port, or finds it     *)
(* running, and the pin above it is never open drain.                      *)
LEMMA OneCallFits ==
  ASSUME PinsKnow, NEW u, IsUse(u), u.type # "OpenDrain",
         u.init \/ u.pin[1] \in pins.clocks,
         u.type # NoType => Above(u.pin) \notin OpenPins
  PROVE  FitsAlways(<<u>>)
<1> DEFINE uses == <<u>>
<1>1. Len(uses) = 1 /\ DOMAIN uses = 1..1 /\ uses[1] = u /\ \A i \in 1..1 : i = 1
  OBVIOUS
<1> HIDE DEF uses, Pins, OpenPins
<1>2. Fits(pins, uses)
  BY <1>1 DEF Fits, ClocksRun, SpoilsNothing, PinsKnow
<1> QED
  BY <1>1, <1>2 DEF FitsAlways, uses

(* The pins of the UART.                                                    *)
LEMMA UartPinsFit ==
  ASSUME PinsKnow
  PROVE  FitsAlways(UartPins)
<1> DEFINE uses == UartPins
<1>1. Len(uses) = 2 /\ DOMAIN uses = 1..2 /\ \A i \in 1..2 : i = 1 \/ i = 2
  BY DEF UartPins
<1>2. /\ uses[1].pin = <<"A", 9>> /\ uses[1].mode = "AF7" /\ uses[1].type = "PushPull" /\ uses[1].init
      /\ uses[2].pin = <<"A", 10>> /\ uses[2].mode = "AF7" /\ uses[2].type = NoType
  BY DEF UartPins, First, Use, A
<1> HIDE DEF uses
<1>3. <<"A", 9>> \in Pins /\ <<"A", 10>> \in Pins \ OpenPins
  BY DEF Pins, OpenPins, A, B, C
<1>4. \A i \in 1..2 : IsUse(uses[i])
  BY <1>1, <1>2, <1>3 DEF IsUse, Modes, Types
<1>5. \A i \in 1..2, j \in 1..2 : uses[i].pin = uses[j].pin => i = j
  BY <1>1, <1>2
<1>6. Above(<<"A", 9>>) = <<"A", 10>>
  BY DEF Above
<1>7. wanted[<<"A", 10>>].type = "PushPull"
  BY <1>3 DEF PinsKnow
<1>8. ClocksRun(pins, uses, 2)
  BY <1>1, <1>2 DEF ClocksRun
<1>9. SpoilsNothing(pins, uses, 2, 1) /\ SpoilsNothing(pins, uses, 2, 2)
  BY <1>1, <1>2, <1>6, <1>7 DEF SpoilsNothing, PinsKnow
<1>10. Fits(pins, uses)
  BY <1>1, <1>4, <1>5, <1>8, <1>9 DEF Fits
<1>11. \A i \in 1..2 : uses[i].type # "OpenDrain"
  BY <1>1, <1>2 DEF NoType
<1> QED
  BY <1>1, <1>10, <1>11 DEF FitsAlways, uses

(* The pins of configure_device: MOSI is configured after MISO, which        *)
(* spoils it.                                                              *)
LEMMA SpiPinsFit ==
  ASSUME PinsKnow
  PROVE  FitsAlways(SpiPins)
<1> DEFINE uses == SpiPins
<1>1. Len(uses) = 5 /\ DOMAIN uses = 1..5
  BY DEF SpiPins
<1>2. \A i \in 1..5 : i = 1 \/ i = 2 \/ i = 3 \/ i = 4 \/ i = 5
  OBVIOUS
<1>3. /\ uses[1].pin = <<"B", 3>> /\ uses[1].mode = "AF5" /\ uses[1].type = "PushPull" /\ uses[1].init
      /\ uses[2].pin = <<"B", 4>> /\ uses[2].mode = "AF5" /\ uses[2].type = "PushPull"
      /\ uses[3].pin = <<"B", 5>> /\ uses[3].mode = "AF5" /\ uses[3].type = "OpenDrain"
      /\ uses[4].pin = <<"A", 15>> /\ uses[4].mode = "AF5" /\ uses[4].type = "PushPull" /\ uses[4].init
      /\ uses[5].pin = <<"A", 5>> /\ uses[5].mode = "Output" /\ uses[5].type = NoType
  BY DEF SpiPins, First, Use, A, B
<1> HIDE DEF uses
<1>4. /\ <<"B", 3>> \in Pins /\ <<"B", 4>> \in Pins /\ <<"B", 5>> \in Pins /\ <<"A", 15>> \in Pins
      /\ <<"A", 5>> \in Pins /\ <<"A", 16>> \notin Pins
      /\ <<"B", 5>> \in OpenPins /\ <<"B", 6>> \in Pins \ OpenPins
  BY DEF Pins, OpenPins, A, B, C
<1>5. /\ Above(<<"B", 3>>) = <<"B", 4>> /\ Above(<<"B", 4>>) = <<"B", 5>>
      /\ Above(<<"B", 5>>) = <<"B", 6>> /\ Above(<<"A", 15>>) = <<"A", 16>>
  BY DEF Above
<1>6. "PushPull" # NoType /\ "OpenDrain" # NoType /\ "OpenDrain" # "PushPull"
  BY DEF NoType
<1>7. \A i \in 1..5 : IsUse(uses[i])
  BY <1>2, <1>3, <1>4 DEF IsUse, Modes, Types
<1>8. \A i \in 1..5, j \in 1..5 : uses[i].pin = uses[j].pin => i = j
  BY <1>2, <1>3
<1>9. ClocksRun(pins, uses, 5)
  BY <1>2, <1>3 DEF ClocksRun
<1>10. wanted[<<"B", 6>>].type = "PushPull"
  BY <1>4 DEF PinsKnow
<1>11. SpoilsNothing(pins, uses, 5, 1)
  BY <1>2, <1>3, <1>5, <1>6 DEF SpoilsNothing
<1>12. SpoilsNothing(pins, uses, 5, 2)
  BY <1>2, <1>3, <1>5, <1>6 DEF SpoilsNothing
<1>13. SpoilsNothing(pins, uses, 5, 3)
  BY <1>2, <1>3, <1>5, <1>10 DEF SpoilsNothing, PinsKnow
<1>14. SpoilsNothing(pins, uses, 5, 4) /\ SpoilsNothing(pins, uses, 5, 5)
  BY <1>2, <1>3, <1>4, <1>5 DEF SpoilsNothing
<1>15. \A i \in 1..5 : SpoilsNothing(pins, uses, 5, i)
  BY <1>2, <1>11, <1>12, <1>13, <1>14
<1>16. Fits(pins, uses)
  BY <1>1, <1>7, <1>8, <1>9, <1>15 DEF Fits
<1>17. \A i \in 1..5 : uses[i].type = "OpenDrain" => uses[i].pin \in OpenPins
  BY <1>2, <1>3, <1>4, <1>6
<1> QED
  BY <1>1, <1>16, <1>17 DEF FitsAlways, uses

(* Four calls, written as one and three.                                    *)
LEMMA OneAndThree ==
  ASSUME NEW S, NEW s \in Seq(S), NEW t \in Seq(S), Len(s) = 1, Len(t) = 3
  PROVE  /\ Len(s \o t) = 4 /\ DOMAIN (s \o t) = 1..4 /\ (s \o t)[1] = s[1]
         /\ (s \o t)[2] = t[1] /\ (s \o t)[3] = t[2] /\ (s \o t)[4] = t[3]
<1> DEFINE c == s \o t
           l == Len(s)
           m == Len(t)
<1>1. /\ c \in Seq(S) /\ Len(c) = l + m
      /\ \A i \in 1..(l + m) : c[i] = IF i <= l THEN s[i] ELSE t[i - l]
  BY ConcatProperties
<1>2. l = 1 /\ m = 3 /\ DOMAIN c = 1..Len(c)
  BY <1>1
<1> HIDE DEF c, l, m
<1>3. Len(c) = 4 /\ DOMAIN c = 1..4
  BY <1>1, <1>2
<1>4. c[1] = s[1] /\ c[2] = t[1] /\ c[3] = t[2] /\ c[4] = t[3]
  BY <1>1, <1>2
<1> QED
  BY <1>3, <1>4 DEF c

(* The pins of timer_pwm_init: all but the last spoil their successor, which *)
(* is configured after them.                                               *)
LEMMA PwmPinsFit ==
  ASSUME PinsKnow
  PROVE  FitsAlways(PwmPins)
<1> DEFINE uses == PwmPins
           first == <<First(Use(A(0), "AF1", "OpenDrain"))>>
           others == [i \in 1..3 |-> Use(A(i), "AF1", "OpenDrain")]
           S == {First(Use(A(0), "AF1", "OpenDrain"))} \cup {Use(A(i), "AF1", "OpenDrain") : i \in 1..3}
<1>1. /\ first \in Seq(S) /\ Len(first) = 1
      /\ first[1] = First(Use(A(0), "AF1", "OpenDrain"))
      /\ others \in Seq(S) /\ Len(others) = 3
      /\ \A i \in 1..3 : others[i] = Use(A(i), "AF1", "OpenDrain")
  OBVIOUS
<1>2. uses = first \o others
  BY DEF PwmPins
<1> HIDE DEF uses, first, others, S
<1>3. /\ Len(uses) = 4 /\ DOMAIN uses = 1..4 /\ uses[1] = first[1]
      /\ uses[2] = others[1] /\ uses[3] = others[2] /\ uses[4] = others[3]
  BY <1>1, <1>2, OneAndThree
<1>4. \A i \in 1..4 : i = 1 \/ i = 2 \/ i = 3 \/ i = 4
  OBVIOUS
<1>5. /\ uses[1].pin = <<"A", 0>> /\ uses[1].init
      /\ uses[2].pin = <<"A", 1>> /\ uses[3].pin = <<"A", 2>> /\ uses[4].pin = <<"A", 3>>
      /\ \A i \in 1..4 : uses[i].mode = "AF1" /\ uses[i].type = "OpenDrain"
  BY <1>1, <1>3, <1>4 DEF First, Use, A
<1>6. /\ <<"A", 0>> \in Pins /\ <<"A", 1>> \in Pins /\ <<"A", 2>> \in Pins /\ <<"A", 3>> \in Pins
      /\ <<"A", 0>> \in OpenPins /\ <<"A", 1>> \in OpenPins /\ <<"A", 2>> \in OpenPins
      /\ <<"A", 3>> \in OpenPins /\ <<"A", 4>> \in Pins \ OpenPins
  BY DEF Pins, OpenPins, A, B, C
<1>7. /\ Above(<<"A", 0>>) = <<"A", 1>> /\ Above(<<"A", 1>>) = <<"A", 2>>
      /\ Above(<<"A", 2>>) = <<"A", 3>> /\ Above(<<"A", 3>>) = <<"A", 4>>
  BY DEF Above
<1>8. "OpenDrain" # NoType
  BY DEF NoType
<1>9. \A i \in 1..4 : IsUse(uses[i])
  BY <1>4, <1>5, <1>6 DEF IsUse, Modes, Types
<1>10. \A i \in 1..4, j \in 1..4 : uses[i].pin = uses[j].pin => i = j
  BY <1>4, <1>5
<1>11. ClocksRun(pins, uses, 4)
  BY <1>4, <1>5 DEF ClocksRun
<1>12. wanted[<<"A", 4>>].type = "PushPull"
  BY <1>6 DEF PinsKnow
<1>13. SpoilsNothing(pins, uses, 4, 1) /\ SpoilsNothing(pins, uses, 4, 2)
  BY <1>4, <1>5, <1>7, <1>8 DEF SpoilsNothing
<1>14. SpoilsNothing(pins, uses, 4, 3)
  BY <1>4, <1>5, <1>7, <1>8 DEF SpoilsNothing
<1>15. SpoilsNothing(pins, uses, 4, 4)
  BY <1>4, <1>5, <1>7, <1>12 DEF SpoilsNothing, PinsKnow
<1>16. \A i \in 1..4 : SpoilsNothing(pins, uses, 4, i)
  BY <1>4, <1>13, <1>14, <1>15
<1>17. Fits(pins, uses)
  BY <1>3, <1>9, <1>10, <1>11, <1>16 DEF Fits
<1>18. \A i \in 1..4 : uses[i].pin \in OpenPins
  BY <1>4, <1>5, <1>6
<1> QED
  BY <1>3, <1>17, <1>18 DEF FitsAlways, uses

(* The pins of nrf2401_transmit.                                            *)
LEMMA TransmitPinsFit ==
  ASSUME PinsKnow
  PROVE  FitsAlways(TransmitPins)
<1> DEFINE uses == TransmitPins
<1>1. Len(uses) = 2 /\ DOMAIN uses = 1..2 /\ \A i \in 1..2 : i = 1 \/ i = 2
  BY DEF TransmitPins
<1>2. /\ uses[1].pin = <<"B", 2>> /\ uses[1].mode = "Input" /\ uses[1].type = "PushPull" /\ uses[1].init
      /\ uses[2].pin = <<"B", 7>> /\ uses[2].mode = "Output" /\ uses[2].type = "PushPull" /\ uses[2].init
  BY DEF TransmitPins, First, Use, B
<1> HIDE DEF uses
<1>3. /\ <<"B", 2>> \in Pins /\ <<"B", 7>> \in Pins
      /\ <<"B", 3>> \in Pins \ OpenPins /\ <<"B", 8>> \in Pins \ OpenPins
  BY DEF Pins, OpenPins, A, B, C
<1>4. \A i \in 1..2 : IsUse(uses[i])
  BY <1>1, <1>2, <1>3 DEF IsUse, Modes, Types
<1>5. \A i \in 1..2, j \in 1..2 : uses[i].pin = uses[j].pin => i = j
  BY <1>1, <1>2
<1>6. Above(<<"B", 2>>) = <<"B", 3>> /\ Above(<<"B", 7>>) = <<"B", 8>>
  BY DEF Above
<1>7. wanted[<<"B", 3>>].type = "PushPull" /\ wanted[<<"B", 8>>].type = "PushPull"
  BY <1>3 DEF PinsKnow
<1>8. ClocksRun(pins, uses, 2)
  BY <1>1, <1>2 DEF ClocksRun
<1>9. SpoilsNothing(pins, uses, 2, 1) /\ SpoilsNothing(pins, uses, 2, 2)
  BY <1>1, <1>2, <1>6, <1>7 DEF SpoilsNothing, PinsKnow
<1>10. Fits(pins, uses)
  BY <1>1, <1>4, <1>5, <1>8, <1>9 DEF Fits
<1>11. \A i \in 1..2 : uses[i].type # "OpenDrain"
  BY <1>1, <1>2
<1> QED
  BY <1>1, <1>10, <1>11 DEF FitsAlways, uses

(* The initialisations that name one pin. *)
LEMMA SinglePinsFit ==
  ASSUME PinsKnow
  PROVE  /\ FitsAlways(ReceivePins) /\ FitsAlways(AdcPins) /\ FitsAlways(Am2302Pins)
         /\ \A p : FitsAlways(<<First(Use(IrqPin(p), "Input", NoType))>>)
         /\ "C" \in pins.clocks => /\ FitsAlways(<<Use(C(13), "Output", NoType)>>)
                                   /\ FitsAlways(<<Use(C(13), "Input", NoType)>>)
<1>1. /\ <<"B", 8>> \in Pins /\ <<"A", 1>> \in Pins /\ <<"C", 13>> \in Pins
      /\ <<"A", 6>> \in Pins /\ <<"B", 0>> \in Pins
      /\ <<"B", 9>> \notin OpenPins /\ <<"C", 14>> \notin OpenPins
  BY DEF Pins, OpenPins, A, B, C
<1>2. /\ "PushPull" \in Types /\ "PushPull" # "OpenDrain" /\ NoType # "OpenDrain"
      /\ "Output" \in Modes /\ "Input" \in Modes /\ "Analog" \in Modes
  BY DEF Types, Modes, NoType
<1>3. ASSUME NEW pin \in Pins, NEW mode \in Modes
      PROVE  /\ FitsAlways(<<First(Use(pin, mode, NoType))>>)
             /\ pin[1] \in pins.clocks => FitsAlways(<<Use(pin, mode, NoType)>>)
             /\ Above(pin) \notin OpenPins => FitsAlways(<<First(Use(pin, mode, "PushPull"))>>)
  <2> HIDE DEF Pins, OpenPins, Modes, Types
  <2>1. /\ IsUse(First(Use(pin, mode, NoType))) /\ IsUse(Use(pin, mode, NoType))
        /\ IsUse(First(Use(pin, mode, "PushPull")))
        /\ First(Use(pin, mode, NoType)).init /\ First(Use(pin, mode, "PushPull")).init
        /\ First(Use(pin, mode, NoType)).type = NoType /\ Use(pin, mode, NoType).type = NoType
        /\ First(Use(pin, mode, "PushPull")).type = "PushPull"
        /\ Use(pin, mode, NoType).pin = pin /\ First(Use(pin, mode, "PushPull")).pin = pin
    BY <1>2 DEF IsUse, First, Use
  <2> QED BY <1>2, <2>1, OneCallFits
<1>4. ASSUME NEW p
      PROVE  FitsAlways(<<First(Use(IrqPin(p), "Input", NoType))>>)
  <2>1. IrqPin(p) \in Pins
    BY <1>1 DEF IrqPin, A, B
  <2> QED BY <1>2, <1>3, <2>1
<1>5. /\ Above(<<"B", 8>>) = <<"B", 9>> /\ Above(<<"C", 13>>) = <<"C", 14>> /\ <<"C", 13>>[1] = "C"
  BY DEF Above
<1>6. /\ ReceivePins = <<First(Use(<<"B", 8>>, "Output", "PushPull"))>>
      /\ AdcPins = <<First(Use(<<"A", 1>>, "Analog", NoType))>>
      /\ Am2302Pins = <<First(Use(<<"C", 13>>, "Output", "PushPull"))>>
  BY DEF ReceivePins, AdcPins, Am2302Pins, A, B, C
<1>7. C(13) = <<"C", 13>>
  BY DEF C
<1> QED
  BY <1>1, <1>2, <1>3, <1>4, <1>5, <1>6, <1>7
-----------------------------------------------------------------------------
(* The calls that are still to be made.                                     *)
CallNames ==
  {"init_uart", "init_exti_isr_handling", "link_exti_src", "enable_nvic", "syscfg", "activate",
   "detect", "configure_device", "gpio_b2_b7", "gpio_b8", "timer_pwm_init", "adc_init",
   "link_adc_isr", "reset_idx", "reset_state", "am2302_init"}
Occurs(c, s) == \E i \in 1..Len(s) : s[i] = c

(* A call that is not the next one is still to come after it.               *)
LEMMA OccursInTail ==
  ASSUME NEW S, NEW s \in Seq(S), s # <<>>, NEW c, Occurs(c, s), Head(s) # c
  PROVE  Occurs(c, Tail(s))
<1>1. PICK i \in 1..Len(s) : s[i] = c
  BY DEF Occurs
<1>2. Head(s) = s[1] /\ Len(s) \in Nat /\ Len(Tail(s)) = Len(s) - 1
      /\ \A j \in 1..(Len(s) - 1) : Tail(s)[j] = s[j + 1]
  OBVIOUS
<1> DEFINE n == Len(s)
<1>3. i # 1 /\ i \in 1..n /\ n \in Nat
  BY <1>1, <1>2
<1> HIDE DEF n
<1>4. i - 1 \in 1..(n - 1) /\ (i - 1) + 1 = i
  BY <1>3
<1>5. Tail(s)[i - 1] = c
  BY <1>1, <1>2, <1>4 DEF n
<1> QED
  BY <1>2, <1>4, <1>5 DEF Occurs, n

(* A call of one of two lists is in their concatenation.                    *)
LEMMA OccursInConcat ==
  ASSUME NEW S, NEW s \in Seq(S), NEW t \in Seq(S), NEW c, Occurs(c, s) \/ Occurs(c, t)
  PROVE  Occurs(c, s \o t)
<1> DEFINE l == Len(s)
           m == Len(t)
           u == s \o t
<1>1. /\ Len(u) = l + m /\ l \in Nat /\ m \in Nat
      /\ \A i \in 1..(l + m) : u[i] = IF i <= l THEN s[i] ELSE t[i - l]
  BY ConcatProperties
<1>2. CASE Occurs(c, s)
  <2> PICK i \in 1..l : s[i] = c
    BY <1>2 DEF Occurs
  <2> HIDE DEF l, m, u
  <2>1. i \in 1..(l + m) /\ i <= l
    BY <1>1
  <2>2. u[i] = c
    BY <1>1, <2>1
  <2> QED BY <1>1, <2>1, <2>2 DEF Occurs, u
<1>3. CASE Occurs(c, t)
  <2> PICK i \in 1..m : t[i] = c
    BY <1>3 DEF Occurs
  <2> HIDE DEF l, m, u
  <2>1. l + i \in 1..(l + m) /\ ~(l + i <= l) /\ (l + i) - l = i
    BY <1>1
  <2>2. u[l + i] = c
    BY <1>1, <2>1
  <2> QED BY <1>1, <2>1, <2>2 DEF Occurs, u
<1> QED
  BY <1>2, <1>3

(* What the main functions call. *)
LEMMA CallsAreNames ==
  /\ KernelCalls \in Seq(CallNames)
  /\ \A p \in BoardPrograms \ {"i2c"} : MainCalls(p) \in Seq(CallNames)
  /\ Occurs("am2302_init", MainCalls("weathernode"))
<1>1. /\ "init_uart" \in CallNames /\ "init_exti_isr_handling" \in CallNames
      /\ "link_exti_src" \in CallNames /\ "enable_nvic" \in CallNames /\ "syscfg" \in CallNames
      /\ "activate" \in CallNames /\ "detect" \in CallNames /\ "configure_device" \in CallNames
      /\ "gpio_b2_b7" \in CallNames /\ "gpio_b8" \in CallNames /\ "timer_pwm_init" \in CallNames
      /\ "adc_init" \in CallNames /\ "link_adc_isr" \in CallNames /\ "reset_idx" \in CallNames
      /\ "reset_state" \in CallNames /\ "am2302_init" \in CallNames
  BY Zenon DEF CallNames
<1> HIDE DEF CallNames
<1>2. ASSUME NEW a \in CallNames PROVE <<a>> \in Seq(CallNames)
  OBVIOUS
<1>3. ASSUME NEW a \in CallNames, NEW b \in CallNames PROVE <<a, b>> \in Seq(CallNames)
  OBVIOUS
<1>4. ASSUME NEW a \in CallNames, NEW b \in CallNames, NEW c \in CallNames
      PROVE  <<a, b, c>> \in Seq(CallNames)
  OBVIOUS
<1>5. ASSUME NEW a \in CallNames, NEW b \in CallNames, NEW c \in CallNames, NEW d \in CallNames,
             NEW e \in CallNames
      PROVE  <<a, b, c, d, e>> \in Seq(CallNames)
  OBVIOUS
<1>6. ASSUME NEW s \in Seq(CallNames), NEW t \in Seq(CallNames) PROVE s \o t \in Seq(CallNames)
  OBVIOUS
<1>7. <<>> \in Seq(CallNames)
  OBVIOUS
<1>8. KernelCalls \in Seq(CallNames) /\ ListenCalls \in Seq(CallNames)
  BY <1>1, <1>3, <1>5, Zenon DEF KernelCalls, ListenCalls
<1>9. /\ <<"configure_device">> \in Seq(CallNames) /\ <<"gpio_b2_b7">> \in Seq(CallNames)
      /\ <<"timer_pwm_init">> \in Seq(CallNames)
      /\ <<"configure_device", "gpio_b8">> \in Seq(CallNames)
      /\ <<"configure_device", "am2302_init">> \in Seq(CallNames)
      /\ <<"reset_idx", "reset_state">> \in Seq(CallNames)
      /\ <<"adc_init", "link_adc_isr", "configure_device">> \in Seq(CallNames)
  BY <1>1, <1>2, <1>3, <1>4, Zenon
<1> DEFINE first == <<"adc_init", "link_adc_isr", "configure_device">> \o ListenCalls
           last == <<"reset_idx", "reset_state">>
<1>10. /\ TransmitCalls \in Seq(CallNames) /\ WeatherV2Calls \in Seq(CallNames)
       /\ ReceiveModuleCalls \in Seq(CallNames) /\ ReceiveCalls \in Seq(CallNames)
       /\ DroneCalls \in Seq(CallNames) /\ first \in Seq(CallNames)
       /\ RemoteCalls \in Seq(CallNames) /\ WeatherCalls \in Seq(CallNames)
  BY <1>6, <1>8, <1>9, Zenon
     DEF TransmitCalls, WeatherV2Calls, ReceiveModuleCalls, ReceiveCalls, DroneCalls, RemoteCalls,
         WeatherCalls
<1>11. ASSUME NEW p \in BoardPrograms \ {"i2c"} PROVE MainCalls(p) \in Seq(CallNames)
  <2> HIDE DEF first, last
  <2>1. \/ p = "nrf2401_transmit" \/ p = "weathernodeV2" \/ p = "nrf2401_receive_module"
        \/ p = "nrf2401_receive" \/ p = "drone_rpm" \/ p = "remote" \/ p = "weathernode"
        \/ p = "sleepers"
    BY DEF BoardPrograms, RadioPrograms
  <2> QED BY <1>7, <1>10, <2>1 DEF MainCalls
<1>12. Occurs("am2302_init", MainCalls("weathernode"))
  <2>1. MainCalls("weathernode") = <<"configure_device", "am2302_init">>
    BY DEF MainCalls, WeatherCalls
  <2> QED BY <2>1 DEF Occurs
<1> QED
  BY <1>8, <1>11, <1>12
-----------------------------------------------------------------------------
(* The ports after an initialisation that fits.                             *)
LEMMA PinsConfigured ==
  ASSUME PinsKnow, NEW uses, FitsAlways(uses), Configure(uses)
  PROVE  /\ PinsKnow' /\ pins.clocks \subseteq pins'.clocks
         /\ \A i \in DOMAIN uses : uses[i].init => uses[i].pin[1] \in pins'.clocks
<1>1. /\ pins.pins = wanted /\ wanted \in Registers /\ Fits(pins, uses)
      /\ \A p \in Pins \ OpenPins : wanted[p].type = "PushPull"
      /\ \A i \in DOMAIN uses : uses[i].type = "OpenDrain" => uses[i].pin \in OpenPins
  BY DEF PinsKnow, FitsAlways
<1>2. /\ pins'.pins = wanted' /\ wanted' \in Registers
      /\ pins.clocks \subseteq pins'.clocks
      /\ \A i \in DOMAIN uses : uses[i].init => uses[i].pin[1] \in pins'.clocks
      /\ \A p \in Pins : \/ wanted'[p].type = wanted[p].type
                         \/ \E i \in DOMAIN uses : uses[i].pin = p /\ wanted'[p].type = uses[i].type
  BY <1>1, ConfigureKeeps
<1> HIDE DEF Pins, OpenPins
<1>3. ASSUME NEW p \in Pins \ OpenPins PROVE wanted'[p].type = "PushPull"
  <2>1. wanted'[p].type \in Types
    BY <1>2 DEF Registers
  <2>2. CASE wanted'[p].type = wanted[p].type
    BY <1>1, <2>2
  <2>3. ASSUME NEW i \in DOMAIN uses, uses[i].pin = p, wanted'[p].type = uses[i].type
        PROVE  wanted'[p].type = "PushPull"
    <3>1. wanted'[p].type # "OpenDrain"
      BY <1>1, <2>3
    <3> QED BY <2>1, <3>1 DEF Types
  <2> QED BY <1>2, <2>2, <2>3
<1> QED
  BY <1>2, <1>3 DEF PinsKnow

(* The line of the sensor is used without init_gpio: am2302_init has to     *)
(* start the clock of its port first.                                       *)
PinsInv ==
  /\ PinsKnow
  /\ calls \in Seq(CallNames)
  /\ program = "weathernode" => "C" \in pins.clocks \/ Occurs("am2302_init", calls)

(* What a step does to the ports.                                           *)
PinsStay == pins' = pins /\ wanted' = wanted
PinsChange(starts) ==
  \E uses : /\ FitsAlways(uses) /\ Configure(uses)
            /\ starts => \E i \in DOMAIN uses : uses[i].init /\ uses[i].pin[1] = "C"
Called == calls # <<>> /\ calls' = Tail(calls)
PinsStep ==
  /\ program' = program
  /\ \/ PinsStay /\ calls' = calls
     \/ PinsChange(FALSE) /\ calls' = calls
     \/ Called /\ PinsStay /\ Head(calls) # "am2302_init"
     \/ Called /\ PinsChange(Head(calls) = "am2302_init")

(* Every such step keeps the invariant of the ports.                        *)
LEMMA PinsStepKeeps ==
  ASSUME PinsInv, PinsStep
  PROVE  PinsInv'
<1> DEFINE starts == Head(calls) = "am2302_init"
<1>1. PinsKnow /\ calls \in Seq(CallNames)
      /\ (program = "weathernode" => "C" \in pins.clocks \/ Occurs("am2302_init", calls))
  BY DEF PinsInv
<1> HIDE DEF CallNames
<1>2. ASSUME PinsStay PROVE PinsKnow' /\ pins.clocks \subseteq pins'.clocks
  BY <1>1, <1>2 DEF PinsStay, PinsKnow
<1>3. ASSUME NEW s \in BOOLEAN, PinsChange(s)
      PROVE  PinsKnow' /\ pins.clocks \subseteq pins'.clocks /\ (s => "C" \in pins'.clocks)
  <2> PICK uses : /\ FitsAlways(uses) /\ Configure(uses)
                  /\ s => \E i \in DOMAIN uses : uses[i].init /\ uses[i].pin[1] = "C"
    BY <1>3 DEF PinsChange
  <2>1. /\ PinsKnow' /\ pins.clocks \subseteq pins'.clocks
        /\ \A i \in DOMAIN uses : uses[i].init => uses[i].pin[1] \in pins'.clocks
    BY <1>1, PinsConfigured
  <2> QED BY <2>1
<1>4. ASSUME Called
      PROVE  /\ calls' \in Seq(CallNames)
             /\ Occurs("am2302_init", calls) /\ Head(calls) # "am2302_init" =>
                  Occurs("am2302_init", calls')
  BY <1>1, <1>4, OccursInTail DEF Called
<1>5. program' = program
  BY DEF PinsStep
<1>6. CASE calls' = calls /\ (PinsStay \/ PinsChange(FALSE))
  <2>1. PinsKnow' /\ pins.clocks \subseteq pins'.clocks
    BY <1>2, <1>3, <1>6
  <2>2. Occurs("am2302_init", calls) => Occurs("am2302_init", calls')
    BY <1>6
  <2> QED BY <1>1, <1>5, <1>6, <2>1, <2>2 DEF PinsInv
<1>7. CASE Called /\ PinsStay /\ Head(calls) # "am2302_init"
  <2>1. PinsKnow' /\ pins.clocks \subseteq pins'.clocks
    BY <1>2, <1>7
  <2> QED BY <1>1, <1>4, <1>5, <1>7, <2>1 DEF PinsInv
<1>8. CASE Called /\ PinsChange(Head(calls) = "am2302_init")
  <2>1. PinsKnow' /\ pins.clocks \subseteq pins'.clocks /\ (starts => "C" \in pins'.clocks)
    BY <1>3, <1>8
  <2> QED BY <1>1, <1>4, <1>5, <1>8, <2>1 DEF PinsInv
<1> QED
  BY <1>6, <1>7, <1>8 DEF PinsStep
(* Each initialising call, and what it makes of the ports.                  *)
LEMMA SetUpPins ==
  ASSUME PinsInv, SetUp \/ AdcInit \/ LinkAdcIsr \/ ResetIdx \/ ResetState
  PROVE  PinsStep
<1>1. PinsKnow
  BY DEF PinsInv
<1>2. CASE InitUart
  <2>1. FitsAlways(UartPins)
    BY <1>1, UartPinsFit
  <2> QED BY <1>2, <2>1, Zenon DEF InitUart, Calls, PinsStep, Called, PinsChange
<1>3. CASE InitSpi
  <2>1. FitsAlways(SpiPins)
    BY <1>1, SpiPinsFit
  <2> QED BY <1>3, <2>1, Zenon DEF InitSpi, ConfiguresPins, Calls, PinsStep, Called, PinsChange
<1>4. CASE InitTransmitPins
  <2>1. FitsAlways(TransmitPins)
    BY <1>1, TransmitPinsFit
  <2> QED BY <1>4, <2>1, Zenon DEF InitTransmitPins, ConfiguresPins, Calls, PinsStep, Called, PinsChange
<1>5. CASE InitReceivePins
  <2>1. FitsAlways(ReceivePins)
    BY <1>1, SinglePinsFit
  <2> QED BY <1>5, <2>1, Zenon DEF InitReceivePins, ConfiguresPins, Calls, PinsStep, Called, PinsChange
<1>6. CASE TimerPwmInit
  <2>1. FitsAlways(PwmPins)
    BY <1>1, PwmPinsFit
  <2> QED BY <1>6, <2>1, Zenon DEF TimerPwmInit, ConfiguresPins, Calls, PinsStep, Called, PinsChange
<1>7. CASE Am2302Init
  <2>1. FitsAlways(Am2302Pins)
    BY <1>1, SinglePinsFit
  <2>2. /\ 1 \in DOMAIN Am2302Pins /\ Am2302Pins[1].init /\ Am2302Pins[1].pin[1] = "C"
    BY DEF Am2302Pins, First, Use, C
  <2> HIDE DEF Am2302Pins
  <2>3. /\ calls # <<>> /\ calls' = Tail(calls) /\ Configure(Am2302Pins) /\ program' = program
    BY <1>7 DEF Am2302Init, ConfiguresPins, Calls
  <2>4. PinsChange(Head(calls) = "am2302_init")
    BY <2>1, <2>2, <2>3 DEF PinsChange
  <2> QED BY <2>3, <2>4 DEF PinsStep, Called
<1>8. CASE LinkExtiSrc
  <2> DEFINE uses == <<First(Use(IrqPin(program), "Input", NoType))>>
  <2>1. FitsAlways(uses)
    BY <1>1, SinglePinsFit
  <2>2. calls # <<>> /\ Head(calls) = "link_exti_src" /\ calls' = Tail(calls) /\ Configure(uses)
        /\ program' = program
    BY <1>8 DEF LinkExtiSrc, Calls
  <2> HIDE DEF uses
  <2> QED BY <2>1, <2>2 DEF PinsStep, Called, PinsChange
<1>9. CASE AdcInit
  <2>1. FitsAlways(AdcPins)
    BY <1>1, SinglePinsFit
  <2> QED BY <1>9, <2>1, Zenon DEF AdcInit, Calls, PinsStep, Called, PinsChange
<1>10. CASE InitExtiIsrHandling
  BY <1>10 DEF InitExtiIsrHandling, Calls, PinsStep, Called, PinsStay
<1>11. CASE EnableCpuInterruptExti
  BY <1>11 DEF EnableCpuInterruptExti, board, Calls, PinsStep, Called, PinsStay
<1>12. CASE SyscfgExtiConfig
  BY <1>12 DEF SyscfgExtiConfig, Calls, PinsStep, Called, PinsStay
<1>13. CASE ExtiActivateIrLine
  BY <1>13 DEF ExtiActivateIrLine, Calls, PinsStep, Called, PinsStay
<1>14. CASE ExtiDetectFallingEdge
  BY <1>14 DEF ExtiDetectFallingEdge, Calls, PinsStep, Called, PinsStay
<1>15. CASE LinkAdcIsr \/ ResetIdx \/ ResetState
  BY <1>15 DEF LinkAdcIsr, ResetIdx, ResetState, board, Calls, PinsStep, Called, PinsStay
<1> QED
  BY <1>2, <1>3, <1>4, <1>5, <1>6, <1>7, <1>8, <1>9, <1>10, <1>11, <1>12, <1>13, <1>14, <1>15
  DEF SetUp

(* The main loops: only the weather node's touches a pin.                   *)
LEMMA LoopPins ==
  ASSUME PinsInv,
         \/ RemoteThread /\ ~(AdcInit \/ LinkAdcIsr \/ ResetIdx \/ ResetState)
         \/ WeatherThread \/ SensorAnswers \/ AccelerometerThread \/ SleepThread
  PROVE  PinsStep
<1>1. CASE RemoteThread /\ ~(AdcInit \/ LinkAdcIsr \/ ResetIdx \/ ResetState)
  BY <1>1 DEF RemoteThread, ChecksState, DisablesAdc, LocksMutex, ClampsReading, FeedsCrc, Transmits,
              EnablesAdc, RemoteAt, MainLoop, board, PinsStep, PinsStay
<1>2. CASE PullsLineLow \/ ReleasesLine
  <2>1. program = "weathernode" /\ calls = <<>> /\ calls' = calls /\ program' = program
    BY <1>2 DEF PullsLineLow, ReleasesLine, SensorAt, MainLoop
  <2>2. ~Occurs("am2302_init", calls)
    BY <2>1 DEF Occurs
  <2>3. "C" \in pins.clocks /\ PinsKnow
    BY <2>1, <2>2 DEF PinsInv
  <2>4. FitsAlways(<<Use(C(13), "Output", NoType)>>) /\ FitsAlways(<<Use(C(13), "Input", NoType)>>)
    BY <2>3, SinglePinsFit
  <2>5. \/ Configure(<<Use(C(13), "Output", NoType)>>) \/ Configure(<<Use(C(13), "Input", NoType)>>)
    BY <1>2 DEF PullsLineLow, ReleasesLine
  <2> QED BY <2>1, <2>4, <2>5, Zenon DEF PinsStep, PinsChange
<1>3. CASE WeatherThread /\ ~(PullsLineLow \/ ReleasesLine)
  BY <1>3 DEF WeatherThread, ReadsPulse, MissesPulse, MeasurementEnds, TransmitsMeasurement,
              SleepsAfterSending, SensorRuns, SensorAt, MainLoop, PinsStep, PinsStay
<1>4. CASE SensorAnswers
  BY <1>4 DEF SensorAnswers, SensorRuns, SensorAt, MainLoop, PinsStep, PinsStay
<1>5. CASE AccelerometerThread
  BY <1>5 DEF AccelerometerThread, WritesConfiguration, ReadsRegister, WritesTxdr, EndsWrite, TakesByte,
              StartsSweep, Polls, MainLoop, board, PinsStep, PinsStay
<1>6. CASE SleepThread
  BY <1>6 DEF SleepThread, TaskSleep, CallsTaskSleep, SetsCcr, FlushesCounter, StartsTimer, Blocks,
              TaskRuns, TaskAt, board, PinsStep, PinsStay
<1> QED
  BY <1>1, <1>2, <1>3, <1>4, <1>5, <1>6

(* Interrupts, their handlers and the world outside touch no pin.           *)
LEMMA OthersPins ==
  ASSUME \/ \E v : TakesInterrupt(v)
         \/ Handler \/ Edge \/ Converted \/ Shifts \/ Receives \/ Tick
         \/ UNCHANGED vars
  PROVE  PinsStep
<1>1. CASE Handler
  BY <1>1 DEF Handler, CallbackRuns, Acknowledges, Returns, AdcIsrRuns, Tim3IsrRuns, board, PinsStep,
              PinsStay
<1>2. CASE \E v : TakesInterrupt(v)
  BY <1>2 DEF TakesInterrupt, PinsStep, PinsStay
<1>3. CASE Edge \/ Converted \/ Shifts \/ Receives \/ Tick
  BY <1>3 DEF Edge, Converted, Shifts, Receives, Tick, board, PinsStep, PinsStay
<1>4. CASE UNCHANGED vars
  BY <1>4 DEF vars, board, PinsStep, PinsStay
<1> QED
  BY <1>1, <1>2, <1>3, <1>4

(* After reset every pin is a push-pull input.                              *)
LEMMA BootPins ==
  ASSUME BoardsInit
  PROVE  PinsInv
<1> PICK p \in BoardPrograms : Boot(p)
  BY DEF BoardsInit
<1>1. /\ program = p /\ pins.pins = AfterReset /\ wanted = AfterReset
      /\ calls = IF p = "i2c" THEN <<>> ELSE KernelCalls \o MainCalls(p)
  BY DEF Boot
<1>2. AfterReset \in Registers /\ \A q \in Pins : AfterReset[q].type = "PushPull"
  <2>1. "Input" \in Modes /\ "PushPull" \in Types
    BY DEF Modes, Types
  <2> HIDE DEF Pins, Modes, Types
  <2> QED BY <2>1 DEF AfterReset, Registers
<1>3. PinsKnow
  <2> HIDE DEF Pins, OpenPins
  <2> QED BY <1>1, <1>2 DEF PinsKnow
<1> HIDE DEF CallNames
<1>4. calls \in Seq(CallNames)
  <2>1. CASE p = "i2c"
    <3>1. <<>> \in Seq(CallNames)
      OBVIOUS
    <3> QED BY <1>1, <2>1, <3>1
  <2>2. CASE p # "i2c"
    <3>1. KernelCalls \in Seq(CallNames) /\ MainCalls(p) \in Seq(CallNames)
      BY <2>2, CallsAreNames
    <3> HIDE DEF KernelCalls, MainCalls
    <3> QED BY <1>1, <2>2, <3>1
  <2> QED BY <2>1, <2>2
<1>5. ASSUME program = "weathernode" PROVE Occurs("am2302_init", calls)
  <2>1. p \in BoardPrograms \ {"i2c"} /\ p = "weathernode"
    BY <1>1, <1>5
  <2>2. /\ KernelCalls \in Seq(CallNames) /\ MainCalls(p) \in Seq(CallNames)
        /\ Occurs("am2302_init", MainCalls(p))
    BY <2>1, CallsAreNames
  <2>3. calls = KernelCalls \o MainCalls(p)
    BY <1>1, <2>1
  <2> QED BY <2>2, <2>3, OccursInConcat
<1> QED
  BY <1>3, <1>4, <1>5 DEF PinsInv

(* Every action is one of these steps.                                      *)
LEMMA StepsKeepPins ==
  ASSUME PinsInv, [BoardsNext]_vars
  PROVE  PinsStep
BY SetUpPins, LoopPins, OthersPins DEF BoardsNext, Thread, RemoteThread, ExtiInterrupt

(* The ports of every program, at all times.                                *)
LEMMA PinsInvHolds == BoardsSpec => []PinsInv
<1>1. BoardsInit => PinsInv
  BY BootPins
<1>2. PinsInv /\ [BoardsNext]_vars => PinsInv'
  BY StepsKeepPins, PinsStepKeeps
<1> QED
  BY <1>1, <1>2, PTL DEF BoardsSpec

(* The drivers of a program share the ports: whatever one configures, each  *)
(* pin has the mode and the output type it was last asked to have, although *)
(* SetOtyper writes two pins and the registers of a port without a clock    *)
(* take nothing.                                                            *)
THEOREM DriversShareThePorts == BoardsSpec => []PinsKeepTheirUse
<1>1. PinsInv => PinsKeepTheirUse
  BY DEF PinsInv, PinsKnow, PinsKeepTheirUse
<1> QED
  BY <1>1, PinsInvHolds, PTL
-----------------------------------------------------------------------------
(* The registers stay typed.                                                *)

(* The global timer keeps its prescaler in force, and the sleep timer counts *)
(* up to its auto-reload value.                                            *)
TimersInv ==
  /\ timers = [n \in {2, 3} |-> timers[n]] /\ TimerFields(timers[2]) /\ TimerFields(timers[3])
  /\ timers[2].prescaler = TimerGetPrescaler(1)
  /\ timers[3].arr = SleepTop /\ timers[3].cnt \in Nat /\ timers[3].cnt <= SleepTop

(* What a step writes to the timers.                                        *)
TimersMove ==
  \/ timers' = timers
  \/ timers' = [timers EXCEPT ![2] = TimerPwm(@)]
  \/ timers' = [timers EXCEPT ![2] = TimerInit(2, 1)]
  \/ timers' = [timers EXCEPT ![2] = TimerStart(TimerFlushCounter(@))]
  \/ timers' = [timers EXCEPT ![2] = TimerFlushCounter(TimerStop(@))]
  \/ timers' = [timers EXCEPT ![2] = TimerStart(@)]
  \/ \E value : timers' = [timers EXCEPT ![3] = SetCcr(@, value, 1)]
  \/ timers' = [timers EXCEPT ![3] = TimerFlushCounter(@)]
  \/ timers' = [timers EXCEPT ![3] = TimerStart(@)]
  \/ timers' = [timers EXCEPT ![3] = Counted(@)]
  \/ timers' = [timers EXCEPT ![3] = TimerSetSr(TimerStop(@), @.sr \ {1})]

(* Every action writes them in one of these ways.                           *)
LEMMA StepsMoveTimers ==
  ASSUME [BoardsNext]_vars
  PROVE  TimersMove
<1>1. CASE SetUp
  BY <1>1, Zenon
  DEF SetUp, InitUart, InitExtiIsrHandling, InitSpi, InitTransmitPins, InitReceivePins, TimerPwmInit,
      Am2302Init, LinkExtiSrc, EnableCpuInterruptExti, SyscfgExtiConfig, ExtiActivateIrLine,
      ExtiDetectFallingEdge, ConfiguresPins, board, TimersMove
<1>2. CASE RemoteThread
  BY <1>2 DEF RemoteThread, AdcInit, LinkAdcIsr, ResetIdx, ResetState, ChecksState, DisablesAdc,
              LocksMutex, ClampsReading, FeedsCrc, Transmits, EnablesAdc, RemoteAt, board, TimersMove
<1>3. CASE WeatherThread \/ SensorAnswers
  BY <1>3 DEF WeatherThread, PullsLineLow, ReleasesLine, SensorAnswers, ReadsPulse, MissesPulse,
              MeasurementEnds, TransmitsMeasurement, SleepsAfterSending, SensorRuns, SensorAt, TimersMove
<1>4. CASE AccelerometerThread
  BY <1>4 DEF AccelerometerThread, WritesConfiguration, ReadsRegister, WritesTxdr, EndsWrite, TakesByte,
              StartsSweep, Polls, board, TimersMove
<1>5. CASE SleepThread
  BY <1>5, Zenon
  DEF SleepThread, TaskSleep, TaskAt, CallsTaskSleep, SetsCcr, FlushesCounter, StartsTimer, Blocks, board,
      TimersMove
<1>6. CASE Tim3IsrRuns
  BY <1>6 DEF Tim3IsrRuns, TimersMove
<1>7. CASE Tick
  BY <1>7 DEF Tick, TimersMove
<1>8. CASE CallbackRuns \/ Returns \/ AdcIsrRuns
  BY <1>8 DEF CallbackRuns, Acknowledges, Returns, AdcIsrRuns, board, TimersMove
<1>9. CASE \E v : TakesInterrupt(v)
  BY <1>9 DEF TakesInterrupt, TimersMove
<1>10. CASE Edge \/ Converted \/ Shifts \/ Receives \/ UNCHANGED vars
  BY <1>10 DEF Edge, Converted, Shifts, Receives, vars, board, TimersMove
<1> QED
  BY <1>1, <1>2, <1>3, <1>4, <1>5, <1>6, <1>7, <1>8, <1>9, <1>10
  DEF BoardsNext, Thread, ExtiInterrupt, Handler

(* timer_init puts the prescaler in force: its update event comes before     *)
(* UDIS is set.                                                            *)
LEMMA TimerInitLoads ==
  ASSUME NEW n, NEW cycle
  PROVE  /\ TimerFields(TimerInit(n, cycle)) /\ TimerInit(n, cycle).cnt = 0
         /\ TimerInit(n, cycle).prescaler = TimerGetPrescaler(cycle)
         /\ TimerInit(n, cycle).arr = CounterBits[n]
<1> DEFINE psc == TimerGetPrescaler(cycle)
           bits == CounterBits[n]
           reset == SetPrescaler(ResetTimer(n), psc)
           event == GenerateUe(reset)
           quiet == SetUdis(event)
           loaded == SetCcr(quiet, Unknown, 4)
<1>1. TimerInit(n, cycle) = TimerFlushCounter(loaded)
  BY Zenon DEF TimerInit
<1> HIDE DEF psc
<1>2. TimerFields(reset) /\ reset.cr1 = {} /\ reset.psc = psc /\ reset.arr = bits
  <2>1. ResetTimer(n) = [cr1 |-> {}, dier |-> {}, sr |-> {}, cnt |-> 0, psc |-> 0, prescaler |-> 0,
                         arr |-> bits, ccr |-> [i \in 1..4 |-> 0]]
    BY DEF ResetTimer
  <2> HIDE DEF bits
  <2> QED BY <2>1 DEF SetPrescaler, TimerFields
<1> HIDE DEF bits, reset
<1>3. "UDIS" \notin reset.cr1
  BY <1>2
<1>4. event = [reset EXCEPT !.prescaler = reset.psc, !.cnt = 0, !.sr = @ \cup {0}]
  BY <1>3 DEF GenerateUe
<1> HIDE DEF event
<1>5. TimerFields(event) /\ event.prescaler = psc /\ event.arr = bits
  BY <1>2, <1>4 DEF TimerFields
<1>6. TimerFields(quiet) /\ quiet.prescaler = psc /\ quiet.arr = bits
  BY <1>5 DEF SetUdis, TimerFields
<1> HIDE DEF quiet
<1>7. TimerFields(loaded) /\ loaded.prescaler = psc /\ loaded.arr = bits
  BY <1>6 DEF SetCcr, TimerFields
<1> HIDE DEF loaded
<1> QED
  BY <1>1, <1>7 DEF TimerFlushCounter, TimerFields, psc, bits

(* None of them goes beyond the width of the sleep timer.                   *)
LEMMA TimersStay ==
  ASSUME TimersInv, TimersMove
  PROVE  TimersInv'
<1>0. /\ timers = [n \in {2, 3} |-> timers[n]] /\ TimerFields(timers[2]) /\ TimerFields(timers[3])
      /\ timers[2].prescaler = TimerGetPrescaler(1)
      /\ timers[3].arr = SleepTop /\ timers[3].cnt \in Nat /\ timers[3].cnt <= SleepTop
  BY DEF TimersInv
<1>a. timers = [n \in {2, 3} |-> timers[n]]
  BY <1>0
<1>b. TimerFields(timers[2])
  BY <1>0
<1>c. TimerFields(timers[3])
  BY <1>0
<1>1. ASSUME NEW t, timers' = [timers EXCEPT ![2] = t], TimerFields(t),
             t.prescaler = TimerGetPrescaler(1)
      PROVE  TimersInv'
  <2> HIDE DEF TimerFields
  <2>1. timers' = [n \in {2, 3} |-> timers'[n]] /\ timers'[2] = t /\ timers'[3] = timers[3]
    <3>1. timers' = [timers EXCEPT ![2] = t]
      BY <1>1
    <3>2. timers' = [n \in {2, 3} |-> IF n = 2 THEN t ELSE timers[n]]
      BY <1>a, <3>1
    <3>3. timers'[2] = t /\ timers'[3] = timers[3]
      BY <3>2
    <3> QED BY <3>2, <3>3
  <2>2. TimerFields(timers'[2]) /\ TimerFields(timers'[3])
    BY <1>0, <1>1, <2>1, Zenon
  <2>3. /\ timers'[3].arr = SleepTop /\ timers'[3].cnt \in Nat /\ timers'[3].cnt <= SleepTop
        /\ timers'[2].prescaler = TimerGetPrescaler(1)
    BY <1>0, <1>1, <2>1
  <2> QED BY <2>1, <2>2, <2>3, Zenon DEF TimersInv, TimerFields
<1>2. ASSUME NEW t, timers' = [timers EXCEPT ![3] = t], TimerFields(t),
             t.arr = SleepTop, t.cnt \in Nat, t.cnt <= SleepTop
      PROVE  TimersInv'
  <2> HIDE DEF TimerFields
  <2>1. timers' = [n \in {2, 3} |-> timers'[n]] /\ timers'[3] = t /\ timers'[2] = timers[2]
    <3>1. timers' = [timers EXCEPT ![3] = t]
      BY <1>2
    <3>2. timers' = [n \in {2, 3} |-> IF n = 3 THEN t ELSE timers[n]]
      BY <1>a, <3>1
    <3>3. timers'[3] = t /\ timers'[2] = timers[2]
      BY <3>2
    <3> QED BY <3>2, <3>3
  <2>2. TimerFields(timers'[2]) /\ TimerFields(timers'[3])
    BY <1>0, <1>2, <2>1, Zenon
  <2>3. /\ timers'[3].arr = SleepTop /\ timers'[3].cnt \in Nat /\ timers'[3].cnt <= SleepTop
        /\ timers'[2].prescaler = TimerGetPrescaler(1)
    BY <1>0, <1>2, <2>1
  <2> QED BY <2>1, <2>2, <2>3, Zenon DEF TimersInv, TimerFields
<1>3. CASE timers' = timers
  BY <1>0, <1>3 DEF TimersInv, TimerFields
<1>4. CASE timers' = [timers EXCEPT ![2] = TimerPwm(@)]
  <2> DEFINE t == TimerPwm(timers[2])
  <2>1. TimerFields(t) /\ t.prescaler = timers[2].prescaler
    <3> DEFINE u == SetPrescaler(timers[2], 2)
               w == [u EXCEPT !.ccr = [i \in 1..4 |-> IF i = 1 THEN 1000 ELSE 4000]]
    <3>1. TimerFields(u) /\ u.prescaler = timers[2].prescaler
      BY <1>b DEF SetPrescaler, TimerFields
    <3> HIDE DEF u
    <3>2. TimerFields(w) /\ w.prescaler = u.prescaler
      BY <3>1 DEF TimerFields
    <3> HIDE DEF w
    <3>3. TimerFields([w EXCEPT !.arr = 8000]) /\ [w EXCEPT !.arr = 8000].prescaler = w.prescaler
      BY <3>2 DEF TimerFields
    <3>4. t = [w EXCEPT !.arr = 8000]
      BY DEF TimerPwm, TimerSetArr, u, w
    <3> QED BY <3>1, <3>2, <3>3, <3>4
  <2> HIDE DEF t
  <2>2. timers' = [timers EXCEPT ![2] = t]
    BY <1>4 DEF t
  <2> QED BY <1>0, <1>1, <2>1, <2>2
<1>4a. CASE timers' = [timers EXCEPT ![2] = TimerInit(2, 1)]
  <2> DEFINE t == TimerInit(2, 1)
  <2>1. TimerFields(t) /\ t.prescaler = TimerGetPrescaler(1)
    BY TimerInitLoads
  <2> HIDE DEF t
  <2>2. timers' = [timers EXCEPT ![2] = t]
    BY <1>4a DEF t
  <2> QED BY <1>1, <2>1, <2>2
<1>4b. ASSUME NEW t, TimerFields(t)
       PROVE  /\ TimerFields(TimerStart(t)) /\ TimerStart(t).prescaler = t.prescaler
              /\ TimerFields(TimerStop(t)) /\ TimerStop(t).prescaler = t.prescaler
              /\ TimerFields(TimerFlushCounter(t)) /\ TimerFlushCounter(t).prescaler = t.prescaler
  BY <1>4b DEF TimerStart, TimerStop, TimerFlushCounter, TimerFields
<1>4c. CASE timers' = [timers EXCEPT ![2] = TimerStart(TimerFlushCounter(@))]
  <2> DEFINE u == TimerFlushCounter(timers[2])
             t == TimerStart(u)
  <2>1. TimerFields(u) /\ u.prescaler = timers[2].prescaler
    BY <1>b, <1>4b
  <2>2. timers' = [timers EXCEPT ![2] = t]
    BY <1>4c
  <2> HIDE DEF u
  <2>3. TimerFields(t) /\ t.prescaler = u.prescaler
    BY <1>4b, <2>1
  <2> HIDE DEF t
  <2> QED BY <1>0, <1>1, <2>1, <2>2, <2>3
<1>4d. CASE timers' = [timers EXCEPT ![2] = TimerFlushCounter(TimerStop(@))]
  <2> DEFINE u == TimerStop(timers[2])
             t == TimerFlushCounter(u)
  <2>1. TimerFields(u) /\ u.prescaler = timers[2].prescaler
    BY <1>b, <1>4b
  <2>2. timers' = [timers EXCEPT ![2] = t]
    BY <1>4d
  <2> HIDE DEF u
  <2>3. TimerFields(t) /\ t.prescaler = u.prescaler
    BY <1>4b, <2>1
  <2> HIDE DEF t
  <2> QED BY <1>0, <1>1, <2>1, <2>2, <2>3
<1>4e. CASE timers' = [timers EXCEPT ![2] = TimerStart(@)]
  <2> DEFINE t == TimerStart(timers[2])
  <2>1. TimerFields(t) /\ t.prescaler = timers[2].prescaler
    BY <1>b, <1>4b
  <2>2. timers' = [timers EXCEPT ![2] = t]
    BY <1>4e
  <2> HIDE DEF t
  <2> QED BY <1>0, <1>1, <2>1, <2>2
<1>5. ASSUME NEW value, timers' = [timers EXCEPT ![3] = SetCcr(@, value, 1)] PROVE TimersInv'
  <2> DEFINE t == SetCcr(timers[3], value, 1)
  <2>1. TimerFields(t) /\ t.arr = timers[3].arr /\ t.cnt = timers[3].cnt
    BY <1>c DEF SetCcr, TimerFields
  <2> HIDE DEF t
  <2>2. timers' = [timers EXCEPT ![3] = t]
    BY <1>5 DEF t
  <2> QED BY <1>0, <1>2, <2>1, <2>2
<1>6. CASE timers' = [timers EXCEPT ![3] = TimerFlushCounter(@)]
  <2> DEFINE t == TimerFlushCounter(timers[3])
  <2>1. TimerFields(t) /\ t.arr = timers[3].arr /\ t.cnt = 0
    BY <1>c DEF TimerFlushCounter, TimerFields
  <2> HIDE DEF t
  <2>2. timers' = [timers EXCEPT ![3] = t]
    BY <1>6 DEF t
  <2> QED BY <1>0, <1>2, <2>1, <2>2, TimersAssumption
<1>7. CASE timers' = [timers EXCEPT ![3] = TimerStart(@)]
  <2> DEFINE t == TimerStart(timers[3])
  <2>1. TimerFields(t) /\ t.arr = timers[3].arr /\ t.cnt = timers[3].cnt
    BY <1>c DEF TimerStart, TimerFields
  <2> HIDE DEF t
  <2>2. timers' = [timers EXCEPT ![3] = t]
    BY <1>7 DEF t
  <2> QED BY <1>0, <1>2, <2>1, <2>2
<1>8. CASE timers' = [timers EXCEPT ![3] = Counted(@)]
  <2> DEFINE t == Counted(timers[3])
             c == timers[3].cnt
  <2>1. /\ TimerFields(t) /\ t.arr = timers[3].arr
        /\ t.cnt = IF c = timers[3].arr THEN 0 ELSE c + 1
    <3> DEFINE next == IF timers[3].cnt = timers[3].arr THEN 0 ELSE timers[3].cnt + 1
               matches == timers[3].sr \cup {i \in 1..3 : timers[3].ccr[i] = next}
    <3>1. t = [timers[3] EXCEPT !.cnt = next, !.sr = matches]
      BY Zenon DEF Counted
    <3> HIDE DEF next, matches, t
    <3>2. TimerFields(t) /\ t.arr = timers[3].arr /\ t.cnt = next
      BY <1>c, <3>1 DEF TimerFields
    <3> QED BY <3>2 DEF next
  <2>2. timers' = [timers EXCEPT ![3] = t]
    BY <1>8
  <2> HIDE DEF t, c
  <2>3. c \in Nat /\ c <= SleepTop /\ SleepTop \in Nat /\ timers[3].arr = SleepTop
    BY <1>0, TimersAssumption DEF c
  <2>4. t.cnt \in Nat /\ t.cnt <= SleepTop
    BY <2>1, <2>3
  <2> QED BY <1>0, <1>2, <2>1, <2>2, <2>4
<1>9. CASE timers' = [timers EXCEPT ![3] = TimerSetSr(TimerStop(@), @.sr \ {1})]
  <2> DEFINE t == TimerSetSr(TimerStop(timers[3]), timers[3].sr \ {1})
  <2>1. TimerFields(t) /\ t.arr = timers[3].arr /\ t.cnt = timers[3].cnt
    <3> DEFINE u == TimerStop(timers[3])
    <3>1. TimerFields(u) /\ u.arr = timers[3].arr /\ u.cnt = timers[3].cnt
      BY <1>c DEF TimerStop, TimerFields
    <3> HIDE DEF u
    <3>2. t = TimerSetSr(u, timers[3].sr \ {1})
      BY DEF u
    <3> HIDE DEF t
    <3> QED BY <3>1, <3>2 DEF TimerSetSr, TimerFields
  <2> HIDE DEF t
  <2>2. timers' = [timers EXCEPT ![3] = t]
    BY <1>9 DEF t
  <2> QED BY <1>0, <1>2, <2>1, <2>2
<1> QED
  BY <1>3, <1>4, <1>4a, <1>4c, <1>4d, <1>4e, <1>5, <1>6, <1>7, <1>8, <1>9 DEF TimersMove

(* The registers of the interrupts: which numbers the NVIC can see, and      *)
(* which lines the EXTI peripheral.                                        *)
Vectors == {Adc, Tim3} \cup DOMAIN Dispatch
IrqsInv ==
  /\ nvic.enabled \subseteq 0..81 /\ nvic.pending \subseteq Vectors
  /\ handler \in {NoIrq} \cup Vectors
  /\ vector \in 0..81
LinesInv ==
  /\ exti = [port |-> exti.port, imr |-> exti.imr, ftsr |-> exti.ftsr, pr |-> exti.pr]
  /\ exti.imr \subseteq Lines /\ exti.ftsr \subseteq Lines /\ exti.pr \subseteq Lines
  /\ owed \in BOOLEAN /\ edges \in Nat /\ edges <= MaxEdges

(* The pin of every program has a line and a vector.                        *)
LEMMA IrqPins ==
  ASSUME NEW p
  PROVE  /\ IrqPin(p)[2] \in Lines /\ WiredTo(IrqPin(p)[2]) \in Vectors
         /\ VectorOf(IrqPin(p)) \in Vectors
<1>1. IrqPin(p)[2] \in {0, 6}
  BY DEF IrqPin, A, B
<1>2. 6 \in Vectors /\ 23 \in Vectors
  BY DEF Vectors, Dispatch
<1>3. 0 \in Lines /\ 6 \in Lines
  BY DEF Lines
<1> HIDE DEF Vectors, Lines
<1> QED
  BY <1>1, <1>2, <1>3 DEF WiredTo, VectorOf

(* The numbers of all of them fit the NVIC's table, and none is NoIrq.      *)
LEMMA VectorsFit == Vectors \subseteq 0..81 /\ NoIrq \notin Vectors
BY DEF Vectors, Dispatch, Adc, Tim3, NoIrq

(* What a step does to them.                                                *)
Enables(new) == nvic'.enabled = nvic.enabled \cup new /\ nvic'.pending = nvic.pending
IrqsMove ==
  \/ nvic' = nvic /\ handler' = handler /\ vector' = vector
  \/ nvic' = nvic /\ handler' = handler /\ vector' \in Vectors
  \/ nvic' = nvic /\ handler' = NoIrq /\ vector' = vector
  \/ /\ \E new \in {{68, 37}, {vector}, {Adc}} : Enables(new)
     /\ handler' = handler /\ vector' = vector
  \/ /\ \E v \in Vectors : /\ nvic'.enabled = nvic.enabled
                           /\ nvic'.pending \in {nvic.pending \cup {v}, nvic.pending \ {v}}
     /\ handler' \in {handler, NoIrq} \cup nvic.pending /\ vector' = vector

(* Every action does one of these things.                                   *)
LEMMA StepsMoveIrqs ==
  ASSUME Interrupts, IrqsInv, [BoardsNext]_vars
  PROVE  IrqsMove
<1>0. nvic = [enabled |-> nvic.enabled, pending |-> nvic.pending]
  BY DEF Interrupts
<1> HIDE DEF Vectors
<1>1. ASSUME NEW new, nvic' = [nvic EXCEPT !.enabled = @ \cup new] PROVE Enables(new)
  BY <1>0, <1>1 DEF Enables
<1>2. ASSUME NEW v, \/ nvic' = [nvic EXCEPT !.pending = @ \cup {v}]
                    \/ nvic' = [nvic EXCEPT !.pending = @ \ {v}]
      PROVE  /\ nvic'.enabled = nvic.enabled
             /\ nvic'.pending \in {nvic.pending \cup {v}, nvic.pending \ {v}}
  BY <1>0, <1>2
<1>3. CASE InitUart
  <2>1. nvic' = [nvic EXCEPT !.enabled = @ \cup {68, 37}] /\ handler' = handler /\ vector' = vector
    BY <1>3 DEF InitUart
  <2> QED BY <1>1, <2>1 DEF IrqsMove
<1>4. CASE EnableCpuInterruptExti
  <2>1. nvic' = [nvic EXCEPT !.enabled = @ \cup {vector}] /\ handler' = handler /\ vector' = vector
    BY <1>4 DEF EnableCpuInterruptExti, board
  <2> QED BY <1>1, <2>1 DEF IrqsMove
<1>5. CASE LinkAdcIsr
  <2>1. nvic' = [nvic EXCEPT !.enabled = @ \cup {Adc}] /\ handler' = handler /\ vector' = vector
    BY <1>5 DEF LinkAdcIsr, board
  <2> QED BY <1>1, <2>1 DEF IrqsMove
<1>6. CASE LinkExtiSrc
  BY <1>6, IrqPins DEF LinkExtiSrc, IrqsMove
<1>7. CASE SetUp /\ ~InitUart /\ ~EnableCpuInterruptExti /\ ~LinkExtiSrc
  BY <1>7, Zenon
  DEF SetUp, InitExtiIsrHandling, InitSpi, InitTransmitPins, InitReceivePins, TimerPwmInit,
      Am2302Init, SyscfgExtiConfig, ExtiActivateIrLine,
      ExtiDetectFallingEdge, ConfiguresPins, board, IrqsMove
<1>8. CASE RemoteThread /\ ~LinkAdcIsr
  BY <1>8 DEF RemoteThread, AdcInit, ResetIdx, ResetState, ChecksState, DisablesAdc,
              LocksMutex, ClampsReading, FeedsCrc, Transmits, EnablesAdc, RemoteAt, MainLoop, board,
              IrqsMove
<1>9. CASE WeatherThread \/ SensorAnswers
  BY <1>9 DEF WeatherThread, PullsLineLow, ReleasesLine, SensorAnswers, ReadsPulse, MissesPulse,
              MeasurementEnds, TransmitsMeasurement, SleepsAfterSending, SensorRuns, SensorAt, MainLoop,
              IrqsMove
<1>10. CASE AccelerometerThread
  BY <1>10 DEF AccelerometerThread, WritesConfiguration, ReadsRegister, WritesTxdr, EndsWrite,
               TakesByte, StartsSweep, Polls, MainLoop, board, IrqsMove
<1>11. CASE SleepThread
  BY <1>11, Zenon
  DEF SleepThread, TaskSleep, CallsTaskSleep, SetsCcr, FlushesCounter, StartsTimer, Blocks, TaskRuns, TaskAt,
      board, IrqsMove
<1>12. CASE CallbackRuns \/ AdcIsrRuns \/ Tim3IsrRuns \/ Shifts \/ Receives \/ UNCHANGED vars
  BY <1>12 DEF CallbackRuns, Acknowledges, AdcIsrRuns, Tim3IsrRuns, Shifts, Receives, vars, board,
               IrqsMove
<1>13. ASSUME NEW v, TakesInterrupt(v) PROVE IrqsMove
  <2>1. /\ nvic' = [nvic EXCEPT !.pending = @ \ {v}] /\ handler' = v /\ vector' = vector
        /\ v \in nvic.pending /\ v \in Vectors
    BY <1>13 DEF TakesInterrupt, Requested, IrqsInv
  <2> QED BY <1>2, <2>1 DEF IrqsMove
<1>14. CASE Edge
  <2> DEFINE v == WiredTo(IrqPin(program)[2])
  <2>1. v \in Vectors
    BY IrqPins
  <2>2. \/ nvic' = nvic
        \/ nvic' = [nvic EXCEPT !.pending = IF IrqPin(program)[2] \in exti.imr THEN @ \cup {v} ELSE @]
    BY <1>14 DEF Edge
  <2>3. handler' = handler /\ vector' = vector
    BY <1>14 DEF Edge
  <2> HIDE DEF v
  <2>4. \/ nvic' = nvic \/ nvic' = [nvic EXCEPT !.pending = @ \cup {v}]
    BY <1>0, <2>2
  <2> QED BY <1>2, <2>1, <2>3, <2>4 DEF IrqsMove
<1>15. CASE Converted
  <2>1. nvic' = [nvic EXCEPT !.pending = @ \cup {Adc}] /\ handler' = handler /\ vector' = vector
    BY <1>15 DEF Converted, board
  <2>2. Adc \in Vectors
    BY DEF Vectors
  <2> QED BY <1>2, <2>1, <2>2 DEF IrqsMove
<1>16. CASE Tick
  <2>1. /\ nvic' = nvic \/ nvic' = [nvic EXCEPT !.pending = @ \cup {Tim3}]
        /\ handler' = handler /\ vector' = vector
    BY <1>16 DEF Tick
  <2>2. Tim3 \in Vectors
    BY DEF Vectors
  <2> QED BY <1>2, <2>1, <2>2 DEF IrqsMove
<1>17. CASE Returns
  <2>1. /\ handler \in DOMAIN Dispatch /\ handler' = NoIrq /\ vector' = vector
        /\ nvic' = [nvic EXCEPT !.pending =
                IF \E l \in exti.pr \cap exti.imr : WiredTo(l) = handler THEN @ \cup {handler} ELSE @]
    BY <1>17 DEF Returns, board
  <2>2. handler \in Vectors
    BY <2>1 DEF Vectors
  <2>3. \/ nvic' = nvic \/ nvic' = [nvic EXCEPT !.pending = @ \cup {handler}]
    BY <1>0, <2>1
  <2> QED BY <1>2, <2>1, <2>2, <2>3 DEF IrqsMove
<1> QED
  BY <1>3, <1>4, <1>5, <1>6, <1>7, <1>8, <1>9, <1>10, <1>11, <1>12, <1>13, <1>14, <1>15, <1>16, <1>17
  DEF BoardsNext, Thread, ExtiInterrupt, Handler, RemoteThread

(* And each of them keeps the numbers.                                      *)
LEMMA IrqsStay ==
  ASSUME IrqsInv, IrqsMove
  PROVE  IrqsInv'
<1>1. Vectors \subseteq 0..81
  BY VectorsFit
<1>2. {68, 37} \subseteq 0..81 /\ {vector} \subseteq 0..81 /\ {Adc} \subseteq 0..81
  BY DEF IrqsInv, Adc
<1> HIDE DEF Vectors
<1> DEFINE Numbers == 0..81
<1> HIDE DEF Numbers
<1>3. /\ nvic.enabled \subseteq Numbers /\ nvic.pending \subseteq Vectors
      /\ handler \in {NoIrq} \cup Vectors /\ vector \in Numbers /\ Vectors \subseteq Numbers
      /\ \A new \in {{68, 37}, {vector}, {Adc}} : new \subseteq Numbers
  BY <1>1, <1>2 DEF IrqsInv, Numbers
<1>4. /\ nvic'.enabled \subseteq Numbers /\ nvic'.pending \subseteq Vectors
      /\ handler' \in {NoIrq} \cup Vectors /\ vector' \in Numbers
  BY <1>3 DEF IrqsMove, Enables
<1> QED
  BY <1>4 DEF IrqsInv, Numbers

(* What a step does to the lines.                                           *)
LinesMove ==
  /\ \/ exti' = exti
     \/ \E port : exti' = [exti EXCEPT !.port = port]
     \/ \E lines \in SUBSET Lines :
          \/ exti' = [exti EXCEPT !.imr = @ \cup lines] \/ exti' = [exti EXCEPT !.ftsr = @ \cup lines]
          \/ exti' = [exti EXCEPT !.pr = @ \cup lines]
     \/ \E lines : exti' = [exti EXCEPT !.pr = @ \ lines]
  /\ \/ owed' = owed \/ owed' = FALSE
     \/ \E lines : owed' = (owed \/ IrqPin(program)[2] \in lines)
  /\ edges' = edges \/ (edges < MaxEdges /\ edges' = edges + 1)

(* Every action writes the lines in one of these ways.                      *)
LEMMA StepsMoveLines ==
  ASSUME [BoardsNext]_vars
  PROVE  LinesMove
<1> HIDE DEF Lines
<1>0. IrqPin(program)[2] \in Lines
  BY IrqPins
<1>1. CASE SyscfgExtiConfig
  <2>1. exti' = SelectPort(IrqPin(program)) /\ owed' = owed /\ edges' = edges
    BY <1>1 DEF SyscfgExtiConfig
  <2>2. \E port : exti' = [exti EXCEPT !.port = port]
    BY <2>1, Zenon DEF SelectPort
  <2> QED BY <2>1, <2>2, Zenon DEF LinesMove
<1>2. CASE ExtiActivateIrLine \/ ExtiDetectFallingEdge
  <2> DEFINE lines == {IrqPin(program)[2]}
  <2>1. /\ \/ exti' = [exti EXCEPT !.imr = @ \cup lines] \/ exti' = [exti EXCEPT !.ftsr = @ \cup lines]
        /\ owed' = owed /\ edges' = edges
    BY <1>2 DEF ExtiActivateIrLine, ExtiDetectFallingEdge
  <2>2. lines \in SUBSET Lines
    BY <1>0
  <2> HIDE DEF lines
  <2> QED BY <2>1, <2>2, Zenon DEF LinesMove
<1>3. CASE Edge
  <2> DEFINE line == IrqPin(program)[2]
  <2>1. /\ exti' = exti \/ exti' = [exti EXCEPT !.pr = @ \cup {line}]
        /\ owed' = (owed \/ line \in exti.ftsr) /\ edges < MaxEdges /\ edges' = edges + 1
    BY <1>3, Zenon DEF Edge
  <2>2. {line} \in SUBSET Lines
    BY <1>0
  <2> HIDE DEF line
  <2>3. \/ exti' = exti \/ \E lines \in SUBSET Lines : exti' = [exti EXCEPT !.pr = @ \cup lines]
    BY <2>1, <2>2
  <2>4. \E lines : owed' = (owed \/ IrqPin(program)[2] \in lines)
    BY <2>1, Zenon DEF line
  <2> QED BY <2>1, <2>3, <2>4, Zenon DEF LinesMove
<1>4. CASE CallbackRuns
  <2>1. /\ owed' = FALSE /\ edges' = edges
        /\ \E pin \in PinsNamed : exti' = [exti EXCEPT !.pr = Acknowledged(@, pin)]
    BY <1>4 DEF CallbackRuns, Acknowledges
  <2>2. \E lines : exti' = [exti EXCEPT !.pr = @ \ lines]
    BY <2>1, Zenon DEF Acknowledged
  <2> QED BY <2>1, <2>2, Zenon DEF LinesMove
<1>5. CASE SetUp /\ ~SyscfgExtiConfig /\ ~ExtiActivateIrLine /\ ~ExtiDetectFallingEdge
  BY <1>5, Zenon
  DEF SetUp, InitUart, InitExtiIsrHandling, InitSpi, InitTransmitPins, InitReceivePins, TimerPwmInit,
      Am2302Init, LinkExtiSrc, EnableCpuInterruptExti, ConfiguresPins, board, LinesMove
<1>6. CASE RemoteThread
  BY <1>6 DEF RemoteThread, AdcInit, LinkAdcIsr, ResetIdx, ResetState, ChecksState, DisablesAdc,
              LocksMutex, ClampsReading, FeedsCrc, Transmits, EnablesAdc, RemoteAt, board, LinesMove
<1>7. CASE WeatherThread \/ SensorAnswers
  BY <1>7 DEF WeatherThread, PullsLineLow, ReleasesLine, SensorAnswers, ReadsPulse, MissesPulse,
              MeasurementEnds, TransmitsMeasurement, SleepsAfterSending, SensorRuns, SensorAt, LinesMove
<1>8. CASE AccelerometerThread
  BY <1>8 DEF AccelerometerThread, WritesConfiguration, ReadsRegister, WritesTxdr, EndsWrite, TakesByte,
              StartsSweep, Polls, board, LinesMove
<1>9. CASE SleepThread
  BY <1>9, Zenon
  DEF SleepThread, TaskSleep, CallsTaskSleep, SetsCcr, FlushesCounter, StartsTimer, Blocks, TaskRuns, TaskAt,
      board, LinesMove
<1>10. CASE Returns \/ AdcIsrRuns \/ Tim3IsrRuns \/ Converted \/ Shifts \/ Receives \/ Tick
  BY <1>10 DEF Returns, AdcIsrRuns, Tim3IsrRuns, Converted, Shifts, Receives, Tick, board, LinesMove
<1>11. CASE (\E v : TakesInterrupt(v)) \/ UNCHANGED vars
  BY <1>11 DEF TakesInterrupt, vars, board, LinesMove
<1> QED
  BY <1>1, <1>2, <1>3, <1>4, <1>5, <1>6, <1>7, <1>8, <1>9, <1>10, <1>11
  DEF BoardsNext, Thread, ExtiInterrupt, Handler

(* And none of them names a line that does not exist.                       *)
LEMMA LinesStay ==
  ASSUME LinesInv, LinesMove
  PROVE  LinesInv'
<1> HIDE DEF Lines
<1>0. /\ exti = [port |-> exti.port, imr |-> exti.imr, ftsr |-> exti.ftsr, pr |-> exti.pr]
      /\ exti.imr \subseteq Lines /\ exti.ftsr \subseteq Lines /\ exti.pr \subseteq Lines
  BY DEF LinesInv
<1> DEFINE Good(e) ==
      /\ e = [port |-> e.port, imr |-> e.imr, ftsr |-> e.ftsr, pr |-> e.pr]
      /\ e.imr \subseteq Lines /\ e.ftsr \subseteq Lines /\ e.pr \subseteq Lines
<1>1. Good(exti')
  <2>1. CASE exti' = exti
    BY <1>0, <2>1
  <2>2. ASSUME NEW port, exti' = [exti EXCEPT !.port = port] PROVE Good(exti')
    BY <1>0, <2>2
  <2>3. ASSUME NEW lines \in SUBSET Lines,
               \/ exti' = [exti EXCEPT !.imr = @ \cup lines] \/ exti' = [exti EXCEPT !.ftsr = @ \cup lines]
               \/ exti' = [exti EXCEPT !.pr = @ \cup lines]
        PROVE  Good(exti')
    BY <1>0, <2>3
  <2>4. ASSUME NEW lines, exti' = [exti EXCEPT !.pr = @ \ lines] PROVE Good(exti')
    BY <1>0, <2>4
  <2> HIDE DEF Good
  <2> QED BY <2>1, <2>2, <2>3, <2>4 DEF LinesMove
<1>2. owed' \in BOOLEAN
  <2>1. owed \in BOOLEAN
    BY DEF LinesInv
  <2>2. \/ owed' = owed \/ owed' = FALSE
        \/ \E lines : owed' = (owed \/ IrqPin(program)[2] \in lines)
    BY DEF LinesMove
  <2> QED BY <2>1, <2>2, Zenon
<1>3. edges' \in Nat /\ edges' <= MaxEdges
  <2>1. /\ edges \in Nat /\ edges <= MaxEdges
        /\ edges' = edges \/ (edges < MaxEdges /\ edges' = edges + 1)
    BY DEF LinesInv, LinesMove
  <2> QED BY <2>1, BoardAssumption
<1> QED
  BY <1>1, <1>2, <1>3, Zenon DEF LinesInv
-----------------------------------------------------------------------------
(* The counter of the remote control is one of the five slots, before main   *)
(* has set it and afterwards.                                              *)
IdxKnown == program = "remote" => RemoteFields /\ app.idx \in 0..4

(* Every step keeps the counter where it belongs.                           *)
LEMMA IdxStays ==
  ASSUME IInv, IdxKnown, [BoardsNext]_vars, program' = program, IInv'
  PROVE  IdxKnown'
<1> SUFFICES ASSUME program = "remote" PROVE app'.idx \in 0..4
  BY DEF IdxKnown, IInv, RemoteKnows, RemoteFields
<1> DEFINE idx == app.idx
<1>1. /\ app = [pc |-> app.pc, idx |-> app.idx, state |-> app.state, reading |-> app.reading,
                mutex |-> app.mutex, converts |-> app.converts, eocie |-> app.eocie,
                crc |-> app.crc, sent |-> app.sent]
      /\ idx \in 0..4
  BY DEF IdxKnown, RemoteFields
<1>2. CASE SetUp
  BY <1>1, <1>2, SetUpEnables DEF IInv
<1>3. CASE AdcInit \/ LinkAdcIsr \/ ResetState
  BY <1>1, <1>3 DEF AdcInit, LinkAdcIsr, ResetState
<1>4. CASE ResetIdx
  BY <1>1, <1>4 DEF ResetIdx
<1>5. CASE RemoteLoop
  BY <1>1, <1>5 DEF RemoteLoop, ChecksState, DisablesAdc, LocksMutex, ClampsReading, FeedsCrc,
                    Transmits, EnablesAdc, AdcDisableInterrupts
<1>6. CASE CallbackRuns
  <2>1. app' = SwitchesState(app)
    BY <1>6 DEF CallbackRuns
  <2>2. app'.idx = IF idx + 1 > 4 THEN 0 ELSE idx + 1
    BY <1>1, <2>1 DEF SwitchesState
  <2> HIDE DEF idx
  <2> QED BY <1>1, <2>2
<1>7. CASE AdcIsrRuns
  BY <1>1, <1>7 DEF AdcIsrRuns
<1>8. CASE (\E v : TakesInterrupt(v)) \/ Returns \/ Edge \/ Converted \/ UNCHANGED vars
  BY <1>1, <1>8 DEF TakesInterrupt, Returns, Edge, Converted, vars
<1>9. ASSUME WeatherThread \/ SensorAnswers \/ AccelerometerThread \/ Shifts \/ Receives \/ SleepThread
              \/ Tick \/ Tim3IsrRuns
       PROVE  FALSE
  <2>1. CASE Tim3IsrRuns
    <3>1. handler = Tim3 /\ handler # Tim3
      BY <2>1 DEF Tim3IsrRuns, IInv, Interrupts
    <3> QED BY <3>1
  <2>2. CASE WeatherThread \/ SensorAnswers
    BY <2>2 DEF WeatherThread, PullsLineLow, ReleasesLine, SensorAnswers, ReadsPulse, MissesPulse,
              MeasurementEnds, TransmitsMeasurement, SleepsAfterSending, SensorRuns, SensorAt, MainLoop
  <2>3. CASE AccelerometerThread \/ Shifts \/ Receives
    BY <2>3, AccelerometerIsQuiet
  <2>4. CASE SleepThread \/ Tick
    BY <2>4, SleepIsQuiet DEF Tick
  <2> QED BY <1>9, <2>1, <2>2, <2>3, <2>4
<1> QED
  BY <1>2, <1>3, <1>4, <1>5, <1>6, <1>7, <1>8, <1>9
  DEF BoardsNext, Thread, ExtiInterrupt, Handler, RemoteThread, RemoteLoop
-----------------------------------------------------------------------------
(* Everything together.                                                     *)

(* All of it holds when bootstrap ends.                                     *)
LEMMA BootTyped ==
  ASSUME BoardsInit
  PROVE  TimersInv /\ IrqsInv /\ LinesInv /\ IdxKnown
<1> PICK p \in BoardPrograms : Boot(p) /\ app \in AppStarts(p)
  BY DEF BoardsInit
<1>1. TimersInv
  <2> DEFINE first == TimerInit(2, 1)
             flushed == TimerFlushCounter(first)
             sleep == TimerInit(3, ResolutionForSleepFunction)
  <2>1. timers = RunScheduler /\ RunScheduler = [n \in {2, 3} |-> RunScheduler[n]]
    BY DEF Boot, RunScheduler
  <2>2. RunScheduler[2] = TimerStart(flushed) /\ RunScheduler[3] = EnableCcxIr(sleep, 1)
    BY DEF RunScheduler
  <2>3. /\ TimerFields(first) /\ first.prescaler = TimerGetPrescaler(1)
        /\ TimerFields(sleep) /\ sleep.arr = CounterBits[3] /\ sleep.cnt = 0
    BY TimerInitLoads
  <2>4. CounterBits[3] = SleepTop
    BY DEF CounterBits
  <2> HIDE DEF first, sleep
  <2>5. TimerFields(flushed) /\ flushed.prescaler = first.prescaler
    BY <2>3 DEF TimerFlushCounter, TimerFields
  <2> HIDE DEF flushed
  <2>6. TimerFields(RunScheduler[2]) /\ RunScheduler[2].prescaler = TimerGetPrescaler(1)
    BY <2>2, <2>3, <2>5 DEF TimerStart, TimerFields
  <2>7. TimerFields(RunScheduler[3]) /\ RunScheduler[3].arr = SleepTop /\ RunScheduler[3].cnt = 0
    BY <2>2, <2>3, <2>4 DEF EnableCcxIr, TimerFields
  <2> QED BY <2>1, <2>6, <2>7, TimersAssumption DEF TimersInv
<1>2. IrqsInv
  BY DEF Boot, IrqsInv
<1>3. LinesInv
  <2>1. /\ exti = [port |-> [l \in Lines |-> {}], imr |-> {}, ftsr |-> {}, pr |-> {}]
        /\ edges = 0 /\ owed = FALSE
    BY DEF Boot
  <2>2. /\ exti = [port |-> exti.port, imr |-> exti.imr, ftsr |-> exti.ftsr, pr |-> exti.pr]
        /\ exti.imr = {} /\ exti.ftsr = {} /\ exti.pr = {}
    BY <2>1
  <2>3. edges \in Nat /\ edges <= MaxEdges
    BY <2>1, BoardAssumption
  <2>4. owed \in BOOLEAN
    BY <2>1
  <2>5. exti.imr \subseteq Lines /\ exti.ftsr \subseteq Lines /\ exti.pr \subseteq Lines
    BY <2>2
  <2> QED BY <2>2, <2>3, <2>4, <2>5, Zenon DEF LinesInv
<1>4. IdxKnown
  <2> SUFFICES ASSUME program = "remote" PROVE RemoteFields /\ app.idx \in 0..4
    BY DEF IdxKnown
  <2>1. p = "remote"
    BY DEF Boot
  <2>2. RemoteFields
    BY BootKnows DEF IInv, RemoteKnows
  <2>3. app = RemoteStart
    BY <2>1 DEF AppStarts
  <2> QED BY <2>2, <2>3 DEF RemoteStart
<1> QED
  BY <1>1, <1>2, <1>3, <1>4

(* Type correctness of the boards; the remote control never counts beyond   *)
(* its five slots, whenever the callback of the mode switch comes, before   *)
(* main has set idx or after it, and timer_pwm_init leaves the prescaler    *)
(* of the global timer in force.                                           *)
THEOREM BoardTypeCorrect == BoardsSpec => []BoardTypeOK
<1> DEFINE Inv == IInv /\ PinsInv /\ TimersInv /\ IrqsInv /\ LinesInv /\ IdxKnown
<1>1. BoardsInit => Inv
  BY BootKnows, BootPins, BootTyped
<1>2. Inv /\ [BoardsNext]_vars => Inv'
  <2> SUFFICES ASSUME Inv, [BoardsNext]_vars PROVE Inv'
    OBVIOUS
  <2>1. PinsStep /\ PinsInv'
    BY StepsKeepPins, PinsStepKeeps
  <2>2. IInv'
    BY StepKnows
  <2>3. TimersInv'
    BY StepsMoveTimers, TimersStay
  <2>4. IrqsInv'
    BY StepsMoveIrqs, IrqsStay DEF IInv
  <2>5. LinesInv'
    BY StepsMoveLines, LinesStay
  <2>6. IdxKnown'
    BY <2>2, IdxStays, StepsKeepPins DEF PinsStep
  <2> QED BY <2>1, <2>2, <2>3, <2>4, <2>5, <2>6
<1>3. Inv => BoardTypeOK
  <2> SUFFICES ASSUME Inv PROVE BoardTypeOK
    OBVIOUS
  <2>1. pins.pins \in [Pins -> [mode : {"Input", "Output", "Analog", "AF1", "AF5", "AF7"},
                                type : {"PushPull", "OpenDrain"}]]
    BY DEF PinsInv, PinsKnow, Registers, Modes, Types
  <2>2. /\ nvic.enabled \subseteq 0..81 /\ nvic.pending \subseteq 0..81
        /\ handler \in {NoIrq, Adc, Tim3} \cup DOMAIN Dispatch
    <3>1. nvic.pending \subseteq Vectors /\ nvic.enabled \subseteq 0..81 /\ handler \in {NoIrq} \cup Vectors
      BY DEF IrqsInv
    <3>2. Vectors \subseteq 0..81
      BY VectorsFit
    <3>3. handler \in {NoIrq, Adc, Tim3} \cup DOMAIN Dispatch
      BY <3>1, Zenon DEF Vectors
    <3> HIDE DEF Vectors
    <3> QED BY <3>1, <3>2, <3>3
  <2>3. exti.imr \subseteq Lines /\ exti.ftsr \subseteq Lines /\ exti.pr \subseteq Lines
        /\ owed \in BOOLEAN
    BY Zenon DEF LinesInv
  <2>4. edges \in 0..MaxEdges
    BY BoardAssumption DEF LinesInv
  <2>5. timers[2].prescaler = TimerGetPrescaler(1) /\ timers[3].cnt \in 0..SleepTop
    BY TimersAssumption DEF TimersInv
  <2>6. program = "remote" => app.idx \in 0..4
    BY DEF IdxKnown
  <2> HIDE DEF Inv
  <2> QED BY <2>1, <2>2, <2>3, <2>4, <2>5, <2>6, Zenon DEF BoardTypeOK
<1>4. BoardsSpec => []Inv
  <2> HIDE DEF Inv
  <2> QED BY <1>1, <1>2, PTL DEF BoardsSpec
<1> QED
  BY <1>3, <1>4, PTL
-----------------------------------------------------------------------------
(* The weather node's checksum.                                             *)

(* A function on 0..n that is defined by its first value and a step.        *)
LEMMA Iterates ==
  ASSUME NEW n \in Nat, NEW base \in Nat, NEW step \in [1..n -> [Nat -> Nat]]
  PROVE  \E g \in [0..n -> Nat] : g[0] = base /\ \A k \in 1..n : g[k] = step[k][g[k - 1]]
<1> DEFINE Is(g, m) == g \in [0..m -> Nat] /\ g[0] = base /\ \A k \in 1..m : g[k] = step[k][g[k - 1]]
           Wrong == {m \in 0..n : ~ \E g : Is(g, m)}
<1>1. SUFFICES ASSUME Wrong # {} PROVE FALSE
  <2>1. n \in 0..n
    OBVIOUS
  <2>2. \E g : Is(g, n)
    BY <1>1, <2>1
  <2> QED BY <2>2
<1>2. Wrong \in SUBSET Nat
  OBVIOUS
<1>3. PICK m \in Wrong : \A j \in Wrong : m <= j
  BY <1>1, <1>2, LeastOf
<1>4. m \in 0..n /\ ~ \E g : Is(g, m)
  BY <1>3
<1>5. m # 0
  <2> DEFINE g == [k \in 0..0 |-> base]
  <2>1. Is(g, 0)
    OBVIOUS
  <2> QED BY <1>4, <2>1
<1> DEFINE j == m - 1
<1>6. j \in 0..n /\ j \in Nat /\ m = j + 1 /\ ~(m <= j) /\ m \in 1..n
  BY <1>4, <1>5
<1> HIDE DEF j
<1>7. \E g : Is(g, j)
  BY <1>3, <1>6
<1>8. PICK g : Is(g, j)
  BY <1>7
<1> DEFINE h == [k \in 0..m |-> IF k = m THEN step[m][g[j]] ELSE g[k]]
<1>9. g[j] \in Nat /\ step[m] \in [Nat -> Nat]
  BY <1>6, <1>8
<1>10. h \in [0..m -> Nat]
  <2>1. step[m][g[j]] \in Nat
    BY <1>9
  <2>2. \A k \in 0..m : k # m => g[k] \in Nat
    BY <1>6, <1>8
  <2> QED BY <2>1, <2>2
<1>11. h[0] = base
  BY <1>6, <1>8
<1>12. ASSUME NEW k \in 1..m PROVE h[k] = step[k][h[k - 1]]
  <2>1. CASE k = m
    BY <1>6, <2>1
  <2>2. CASE k # m
    <3>1. k \in 1..j /\ k \in 0..m /\ k - 1 \in 0..m /\ k - 1 # m
      BY <1>6, <2>2
    <3>2. h[k] = g[k] /\ h[k - 1] = g[k - 1]
      BY <2>2, <3>1
    <3> QED BY <1>8, <3>1, <3>2
  <2> QED BY <2>1, <2>2
<1>13. Is(h, m)
  BY <1>10, <1>11, <1>12
<1> QED
  BY <1>4, <1>13

(* The bits of a byte have different weights, none zero, all less than that *)
(* of the bit beyond the byte.                                             *)
LEMMA Weights ==
  /\ Shifted \in [0..ByteBits -> Nat] /\ Shifted[0] = 1
  /\ \A k \in 1..ByteBits : Shifted[k] = 2 * Shifted[k - 1]
<1> DEFINE n == ByteBits
           step == [k \in 1..n |-> [x \in Nat |-> 2 * x]]
           Is(f) == f = [k \in 0..n |-> IF k = 0 THEN 1 ELSE 2 * f[k - 1]]
<1>0. n \in Nat
  BY Am2302Assumption
<1> HIDE DEF n
<1>1. step \in [1..n -> [Nat -> Nat]]
  OBVIOUS
<1>2. PICK g \in [0..n -> Nat] : g[0] = 1 /\ \A k \in 1..n : g[k] = step[k][g[k - 1]]
  <2>1. 1 \in Nat
    OBVIOUS
  <2> HIDE DEF step
  <2> QED BY <1>0, <1>1, <2>1, Iterates, Zenon
<1>3. \A k \in 1..n : g[k] = 2 * g[k - 1]
  <2> SUFFICES ASSUME NEW k \in 1..n PROVE g[k] = 2 * g[k - 1]
    OBVIOUS
  <2>1. k - 1 \in 0..n
    BY <1>0
  <2>2. g[k - 1] \in Nat
    BY <1>2, <2>1
  <2> QED BY <1>2, <2>2
<1>4. Is(g)
  <2>1. \A k \in 0..n : g[k] = IF k = 0 THEN 1 ELSE 2 * g[k - 1]
    BY <1>0, <1>2, <1>3
  <2> QED BY <1>2, <2>1
<1>5. Shifted = CHOOSE f : Is(f)
  BY DEF Shifted, n
<1>6. Is(Shifted)
  <2> HIDE DEF Is
  <2> QED BY <1>4, <1>5
<1>7. \A f : Is(f) => /\ f[0] = 1 /\ \A k \in 1..n : f[k] = 2 * f[k - 1]
                      /\ f = [k \in 0..n |-> f[k]]
  <2> SUFFICES ASSUME NEW f, Is(f)
               PROVE  /\ f[0] = 1 /\ \A k \in 1..n : f[k] = 2 * f[k - 1]
                      /\ f = [k \in 0..n |-> f[k]]
    OBVIOUS
  <2>1. f = [k \in 0..n |-> IF k = 0 THEN 1 ELSE 2 * f[k - 1]]
    OBVIOUS
  <2> HIDE DEF Is
  <2>2. \A k \in 0..n : f[k] = IF k = 0 THEN 1 ELSE 2 * f[k - 1]
    BY <2>1, Zenon
  <2>3. f = [k \in 0..n |-> f[k]]
    BY <2>1, Zenon
  <2>4. f[0] = 1
    BY <1>0, <2>2
  <2>5. \A k \in 1..n : f[k] = 2 * f[k - 1]
    BY <1>0, <2>2
  <2> QED BY <2>3, <2>4, <2>5, Zenon
<1>8. \A k \in 0..n : Shifted[k] = g[k]
  <2> DEFINE Wrong == {k \in 0..n : Shifted[k] # g[k]}
  <2>1. SUFFICES ASSUME Wrong # {} PROVE FALSE
    OBVIOUS
  <2>2. Wrong \in SUBSET Nat
    OBVIOUS
  <2>3. PICK k \in Wrong : \A j \in Wrong : k <= j
    BY <2>1, <2>2, LeastOf
  <2>4. /\ Shifted[0] = 1 /\ \A i \in 1..n : Shifted[i] = 2 * Shifted[i - 1]
    <3> HIDE DEF Is
    <3> QED BY <1>6, <1>7
  <2>5. k # 0
    BY <1>2, <2>3, <2>4
  <2>6. k \in 1..n /\ k - 1 \in 0..n /\ ~(k <= k - 1)
    BY <1>0, <2>3, <2>5
  <2>7. Shifted[k - 1] = g[k - 1]
    BY <2>3, <2>6
  <2> QED BY <1>3, <2>3, <2>4, <2>6, <2>7
<1>9. Shifted \in [0..n -> Nat]
  <2>1. Shifted = [k \in 0..n |-> Shifted[k]]
    <3> HIDE DEF Is
    <3> QED BY <1>6, <1>7
  <2>2. \A k \in 0..n : Shifted[k] \in Nat
    BY <1>2, <1>8
  <2> QED BY <2>1, <2>2
<1> QED
  <2> HIDE DEF Is
  <2> QED BY <1>6, <1>7, <1>9 DEF n

(* The weights grow.                                                        *)
LEMMA WeightsGrow ==
  ASSUME NEW k \in 0..(ByteBits - 1)
  PROVE  Shifted[k] \in Nat /\ Shifted[ByteBits] \in Nat /\ 0 < Shifted[k] /\ Shifted[k] < Shifted[ByteBits]
<1> DEFINE n == ByteBits
           w == Shifted
<1>0. n \in Nat /\ n # 0 /\ k \in Nat /\ k < n /\ k \in 0..n /\ n \in 0..n
  BY Am2302Assumption
<1>1. w \in [0..n -> Nat] /\ w[0] = 1 /\ \A i \in 1..n : w[i] = 2 * w[i - 1]
  BY Weights
<1> HIDE DEF n, w
<1> DEFINE Wrong == {i \in 0..n : ~(0 < w[i] /\ (k < i => w[k] < w[i]))}
<1>2. Wrong = {}
  <2>1. SUFFICES ASSUME Wrong # {} PROVE FALSE
    OBVIOUS
  <2>2. Wrong \in SUBSET Nat
    OBVIOUS
  <2>3. PICK i \in Wrong : \A j \in Wrong : i <= j
    BY <2>1, <2>2, LeastOf
  <2>4. i # 0
    BY <1>0, <1>1, <2>3
  <2>5. i \in 1..n /\ i - 1 \in 0..n /\ ~(i <= i - 1)
    BY <1>0, <2>3, <2>4
  <2>6. 0 < w[i - 1] /\ (k < i - 1 => w[k] < w[i - 1])
    BY <2>3, <2>5
  <2>7. w[i] = 2 * w[i - 1] /\ w[i - 1] \in Nat /\ w[k] \in Nat /\ w[i] \in Nat
    BY <1>0, <1>1, <2>5
  <2>8. w[i - 1] < w[i] /\ 0 < w[i]
    BY <2>6, <2>7
  <2>9. k < i => k < i - 1 \/ k = i - 1
    BY <1>0, <2>5
  <2>10. k < i => w[k] < w[i]
    BY <2>6, <2>7, <2>8, <2>9
  <2> QED BY <2>3, <2>8, <2>10
<1>3. 0 < w[k] /\ w[k] < w[n]
  BY <1>0, <1>2
<1>4. w[k] \in Nat /\ w[n] \in Nat
  BY <1>0, <1>1
<1> QED
  BY <1>3, <1>4 DEF n, w

(* The sum of the low bits of a byte, up to each of them.                   *)
Bit(result, i, k) == IF i * ByteBits + k - 1 \in result THEN Shifted[k - 1] ELSE 0
AddsUp(low, result, i) ==
  /\ low \in [0..ByteBits -> Nat] /\ low[0] = 0
  /\ \A k \in 1..ByteBits : low[k] = low[k - 1] + Bit(result, i, k)

LEMMA BitsAddUp ==
  ASSUME NEW result, NEW i
  PROVE  \E low : AddsUp(low, result, i) /\ Byte(result, i) = low[ByteBits]
<1> DEFINE n == ByteBits
           bit(k) == Bit(result, i, k)
           step == [k \in 1..n |-> [x \in Nat |-> x + bit(k)]]
           Is(f) == f = [k \in 0..n |-> IF k = 0 THEN 0 ELSE f[k - 1] + bit(k)]
           low == CHOOSE f : Is(f)
<1>0. n \in Nat
  BY Am2302Assumption
<1>1. Byte(result, i) = low[n]
  BY DEF Byte, Bit
<1>2. \A k \in 1..n : bit(k) \in Nat
  <2> SUFFICES ASSUME NEW k \in 1..n PROVE bit(k) \in Nat
    OBVIOUS
  <2>1. k - 1 \in 0..n
    BY <1>0
  <2> QED BY <2>1, Weights DEF Bit, n
<1> HIDE DEF n, bit
<1>3. step \in [1..n -> [Nat -> Nat]]
  BY <1>2
<1>4. PICK g \in [0..n -> Nat] : g[0] = 0 /\ \A k \in 1..n : g[k] = step[k][g[k - 1]]
  <2>1. 0 \in Nat
    OBVIOUS
  <2> HIDE DEF step
  <2> QED BY <1>0, <1>3, <2>1, Iterates, Zenon
<1>5. \A k \in 1..n : g[k] = g[k - 1] + bit(k)
  <2> SUFFICES ASSUME NEW k \in 1..n PROVE g[k] = g[k - 1] + bit(k)
    OBVIOUS
  <2>1. k - 1 \in 0..n
    BY <1>0
  <2>2. g[k - 1] \in Nat
    BY <1>4, <2>1
  <2> QED BY <1>4, <2>2
<1>6. Is(g)
  <2>1. \A k \in 0..n : g[k] = IF k = 0 THEN 0 ELSE g[k - 1] + bit(k)
    BY <1>0, <1>4, <1>5
  <2> QED BY <1>4, <2>1
<1> HIDE DEF step
<1>7. Is(low)
  <2> HIDE DEF Is
  <2> QED BY <1>6
<1> HIDE DEF low
<1>8. /\ low[0] = 0 /\ \A k \in 1..n : low[k] = low[k - 1] + bit(k)
      /\ low = [k \in 0..n |-> low[k]]
  <2>1. low = [k \in 0..n |-> IF k = 0 THEN 0 ELSE low[k - 1] + bit(k)]
    BY <1>7
  <2> HIDE DEF Is
  <2>2. \A k \in 0..n : low[k] = IF k = 0 THEN 0 ELSE low[k - 1] + bit(k)
    BY <2>1, Zenon
  <2>3. low = [k \in 0..n |-> low[k]]
    BY <2>1, Zenon
  <2>4. low[0] = 0
    BY <1>0, <2>2
  <2>5. \A k \in 1..n : low[k] = low[k - 1] + bit(k)
    BY <1>0, <2>2
  <2> QED BY <2>3, <2>4, <2>5, Zenon
<1> HIDE DEF Is
<1>9. \A k \in 0..n : low[k] = g[k]
  <2> DEFINE Wrong == {k \in 0..n : low[k] # g[k]}
  <2>1. SUFFICES ASSUME Wrong # {} PROVE FALSE
    OBVIOUS
  <2>2. Wrong \in SUBSET Nat
    OBVIOUS
  <2>3. PICK k \in Wrong : \A j \in Wrong : k <= j
    BY <2>1, <2>2, LeastOf
  <2>5. k # 0
    BY <1>4, <1>8, <2>3
  <2>6. k \in 1..n /\ k - 1 \in 0..n /\ ~(k <= k - 1)
    BY <1>0, <2>3, <2>5
  <2>7. low[k - 1] = g[k - 1]
    BY <2>3, <2>6
  <2> QED BY <1>5, <1>8, <2>3, <2>6, <2>7
<1>10. low \in [0..n -> Nat]
  <2>1. \A k \in 0..n : low[k] \in Nat
    BY <1>4, <1>9
  <2> QED BY <1>8, <2>1
<1>11. AddsUp(low, result, i)
  BY <1>8, <1>10 DEF AddsUp, n, bit
<1> QED
  BY <1>1, <1>11 DEF n

(* Two results that differ in one bit of byte i, or in none of it.          *)
SameBut(r, s, i, d) ==
  /\ \A k \in 0..(ByteBits - 1) : k # d => (i * ByteBits + k \in r <=> i * ByteBits + k \in s)
  /\ d < ByteBits => i * ByteBits + d \in r /\ i * ByteBits + d \notin s

LEMMA BytesDiffer ==
  ASSUME NEW r, NEW s, NEW i, NEW d \in 0..ByteBits, SameBut(r, s, i, d)
  PROVE  /\ Byte(r, i) \in Nat /\ Byte(s, i) \in Nat
         /\ d = ByteBits => Byte(r, i) = Byte(s, i)
         /\ d < ByteBits => Byte(r, i) = Byte(s, i) + Shifted[d]
<1> DEFINE n == ByteBits
           b(k) == Bit(r, i, k)
           c(k) == Bit(s, i, k)
<1>s. /\ \A k \in 0..(ByteBits - 1) : k # d => (i * ByteBits + k \in r <=> i * ByteBits + k \in s)
      /\ d < ByteBits => i * ByteBits + d \in r /\ i * ByteBits + d \notin s
  BY DEF SameBut
<1>0. n \in Nat /\ n # 0 /\ d \in Nat /\ d <= n
  BY Am2302Assumption
<1>1. PICK f : AddsUp(f, r, i) /\ Byte(r, i) = f[n]
  BY BitsAddUp
<1>2. PICK g : AddsUp(g, s, i) /\ Byte(s, i) = g[n]
  BY BitsAddUp
<1>3. /\ f \in [0..n -> Nat] /\ f[0] = 0 /\ \A k \in 1..n : f[k] = f[k - 1] + b(k)
      /\ g \in [0..n -> Nat] /\ g[0] = 0 /\ \A k \in 1..n : g[k] = g[k - 1] + c(k)
  BY <1>1, <1>2 DEF AddsUp
<1>4. \A k \in 1..n : k # d + 1 => b(k) = c(k)
  <2> SUFFICES ASSUME NEW k \in 1..n, k # d + 1 PROVE b(k) = c(k)
    OBVIOUS
  <2> DEFINE j == k - 1
  <2>1. j \in 0..(n - 1) /\ j # d
    BY <1>0
  <2>2. i * ByteBits + j \in r <=> i * ByteBits + j \in s
    BY <1>s, <2>1
  <2> DEFINE x == i * ByteBits
  <2>3. b(k) = (IF x + k - 1 \in r THEN Shifted[k - 1] ELSE 0)
        /\ c(k) = (IF x + k - 1 \in s THEN Shifted[k - 1] ELSE 0)
    BY DEF Bit
  <2> QED BY <2>2, <2>3
<1>5. d < n => b(d + 1) = Shifted[d] /\ c(d + 1) = 0
  <2> SUFFICES ASSUME d < n PROVE b(d + 1) = Shifted[d] /\ c(d + 1) = 0
    OBVIOUS
  <2>1. d + 1 - 1 = d
    BY <1>0
  <2>2. i * ByteBits + d \in r /\ i * ByteBits + d \notin s
    BY <1>s
  <2> QED BY <2>1, <2>2 DEF Bit
<1> DEFINE w == IF d < n THEN Shifted[d] ELSE 0
<1>6. w \in Nat
  <2>1. CASE d < n
    <3>1. d \in 0..n
      BY <1>0
    <3> QED BY <2>1, <3>1, Weights
  <2> QED BY <2>1
<1>7. \A k \in 1..n : b(k) \in Nat /\ c(k) \in Nat
  <2> SUFFICES ASSUME NEW k \in 1..n PROVE b(k) \in Nat /\ c(k) \in Nat
    OBVIOUS
  <2>1. k - 1 \in 0..n
    BY <1>0
  <2> QED BY <2>1, Weights DEF Bit
<1>8. /\ \A k \in 1..n : b(k) = IF k = d + 1 THEN c(k) + w ELSE c(k)
  <2> SUFFICES ASSUME NEW k \in 1..n PROVE b(k) = IF k = d + 1 THEN c(k) + w ELSE c(k)
    OBVIOUS
  <2>1. CASE k = d + 1
    <3>1. d < n
      BY <1>0, <2>1
    <3>2. b(k) = Shifted[d] /\ c(k) = 0 /\ w = Shifted[d]
      BY <1>5, <2>1, <3>1
    <3> HIDE DEF b, c, w
    <3> QED BY <1>6, <2>1, <3>2
  <2>2. CASE k # d + 1
    BY <1>4, <2>2
  <2> QED BY <2>1, <2>2
<1>9. Byte(r, i) = f[n] /\ Byte(s, i) = g[n]
  BY <1>1, <1>2
<1> HIDE DEF b, c, w, n
<1> DEFINE Wrong == {k \in 0..n : f[k] # g[k] + (IF d < k THEN w ELSE 0)}
<1>10. Wrong = {}
  <2>1. SUFFICES ASSUME Wrong # {} PROVE FALSE
    OBVIOUS
  <2>2. Wrong \in SUBSET Nat
    OBVIOUS
  <2>3. PICK k \in Wrong : \A j \in Wrong : k <= j
    BY <2>1, <2>2, LeastOf
  <2>4. k # 0
    BY <1>0, <1>3, <2>3
  <2>5. k \in 1..n /\ k - 1 \in 0..n /\ ~(k <= k - 1) /\ k \in 0..n
    BY <1>0, <2>3, <2>4
  <2>6. f[k - 1] = g[k - 1] + (IF d < k - 1 THEN w ELSE 0)
    BY <2>3, <2>5
  <2>7. /\ f[k - 1] \in Nat /\ g[k - 1] \in Nat /\ b(k) \in Nat /\ c(k) \in Nat
        /\ f[k] = f[k - 1] + b(k) /\ g[k] = g[k - 1] + c(k)
    BY <1>3, <1>7, <2>5
  <2>8. b(k) = IF k = d + 1 THEN c(k) + w ELSE c(k)
    BY <1>8, <2>5
  <2>9. (d < k <=> (d < k - 1 \/ k = d + 1)) /\ ~(d < k - 1 /\ k = d + 1)
    BY <1>0, <2>5
  <2>10. f[k] = g[k] + (IF d < k THEN w ELSE 0)
    <3>1. CASE d < k - 1
      BY <1>6, <2>6, <2>7, <2>8, <2>9, <3>1
    <3>2. CASE k = d + 1
      BY <1>6, <2>6, <2>7, <2>8, <2>9, <3>2
    <3>3. CASE ~(d < k - 1) /\ k # d + 1
      BY <1>6, <2>6, <2>7, <2>8, <2>9, <3>3
    <3> QED BY <3>1, <3>2, <3>3
  <2> QED BY <2>3, <2>10
<1>11. f[n] = g[n] + (IF d < n THEN w ELSE 0) /\ f[n] \in Nat /\ g[n] \in Nat
  <2>1. n \in 0..n
    BY <1>0
  <2> HIDE DEF Wrong
  <2>2. n \notin Wrong
    BY <1>10
  <2> QED BY <1>3, <2>1, <2>2 DEF Wrong
<1>12. d = n => f[n] = g[n]
  BY <1>0, <1>11
<1>13. d < n => f[n] = g[n] + Shifted[d]
  BY <1>11 DEF w
<1> QED
  BY <1>9, <1>11, <1>12, <1>13 DEF n

(* A sum and the same with one weight more are different modulo a byte.     *)
LEMMA RemaindersDiffer ==
  ASSUME NEW m \in Nat \ {0}, NEW s \in Nat, NEW w \in Nat, 0 < w, w < m
  PROVE  s % m # (s + w) % m
<1> SUFFICES ASSUME s % m = (s + w) % m PROVE FALSE
  OBVIOUS
<1> DEFINE q == s \div m
           p == (s + w) \div m
           x == s % m
<1>1. /\ s = m * q + x /\ q \in Nat /\ x \in Nat
  OBVIOUS
<1>2. /\ s + w = m * p + x /\ p \in Nat
  <2>1. s + w \in Nat
    OBVIOUS
  <2>2. s + w = m * p + ((s + w) % m) /\ p \in Nat
    BY <2>1
  <2> QED BY <2>2
<1> HIDE DEF q, p, x
<1> DEFINE a == m * q
           b == m * p
<1>3. a \in Nat /\ b \in Nat
  BY <1>1, <1>2
<1>4. q < p => a + m <= b
  BY <1>1, <1>2
<1>5. p <= q => b <= a
  BY <1>1, <1>2
<1>6. s = a + x /\ s + w = b + x
  BY <1>1, <1>2
<1> HIDE DEF a, b
<1>7. b = a + w
  BY <1>1, <1>3, <1>6
<1>8. CASE q < p
  BY <1>3, <1>4, <1>7, <1>8
<1>9. CASE p <= q
  BY <1>3, <1>5, <1>7, <1>9
<1> QED
  BY <1>1, <1>2, <1>8, <1>9

(* A bit of the frame is a bit of one of its five bytes.                    *)
LEMMA BitOfByte ==
  ASSUME NEW p \in Positions
  PROVE  \E i \in 0..4, k \in 0..(ByteBits - 1) :
           /\ p = i * ByteBits + k
           /\ \A j \in 0..4, l \in 0..(ByteBits - 1) : j * ByteBits + l = p => j = i /\ l = k
<1> DEFINE n == ByteBits
<1>0. n \in Nat /\ n # 0 /\ p \in Nat /\ p < 5 * n
  BY Am2302Assumption DEF Positions
<1> HIDE DEF n
<1> DEFINE i == IF p < n THEN 0 ELSE IF p < 2 * n THEN 1 ELSE IF p < 3 * n THEN 2
                ELSE IF p < 4 * n THEN 3 ELSE 4
           k == p - i * n
<1>1. i \in 0..4 /\ k \in 0..(n - 1) /\ p = i * n + k
  BY <1>0
<1>2. ASSUME NEW j \in 0..4, NEW l \in 0..(n - 1), j * n + l = p PROVE j = i /\ l = k
  <2>1. j = 0 \/ j = 1 \/ j = 2 \/ j = 3 \/ j = 4
    OBVIOUS
  <2>2. CASE j = 0
    BY <1>0, <1>2, <2>2
  <2>3. CASE j = 1
    BY <1>0, <1>2, <2>3
  <2>4. CASE j = 2
    BY <1>0, <1>2, <2>4
  <2>5. CASE j = 3
    BY <1>0, <1>2, <2>5
  <2>6. CASE j = 4
    BY <1>0, <1>2, <2>6
  <2> QED BY <2>1, <2>2, <2>3, <2>4, <2>5, <2>6
<1> HIDE DEF i, k
<1> QED
  BY <1>1, <1>2 DEF n

(* Of two results that differ in one bit, one at most has a valid checksum. *)
LEMMA OneBitShows ==
  ASSUME NEW r, NEW s, NEW d \in Positions, d \in r, d \notin s,
         \A p \in Positions : p # d => (p \in r <=> p \in s)
  PROVE  ~(IsValid(r) /\ IsValid(s))
<1> DEFINE n == ByteBits
           m == Shifted[ByteBits]
           b(i) == Byte(r, i)
           c(i) == Byte(s, i)
<1>0. n \in Nat /\ n # 0
  BY Am2302Assumption
<1>1. PICK i \in 0..4, k \in 0..(n - 1) :
        /\ d = i * n + k
        /\ \A j \in 0..4, l \in 0..(n - 1) : j * n + l = d => j = i /\ l = k
  BY BitOfByte
<1>2. \A j \in 0..4, l \in 0..(n - 1) : j * n + l \in Positions
  <2> SUFFICES ASSUME NEW j \in 0..4, NEW l \in 0..(n - 1) PROVE j * n + l \in Positions
    OBVIOUS
  <2>1. j = 0 \/ j = 1 \/ j = 2 \/ j = 3 \/ j = 4
    OBVIOUS
  <2> HIDE DEF n
  <2>2. j * n + l \in Nat /\ j * n + l <= 5 * n - 1
    BY <1>0, <2>1
  <2>3. j * n + l \in 0..(5 * n - 1)
    BY <1>0, <2>2
  <2> QED BY <2>3 DEF Positions, n
<1>3. b(i) \in Nat /\ c(i) \in Nat /\ b(i) = c(i) + Shifted[k]
  <2>1. k \in 0..n /\ k < n
    BY <1>0
  <2>2. \A l \in 0..(n - 1) : l # k => (i * n + l \in r <=> i * n + l \in s)
    BY <1>1, <1>2
  <2>3. i * n + k \in r /\ i * n + k \notin s
    BY <1>1
  <2>4. SameBut(r, s, i, k)
    BY <2>2, <2>3 DEF SameBut
  <2> QED BY <2>1, <2>4, BytesDiffer
<1>4. ASSUME NEW j \in 0..4, j # i PROVE b(j) \in Nat /\ b(j) = c(j)
  <2>1. n \in 0..n /\ ~(n < n)
    BY <1>0
  <2>2. \A l \in 0..(n - 1) : l # n => (j * n + l \in r <=> j * n + l \in s)
    BY <1>1, <1>2, <1>4
  <2>3. SameBut(r, s, j, n)
    BY <2>1, <2>2 DEF SameBut
  <2> QED BY <2>1, <2>3, BytesDiffer
<1>5. Shifted[k] \in Nat /\ 0 < Shifted[k] /\ Shifted[k] < m /\ m \in Nat
  BY WeightsGrow
<1> DEFINE t == b(3) + b(4) + b(1) + b(2)
           u == c(3) + c(4) + c(1) + c(2)
           w == Shifted[k]
<1>6. IsValid(r) <=> b(0) = t % m
  BY DEF IsValid, Checksum
<1>7. IsValid(s) <=> c(0) = u % m
  BY DEF IsValid, Checksum
<1>8. i = 0 \/ i = 1 \/ i = 2 \/ i = 3 \/ i = 4
  OBVIOUS
<1> HIDE DEF b, c, m, w, n
<1>9. CASE i = 0
  <2>1. t = u /\ b(0) = c(0) + w /\ c(0) \in Nat
    BY <1>3, <1>4, <1>9 DEF w
  <2>2. b(0) # c(0)
    BY <1>5, <2>1 DEF w
  <2> HIDE DEF t, u
  <2> QED BY <1>6, <1>7, <2>1, <2>2
<1>10. CASE i # 0
  <2>1. b(0) = c(0)
    BY <1>4, <1>10
  <2>2. t = u + w /\ u \in Nat
    <3>1. \A j \in 0..4 : b(j) \in Nat /\ c(j) \in Nat /\ (j # i => b(j) = c(j))
      BY <1>3, <1>4
    <3>2. w \in Nat /\ b(i) = c(i) + w
      BY <1>3, <1>5 DEF w
    <3>3. /\ b(1) \in Nat /\ b(2) \in Nat /\ b(3) \in Nat /\ b(4) \in Nat
          /\ c(1) \in Nat /\ c(2) \in Nat /\ c(3) \in Nat /\ c(4) \in Nat
          /\ 1 # i => b(1) = c(1)
          /\ 2 # i => b(2) = c(2)
          /\ 3 # i => b(3) = c(3)
          /\ 4 # i => b(4) = c(4)
      BY <3>1
    <3>4. CASE i = 1
      BY <3>2, <3>3, <3>4
    <3>5. CASE i = 2
      BY <3>2, <3>3, <3>5
    <3>6. CASE i = 3
      BY <3>2, <3>3, <3>6
    <3>7. CASE i = 4
      BY <3>2, <3>3, <3>7
    <3> QED BY <1>8, <1>10, <3>4, <3>5, <3>6, <3>7
  <2> HIDE DEF t, u
  <2>3. w \in Nat /\ 0 < w /\ w < m /\ m \in Nat \ {0}
    BY <1>5 DEF w
  <2>4. u % m # (u + w) % m
    BY <2>2, <2>3, RemaindersDiffer
  <2> QED BY <1>6, <1>7, <2>1, <2>2, <2>4
<1> QED
  BY <1>9, <1>10

-----------------------------------------------------------------------------
(* What a measurement knows.                                                *)
WeatherFields ==
  app = [pc |-> app.pc, frame |-> app.frame, pulses |-> app.pulses, iteration |-> app.iteration,
         result |-> app.result, wrong |-> app.wrong, missed |-> app.missed, valid |-> app.valid]

(* As long as every pulse was seen, the result has the bits of the frame    *)
(* from the present pulse on, except for the one that was mistaken.        *)
SeenBits ==
  /\ app.iteration = app.pulses - 1 /\ app.wrong \in {0, 1}
  /\ \A p \in app.result : p \in Positions /\ p >= app.pulses
  /\ app.wrong = 0 =>
       \A p \in Positions : p >= app.pulses => (p \in app.result <=> p \in app.frame)
  /\ app.wrong = 1 =>
       \E d \in Positions :
         /\ d >= app.pulses
         /\ \A p \in Positions :
              p >= app.pulses => (p \in app.result <=> (p \in app.frame) # (p = d))

Measured ==
  /\ app.frame \subseteq Positions /\ IsValid(app.frame)
  /\ app.pulses \in Nat /\ app.pulses <= 5 * ByteBits
  /\ app.wrong \in Nat /\ app.missed \in Nat
  /\ app.missed = 0 => SeenBits

WeatherCallNames == {"init_uart", "init_exti_isr_handling", "configure_device", "am2302_init"}

WeatherKnows ==
  /\ WeatherFields /\ calls \in Seq(WeatherCallNames)
  /\ app.pc \in {"read", "send", "sent"} => Measured
  /\ app.pc \in {"send", "sent"} => (app.valid <=> IsValid(app.result))
  /\ app.pc = "sent" => app.valid

(* A valid measurement in which every pulse was seen is the frame.          *)
LEMMA ValidIsFrame ==
  ASSUME WeatherKnows, program = "weathernode"
  PROVE  OneWrongBitIsRejected
<1> SUFFICES ASSUME app.pc = "sent", app.missed = 0, app.pulses = 0
             PROVE  app.result = app.frame
  BY DEF OneWrongBitIsRejected
<1>1. /\ IsValid(app.result) /\ IsValid(app.frame) /\ app.frame \subseteq Positions
      /\ app.wrong \in {0, 1} /\ \A p \in app.result : p \in Positions
      /\ app.wrong = 0 =>
           \A p \in Positions : p >= app.pulses => (p \in app.result <=> p \in app.frame)
      /\ app.wrong = 1 =>
           \E d \in Positions :
             \A p \in Positions :
               p >= app.pulses => (p \in app.result <=> (p \in app.frame) # (p = d))
  BY DEF WeatherKnows, Measured, SeenBits
<1>2. \A p \in Positions : p >= app.pulses
  BY DEF Positions
<1> HIDE DEF Positions
<1>3. CASE app.wrong = 0
  BY <1>1, <1>2, <1>3
<1>4. CASE app.wrong = 1
  <2> PICK d \in Positions : \A p \in Positions : p \in app.result <=> (p \in app.frame) # (p = d)
    BY <1>1, <1>2, <1>4
  <2>1. \A p \in Positions : p # d => (p \in app.result <=> p \in app.frame)
    OBVIOUS
  <2>2. CASE d \in app.frame
    <3>1. d \notin app.result
      BY <2>2
    <3> QED BY <1>1, <2>1, <2>2, <3>1, OneBitShows
  <2>3. CASE d \notin app.frame
    <3>1. d \in app.result
      BY <2>3
    <3> QED BY <1>1, <2>1, <2>3, <3>1, OneBitShows
  <2> QED BY <2>2, <2>3
<1> QED
  BY <1>1, <1>3, <1>4

(* There are five bytes of pulses.                                          *)
LEMMA PulsesOfFrame == 5 * ByteBits \in Nat /\ Cardinality(Positions) = 5 * ByteBits
<1>1. 5 * ByteBits - 1 \in Int /\ 0 \in Int /\ 5 * ByteBits \in Nat /\ 0 <= 5 * ByteBits - 1
  BY Am2302Assumption
<1>2. Cardinality(0..(5 * ByteBits - 1)) = (5 * ByteBits - 1) - 0 + 1
  BY <1>1, FS_Interval
<1> DEFINE c == Cardinality(0..(5 * ByteBits - 1))
<1>3. c = (5 * ByteBits - 1) - 0 + 1
  BY <1>2
<1> HIDE DEF c
<1>4. c = 5 * ByteBits
  BY <1>1, <1>3
<1> QED
  BY <1>1, <1>4 DEF Positions, c

(* A pulse is read: the bit of the present pulse is the frame's, or the one  *)
(* that is mistaken.                                                       *)
LEMMA PulseIsRead ==
  ASSUME WeatherFields, Measured, ReadsPulse
  PROVE  Measured' /\ WeatherFields' /\ app'.pc = app.pc
<1> DEFINE x == app.pulses - 1
<1>0. /\ app.frame \subseteq Positions /\ IsValid(app.frame)
      /\ app.pulses \in Nat /\ app.pulses <= 5 * ByteBits
      /\ app.wrong \in Nat /\ app.missed \in Nat
      /\ app.missed = 0 => SeenBits
  BY DEF Measured
<1>1. PICK late \in {0, 1} :
        /\ late = 1 => app.wrong + app.missed = 0
        /\ LET one == ((app.pulses - 1) \in app.frame) # (late = 1)
           IN app' = [app EXCEPT !.pulses = @ - 1, !.iteration = @ - 1, !.wrong = @ + late,
                                 !.result = IF one THEN @ \cup {app.iteration} ELSE @]
  BY DEF ReadsPulse
<1> DEFINE one == (x \in app.frame) # (late = 1)
<1>2. /\ WeatherFields' /\ app'.pc = app.pc /\ app'.frame = app.frame /\ app'.missed = app.missed
      /\ app'.pulses = x /\ app'.iteration = app.iteration - 1 /\ app'.wrong = app.wrong + late
      /\ app'.result = IF one THEN app.result \cup {app.iteration} ELSE app.result
  BY <1>1 DEF WeatherFields
<1>3. app.pulses > 0
  BY DEF ReadsPulse
<1>4. x \in Nat /\ x + 1 = app.pulses /\ x <= 5 * ByteBits /\ x \in Positions
  <2>1. x \in Nat /\ x <= 5 * ByteBits - 1 /\ 5 * ByteBits \in Nat
    BY <1>0, <1>3, PulsesOfFrame
  <2>2. x \in 0..(5 * ByteBits - 1)
    BY <2>1
  <2> QED BY <2>1, <2>2, <1>0 DEF Positions
<1>5. app'.wrong \in Nat
  BY <1>0, <1>2
<1>6. \A p \in Positions : p \in Nat
  BY DEF Positions
<1>7. ASSUME app.missed = 0 PROVE SeenBits'
  <2>1. /\ app.iteration = x /\ app.wrong \in {0, 1}
        /\ \A p \in app.result : p \in Positions /\ p >= app.pulses
        /\ app.wrong = 0 =>
             \A p \in Positions : p >= app.pulses => (p \in app.result <=> p \in app.frame)
        /\ app.wrong = 1 =>
             \E d \in Positions :
               /\ d >= app.pulses
               /\ \A p \in Positions :
                    p >= app.pulses => (p \in app.result <=> (p \in app.frame) # (p = d))
    BY <1>0, <1>7 DEF SeenBits
  <2>2. late = 1 => app.wrong = 0
    BY <1>0, <1>1
  <2> HIDE DEF x, Positions
  <2>3. x \notin app.result
    BY <1>4, <1>6, <2>1
  <2>4. \A p \in Positions : (p >= x <=> p >= app.pulses \/ p = x) /\ ~(x >= app.pulses)
    BY <1>4, <1>6
  <2> HIDE DEF one
  <2>5. \A p \in Positions : p \in app'.result <=> p \in app.result \/ (one /\ p = x)
    BY <1>2, <2>1
  <2>6. one <=> (x \in app.frame) # (late = 1)
    BY DEF one
  <2>7. app'.iteration = app'.pulses - 1
    BY <1>2, <2>1
  <2>8. app'.wrong \in {0, 1}
    BY <1>2, <2>1, <2>2
  <2>9. ASSUME NEW p \in app'.result PROVE p \in Positions /\ p >= app'.pulses
    <3>1. p \in app.result \/ p = x
      BY <1>2, <2>1
    <3>2. p \in Positions
      BY <1>4, <2>1, <3>1
    <3> QED BY <1>2, <2>1, <2>4, <3>1, <3>2
  <2>10. ASSUME app'.wrong = 0, NEW p \in Positions, p >= app'.pulses
         PROVE  p \in app'.result <=> p \in app'.frame
    <3>1. app.wrong = 0 /\ late = 0
      BY <1>2, <2>1, <2>10
    <3>2. one <=> x \in app.frame
      BY <2>6, <3>1
    <3>3. p >= app.pulses \/ p = x
      BY <1>2, <2>4, <2>10
    <3>4. p >= app.pulses => (p # x /\ (p \in app.result <=> p \in app.frame))
      BY <2>1, <2>4, <3>1
    <3> QED BY <1>2, <2>3, <2>5, <3>2, <3>3, <3>4
  <2>11. ASSUME app'.wrong = 1
         PROVE  \E d \in Positions :
                  /\ d >= app'.pulses
                  /\ \A p \in Positions :
                       p >= app'.pulses => (p \in app'.result <=> (p \in app'.frame) # (p = d))
    <3>1. (app.wrong = 0 /\ late = 1) \/ (app.wrong = 1 /\ late = 0)
      BY <1>2, <2>1, <2>2, <2>11
    <3>2. CASE app.wrong = 0 /\ late = 1
      <4>1. one <=> ~(x \in app.frame)
        BY <2>6, <3>2
      <4>2. ASSUME NEW p \in Positions, p >= app'.pulses
            PROVE  p \in app'.result <=> (p \in app'.frame) # (p = x)
        <5>1. p >= app.pulses \/ p = x
          BY <1>2, <2>4, <4>2
        <5>2. p >= app.pulses => (p # x /\ (p \in app.result <=> p \in app.frame))
          BY <2>1, <2>4, <3>2
        <5> QED BY <1>2, <2>3, <2>5, <4>1, <5>1, <5>2
      <4>3. x >= app'.pulses
        BY <1>2, <1>4
      <4> QED BY <1>4, <4>2, <4>3
    <3>3. CASE app.wrong = 1 /\ late = 0
      <4> PICK d \in Positions :
               /\ d >= app.pulses
               /\ \A p \in Positions :
                    p >= app.pulses => (p \in app.result <=> (p \in app.frame) # (p = d))
        BY <2>1, <3>3
      <4>1. one <=> x \in app.frame
        BY <2>6, <3>3
      <4>2. ASSUME NEW p \in Positions, p >= app'.pulses
            PROVE  p \in app'.result <=> (p \in app'.frame) # (p = d)
        <5>1. p >= app.pulses \/ p = x
          BY <1>2, <2>4, <4>2
        <5>2. p >= app.pulses => (p # x /\ (p \in app.result <=> (p \in app.frame) # (p = d)))
          BY <2>4
        <5>3. x # d
          BY <2>4
        <5> QED BY <1>2, <2>3, <2>5, <4>1, <5>1, <5>2, <5>3
      <4>3. d >= app'.pulses
        BY <1>2, <2>4
      <4> QED BY <4>2, <4>3
    <3> QED BY <3>1, <3>2, <3>3
  <2> QED BY <2>7, <2>8, <2>9, <2>10, <2>11 DEF SeenBits
<1> HIDE DEF x, one
<1>8. Measured'
  <2>1. app'.missed = 0 => SeenBits'
    BY <1>2, <1>7
  <2>2. IsValid(app'.frame) /\ app'.frame \subseteq Positions
    BY <1>0, <1>2
  <2> QED BY <1>0, <1>2, <1>4, <1>5, <2>1, <2>2 DEF Measured
<1> QED
  BY <1>2, <1>8

(* The measurement does not move.                                           *)
LEMMA WeatherIdles ==
  ASSUME WeatherKnows, app' = app, calls' \in Seq(WeatherCallNames)
  PROVE  WeatherKnows'
BY DEF WeatherKnows, WeatherFields, Measured, SeenBits

(* The driver's steps, and the sensor's answer.                             *)
LEMMA WeatherThreadKnows ==
  ASSUME WeatherKnows, WeatherThread \/ SensorAnswers
  PROVE  WeatherKnows'
<1>0. WeatherFields /\ calls' \in Seq(WeatherCallNames)
  <2>1. calls' = calls
    BY DEF WeatherThread, PullsLineLow, ReleasesLine, ReadsPulse, MissesPulse, MeasurementEnds,
           TransmitsMeasurement, SleepsAfterSending, SensorAnswers, SensorRuns, SensorAt, MainLoop
  <2> QED BY <2>1 DEF WeatherKnows
<1>1. ASSUME NEW to \in {"release", "wait", "loop"}, app' = [app EXCEPT !.pc = to]
      PROVE  WeatherKnows'
  <2>1. WeatherFields' /\ app'.pc = to
    BY <1>0, <1>1 DEF WeatherFields
  <2>2. app'.pc \notin {"read", "send", "sent"}
    BY <2>1
  <2> QED BY <1>0, <2>1, <2>2 DEF WeatherKnows
<1>2. CASE PullsLineLow
  BY <1>1, <1>2 DEF PullsLineLow
<1>3. CASE ReleasesLine
  BY <1>1, <1>3 DEF ReleasesLine
<1>4. CASE SleepsAfterSending
  BY <1>1, <1>4 DEF SleepsAfterSending
<1>5. CASE SensorAnswers
  <2>1. PICK f \in SensorFrames :
          app' = [WeatherStart EXCEPT !.pc = "read", !.frame = f,
                    !.pulses = Cardinality(Positions), !.iteration = Cardinality(Positions) - 1]
    BY <1>5 DEF SensorAnswers
  <2>2. f \subseteq Positions /\ IsValid(f)
    BY DEF SensorFrames
  <2> DEFINE c == Cardinality(Positions)
  <2>3. c \in Nat /\ c = 5 * ByteBits
    BY PulsesOfFrame
  <2>4. \A p \in Positions : p \in Nat /\ ~(p >= c)
    <3>1. \A p \in Positions : p \in 0..(5 * ByteBits - 1)
      BY DEF Positions
    <3>2. 5 * ByteBits \in Nat
      BY PulsesOfFrame
    <3> HIDE DEF c
    <3> QED BY <2>3, <3>1, <3>2
  <2>5. /\ WeatherFields' /\ app'.pc = "read" /\ app'.frame = f /\ app'.pulses = c
        /\ app'.iteration = c - 1 /\ app'.result = {} /\ app'.wrong = 0 /\ app'.missed = 0
    BY <2>1 DEF WeatherStart, WeatherFields
  <2> HIDE DEF c
  <2>6. SeenBits'
    BY <2>4, <2>5 DEF SeenBits
  <2>7. Measured'
    BY <2>2, <2>3, <2>5, <2>6 DEF Measured
  <2> QED BY <1>0, <2>5, <2>7 DEF WeatherKnows
<1>6. CASE ReadsPulse
  <2>1. app.pc = "read"
    BY <1>6 DEF ReadsPulse, SensorRuns, SensorAt, MainLoop
  <2>2. Measured' /\ WeatherFields' /\ app'.pc = "read"
    BY <1>6, <2>1, PulseIsRead DEF WeatherKnows
  <2> QED BY <1>0, <2>2 DEF WeatherKnows
<1>7. CASE MissesPulse
  <2>1. /\ app.pc = "read" /\ app.pulses > 0
        /\ app' = [app EXCEPT !.pulses = @ - 1, !.missed = 1]
    BY <1>7 DEF MissesPulse, SensorRuns, SensorAt, MainLoop
  <2>2. Measured
    BY <2>1 DEF WeatherKnows
  <2>3. /\ WeatherFields' /\ app'.pc = "read" /\ app'.frame = app.frame /\ app'.pulses = app.pulses - 1
        /\ app'.wrong = app.wrong /\ app'.missed = 1
    BY <1>0, <2>1 DEF WeatherFields
  <2>4. app.pulses - 1 \in Nat /\ app.pulses - 1 <= 5 * ByteBits
    <3>1. app.pulses \in Nat /\ app.pulses <= 5 * ByteBits /\ 5 * ByteBits \in Nat
      BY <2>2, PulsesOfFrame DEF Measured
    <3> QED BY <2>1, <3>1
  <2>5. Measured'
    BY <2>2, <2>3, <2>4 DEF Measured
  <2> QED BY <1>0, <2>3, <2>5 DEF WeatherKnows
<1>8. ASSUME NEW to, NEW v, app' = [app EXCEPT !.pc = to, !.valid = v], app.pc \in {"read", "send", "sent"}
      PROVE  /\ WeatherFields' /\ Measured' /\ app'.pc = to /\ app'.valid = v
             /\ app'.result = app.result
  <2>1. /\ WeatherFields' /\ app'.pc = to /\ app'.valid = v /\ app'.frame = app.frame
        /\ app'.pulses = app.pulses /\ app'.iteration = app.iteration
        /\ app'.result = app.result /\ app'.wrong = app.wrong /\ app'.missed = app.missed
    BY <1>0, <1>8 DEF WeatherFields
  <2>2. Measured
    BY <1>8 DEF WeatherKnows
  <2>3. Measured'
    BY <2>1, <2>2 DEF Measured, SeenBits
  <2> QED BY <2>1, <2>3
<1>9. CASE MeasurementEnds
  <2>1. /\ app.pc = "read"
        /\ app' = [app EXCEPT !.pc = "send", !.valid = IsValid(app.result)]
    BY <1>9 DEF MeasurementEnds, SensorRuns, SensorAt, MainLoop
  <2>2. /\ WeatherFields' /\ Measured' /\ app'.pc = "send" /\ app'.result = app.result
        /\ app'.valid = IsValid(app.result)
    BY <1>8, <2>1
  <2>3. app'.valid <=> IsValid(app'.result)
    BY <2>2
  <2> QED BY <1>0, <2>2, <2>3 DEF WeatherKnows
<1>10. CASE TransmitsMeasurement
  <2>1. /\ app.pc = "send" /\ (app.valid <=> IsValid(app.result))
        /\ app' = [app EXCEPT !.pc = IF app.valid THEN "sent" ELSE "loop"]
    BY <1>10 DEF TransmitsMeasurement, SensorRuns, SensorAt, MainLoop, WeatherKnows
  <2>2. CASE app.valid
    <3>1. app' = [app EXCEPT !.pc = "sent", !.valid = app.valid]
      BY <1>0, <2>1, <2>2 DEF WeatherFields
    <3>2. /\ WeatherFields' /\ Measured' /\ app'.pc = "sent" /\ app'.valid = app.valid
          /\ app'.result = app.result
      BY <1>8, <2>1, <3>1
    <3>3. app'.valid /\ IsValid(app'.result)
      BY <2>1, <2>2, <3>2
    <3> QED BY <1>0, <3>2, <3>3 DEF WeatherKnows
  <2>3. CASE ~app.valid
    BY <1>1, <2>1, <2>3
  <2> QED BY <2>2, <2>3
<1> QED
  BY <1>2, <1>3, <1>4, <1>5, <1>6, <1>7, <1>9, <1>10 DEF WeatherThread

(* Every step of the weather node's board keeps what it knows.              *)
LEMMA WeatherStep ==
  ASSUME Interrupts, program = "weathernode", WeatherKnows, BoardsNext
  PROVE  WeatherKnows'
<1>1. CASE SetUp
  <2>1. calls # <<>> /\ calls' = Tail(calls) /\ app' = app
    BY <1>1, SetUpEnables
  <2>2. calls' \in Seq(WeatherCallNames)
    BY <2>1, HeadAndTail DEF WeatherKnows
  <2> QED BY <2>1, <2>2, WeatherIdles
<1>2. ~RemoteCall
  <2>1. calls # <<>> => Head(calls) \in WeatherCallNames
    BY HeadAndTail DEF WeatherKnows
  <2>2. RemoteCall => /\ calls # <<>>
                      /\ Head(calls) \in {"adc_init", "link_adc_isr", "reset_idx", "reset_state"}
    BY DEF RemoteCall, AdcInit, LinkAdcIsr, ResetIdx, ResetState, ConfiguresPins, Calls
  <2>3. \A c \in {"adc_init", "link_adc_isr", "reset_idx", "reset_state"} : c \notin WeatherCallNames
    BY DEF WeatherCallNames
  <2> QED BY <2>1, <2>2, <2>3
<1>3. ~RemoteLoop /\ ~AccelerometerThread /\ ~Shifts /\ ~Receives /\ ~SleepThread
  BY RemoteLoopIsQuiet, AccelerometerIsQuiet, SleepIsQuiet
<1>4. ~Edge /\ ~Converted /\ ~Tick
  BY DEF Edge, Converted, Tick, RadioPrograms
<1>5. ~AdcIsrRuns /\ ~Tim3IsrRuns
  BY HandlersReturn DEF Interrupts
<1>6. CASE WeatherThread \/ SensorAnswers
  BY <1>6, WeatherThreadKnows
<1> DEFINE Idles == app' = app /\ calls' = calls
<1>7. Idles => WeatherKnows'
  <2> SUFFICES ASSUME Idles PROVE WeatherKnows'
    OBVIOUS
  <2>1. calls' \in Seq(WeatherCallNames)
    BY DEF WeatherKnows
  <2> QED BY <2>1, WeatherIdles
<1>8. CASE CallbackRuns
  BY <1>7, <1>8, CallbackIsQuiet DEF CallbackRuns
<1>9. ASSUME NEW v, TakesInterrupt(v) PROVE WeatherKnows'
  BY <1>7, <1>9, TakenInterrupts
<1>10. CASE Returns
  BY <1>7, <1>10, ReturnRequests
<1> QED
  BY <1>1, <1>2, <1>3, <1>4, <1>5, <1>6, <1>8, <1>9, <1>10
     DEF BoardsNext, Thread, ExtiInterrupt, Handler, RemoteThread, RemoteCall, RemoteLoop

(* At boot nothing is measured and four calls are to be made.               *)
LEMMA WeatherAtBoot ==
  ASSUME BoardsInit, program = "weathernode"
  PROVE  WeatherKnows
<1>1. PICK p \in BoardPrograms : Boot(p) /\ app \in AppStarts(p)
  BY DEF BoardsInit
<1>2. p = "weathernode" /\ calls = KernelCalls \o MainCalls(p)
  BY <1>1 DEF Boot
<1>3. app = WeatherStart
  BY <1>1, <1>2 DEF AppStarts
<1>4. MainCalls(p) = WeatherCalls
  BY <1>2 DEF MainCalls
<1>5. KernelCalls \in Seq(WeatherCallNames) /\ WeatherCalls \in Seq(WeatherCallNames)
  BY TwoAreASequence DEF KernelCalls, WeatherCalls, WeatherCallNames
<1>6. calls \in Seq(WeatherCallNames)
  <2> HIDE DEF KernelCalls, WeatherCalls
  <2>1. calls = KernelCalls \o WeatherCalls
    BY <1>2, <1>4
  <2> QED BY <1>5, <2>1
<1>7. app.pc = "loop" /\ WeatherFields
  BY <1>3 DEF WeatherStart, WeatherFields
<1>8. app.pc \notin {"read", "send", "sent"}
  BY <1>7
<1> QED
  BY <1>6, <1>7, <1>8 DEF WeatherKnows

(* A measurement in which the polling loop mistook a pulse is not sent: one  *)
(* wrong bit changes one byte by less than a byte's range, and so either    *)
(* the sum of the four or the checksum, but not both.                      *)
THEOREM WrongBitsAreRejected == BoardsSpec => []OneWrongBitIsRejected
<1> DEFINE Inv == IInv /\ (program = "weathernode" => WeatherKnows)
<1>1. BoardsInit => Inv
  BY BootKnows, WeatherAtBoot
<1>2. Inv /\ [BoardsNext]_vars => Inv'
  <2> SUFFICES ASSUME Inv, [BoardsNext]_vars PROVE Inv'
    OBVIOUS
  <2>1. IInv' /\ Interrupts
    BY StepKnows DEF IInv
  <2>2. CASE BoardsNext
    <3>1. program' = program
      <4>1. \A v : TakesInterrupt(v) => program' = program
        BY <2>1, TakenInterrupts
      <4> QED BY <2>1, <2>2, <4>1, SetUpEnables, RemoteCallsEnable, RemoteLoopIsQuiet, WeatherIsQuiet,
                 AccelerometerIsQuiet, SleepIsQuiet, CallbackIsQuiet, ReturnRequests, HandlersReturn,
                 RequestsComeFrom
              DEF Quiet, BoardsNext, Thread, ExtiInterrupt, Handler, RemoteThread, RemoteCall,
                  RemoteLoop
    <3> QED BY <2>1, <2>2, <3>1, WeatherStep
  <2>3. CASE UNCHANGED vars
    <3>1. program' = program /\ app' = app /\ calls' = calls
      BY <2>3 DEF vars, board
    <3>2. program = "weathernode" => WeatherKnows'
      <4> SUFFICES ASSUME program = "weathernode" PROVE WeatherKnows'
        OBVIOUS
      <4>1. WeatherKnows /\ calls' \in Seq(WeatherCallNames)
        BY <3>1 DEF WeatherKnows
      <4> QED BY <3>1, <4>1, WeatherIdles
    <3> QED BY <2>1, <3>1, <3>2
  <2> QED BY <2>2, <2>3
<1>3. Inv => OneWrongBitIsRejected
  <2>1. program # "weathernode" => OneWrongBitIsRejected
    BY DEF OneWrongBitIsRejected
  <2> QED BY <2>1, ValidIsFrame
<1> QED
  BY <1>1, <1>2, <1>3, PTL DEF BoardsSpec
=============================================================================
