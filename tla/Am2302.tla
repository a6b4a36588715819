-------------------------------- MODULE Am2302 --------------------------------
(***************************************************************************)
(* The weather node: main.c of packages/weathernode with the AM2302 driver *)
(* (am2302_run of am2302.h), which measures the length of the sensor's     *)
(* pulses by polling a pin against a timer while interrupts take the       *)
(* processor away.  The sensor is external.                                *)
(***************************************************************************)
EXTENDS Board

CONSTANTS
  ByteBits,    \* 8 in the driver
  SensorBytes  \* bytes the sensor sends

\* 1 << k.
Shifted[k \in 0..ByteBits] == IF k = 0 THEN 1 ELSE 2 * Shifted[k - 1]

ASSUME Am2302Assumption ==
  ByteBits \in Nat \ {0} /\ SensorBytes \subseteq 0..(Shifted[ByteBits] - 1)

(* Humidity is bytes 4 and 3 of the result, temperature bytes 2 and 1, the  *)
(* checksum byte 0.  A result is the set of the positions of its ones, and  *)
(* a byte the sum of those among its bits.                                 *)
Positions == 0..(5 * ByteBits - 1)
Byte(result, i) ==
  LET low[k \in 0..ByteBits] ==
        IF k = 0 THEN 0
        ELSE low[k - 1] + (IF i * ByteBits + k - 1 \in result THEN Shifted[k - 1] ELSE 0)
  IN low[ByteBits]

(* Mutant: the high byte of the humidity is left out.                       *)
Checksum_LowHumidity(result) ==
  (Byte(result, 3) + Byte(result, 2) + Byte(result, 1)) % Shifted[ByteBits]

\* The sum is truncated to a char.
Checksum(result) ==
  (Byte(result, 3) + Byte(result, 4) + Byte(result, 1) + Byte(result, 2)) % Shifted[ByteBits]
IsValid(result) == Byte(result, 0) = Checksum(result)

\* What the sensor may send: four bytes and their checksum (external).
SensorFrames ==
  {f \in SUBSET Positions : (\A i \in 1..4 : Byte(f, i) \in SensorBytes) /\ IsValid(f)}

WeatherStart ==
  [pc |-> "loop", frame |-> {}, pulses |-> 0, iteration |-> 0, result |-> {},
   wrong |-> 0, missed |-> 0, valid |-> FALSE]

SensorAt(from) ==
  /\ MainLoop("weathernode", from)
  /\ UNCHANGED <<program, slots, vector, exti, acked, edges, owed>>
SensorRuns(from) == SensorAt(from) /\ UNCHANGED <<pins, wanted>>

(* am2302_run pulls the line low, then releases it and listens.  It starts, *)
(* stops and flushes the timer that the kernel counts with.                *)
PullsLineLow ==
  /\ SensorAt("loop")
  /\ Configure(<<Use(C(13), "Output", NoType)>>)
  /\ timers' = [timers EXCEPT ![2] = TimerStart(TimerFlushCounter(@))]
  /\ app' = [app EXCEPT !.pc = "release"]

ReleasesLine ==
  /\ SensorAt("release")
  /\ Configure(<<Use(C(13), "Input", NoType)>>)
  /\ timers' = [timers EXCEPT ![2] = TimerFlushCounter(TimerStop(@))]
  /\ app' = [app EXCEPT !.pc = "wait"]

(* The sensor's preamble ends the two waits, which have no timeout; the     *)
(* measurement starts with an empty result.                                *)
SensorAnswers ==
  /\ SensorRuns("wait")
  /\ \E f \in SensorFrames :
       app' = [WeatherStart EXCEPT !.pc = "read", !.frame = f,
                 !.pulses = Cardinality(Positions), !.iteration = Cardinality(Positions) - 1]
  /\ timers' = [timers EXCEPT ![2] = TimerStart(@)]

(* A pulse is a one when it lasts 30 us or longer.  Interrupted, the loop   *)
(* takes one edge late and mistakes the pulse, at most once in the 5 ms of *)
(* a frame (bound).                                                        *)
ReadsPulse ==
  /\ SensorRuns("read") /\ app.pulses > 0 /\ UNCHANGED timers
  /\ \E late \in {0, 1} :
       /\ late = 1 => app.wrong + app.missed = 0
       /\ LET one == ((app.pulses - 1) \in app.frame) # (late = 1)
          IN app' = [app EXCEPT !.pulses = @ - 1, !.iteration = @ - 1, !.wrong = @ + late,
                                !.result = IF one THEN @ \cup {app.iteration} ELSE @]

(* Or it misses both edges: every later bit lands one position too high.    *)
MissesPulse ==
  /\ SensorRuns("read") /\ app.pulses > 0 /\ app.wrong + app.missed = 0 /\ UNCHANGED timers
  /\ app' = [app EXCEPT !.pulses = @ - 1, !.missed = 1]

(* 10 ms are over, whether the sensor has sent all its pulses or not.       *)
MeasurementEnds ==
  /\ SensorRuns("read")
  /\ timers' = [timers EXCEPT ![2] = TimerFlushCounter(TimerStop(@))]
  /\ app' = [app EXCEPT !.pc = "send", !.valid = IsValid(app.result)]

\* A valid frame is transmitted before the task sleeps for five seconds.
TransmitsMeasurement ==
  /\ SensorRuns("send") /\ UNCHANGED timers
  /\ app' = [app EXCEPT !.pc = IF app.valid THEN "sent" ELSE "loop"]

SleepsAfterSending ==
  /\ SensorRuns("sent") /\ UNCHANGED timers
  /\ app' = [app EXCEPT !.pc = "loop"]

WeatherThread ==
  \/ PullsLineLow \/ ReleasesLine \/ ReadsPulse \/ MissesPulse \/ MeasurementEnds
  \/ TransmitsMeasurement \/ SleepsAfterSending

----------------------------------------------------------------------------
\* A measurement in which one pulse was mistaken is never transmitted, as long
\* as every pulse was seen: am2302_run's checksum tells any single wrong bit.
OneWrongBitIsRejected ==
  program = "weathernode" /\ app.pc = "sent" /\ app.missed = 0 /\ app.pulses = 0 =>
    app.result = app.frame
=============================================================================
