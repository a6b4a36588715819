-------------------------------- MODULE Timers --------------------------------
(***************************************************************************)
(* The driver of the timers 2 and 3 (tim2_5.c), as operators on the        *)
(* registers of one timer, and what run_scheduler makes of the two.        *)
(***************************************************************************)
EXTENDS Naturals

CONSTANT SleepTop  \* 65535, the width of timer 3; smaller for model checking
ASSUME TimersAssumption == SleepTop \in Nat

AhbFrequency == 16000000
ResolutionForSleepFunction == 1000  \* microseconds
AllOnes == "all ones"               \* 32 bits of timer 2
Unknown == "unknown"                \* what lies behind an array
CounterBits == [n \in {2, 3} |-> IF n = 3 THEN SleepTop ELSE AllOnes]

\* cr1 is the set of CEN and UDIS; the prescaler in force is psc as of the last
\* update event.
ResetTimer(n) ==
  [cr1 |-> {}, dier |-> {}, sr |-> {}, cnt |-> 0, psc |-> 0, prescaler |-> 0,
   arr |-> CounterBits[n], ccr |-> [i \in 1..4 |-> 0]]

TimerStart(t) == [t EXCEPT !.cr1 = @ \cup {"CEN"}]
TimerStop(t) == [t EXCEPT !.cr1 = @ \ {"CEN"}]
SetUdis(t) == [t EXCEPT !.cr1 = @ \cup {"UDIS"}]
SetCcr(t, value, nr) == [t EXCEPT !.ccr[nr] = value]
SetPrescaler(t, psc) == [t EXCEPT !.psc = psc]
TimerSetArr(t, arr) == [t EXCEPT !.arr = arr]
EnableCcxIr(t, nr) == [t EXCEPT !.dier = @ \cup {nr}]

(* Mutant: the counter goes on from where it stopped.                       *)
TimerFlushCounter_Not(t) == t
TimerFlushCounter(t) == [t EXCEPT !.cnt = 0]

\* The update event loads the prescaler and sets UIF, unless UDIS forbids it.
GenerateUe(t) ==
  IF "UDIS" \in t.cr1 THEN t ELSE [t EXCEPT !.prescaler = t.psc, !.cnt = 0, !.sr = @ \cup {0}]

\* A flag of the status register is cleared by writing zero.
TimerSetSr(t, value) == [t EXCEPT !.sr = @ \cap value]

(* 1 / (cycle / 1000000) in single precision: for 1000 the quotient is     *)
(* 999.99994, and its fraction is cut off.                                 *)
TargetFrequency(cycle) == IF cycle = 1000 THEN 999 ELSE 1000000 \div cycle
TimerGetPrescaler(cycle) == (AhbFrequency \div TargetFrequency(cycle)) - 1

\* The loop reads the elements 1 to 4 of an array that starts at 0.
TimerInit(n, cycle) ==
  LET loaded == SetUdis(GenerateUe(SetPrescaler(ResetTimer(n), TimerGetPrescaler(cycle))))
  IN TimerFlushCounter(SetCcr(loaded, Unknown, 4))

\* The two timers after run_scheduler.
RunScheduler ==
  [n \in {2, 3} |-> IF n = 3 THEN EnableCcxIr(TimerInit(3, ResolutionForSleepFunction), 1)
                    ELSE TimerStart(TimerFlushCounter(TimerInit(2, 1)))]

\* timer_pwm_init for timer 2: psc, the four compare registers and the period.
TimerPwm(t) ==
  TimerSetArr([SetPrescaler(t, 2) EXCEPT !.ccr = [i \in 1..4 |-> IF i = 1 THEN 1000 ELSE 4000]], 8000)

\* One count of a running timer; a match sets its flag (external).
Counted(t) ==
  LET next == IF t.cnt = t.arr THEN 0 ELSE t.cnt + 1
  IN [t EXCEPT !.cnt = next, !.sr = @ \cup {i \in 1..3 : t.ccr[i] = next}]
=============================================================================
