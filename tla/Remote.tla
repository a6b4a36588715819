-------------------------------- MODULE Remote --------------------------------
(***************************************************************************)
(* The remote control: main.c of packages/remote on top of a Board, with   *)
(* the ADC converting all the time, its interrupt handler and the handler  *)
(* of the mode switch sharing variables with the main loop.                *)
(***************************************************************************)
EXTENDS Board

Readings == {0, 1500, 4095}  \* below, between and above the bounds
LowerBound == 1000
UpperBound == 2500
LockValues == {0, 1}         \* what lock_mutex leaves: register r1, which nobody sets

(* The globals are zero before main sets them, although the ADC is armed    *)
(* earlier: link_external.ld puts .bss before .data, and os_api.h's        *)
(* initialised pointers make .data non-empty, so that the binary image     *)
(* objcopy writes holds the zeros of .bss.                                 *)
RemoteStart ==
  [pc |-> "loop", idx |-> 0, state |-> "Running", reading |-> 0, mutex |-> 0,
   converts |-> FALSE, eocie |-> FALSE, crc |-> 0, sent |-> <<>>]

\* init_adc: the conversion runs as soon as the ADC is on.
AdcInit ==
  /\ Calls("adc_init")
  /\ Configure(AdcPins)
  /\ app' = [app EXCEPT !.eocie = TRUE]
  /\ UNCHANGED <<program, timers, slots, vector, nvic, exti, handler, acked, edges, owed>>

LinkAdcIsr ==
  /\ Calls("link_adc_isr")
  /\ nvic' = [nvic EXCEPT !.enabled = @ \cup {Adc}]
  /\ app' = [app EXCEPT !.converts = TRUE]
  /\ UNCHANGED <<board, handler>>

ResetIdx ==
  /\ Calls("reset_idx")
  /\ app' = [app EXCEPT !.idx = 0]
  /\ UNCHANGED <<board, nvic, handler>>

ResetState ==
  /\ Calls("reset_state")
  /\ app' = [app EXCEPT !.state = "Running", !.mutex = 0, !.reading = 0]
  /\ UNCHANGED <<board, nvic, handler>>

(* The end of a conversion (external).  A conversion samples for 480 cycles *)
(* (smpr1 and smpr2 in adc_init), longer than its handler runs.            *)
Converted ==
  /\ program = "remote" /\ app.converts /\ app.eocie /\ handler # Adc
  /\ nvic' = [nvic EXCEPT !.pending = @ \cup {Adc}]
  /\ UNCHANGED <<board, calls, handler, app>>

(* adc_isr: spins while the mutex holds one, then reads the channel.  The   *)
(* thread stands still at app.pc meanwhile.                                *)
AdcIsrRuns ==
  /\ handler = Adc /\ app.mutex # 1
  /\ \E value \in Readings : app' = [app EXCEPT !.reading = value, !.mutex = 0]
  /\ handler' = NoIrq
  /\ UNCHANGED <<board, calls, nvic>>

(* Mutant: the index may run one beyond the five counters.                  *)
SwitchesState_OffByOne(a) ==
  [a EXCEPT !.idx = IF @ + 1 > 5 THEN 0 ELSE @ + 1,
            !.state = IF @ = "Running" THEN "Maintenance" ELSE "Running"]

\* isr_switch_state, with the acknowledgement of its line.
SwitchesState(a) ==
  [a EXCEPT !.idx = IF @ + 1 > 4 THEN 0 ELSE @ + 1,
            !.state = IF @ = "Running" THEN "Maintenance" ELSE "Running"]

RemoteAt(from) == MainLoop("remote", from) /\ UNCHANGED board

\* In Maintenance the loop only yields.
ChecksState ==
  /\ RemoteAt("loop") /\ app.state = "Running"
  /\ app' = [app EXCEPT !.pc = "disable"]

(* Mutant: the interrupts of the ADC stay enabled.                          *)
AdcDisableInterrupts_Not(a) == a
AdcDisableInterrupts(a) == [a EXCEPT !.eocie = FALSE]

DisablesAdc ==
  /\ RemoteAt("disable")
  /\ app' = [AdcDisableInterrupts(app) EXCEPT !.pc = "lock"]

LocksMutex ==
  /\ RemoteAt("lock") /\ app.mutex # 1
  /\ \E r1 \in LockValues : app' = [app EXCEPT !.pc = "clamp", !.mutex = r1]

Clamped(x) == IF x > UpperBound THEN UpperBound ELSE IF x < LowerBound THEN LowerBound ELSE x

ClampsReading ==
  /\ RemoteAt("clamp")
  /\ app' = [app EXCEPT !.pc = "crc", !.reading = Clamped(@), !.mutex = 0]

\* The checksum is fed from current_reading, the payload takes it again.
FeedsCrc ==
  /\ RemoteAt("crc")
  /\ app' = [app EXCEPT !.pc = "send", !.crc = app.reading]

Transmits ==
  /\ RemoteAt("send")
  /\ app' = [app EXCEPT !.pc = "enable", !.sent = <<app.reading, app.crc>>, !.crc = 0]

EnablesAdc ==
  /\ RemoteAt("enable")
  /\ app' = [app EXCEPT !.pc = "loop", !.eocie = TRUE]

RemoteThread ==
  \/ AdcInit \/ LinkAdcIsr \/ ResetIdx \/ ResetState
  \/ ChecksState \/ DisablesAdc \/ LocksMutex \/ ClampsReading \/ FeedsCrc \/ Transmits \/ EnablesAdc

----------------------------------------------------------------------------
\* adc_isr waits for the mutex in a handler: the main loop never holds it
\* while the interrupt may come.
AdcNeverSpins == handler = Adc => app.mutex # 1
=============================================================================
