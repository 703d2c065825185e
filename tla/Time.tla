-------------------------------- MODULE Time --------------------------------
(* The delays of the kernel: the time since boot from the time stamp counter  *)
(* (kernel/time/time.c, tsc.c) and counts of the interval timer               *)
(* (tools/pit.c).                                                             *)
EXTENDS Integers, Sequences, SequencesExt

(* The microseconds after which a time of 32 bits is 0 again.                 *)
CONSTANT TimeModulus

(* A clock: its speed, 0 as long as it could not be measured, and whether the *)
(* counter was read at boot.  The speed is measured once: the loop adds up    *)
(* the first measurement ten times.                                           *)
set_CPU_clock_speed(khz) ==
  FoldLeft(LAMBDA sum, i : sum + khz, 0, [i \in 1 .. 10 |-> i]) * 100

get_time_us(clock, elapsed_tsc) ==
  IF clock.hz = 0 \/ ~ clock.booted THEN 0
  ELSE (elapsed_tsc \div (clock.hz \div 1000000)) % TimeModulus

(* A plausible bug: the microsecond in which the delay starts counts whole.   *)
PassedStarted(last_recorded_time, start_time) == (last_recorded_time - start_time + 1) % TimeModulus

(* The time that has passed between two readings, in unsigned arithmetic.     *)
Passed(last_recorded_time, start_time) == (last_recorded_time - start_time) % TimeModulus

(* The loop of tsc_delay_us: the counter advances by step from one reading to *)
(* the next.                                                                  *)
RECURSIVE DelayLoop(_, _, _, _, _)
DelayLoop(clock, tsc, step, micros, start_time) ==
  LET last_recorded_time == get_time_us(clock, tsc)
  IN IF last_recorded_time # 0 /\ Passed(last_recorded_time, start_time) < micros
       THEN DelayLoop(clock, tsc + step, step, micros, start_time)
       ELSE [ret |-> IF last_recorded_time = 0 THEN -1 ELSE 0, tsc |-> tsc]

tsc_delay_us(clock, tsc, step, micros) ==
  IF get_time_us(clock, tsc) = 0
    THEN [ret |-> -1, tsc |-> tsc]
    ELSE DelayLoop(clock, tsc, step, micros, get_time_us(clock, tsc))
-----------------------------------------------------------------------------
PIT_FREQ == 1193182

(* Counts of the timer that pit_delay_us_limited waits for.                   *)
pit_delay_us_limited(micros) ==
  LET pit_reload == ((PIT_FREQ \div 1000000) * micros) % 65536
  IN IF micros = 0 THEN 0 ELSE IF pit_reload = 0 THEN 1 ELSE pit_reload

(* The waits of pit_delay_us: parts of 25 ms and the rest.                    *)
pit_delay_us(micros) ==
  IF micros > 25000
    THEN [i \in 1 .. micros \div 25000 |-> pit_delay_us_limited(25000)]
           \o <<pit_delay_us_limited(micros % 25000)>>
    ELSE <<pit_delay_us_limited(micros)>>

(* udelay falls back from the timer to the counter, and gives up without one. *)
(* What it waits for: readings of the counter, or counts of the timer.        *)
udelay(machine, tsc, step, micros) ==
  LET mode == IF machine.mode = "PIT" /\ ~ machine.pit_is_legit THEN "TSC" ELSE machine.mode
  IN CASE mode = "PIT" -> [ret |-> 0, counts |-> pit_delay_us(micros)]
       [] mode = "TSC" /\ machine.cpu_has_tsc -> tsc_delay_us(machine.clock, tsc, step, micros)
       [] OTHER -> [ret |-> -1, tsc |-> tsc]
=============================================================================
