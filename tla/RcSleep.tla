------------------------------ MODULE RcSleep ------------------------------
(***************************************************************************)
(* Sleep on the RC clock, and the calibration of that clock.  The watchdog *)
(* runs on the RC clock; at the end of an interval its interrupt, which is *)
(* not maskable, compares it with the processor's cycle counter and keeps  *)
(* the ratio.  A sleep is as many RC milliseconds as the ratio asks for,   *)
(* and the interrupt, which must not come while the memory sleeps, is      *)
(* switched off at the watchdog around it.                                 *)
(*                                                                         *)
(* A ratio is a pair of a numerator and a denominator; float rounding is   *)
(* left out.  Time is in RC milliseconds; watchdog and cycle counter stop  *)
(* in sleep (WdtRunInSleep is 0).                                          *)
(***************************************************************************)
EXTENDS Integers

CONSTANTS
    MaxSleep,    \* DEF_MAX_VALUE_OF_SLEEPTIME, the register's mask as well
    Wrap,        \* 2^32, of DWT->CYCCNT
    Clock,       \* SystemCoreClock in cycles per millisecond
    PerTick,     \* cycles in a millisecond of the RC clock as it is
    MinCount,    \* cycles, SystemCoreClock/100: shorter counts are ignored
    OnceTime,    \* DEF_RC_CALIBRATION_DEFAULTTIME_IN_MS
    Intervals,   \* arguments of cb_system_start_periodic_rc_calibration
    Durations    \* arguments of cb_sleep_control, cb_deep_sleep_control

ASSUME RcAssumption ==
    /\ {MaxSleep, Wrap, Clock, PerTick, OnceTime} \subseteq Nat \ {0}
    /\ MinCount \in Nat
    /\ Intervals \subseteq Nat \ {0} /\ Durations \subseteq Nat

VARIABLES
    enRCCalMode,
    sRCCalibrationTimeInMs,
    sRC_lastCPUCount,
    RC_CompensateRatio,
    handler,             \* rc_callback_wdt_irq_handler is set
    running, IER,        \* the watchdog: counting, and its interrupt enabled
    pc,                  \* what the main program does next
    asked,               \* slpduration_in_ms
    sleepValue,          \* sleep_value_to_set, then the register
    irqTemp,             \* wdt_irq_temp_buf
    CYCCNT,
    left,                \* ticks to the end of the watchdog's interval
    due                  \* its interrupt is pending

calVars == <<enRCCalMode, sRCCalibrationTimeInMs, sRC_lastCPUCount,
             RC_CompensateRatio, handler>>
wdtVars == <<running, IER>>
sleepVars == <<asked, sleepValue, irqTemp>>
timeVars == <<CYCCNT, left, due>>
vars == <<calVars, wdtVars, pc, sleepVars, timeVars>>

Times == Intervals \cup {OnceTime, 0}
Places == {"main", "mask", "save", "set", "asleep", "resume", "deep"}

TypeOK ==
    /\ enRCCalMode \in {"IDLE", "ONCE", "PERIODIC"}
    /\ sRCCalibrationTimeInMs \in Times
    /\ sRC_lastCPUCount \in 0..(Wrap - 1) /\ CYCCNT \in 0..(Wrap - 1)
    /\ RC_CompensateRatio \in
          (1..Wrap) \X ({1} \cup {Clock * t : t \in Times \ {0}})
    /\ {handler, running, due} \subseteq BOOLEAN
    /\ IER \in 0..1 /\ irqTemp \in 0..1
    /\ pc \in Places
    /\ asked \in Durations \cup {0} /\ left \in 0..sRCCalibrationTimeInMs
    /\ sleepValue \in Nat /\ (pc \in {"asleep", "deep"} => sleepValue <= MaxSleep)

Init == /\ enRCCalMode = "IDLE" /\ sRCCalibrationTimeInMs = 0
        /\ sRC_lastCPUCount = 0 /\ RC_CompensateRatio = <<1, 1>>
        /\ handler = FALSE /\ running = FALSE /\ IER = 0
        /\ pc = "main" /\ asked = 0 /\ sleepValue = 0 /\ irqTemp = 0
        /\ CYCCNT = 0 /\ left = 0 /\ due = FALSE

(* The interrupt comes before anything else does.                          *)
Interrupted == due /\ IER = 1
At(place) == pc = place /\ ~Interrupted
-----------------------------------------------------------------------------
(* cb_system_rc_calibration, cb_system_start_periodic_rc_calibration; a    *)
(* calibration that is going on is left alone.                             *)
Start(mode, time) ==
    /\ At("main")
    /\ enRCCalMode = "IDLE"
    /\ enRCCalMode' = mode
    /\ sRCCalibrationTimeInMs' = time
    /\ running' = TRUE /\ IER' = 1 /\ left' = time
    /\ sRC_lastCPUCount' = CYCCNT
    /\ handler' = TRUE
    /\ UNCHANGED <<RC_CompensateRatio, pc, sleepVars, CYCCNT, due>>

(* cb_system_stop_rc_calibration                                           *)
StopCalibration == /\ running' = FALSE /\ IER' = 0
                   /\ handler' = (handler /\ enRCCalMode = "IDLE")
                   /\ enRCCalMode' = "IDLE"

Stop == /\ At("main")
        /\ StopCalibration
        /\ UNCHANGED <<sRCCalibrationTimeInMs, sRC_lastCPUCount,
                       RC_CompensateRatio, pc, sleepVars, timeVars>>

Delta == (CYCCNT - sRC_lastCPUCount) % Wrap

(* Mutant: every ratio is kept.                                            *)
PlausibleAny(delta, cycles) == TRUE

(* The ratio is from 0.5 to 1.5.                                           *)
Plausible(delta, cycles) == cycles <= 2 * delta /\ 2 * delta <= 3 * cycles

(* cb_rc_calibration_callback_handler                                      *)
Calibrate ==
    LET cycles == Clock * sRCCalibrationTimeInMs
    IN  /\ sRC_lastCPUCount' = IF Delta > MinCount THEN CYCCNT ELSE sRC_lastCPUCount
        /\ RC_CompensateRatio' =
              IF Delta > MinCount /\ Plausible(Delta, cycles)
                THEN <<Delta, cycles>> ELSE RC_CompensateRatio
        /\ UNCHANGED sRCCalibrationTimeInMs
        /\ IF enRCCalMode = "ONCE" THEN StopCalibration
                                   ELSE UNCHANGED <<enRCCalMode, handler, wdtVars>>

(* NMI_Handler                                                             *)
NMI == /\ Interrupted
       /\ due' = FALSE
       /\ IF handler THEN Calibrate ELSE UNCHANGED <<calVars, wdtVars>>
       /\ UNCHANGED <<pc, sleepVars, CYCCNT, left>>
-----------------------------------------------------------------------------
(* Mutant: rounded down.                                                   *)
HalfOverNever(d, r) == FALSE

HalfOver(d, r) == 2 * ((d * r[2]) % r[1]) >= r[1]

(* d milliseconds, rounded to milliseconds of the RC clock; only what is   *)
(* not rounded up is brought into range.                                   *)
InRange(v) == IF v = 0 THEN 1 ELSE IF v > MaxSleep THEN MaxSleep ELSE v

SleepValue(d, r) ==
    LET whole == (d * r[2]) \div r[1]
    IN  IF HalfOver(d, r) THEN whole + 1 ELSE InRange(whole)

(* Mutant: the value is not masked.                                        *)
MaskedNot(value) == value

(* The register keeps 20 bits.                                             *)
Masked(value) == value % (MaxSleep + 1)

(* cb_sleep_control, up to __disable_irq; CB_FAIL for a longer duration.   *)
Sleep(d) == /\ At("main")
            /\ d <= MaxSleep
            /\ asked' = d
            /\ sleepValue' = SleepValue(d, RC_CompensateRatio)
            /\ irqTemp' = 0
            /\ pc' = "mask"
            /\ UNCHANGED <<calVars, wdtVars, timeVars>>

AskRunning == /\ At("mask")
              /\ pc' = IF running THEN "save" ELSE "set"
              /\ UNCHANGED <<calVars, wdtVars, sleepVars, timeVars>>

(* Mutant: the setting is read after it has been cleared.                  *)
SaveIrqLate == /\ At("save")
               /\ irqTemp' = 0
               /\ IER' = 0
               /\ pc' = "set"
               /\ UNCHANGED <<calVars, running, asked, sleepValue, timeVars>>

(* The interrupt can still come between the question and this.  Between    *)
(* the two accesses to IER it changes nothing that matters: either the     *)
(* watchdog goes on, with IER at 1, or it is off and irqTemp is not used.  *)
SaveIrq == /\ At("save")
           /\ irqTemp' = IER
           /\ IER' = 0
           /\ pc' = "set"
           /\ UNCHANGED <<calVars, running, asked, sleepValue, timeVars>>

SetTime == /\ At("set")
           /\ sleepValue' = Masked(sleepValue)
           /\ pc' = "asleep"
           /\ UNCHANGED <<calVars, wdtVars, asked, irqTemp, timeVars>>

WakeUp == /\ At("asleep")
          /\ pc' = "resume"
          /\ UNCHANGED <<calVars, wdtVars, sleepVars, timeVars>>

ResumeIrq == /\ At("resume")
             /\ IER' = IF running THEN irqTemp ELSE IER
             /\ pc' = "main"
             /\ UNCHANGED <<calVars, running, sleepVars, timeVars>>

(* cb_deep_sleep_control: the RC clock is set up so that a millisecond of  *)
(* it is taken to be 1.9; the processor restarts at the end.               *)
DeepRatio == <<19, 10>>

DeepSleep(d) == /\ At("main")
                /\ d <= MaxSleep
                /\ asked' = d
                /\ sleepValue' = Masked(SleepValue(d, DeepRatio))
                /\ pc' = "deep"
                /\ UNCHANGED <<calVars, wdtVars, irqTemp, timeVars>>

(* Everything is as at the start.                                          *)
WakeFromDeep ==
    /\ pc = "deep"
    /\ enRCCalMode' = "IDLE" /\ sRCCalibrationTimeInMs' = 0
    /\ sRC_lastCPUCount' = 0 /\ RC_CompensateRatio' = <<1, 1>>
    /\ handler' = FALSE /\ running' = FALSE /\ IER' = 0
    /\ pc' = "main" /\ asked' = 0 /\ sleepValue' = 0 /\ irqTemp' = 0
    /\ CYCCNT' = 0 /\ left' = 0 /\ due' = FALSE
-----------------------------------------------------------------------------
(* A millisecond of the RC clock, awake.  What the code does with the      *)
(* interrupt switched off takes less than one.                             *)
Tick == /\ pc \notin {"asleep", "deep"}
        /\ ~due
        /\ CYCCNT' = (CYCCNT + PerTick) % Wrap
        /\ IF running
             THEN /\ left' = IF left = 1 THEN sRCCalibrationTimeInMs ELSE left - 1
                  /\ due' = (left = 1)
             ELSE UNCHANGED <<left, due>>
        /\ UNCHANGED <<calVars, wdtVars, pc, sleepVars>>

Next == \/ Start("ONCE", OnceTime)
        \/ \E t \in Intervals : Start("PERIODIC", t)
        \/ Stop \/ NMI
        \/ \E d \in Durations : Sleep(d) \/ DeepSleep(d)
        \/ AskRunning \/ SaveIrq \/ SetTime \/ WakeUp \/ ResumeIrq
        \/ WakeFromDeep \/ Tick

Spec == Init /\ [][Next]_vars
-----------------------------------------------------------------------------
(* A calibration that was started and not ended goes on after a sleep,     *)
(* whenever the interrupt came in it; and none that was ended does         *)
(* (wdt_irq_temp_buf in cb_sleep_control).                                 *)
CalibrationGoesOn ==
    pc = "main" => /\ running = (enRCCalMode # "IDLE") /\ handler = running
                   /\ IER = IF running THEN 1 ELSE 0

(* The ratio is 1 or that of the clocks, however many sleeps and turns of  *)
(* the counters the interval had in it: an interval in which the cycle     *)
(* counter wraps right round gives no ratio, on an RC clock that is too    *)
(* fast (one that is too slow has intervals for which it does).            *)
RatioIsTrue == \/ RC_CompensateRatio = <<1, 1>>
               \/ RC_CompensateRatio[1] * Clock = RC_CompensateRatio[2] * PerTick

(* v RC milliseconds are d milliseconds, to half an RC millisecond.        *)
Right(v, d, r) == /\ 2 * (v * r[1] - d * r[2]) <= r[1]
                  /\ 2 * (d * r[2] - v * r[1]) <= r[1]

RightAtAll == \/ sleepValue = 1 /\ asked = 0
              \/ pc = "deep" /\ Right(sleepValue, asked, DeepRatio)
              \/ pc = "asleep" /\ \E r \in {<<1, 1>>, <<PerTick, Clock>>} :
                                     Right(sleepValue, asked, r)

(* A sleep that the timer is long enough for lasts as long as was asked,   *)
(* on a clock that has been calibrated or on one that has not.             *)
SleepsAsAsked ==
    pc \in {"asleep", "deep"} =>
        RightAtAll \/ 2 * asked * Clock >= (2 * MaxSleep + 1) * PerTick

(* A sleep that the timer is not long enough for lasts as long as it can:  *)
(* "if (sleep_value_to_set > DEF_MAX_VALUE_OF_SLEEPTIME)".                 *)
SleepsAsLongAsItCan ==
    pc \in {"asleep", "deep"} => RightAtAll \/ sleepValue = MaxSleep
=============================================================================
