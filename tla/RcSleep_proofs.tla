--------------------------- MODULE RcSleep_proofs ---------------------------
(***************************************************************************)
(* For all clocks, intervals and durations: a sleep leaves a calibration   *)
(* as it was, and the value for the timer is the nearest there is.  On a   *)
(* clock within the tolerated range, the ratio is that of the clocks and a *)
(* sleep lasts as long as was asked.                                       *)
(***************************************************************************)
EXTENDS RcSleep, TLAPS

(* While the program masks the interrupt, irqTemp has the setting of a     *)
(* watchdog that runs, and the interrupt cannot come.                      *)
IrqInv ==
    /\ pc \in Places
    /\ enRCCalMode \in {"IDLE", "ONCE", "PERIODIC"}
    /\ running = (enRCCalMode # "IDLE") /\ handler = running
    /\ pc \in {"main", "mask", "save", "deep"} =>
          IER = IF running THEN 1 ELSE 0
    /\ pc \in {"set", "asleep", "resume"} =>
          IER = 0 /\ (running => irqTemp = 1)

LEMMA InitIrqInv == Init => IrqInv
BY DEF Init, IrqInv, Places

LEMMA NextIrqInv == IrqInv /\ [Next]_vars => IrqInv'
<1> SUFFICES ASSUME IrqInv, [Next]_vars PROVE IrqInv'
  OBVIOUS
<1> USE DEF IrqInv, Places, At, Interrupted
<1>1. ASSUME NEW mode \in {"ONCE", "PERIODIC"}, NEW time, Start(mode, time)
      PROVE  IrqInv'
  BY <1>1 DEF Start, sleepVars
<1>2. CASE Stop
  BY <1>2 DEF Stop, StopCalibration, sleepVars
<1>3. CASE NMI
  <2>1. pc \in {"main", "mask", "save", "deep"} /\ handler
    BY <1>3 DEF NMI
  <2>2. CASE enRCCalMode = "ONCE"
    BY <1>3, <2>1, <2>2 DEF NMI, Calibrate, StopCalibration, sleepVars
  <2>3. CASE enRCCalMode # "ONCE"
    BY <1>3, <2>1, <2>3 DEF NMI, Calibrate, wdtVars, sleepVars
  <2> QED
    BY <2>2, <2>3
<1>4. ASSUME NEW d \in Durations, Sleep(d) \/ DeepSleep(d)
      PROVE  IrqInv'
  BY <1>4 DEF Sleep, DeepSleep, calVars, wdtVars
<1>5. CASE AskRunning
  BY <1>5 DEF AskRunning, calVars, wdtVars, sleepVars
<1>6. CASE SaveIrq
  BY <1>6 DEF SaveIrq, calVars
<1>7. CASE SetTime \/ WakeUp
  BY <1>7 DEF SetTime, WakeUp, calVars, wdtVars, sleepVars
<1>8. CASE ResumeIrq
  BY <1>8 DEF ResumeIrq, calVars, sleepVars
<1>9. CASE WakeFromDeep
  BY <1>9 DEF WakeFromDeep
<1>10. CASE Tick
  BY <1>10 DEF Tick, calVars, wdtVars, sleepVars
<1>11. CASE UNCHANGED vars
  BY <1>11 DEF vars, calVars, wdtVars, sleepVars
<1> QED
  BY <1>1, <1>2, <1>3, <1>4, <1>5, <1>6, <1>7, <1>8, <1>9, <1>10, <1>11 DEF Next

(* A sleep leaves the calibration and its interrupt as they were           *)
(* (wdt_irq_temp_buf in cb_sleep_control), whenever the interrupt came.    *)
THEOREM CalibrationSurvivesSleep == Spec => []CalibrationGoesOn
<1>1. IrqInv => CalibrationGoesOn
  BY DEF IrqInv, CalibrationGoesOn
<1> QED
  BY <1>1, InitIrqInv, NextIrqInv, PTL DEF Spec
-----------------------------------------------------------------------------
(* The remainder of a division, by its quotient.                           *)
LEMMA QuotientAndRest ==
    ASSUME NEW n \in Nat, NEW m \in Nat \ {0}
    PROVE  /\ n \div m \in Nat /\ n % m \in 0..(m - 1)
           /\ (n \div m) * m + (n % m) = n
BY Z3

(* The value for the timer is the nearest millisecond of the RC clock, for *)
(* any ratio, as long as what is not rounded up is within the timer's      *)
(* range (rounding consideration in cb_sleep_control).                     *)
THEOREM NearestValue ==
    ASSUME NEW d \in Nat \ {0}, NEW num \in Nat \ {0}, NEW den \in Nat \ {0},
           MaxSleep \in Nat,
           (d * den) \div num \in 1..MaxSleep
    PROVE  Right(SleepValue(d, <<num, den>>), d, <<num, den>>)
<1> DEFINE n == d * den
           q == n \div num
           rest == n % num
           v == SleepValue(d, <<num, den>>)
<1>1. n \in Nat
  OBVIOUS
<1>2. q \in Nat /\ rest \in 0..(num - 1) /\ q * num + rest = n
  BY <1>1, QuotientAndRest
<1>3. CASE 2 * rest >= num
  <2>1. v = q + 1
    BY <1>3 DEF SleepValue, HalfOver
  <2>2. v * num = q * num + num
    BY <1>2, <2>1
  <2> QED
    BY <1>1, <1>2, <1>3, <2>2 DEF Right
<1>4. CASE ~(2 * rest >= num)
  <2>1. v = q
    BY <1>4, <1>2 DEF SleepValue, HalfOver, InRange
  <2> QED
    BY <1>1, <1>2, <1>4, <2>1 DEF Right
<1> QED
  BY <1>3, <1>4
-----------------------------------------------------------------------------
(* The types.  A calibration that goes on has an interval, and the         *)
(* watchdog is inside it.                                                  *)
WatchdogInv ==
    /\ running => sRCCalibrationTimeInMs # 0 /\ left # 0
    /\ due => running /\ left = sRCCalibrationTimeInMs

LEMMA ConstantTypes ==
    /\ MaxSleep \in Nat \ {0} /\ Wrap \in Nat \ {0} /\ Clock \in Nat \ {0}
    /\ PerTick \in Nat \ {0} /\ OnceTime \in Nat \ {0} /\ MinCount \in Nat
    /\ Intervals \subseteq Nat \ {0} /\ Durations \subseteq Nat
BY RcAssumption

LEMMA TimesAreNat ==
    /\ 0 \in Times /\ OnceTime \in Times \ {0} /\ Intervals \subseteq Times \ {0}
    /\ \A t \in Times : t \in Nat
BY ConstantTypes DEF Times

LEMMA ModuloType ==
    ASSUME NEW n \in Int, NEW m \in Nat \ {0}
    PROVE  n % m \in 0..(m - 1)
BY Z3

LEMMA SleepValueType ==
    ASSUME NEW d \in Nat, NEW num \in Nat \ {0}, NEW den \in Nat
    PROVE  SleepValue(d, <<num, den>>) \in Nat
<1>1. d * den \in Nat
  OBVIOUS
<1>2. (d * den) \div num \in Nat
  BY <1>1, QuotientAndRest
<1> QED
  BY <1>2, ConstantTypes DEF SleepValue, InRange

LEMMA MaskedType ==
    ASSUME NEW v \in Nat
    PROVE  Masked(v) \in 0..MaxSleep
<1>1. MaxSleep + 1 \in Nat \ {0}
  BY ConstantTypes
<1>2. Masked(v) \in 0..((MaxSleep + 1) - 1)
  BY <1>1, ModuloType DEF Masked
<1> QED
  BY <1>2, ConstantTypes

LEMMA RatioType ==
    ASSUME TypeOK
    PROVE  /\ RC_CompensateRatio = <<RC_CompensateRatio[1], RC_CompensateRatio[2]>>
           /\ RC_CompensateRatio[1] \in Nat \ {0}
           /\ RC_CompensateRatio[2] \in Nat \ {0}
<1>1. \A t \in Times \ {0} : Clock * t \in Nat \ {0}
  <2> TAKE t \in Times \ {0}
  <2>1. t \in Nat \ {0} /\ Clock \in Nat \ {0}
    BY TimesAreNat, ConstantTypes
  <2> QED
    BY <2>1, Z3
<1> QED
  BY <1>1, ConstantTypes DEF TypeOK

TypeInv == TypeOK /\ IrqInv /\ WatchdogInv

LEMMA InitTypeInv == Init => TypeInv
<1>1. ASSUME Init PROVE TypeOK
  <2>1. <<1, 1>> \in (1..Wrap) \X ({1} \cup {Clock * t : t \in Times \ {0}})
    BY ConstantTypes
  <2>2. 0 \in 0..(Wrap - 1)
    BY ConstantTypes
  <2>3. {handler, running, due} \subseteq BOOLEAN
    BY <1>1, Zenon DEF Init
  <2> QED
    BY <1>1, <2>1, <2>2, <2>3, TimesAreNat DEF Init, TypeOK, Places
<1> QED
  BY <1>1, InitIrqInv DEF Init, TypeInv, WatchdogInv

LEMMA NextTypeInv == TypeInv /\ [Next]_vars => TypeInv'
<1> SUFFICES ASSUME TypeInv, [Next]_vars PROVE TypeInv'
  OBVIOUS
<1>0. IrqInv'
  BY NextIrqInv DEF TypeInv
<1> SUFFICES TypeOK' /\ WatchdogInv'
  BY <1>0 DEF TypeInv
<1> USE DEF Places, At, Interrupted
<1>1. ASSUME NEW mode \in {"ONCE", "PERIODIC"},
             NEW time \in Intervals \cup {OnceTime}, Start(mode, time)
      PROVE  TypeOK' /\ WatchdogInv'
  <2>1. time \in Times /\ time \in Nat \ {0}
    BY ConstantTypes, TimesAreNat
  <2>2. ~due
    BY <1>1 DEF Start, TypeInv, IrqInv, WatchdogInv
  <2> QED
    BY <1>1, <2>1, <2>2 DEF Start, TypeInv, TypeOK, WatchdogInv, sleepVars
<1>2. CASE Stop
  <2>1. ~due
    BY <1>2 DEF Stop, TypeInv, IrqInv, WatchdogInv
  <2>2. {handler', running', due'} \subseteq BOOLEAN
    <3>1. handler' \in BOOLEAN /\ running' = FALSE /\ due' = due
      BY <1>2, Zenon DEF Stop, StopCalibration, timeVars
    <3> QED
      BY <3>1 DEF TypeInv, TypeOK
  <2> QED
    BY <1>2, <2>1, <2>2 DEF Stop, StopCalibration, TypeInv, TypeOK, WatchdogInv,
       sleepVars, timeVars
<1>3. CASE NMI
  <2>1. handler /\ running /\ sRCCalibrationTimeInMs \in Times \ {0}
    BY <1>3 DEF NMI, TypeInv, TypeOK, IrqInv, WatchdogInv
  <2>2. Delta \in 0..(Wrap - 1)
    <3>1. CYCCNT - sRC_lastCPUCount \in Int /\ Wrap \in Nat \ {0}
      BY ConstantTypes DEF TypeInv, TypeOK
    <3> QED
      BY <3>1, ModuloType DEF Delta
  <2>3. RC_CompensateRatio' \in (1..Wrap) \X ({1} \cup {Clock * t : t \in Times \ {0}})
    <3>1. CASE RC_CompensateRatio' = RC_CompensateRatio
      BY <3>1 DEF TypeInv, TypeOK
    <3>2. CASE RC_CompensateRatio' # RC_CompensateRatio
      <4>1. /\ RC_CompensateRatio' = <<Delta, Clock * sRCCalibrationTimeInMs>>
            /\ Delta > MinCount
        BY <1>3, <2>1, <3>2 DEF NMI, Calibrate
      <4> QED
        BY <2>1, <2>2, <4>1, ConstantTypes
    <3> QED
      BY <3>1, <3>2
  <2>4. sRC_lastCPUCount' \in 0..(Wrap - 1)
    BY <1>3, <2>1 DEF NMI, Calibrate, TypeInv, TypeOK
  <2>5. CASE enRCCalMode = "ONCE"
    <3>1. handler' = FALSE
      BY <1>3, <2>1, <2>5 DEF NMI, Calibrate, StopCalibration
    <3>2. {handler', running', due'} \subseteq BOOLEAN
      BY <1>3, <2>1, <2>5, <3>1, Zenon DEF NMI, Calibrate, StopCalibration
    <3> QED
      BY <1>3, <2>1, <2>3, <2>4, <2>5, <3>2
      DEF NMI, Calibrate, StopCalibration, TypeInv, TypeOK, WatchdogInv,
          sleepVars
  <2>6. CASE enRCCalMode # "ONCE"
    BY <1>3, <2>1, <2>3, <2>4, <2>6
    DEF NMI, Calibrate, TypeInv, TypeOK, WatchdogInv, sleepVars, wdtVars
  <2> QED
    BY <2>5, <2>6
<1>4. ASSUME NEW d \in Durations, Sleep(d)
      PROVE  TypeOK' /\ WatchdogInv'
  <2>1. SleepValue(d, RC_CompensateRatio) \in Nat
    BY RatioType, SleepValueType, ConstantTypes DEF TypeInv
  <2> QED
    BY <1>4, <2>1
    DEF Sleep, TypeInv, TypeOK, WatchdogInv, calVars, wdtVars, timeVars
<1>5. ASSUME NEW d \in Durations, DeepSleep(d)
      PROVE  TypeOK' /\ WatchdogInv'
  <2>1. SleepValue(d, DeepRatio) \in Nat
    BY SleepValueType, ConstantTypes DEF DeepRatio
  <2>2. Masked(SleepValue(d, DeepRatio)) \in 0..MaxSleep
    BY <2>1, MaskedType
  <2> QED
    BY <1>5, <2>2, ConstantTypes
    DEF DeepSleep, TypeInv, TypeOK, WatchdogInv, calVars, wdtVars, timeVars
<1>6. CASE AskRunning \/ SaveIrq \/ WakeUp \/ ResumeIrq
  BY <1>6 DEF AskRunning, SaveIrq, WakeUp, ResumeIrq,
     TypeInv, TypeOK, WatchdogInv, calVars, wdtVars, sleepVars, timeVars
<1>7. CASE SetTime
  <2>1. Masked(sleepValue) \in 0..MaxSleep
    BY MaskedType DEF TypeInv, TypeOK
  <2> QED
    BY <1>7, <2>1, ConstantTypes
    DEF SetTime, TypeInv, TypeOK, WatchdogInv, calVars, wdtVars, timeVars
<1>8. CASE WakeFromDeep
  <2>1. <<1, 1>> \in (1..Wrap) \X ({1} \cup {Clock * t : t \in Times \ {0}})
    BY ConstantTypes
  <2>2. 0 \in 0..(Wrap - 1)
    BY ConstantTypes
  <2>3. {handler', running', due'} \subseteq BOOLEAN
    BY <1>8, Zenon DEF WakeFromDeep
  <2> QED
    BY <1>8, <2>1, <2>2, <2>3, TimesAreNat DEF WakeFromDeep, TypeOK, WatchdogInv
<1>9. CASE Tick
  <2>1. CYCCNT' \in 0..(Wrap - 1)
    <3>1. CYCCNT + PerTick \in Int /\ Wrap \in Nat \ {0}
      BY ConstantTypes DEF TypeInv, TypeOK
    <3> QED
      BY <1>9, <3>1, ModuloType DEF Tick
  <2>2. sRCCalibrationTimeInMs \in Nat /\ left \in 0..sRCCalibrationTimeInMs
    BY TimesAreNat DEF TypeInv, TypeOK
  <2> QED
    BY <1>9, <2>1, <2>2
    DEF Tick, TypeInv, TypeOK, WatchdogInv, calVars, wdtVars, sleepVars
<1>10. CASE UNCHANGED vars
  BY <1>10 DEF vars, TypeInv, TypeOK, WatchdogInv,
     calVars, wdtVars, sleepVars, timeVars
<1> QED
  BY <1>1, <1>2, <1>3, <1>4, <1>5, <1>6, <1>7, <1>8, <1>9, <1>10 DEF Next

(* Every variable keeps its type; a sleep is never longer than the timer   *)
(* can be set to.                                                          *)
THEOREM SleepTypes == Spec => []TypeOK
<1>1. TypeInv => TypeOK
  BY DEF TypeInv
<1> QED
  BY <1>1, InitTypeInv, NextTypeInv, PTL DEF Spec
-----------------------------------------------------------------------------
(* The ratio.  What is measured is one interval, or what is left of it     *)
(* when the cycle counter has wrapped, and `carry', the cycles of earlier  *)
(* intervals that were too short to be used.                               *)
PerInterval == sRCCalibrationTimeInMs * PerTick

Elapsed == IF due THEN sRCCalibrationTimeInMs
                  ELSE sRCCalibrationTimeInMs - left

Measured(carry, wraps) ==
    /\ CYCCNT = sRC_lastCPUCount + carry + Elapsed * PerTick - wraps * Wrap
    /\ carry = 0 \/ PerInterval % Wrap <= carry

CountInv ==
    running => \E carry \in 0..MinCount, wraps \in Int : Measured(carry, wraps)

RatioInv == TypeInv /\ CountInv /\ RatioIsTrue

(* The RC clock is too fast, by less than a third, and the counts that are *)
(* ignored are short.                                                      *)
FastClock == /\ 3 * Clock < 4 * PerTick
             /\ PerTick <= Clock
             /\ 4 * MinCount < Wrap

(* A number from 0 to m - 1 that differs from n by a multiple of m is the  *)
(* remainder of n.                                                         *)
LEMMA RestIsUnique ==
    ASSUME NEW m \in Nat \ {0}, NEW n \in Int, NEW r \in 0..(m - 1), NEW k \in Int,
           n = r + k * m
    PROVE  n % m = r
BY Z3

LEMMA MultiplesApart ==
    ASSUME NEW m \in Nat \ {0}, NEW k \in Int, k # 0
    PROVE  k * m >= m \/ k * m <= -m
BY Z3

(* Times of one interval on both clocks.                                   *)
LEMMA IntervalTypes ==
    ASSUME NEW t \in Nat \ {0}, FastClock
    PROVE  /\ t * PerTick \in Nat \ {0} /\ Clock * t \in Nat \ {0}
           /\ t * PerTick <= Clock * t
           /\ 3 * (Clock * t) < 4 * (t * PerTick)
<1>1. Clock \in Nat \ {0} /\ PerTick \in Nat \ {0}
      /\ 3 * Clock < 4 * PerTick /\ PerTick <= Clock
  BY ConstantTypes DEF FastClock
<1> QED
  BY <1>1, Z3

(* A plausible count is that of one interval that has not wrapped.         *)
LEMMA PlausibleIsOneInterval ==
    ASSUME NEW W \in Nat \ {0}, NEW T \in Nat \ {0}, NEW cycles \in Nat \ {0},
           NEW delta \in 0..(W - 1), NEW carry \in Nat, NEW s \in 0..(W - 1),
           NEW j \in Int, NEW k \in Int,
           T = s + j * W, delta = carry + T - k * W,
           carry = 0 \/ s <= carry,
           4 * carry < W,
           T <= cycles, 3 * cycles < 4 * T,
           Plausible(delta, cycles)
    PROVE  delta = T
<1>1. cycles <= 2 * delta /\ 2 * delta <= 3 * cycles
  BY DEF Plausible
<1> DEFINE m == k - j
<1>2. m \in Int /\ delta = carry + s - m * W
  <2>1. k * W = j * W + m * W
    OBVIOUS
  <2> QED
    BY <2>1
<1>3. m * W \in Int /\ j * W \in Int
  OBVIOUS
<1>4. carry + s < W
  OBVIOUS
<1> HIDE DEF m
<1>5. m = 0
  <2>1. CASE m # 0
    <3>1. m * W >= W \/ m * W <= -W
      BY <1>2, <2>1, MultiplesApart
    <3> QED
      BY <1>2, <1>3, <1>4, <3>1
  <2> QED
    BY <2>1
<1>6. delta = carry + s
  BY <1>2, <1>5
<1>7. j # 0 => T >= W
  <2>1. SUFFICES ASSUME j # 0 PROVE T >= W
    OBVIOUS
  <2>2. j * W >= W \/ j * W <= -W
    BY <2>1, MultiplesApart
  <2> QED
    BY <1>3, <2>2
<1>8. CASE j = 0
  <2>1. s = T
    BY <1>8
  <2> QED
    BY <1>1, <1>6, <2>1
<1>9. CASE j # 0 /\ carry = 0
  <2>1. k * W >= W \/ k = 0 \/ k * W <= -W
    BY MultiplesApart
  <2>2. k * W >= W
    BY <1>7, <1>9, <2>1
  <2> QED
    BY <1>1, <1>7, <1>9, <2>2
<1>10. CASE j # 0 /\ carry # 0
  BY <1>1, <1>6, <1>7, <1>10
<1> QED
  BY <1>8, <1>9, <1>10

LEMMA InitRatioInv == Init => RatioInv
BY InitTypeInv DEF Init, RatioInv, CountInv, RatioIsTrue

(* Nothing that the count depends on changes.                              *)
LEMMA CountStays ==
    ASSUME CountInv,
           UNCHANGED <<CYCCNT, sRC_lastCPUCount, sRCCalibrationTimeInMs,
                       left, due>>,
           running' => running
    PROVE  CountInv'
BY DEF CountInv, Measured, PerInterval, Elapsed

LEMMA StartCounts ==
    ASSUME TypeInv, NEW mode, NEW time \in Intervals \cup {OnceTime},
           Start(mode, time)
    PROVE  CountInv'
<1>1. ~due /\ due' = due
  BY DEF Start, At, Interrupted, TypeInv, IrqInv, WatchdogInv
<1>2. /\ CYCCNT' = CYCCNT /\ sRC_lastCPUCount' = CYCCNT
      /\ left' = time /\ sRCCalibrationTimeInMs' = time
  BY DEF Start
<1>3. CYCCNT \in Int /\ Wrap \in Int /\ PerTick \in Int /\ time \in Int
  BY ConstantTypes DEF TypeInv, TypeOK
<1>4. Elapsed' = 0
  BY <1>1, <1>2, <1>3 DEF Elapsed
<1>5. Measured(0, 0)'
  BY <1>2, <1>3, <1>4 DEF Measured
<1>6. 0 \in 0..MinCount /\ 0 \in Int
  BY ConstantTypes
<1> QED
  BY <1>5, <1>6 DEF CountInv

LEMMA TickCounts ==
    ASSUME TypeInv, CountInv, Tick
    PROVE  CountInv'
<1> SUFFICES ASSUME running' PROVE CountInv'
  BY DEF CountInv
<1>1. running /\ ~due
  BY DEF Tick, wdtVars
<1>2. /\ left \in 1..sRCCalibrationTimeInMs
      /\ sRCCalibrationTimeInMs \in Nat
      /\ CYCCNT \in Nat /\ sRC_lastCPUCount \in Nat
      /\ PerTick \in Nat \ {0} /\ Wrap \in Nat \ {0} /\ MinCount \in Nat
  BY <1>1, ConstantTypes, TimesAreNat DEF TypeInv, TypeOK, WatchdogInv
<1>3. Elapsed \in Nat /\ Elapsed' = Elapsed + 1
  <2>1. /\ sRCCalibrationTimeInMs' = sRCCalibrationTimeInMs
        /\ due' = (left = 1)
        /\ left' = IF left = 1 THEN sRCCalibrationTimeInMs ELSE left - 1
    BY <1>1 DEF Tick, calVars
  <2>2. CASE left = 1
    <3>1. due' /\ Elapsed' = sRCCalibrationTimeInMs
      BY <2>1, <2>2, Zenon DEF Elapsed
    <3>2. Elapsed = sRCCalibrationTimeInMs - left
      BY <1>1, Zenon DEF Elapsed
    <3> QED
      BY <1>2, <2>2, <3>1, <3>2
  <2>3. CASE left # 1
    <3>1. Elapsed' = sRCCalibrationTimeInMs - (left - 1)
      BY <2>1, <2>3, Zenon DEF Elapsed
    <3>2. Elapsed = sRCCalibrationTimeInMs - left
      BY <1>1, Zenon DEF Elapsed
    <3> QED
      BY <1>2, <2>3, <3>1, <3>2
  <2> QED
    BY <2>2, <2>3
<1>4. PICK carry \in 0..MinCount, wraps \in Int : Measured(carry, wraps)
  BY <1>1 DEF CountInv
<1>5. PICK turns \in Int : CYCCNT' = CYCCNT + PerTick - turns * Wrap
  <2>1. CYCCNT + PerTick \in Nat
    BY <1>2
  <2> DEFINE turns == (CYCCNT + PerTick) \div Wrap
  <2>2. /\ turns \in Nat /\ (CYCCNT + PerTick) % Wrap \in 0..(Wrap - 1)
        /\ turns * Wrap + ((CYCCNT + PerTick) % Wrap) = CYCCNT + PerTick
    BY <1>2, <2>1, QuotientAndRest
  <2>3. CYCCNT' = CYCCNT + PerTick - turns * Wrap
    BY <1>2, <2>2 DEF Tick
  <2> QED
    BY <2>2, <2>3
<1>6. Measured(carry, wraps + turns)'
  <2>1. Elapsed' * PerTick = Elapsed * PerTick + PerTick
    BY <1>2, <1>3
  <2>2. (wraps + turns) * Wrap = wraps * Wrap + turns * Wrap
    BY <1>2, <1>5
  <2>3. /\ sRC_lastCPUCount' = sRC_lastCPUCount
        /\ sRCCalibrationTimeInMs' = sRCCalibrationTimeInMs
    BY DEF Tick, calVars
  <2>4. CYCCNT = sRC_lastCPUCount + carry + Elapsed * PerTick - wraps * Wrap
    BY <1>4 DEF Measured
  <2>5. /\ Elapsed * PerTick \in Int /\ wraps * Wrap \in Int
        /\ turns * Wrap \in Int
    BY <1>2, <1>3, <1>5
  <2>6. CYCCNT' = sRC_lastCPUCount' + carry + Elapsed' * PerTick
                     - (wraps + turns) * Wrap
    <3> DEFINE a == Elapsed * PerTick
               b == wraps * Wrap
               c == turns * Wrap
    <3>1. /\ a \in Int /\ b \in Int /\ c \in Int
          /\ CYCCNT = sRC_lastCPUCount + carry + a - b
          /\ CYCCNT' = CYCCNT + PerTick - c
          /\ Elapsed' * PerTick = a + PerTick
          /\ (wraps + turns) * Wrap = b + c
      BY <1>5, <2>1, <2>2, <2>4, <2>5
    <3> HIDE DEF a, b, c
    <3> QED
      BY <1>2, <2>3, <3>1
  <2>7. carry = 0 \/ PerInterval % Wrap <= carry
    BY <1>4 DEF Measured
  <2>8. PerInterval' % Wrap = PerInterval % Wrap
    BY <2>3 DEF PerInterval
  <2> QED
    BY <2>6, <2>7, <2>8 DEF Measured
<1>7. wraps + turns \in Int
  BY <1>5
<1> QED
  BY <1>6, <1>7 DEF CountInv

(* At the interrupt: the count that was made, and what becomes of it.      *)
LEMMA NMICounts ==
    ASSUME TypeInv, CountInv, RatioIsTrue, FastClock, NMI
    PROVE  CountInv' /\ RatioIsTrue'
<1>1. /\ handler /\ running /\ due
      /\ sRCCalibrationTimeInMs \in Times \ {0}
      /\ left = sRCCalibrationTimeInMs
  BY DEF NMI, Interrupted, TypeInv, TypeOK, IrqInv, WatchdogInv
<1>2. /\ sRCCalibrationTimeInMs \in Nat \ {0}
      /\ CYCCNT \in 0..(Wrap - 1) /\ sRC_lastCPUCount \in 0..(Wrap - 1)
      /\ PerTick \in Nat \ {0} /\ Wrap \in Nat \ {0} /\ MinCount \in Nat
      /\ Clock \in Nat \ {0}
  BY <1>1, ConstantTypes, TimesAreNat DEF TypeInv, TypeOK
<1> DEFINE T == PerInterval
           cycles == Clock * sRCCalibrationTimeInMs
           s == T % Wrap
           j == T \div Wrap
<1>3. /\ T \in Nat \ {0} /\ cycles \in Nat \ {0}
      /\ T <= cycles /\ 3 * cycles < 4 * T
  BY <1>2, IntervalTypes DEF PerInterval
<1>4. s \in 0..(Wrap - 1) /\ j \in Int /\ T = s + j * Wrap
  <2>1. T \in Nat
    BY <1>3
  <2>2. j \in Nat /\ s \in 0..(Wrap - 1) /\ j * Wrap + s = T
    BY <1>2, <2>1, QuotientAndRest
  <2> QED
    BY <1>2, <2>2
<1>5. PICK carry \in 0..MinCount, wraps \in Int : Measured(carry, wraps)
  BY <1>1 DEF CountInv
<1>6. CYCCNT - sRC_lastCPUCount = carry + T - wraps * Wrap
  <2>1. CYCCNT = sRC_lastCPUCount + carry + T - wraps * Wrap
    BY <1>1, <1>5 DEF Measured, Elapsed, PerInterval
  <2>2. T \in Int /\ wraps * Wrap \in Int
    BY <1>2, <1>3
  <2> QED
    BY <1>2, <2>1, <2>2
<1>7. Delta \in 0..(Wrap - 1)
  <2>1. CYCCNT - sRC_lastCPUCount \in Int
    BY <1>2
  <2> QED
    BY <1>2, <2>1, ModuloType DEF Delta
<1>8. PICK k \in Int : Delta = carry + T - k * Wrap
  <2> DEFINE x == CYCCNT - sRC_lastCPUCount
  <2>1. CASE x >= 0
    <3>1. x = Delta
      BY <1>2, <2>1, RestIsUnique DEF Delta
    <3> QED
      BY <1>6, <3>1
  <2>2. CASE x < 0
    <3>1. x + Wrap \in 0..(Wrap - 1) /\ x = (x + Wrap) + (-1) * Wrap /\ x \in Int
      BY <1>2, <2>2
    <3>2. x % Wrap = x + Wrap
      BY <1>2, <3>1, RestIsUnique
    <3>3. Delta = carry + T - wraps * Wrap + Wrap
      BY <1>6, <3>2 DEF Delta
    <3>4. (wraps - 1) * Wrap = wraps * Wrap - Wrap
      BY <1>2
    <3>5. T \in Int /\ wraps * Wrap \in Int /\ carry \in Int
      BY <1>2, <1>3
    <3>6. Delta = carry + T - (wraps - 1) * Wrap
      BY <1>2, <3>3, <3>4, <3>5
    <3> QED
      BY <3>6
  <2> QED
    BY <1>2, <2>1, <2>2
<1>9. carry = 0 \/ s <= carry
  BY <1>5 DEF Measured
<1>10. 4 * carry < Wrap /\ carry \in Nat
  BY <1>2 DEF FastClock
<1> HIDE DEF T, cycles, s, j
<1>11. RatioIsTrue'
  <2>1. CASE RC_CompensateRatio' = RC_CompensateRatio
    BY <2>1 DEF RatioIsTrue
  <2>2. CASE RC_CompensateRatio' # RC_CompensateRatio
    <3>1. RC_CompensateRatio' = <<Delta, cycles>> /\ Plausible(Delta, cycles)
      BY <1>1, <2>2 DEF NMI, Calibrate, cycles
    <3>2. Delta = T
      BY <1>2, <1>3, <1>4, <1>7, <1>8, <1>9, <1>10, <3>1, PlausibleIsOneInterval
    <3>3. T * Clock = cycles * PerTick
      BY <1>2 DEF T, cycles, PerInterval
    <3> QED
      BY <3>1, <3>2, <3>3 DEF RatioIsTrue
  <2> QED
    BY <2>1, <2>2
<1>12. CountInv'
  <2> SUFFICES ASSUME running' PROVE CountInv'
    BY DEF CountInv
  <2>1. /\ due' = FALSE /\ left' = left /\ CYCCNT' = CYCCNT
        /\ sRCCalibrationTimeInMs' = sRCCalibrationTimeInMs
        /\ sRC_lastCPUCount' = IF Delta > MinCount THEN CYCCNT
                                                   ELSE sRC_lastCPUCount
    BY <1>1 DEF NMI, Calibrate
  <2>2. Elapsed' = 0
    BY <1>1, <1>2, <2>1 DEF Elapsed
  <2>3. PerInterval' % Wrap = s
    BY <2>1 DEF PerInterval, s, T
  <2>4. CASE Delta > MinCount
    <3>1. Measured(0, 0)'
      BY <1>2, <2>1, <2>2, <2>4 DEF Measured
    <3>2. 0 \in 0..MinCount /\ 0 \in Int
      BY <1>2
    <3> QED
      BY <3>1, <3>2 DEF CountInv
  <2>5. CASE ~(Delta > MinCount)
    <3>1. Delta \in 0..MinCount
      BY <1>2, <1>7, <2>5
    <3>2. Delta = 0 \/ s <= Delta
      <4>1. (j - k) * Wrap = j * Wrap - k * Wrap
        BY <1>2, <1>4
      <4>2. j * Wrap \in Int /\ k * Wrap \in Int
        BY <1>2, <1>4
      <4>3. Delta = carry + s + (j - k) * Wrap
        BY <1>2, <1>3, <1>4, <1>8, <1>10, <4>1, <4>2
      <4>4. j - k = 0 \/ (j - k) * Wrap >= Wrap \/ (j - k) * Wrap <= -Wrap
        BY <1>2, <1>4, MultiplesApart
      <4>5. (j - k) * Wrap \in Int
        BY <1>2, <1>4
      <4>6. CASE j - k = 0
        <5>1. Delta = carry + s
          BY <1>2, <1>4, <4>3, <4>6
        <5> QED
          BY <1>4, <1>7, <1>10, <5>1
      <4>7. CASE (j - k) * Wrap >= Wrap
        BY <1>2, <1>4, <1>7, <1>10, <4>3, <4>5, <4>7
      <4>8. CASE (j - k) * Wrap <= -Wrap
        BY <1>2, <1>4, <1>7, <1>9, <1>10, <4>3, <4>5, <4>8
      <4> QED
        BY <4>4, <4>6, <4>7, <4>8
    <3>3. PICK w \in Int : CYCCNT = sRC_lastCPUCount + Delta - w * Wrap
      <4>1. /\ Delta = carry + T - k * Wrap
            /\ CYCCNT - sRC_lastCPUCount = carry + T - wraps * Wrap
        BY <1>6, <1>8
      <4>2. (wraps - k) * Wrap = wraps * Wrap - k * Wrap
        BY <1>2
      <4>3. wraps * Wrap \in Int /\ k * Wrap \in Int /\ T \in Int
        BY <1>2, <1>3
      <4>4. CYCCNT = sRC_lastCPUCount + Delta - (wraps - k) * Wrap
        BY <1>2, <1>7, <1>10, <4>1, <4>2, <4>3
      <4> QED
        BY <4>4
    <3>4. Measured(Delta, w)'
      <4>1. Delta' = Delta
        BY <2>1, <2>5 DEF Delta
      <4>2. CYCCNT' = sRC_lastCPUCount' + Delta + Elapsed' * PerTick - w * Wrap
        BY <1>2, <1>7, <2>1, <2>2, <2>5, <3>3
      <4> QED
        BY <2>3, <3>2, <4>1, <4>2 DEF Measured
    <3>5. Delta' \in 0..MinCount
      BY <2>1, <2>5, <3>1 DEF Delta
    <3> QED
      BY <3>4, <3>5 DEF CountInv
  <2> QED
    BY <2>4, <2>5
<1> QED
  BY <1>11, <1>12

LEMMA NextRatioInv ==
    ASSUME FastClock, RatioInv, [Next]_vars
    PROVE  RatioInv'
<1>0. TypeInv /\ CountInv /\ RatioIsTrue /\ TypeInv'
  BY NextTypeInv DEF RatioInv
<1> SUFFICES CountInv' /\ RatioIsTrue'
  BY <1>0 DEF RatioInv
<1> USE DEF RatioIsTrue
<1>1. ASSUME NEW mode, NEW time \in Intervals \cup {OnceTime}, Start(mode, time)
      PROVE  CountInv' /\ RatioIsTrue'
  BY <1>0, <1>1, StartCounts DEF Start
<1>2. CASE Stop
  BY <1>0, <1>2, CountStays DEF Stop, StopCalibration, timeVars
<1>3. CASE NMI
  BY <1>0, <1>3, NMICounts
<1>4. ASSUME NEW d \in Durations, Sleep(d) \/ DeepSleep(d)
      PROVE  CountInv' /\ RatioIsTrue'
  BY <1>0, <1>4, CountStays DEF Sleep, DeepSleep, calVars, wdtVars, timeVars
<1>5. CASE AskRunning \/ SaveIrq \/ SetTime \/ WakeUp \/ ResumeIrq
  BY <1>0, <1>5, CountStays
  DEF AskRunning, SaveIrq, SetTime, WakeUp, ResumeIrq, calVars, wdtVars, timeVars
<1>6. CASE WakeFromDeep
  BY <1>6 DEF WakeFromDeep, CountInv
<1>7. CASE Tick
  BY <1>0, <1>7, TickCounts DEF Tick, calVars
<1>8. CASE UNCHANGED vars
  BY <1>0, <1>8, CountStays DEF vars, calVars, wdtVars, timeVars
<1> QED
  BY <1>1, <1>2, <1>3, <1>4, <1>5, <1>6, <1>7, <1>8 DEF Next

(* On an RC clock that is too fast, by less than a third, the ratio kept   *)
(* is that of the clocks (cb_rc_calibration_callback_handler), for all     *)
(* intervals: neither one in which the cycle counter wraps nor one after   *)
(* counts too short to be used gives another.                              *)
THEOREM RatioOfTheClocks == ASSUME FastClock PROVE Spec => []RatioIsTrue
<1>1. RatioInv => RatioIsTrue
  BY DEF RatioInv
<1>2. RatioInv /\ [Next]_vars => RatioInv'
  BY NextRatioInv
<1> QED
  BY <1>1, <1>2, InitRatioInv, PTL DEF Spec
-----------------------------------------------------------------------------
(* The value for the timer, from the call to the sleep: right on one of    *)
(* the two clocks, or asked for too long.                                  *)
TooLong(d) == 2 * d * Clock >= (2 * MaxSleep + 1) * PerTick

GoodValue(v, d) ==
    \/ TooLong(d)
    \/ /\ v \in 0..MaxSleep
       /\ \/ v = 1 /\ d = 0
          \/ \E r \in {<<1, 1>>, <<PerTick, Clock>>} : Right(v, d, r)

SleepInv ==
    /\ pc \in {"mask", "save", "set", "asleep"} => GoodValue(sleepValue, asked)
    /\ pc = "deep" => \/ sleepValue = 1 /\ asked = 0
                      \/ Right(sleepValue, asked, DeepRatio)

LEMMA ValueOfZero ==
    ASSUME NEW num \in Nat \ {0}, NEW den \in Nat \ {0}
    PROVE  SleepValue(0, <<num, den>>) = 1
<1>1. 0 * den = 0
  OBVIOUS
<1>2. 0 \div num = 0 /\ 0 % num = 0
  BY Z3
<1> QED
  BY <1>1, <1>2 DEF SleepValue, HalfOver, InRange

(* A value that is right for one ratio is right for an equal one.          *)
LEMMA EqualRatios ==
    ASSUME NEW v \in Nat, NEW d \in Nat, NEW a \in Nat \ {0}, NEW b \in Nat \ {0},
           NEW p \in Nat \ {0}, NEW c \in Nat \ {0}, a * c = b * p,
           Right(v, d, <<a, b>>)
    PROVE  Right(v, d, <<p, c>>)
<1> DEFINE x == v * a - d * b
           y == v * p - d * c
<1>1. x \in Int /\ y \in Int
  OBVIOUS
<1>2. x * c = y * b
  <2>1. (v * a) * c = v * (a * c) /\ v * (b * p) = (v * p) * b
    BY Z3
  <2>2. (d * b) * c = (d * c) * b
    BY Z3
  <2>3. x * c = (v * a) * c - (d * b) * c
    BY Z3
  <2>4. y * b = (v * p) * b - (d * c) * b
    BY Z3
  <2>5. (v * a) * c = (v * p) * b
    BY <2>1
  <2> QED
    BY <2>2, <2>3, <2>4, <2>5
<1>3. 2 * x <= a /\ 2 * (-x) <= a
  BY DEF Right
<1> HIDE DEF x, y
<1>4. 2 * (x * c) <= a * c /\ 2 * (-(x * c)) <= a * c
  BY <1>1, <1>3, Z3
<1>5. 2 * (y * b) <= p * b /\ 2 * (-(y * b)) <= p * b
  BY <1>1, <1>2, <1>4, Z3
<1>6. 2 * y <= p /\ 2 * (-y) <= p
  BY <1>1, <1>5, Z3
<1> QED
  BY <1>1, <1>6 DEF Right, y

LEMMA EqualLengths ==
    ASSUME NEW d \in Nat, NEW m \in Nat, NEW a \in Nat \ {0}, NEW b \in Nat \ {0},
           NEW p \in Nat \ {0}, NEW c \in Nat \ {0}, a * c = b * p,
           2 * (d * b) >= m * a
    PROVE  2 * d * c >= m * p
<1>1. 2 * (d * b) * c >= (m * a) * c
  BY Z3
<1>2. 2 * (d * b) * c = (2 * d * c) * b
  BY Z3
<1>3. (m * a) * c = (m * p) * b
  <2>1. (m * a) * c = m * (a * c) /\ m * (b * p) = (m * p) * b
    BY Z3
  <2> QED
    BY <2>1
<1>4. (2 * d * c) * b >= (m * p) * b
  BY <1>1, <1>2, <1>3
<1> DEFINE x == 2 * d * c
           y == m * p
<1>5. x \in Int /\ y \in Int /\ x * b >= y * b
  BY <1>4
<1> HIDE DEF x, y
<1>6. x >= y
  BY <1>5, Z3
<1> QED
  BY <1>6 DEF x, y

(* The value for a duration by the ratio of the clocks.                    *)
LEMMA ValueIsGood ==
    ASSUME FastClock, TypeOK, RatioIsTrue, NEW d \in Nat, d <= MaxSleep
    PROVE  GoodValue(SleepValue(d, RC_CompensateRatio), d)
<1> DEFINE a == RC_CompensateRatio[1]
           b == RC_CompensateRatio[2]
           v == SleepValue(d, <<a, b>>)
           q == (d * b) \div a
           rest == (d * b) % a
<1>1. RC_CompensateRatio = <<a, b>> /\ a \in Nat \ {0} /\ b \in Nat \ {0}
  BY RatioType
<1>2. MaxSleep \in Nat \ {0} /\ Clock \in Nat \ {0} /\ PerTick \in Nat \ {0}
  BY ConstantTypes
<1> SUFFICES GoodValue(v, d)
  BY <1>1
<1>3. CASE d = 0
  <2>1. v = 1
    BY <1>1, <1>3, ValueOfZero
  <2> QED
    BY <1>2, <1>3, <2>1 DEF GoodValue
<1>4. CASE d # 0 /\ RC_CompensateRatio = <<1, 1>>
  <2>1. a = 1 /\ b = 1
    BY <1>4
  <2>2. d * 1 = d /\ d \div 1 = d /\ d % 1 = 0
    BY Z3
  <2>3. v = d
    BY <1>2, <1>4, <2>1, <2>2 DEF SleepValue, HalfOver, InRange
  <2>4. Right(d, d, <<1, 1>>)
    BY DEF Right
  <2> QED
    BY <2>3, <2>4 DEF GoodValue
<1>5. CASE d # 0 /\ a * Clock = b * PerTick
  <2> SUFFICES ASSUME ~TooLong(d) PROVE GoodValue(v, d)
    BY DEF GoodValue
  <2>1. d * b \in Nat
    BY <1>1
  <2>2. q \in Nat /\ rest \in 0..(a - 1) /\ q * a + rest = d * b
    BY <1>1, <2>1, QuotientAndRest
  <2>3. ~(2 * (d * b) >= (2 * MaxSleep + 1) * a)
    <3>1. 2 * MaxSleep + 1 \in Nat
      BY <1>2
    <3> QED
      BY <1>1, <1>2, <1>5, <3>1, EqualLengths DEF TooLong
  <2>4. v = IF 2 * rest >= a THEN q + 1 ELSE InRange(q)
    BY DEF SleepValue, HalfOver
  <2>5. a <= b
    <3>1. PerTick <= Clock
      BY DEF FastClock
    <3>2. b * PerTick <= b * Clock
      BY <1>1, <1>2, <3>1, Z3
    <3>3. a * Clock <= b * Clock
      BY <1>5, <3>2
    <3> QED
      BY <1>1, <1>2, <3>3, Z3
  <2>6. q # 0
    <3> SUFFICES ASSUME q = 0 PROVE FALSE
      OBVIOUS
    <3>1. d * b >= b
      BY <1>1, <1>5, Z3
    <3>2. d * b = rest
      BY <1>1, <2>2
    <3> QED
      BY <1>1, <2>1, <2>2, <2>5, <3>1, <3>2
  <2> HIDE DEF q, rest, a, b, v
  <2>7. q <= MaxSleep
    <3> SUFFICES ASSUME q >= MaxSleep + 1 PROVE FALSE
      BY <1>2, <2>2
    <3>1. 2 * (q * a) >= (2 * MaxSleep + 2) * a
      BY <1>1, <1>2, <2>2, Z3
    <3>2. (2 * MaxSleep + 2) * a = (2 * MaxSleep + 1) * a + a
      BY <1>1, <1>2, Z3
    <3>3. (2 * MaxSleep + 1) * a \in Int /\ q * a \in Int
      BY <1>1, <1>2, <2>2
    <3> QED
      BY <1>1, <2>1, <2>2, <2>3, <3>1, <3>2, <3>3
  <2>8. 2 * rest >= a => q + 1 <= MaxSleep
    <3> SUFFICES ASSUME 2 * rest >= a, q = MaxSleep PROVE FALSE
      BY <1>2, <2>2, <2>7
    <3>1. 2 * (q * a) = (2 * MaxSleep) * a
      BY <1>1, <1>2, <2>2, Z3
    <3>2. (2 * MaxSleep + 1) * a = (2 * MaxSleep) * a + a
      BY <1>1, <1>2, Z3
    <3>3. (2 * MaxSleep) * a \in Int /\ q * a \in Int
      BY <1>1, <1>2, <2>2
    <3> QED
      BY <1>1, <2>1, <2>2, <2>3, <3>1, <3>2, <3>3
  <2>9. v \in 0..MaxSleep
    BY <1>1, <1>2, <2>2, <2>4, <2>6, <2>7, <2>8 DEF InRange
  <2>10. Right(v, d, <<a, b>>)
    <3>1. d \in Nat \ {0} /\ (d * b) \div a \in 1..MaxSleep
      BY <1>2, <1>5, <2>2, <2>6, <2>7 DEF q
    <3> QED
      BY <1>1, <1>2, <3>1, NearestValue DEF v
  <2>11. Right(v, d, <<PerTick, Clock>>)
    BY <1>1, <1>2, <1>5, <2>9, <2>10, EqualRatios
  <2> QED
    BY <2>9, <2>11 DEF GoodValue
<1> QED
  BY <1>3, <1>4, <1>5 DEF RatioIsTrue

(* The value for a duration by the ratio of the deep sleep.                *)
LEMMA DeepValueIsRight ==
    ASSUME NEW d \in Nat, d <= MaxSleep
    PROVE  LET v == SleepValue(d, DeepRatio)
           IN  /\ v \in 0..MaxSleep
               /\ (v = 1 /\ d = 0) \/ Right(v, d, DeepRatio)
<1> DEFINE v == SleepValue(d, DeepRatio)
           q == (d * 10) \div 19
           rest == (d * 10) % 19
<1>1. MaxSleep \in Nat \ {0}
  BY ConstantTypes
<1>2. q \in Nat /\ rest \in 0..18 /\ q * 19 + rest = d * 10
  <2>1. d * 10 \in Nat /\ 19 \in Nat \ {0}
    OBVIOUS
  <2> QED
    BY <2>1, QuotientAndRest
<1>3. v = IF 2 * rest >= 19 THEN q + 1 ELSE InRange(q)
  BY DEF SleepValue, HalfOver, DeepRatio
<1> HIDE DEF q, rest, v
<1>4. (v = 1 /\ d = 0) \/ Right(v, d, DeepRatio)
  BY <1>1, <1>2, <1>3 DEF InRange, Right, DeepRatio
<1>5. v \in 0..MaxSleep
  BY <1>1, <1>2, <1>3 DEF InRange
<1> QED
  BY <1>4, <1>5 DEF v

LEMMA MaskedInRange ==
    ASSUME NEW v \in 0..MaxSleep
    PROVE  Masked(v) = v
<1>1. MaxSleep + 1 \in Nat \ {0} /\ v \in 0..((MaxSleep + 1) - 1) /\ v \in Int
      /\ v = v + 0 * (MaxSleep + 1)
  BY ConstantTypes
<1> QED
  BY <1>1, RestIsUnique DEF Masked

SleepsInv == RatioInv /\ SleepInv

LEMMA NextSleepsInv ==
    ASSUME FastClock, SleepsInv, [Next]_vars
    PROVE  SleepsInv'
<1>0. RatioInv /\ SleepInv /\ TypeOK /\ RatioIsTrue /\ RatioInv'
  BY NextRatioInv DEF SleepsInv, RatioInv, TypeInv
<1> SUFFICES SleepInv'
  BY <1>0 DEF SleepsInv
<1> USE DEF At
<1>1. ASSUME NEW mode, NEW time, Start(mode, time)
      PROVE  SleepInv'
  BY <1>1 DEF Start, SleepInv
<1>2. CASE Stop
  BY <1>2 DEF Stop, SleepInv
<1>3. CASE NMI
  BY <1>0, <1>3 DEF NMI, SleepInv, sleepVars
<1>4. ASSUME NEW d \in Durations, Sleep(d)
      PROVE  SleepInv'
  BY <1>0, <1>4, ValueIsGood, ConstantTypes DEF Sleep, SleepInv
<1>5. ASSUME NEW d \in Durations, DeepSleep(d)
      PROVE  SleepInv'
  BY <1>0, <1>5, DeepValueIsRight, MaskedInRange, ConstantTypes
  DEF DeepSleep, SleepInv
<1>6. CASE AskRunning \/ SaveIrq
  BY <1>0, <1>6 DEF AskRunning, SaveIrq, SleepInv, sleepVars
<1>7. CASE SetTime
  <2>1. GoodValue(sleepValue, asked)
    BY <1>0, <1>7 DEF SetTime, SleepInv
  <2>2. GoodValue(Masked(sleepValue), asked)
    BY <2>1, MaskedInRange DEF GoodValue
  <2> QED
    BY <1>7, <2>2 DEF SetTime, SleepInv
<1>8. CASE WakeUp \/ ResumeIrq \/ WakeFromDeep
  BY <1>8 DEF WakeUp, ResumeIrq, WakeFromDeep, SleepInv
<1>9. CASE Tick
  BY <1>0, <1>9 DEF Tick, SleepInv, sleepVars
<1>10. CASE UNCHANGED vars
  BY <1>0, <1>10 DEF vars, SleepInv, sleepVars
<1> QED
  BY <1>1, <1>2, <1>3, <1>4, <1>5, <1>6, <1>7, <1>8, <1>9, <1>10 DEF Next

(* Both sleeps last as long as was asked, to half an RC millisecond, of    *)
(* the clock that was calibrated or of one that was not, unless the timer  *)
(* is not long enough (cb_sleep_control, cb_deep_sleep_control).           *)
THEOREM SleepLastsAsAsked == ASSUME FastClock PROVE Spec => []SleepsAsAsked
<1>1. Init => SleepsInv
  BY InitRatioInv DEF Init, SleepsInv, SleepInv
<1>2. SleepsInv /\ [Next]_vars => SleepsInv'
  BY NextSleepsInv
<1>3. SleepsInv => SleepsAsAsked
  BY DEF SleepsInv, SleepInv, SleepsAsAsked, RightAtAll, GoodValue, TooLong
<1> QED
  BY <1>1, <1>2, <1>3, PTL DEF Spec
=============================================================================
