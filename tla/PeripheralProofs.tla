-------------------------- MODULE PeripheralProofs --------------------------
(***************************************************************************)
(* Theorems about the devices: the invariants of Vl6180x, for any number   *)
(* of settings and of polls and any set of faults; ShownIsMeasured of      *)
(* Sensors, for every sample of the ADC and every value of a sensor        *)
(* driver; LedShowsMode of StatusLed, for any number of callers; and what  *)
(* the outputs of Actuators carry, for every set of pins, every width of   *)
(* int and every fault.                                                    *)
(***************************************************************************)
EXTENDS Vl6180x, Sensors, StatusLed, Actuators, SequenceTheorems, TLAPS

-----------------------------------------------------------------------------
(* The range sensor.                                                       *)

\* The mandatory settings are received in their order, and while they are being
\* written the sensor still says that it is fresh.
SetUpInv ==
    /\ FreshUntilSetUp
    /\ pc = "mandatory" => 1 .. setting - 1 \subseteq settings

\* Unless a call was cut off, the sensor is at rest between the calls, and during
\* a call it works on the measurement of that call or has finished it.
SampleInv ==
    ~cut_off =>
        /\ pc \in {"boot", "mandatory", "public", "idle"}
              => ~intr /\ measuring = "none"
        /\ pc = "poll" =>
              \/ measuring = "own" /\ ~intr
              \/ measuring = "none" /\ range_val = "own"
        /\ pc \in {"read", "clear"} => measuring = "none" /\ range_val = "own"
        /\ pc = "clear" => range_mm = "own"

RangeInv == Vl6180xTypeOK /\ SetUpInv /\ SampleInv

\* The start state satisfies the invariant.
LEMMA RangeInitial == Init => RangeInv
  <1> SUFFICES ASSUME Init PROVE RangeInv
    OBVIOUS
  <1>1. CounterTypeOK
    BY Vl6180xAssumption DEF Init, CounterTypeOK
  <1>2. FlagTypeOK /\ SampleTypeOK
    BY DEF Init, FlagTypeOK, SampleTypeOK, Ages
  <1>3. SetUpInv /\ SampleInv
    BY DEF Init, SetUpInv, FreshUntilSetUp, SampleInv
  <1> QED
    BY <1>1, <1>2, <1>3 DEF RangeInv, Vl6180xTypeOK

\* The counters stay within their bounds: the polls of a call end at zero.
LEMMA CounterStep == RangeInv /\ [Next]_vars => CounterTypeOK'
  <1> SUFFICES ASSUME RangeInv, [Next]_vars PROVE CounterTypeOK'
    OBVIOUS
  <1>0. CounterTypeOK
    BY DEF RangeInv, Vl6180xTypeOK
  <1> USE <1>0, Vl6180xAssumption DEF CounterTypeOK, setupVars, sampleVars
  <1>1. CASE Probe
    BY <1>1 DEF Probe
  <1>2. CASE MandatoryWrite
    BY <1>2 DEF MandatoryWrite
  <1>3. CASE MandatoryEnd
    BY <1>3 DEF MandatoryEnd
  <1>4. CASE PublicConfig
    BY <1>4 DEF PublicConfig
  <1>5. CASE Poll
    BY <1>5 DEF Poll, CutOff
  <1>6. CASE Read
    BY <1>6 DEF Read, CutOff
  <1>7. CASE Clear
    BY <1>7 DEF Clear, CutOff
  <1>8. CASE Start
    BY <1>8 DEF Start
  <1>9. CASE Finish
    BY <1>9 DEF Finish
  <1>10. CASE Reboot
    BY <1>10 DEF Reboot, DriverRestarts
  <1>11. CASE PowerCycle
    BY <1>11 DEF PowerCycle, DriverRestarts
  <1>12. CASE UNCHANGED vars
    BY <1>12 DEF vars
  <1> QED
    BY <1>1, <1>2, <1>3, <1>4, <1>5, <1>6, <1>7, <1>8, <1>9, <1>10,
       <1>11, <1>12 DEF Next, Driver

\* The flags of the driver and the sensor stay Boolean.
LEMMA FlagStep == RangeInv /\ [Next]_vars => FlagTypeOK'
  <1> SUFFICES ASSUME RangeInv, [Next]_vars PROVE FlagTypeOK'
    OBVIOUS
  <1>0. FlagTypeOK
    BY DEF RangeInv, Vl6180xTypeOK
  <1> USE <1>0 DEF FlagTypeOK, setupVars, sampleVars
  <1>1. CASE Probe
    BY <1>1 DEF Probe
  <1>2. CASE MandatoryWrite
    BY <1>2 DEF MandatoryWrite
  <1>3. CASE MandatoryEnd
    BY <1>3 DEF MandatoryEnd
  <1>4. CASE PublicConfig
    BY <1>4 DEF PublicConfig
  <1>5. CASE Poll
    BY <1>5 DEF Poll, CutOff
  <1>6. CASE Read
    BY <1>6 DEF Read, CutOff
  <1>7. CASE Clear
    BY <1>7 DEF Clear, CutOff
  <1>8. CASE Start
    BY <1>8 DEF Start
  <1>9. CASE Finish
    BY <1>9 DEF Finish
  <1>10. CASE Reboot
    BY <1>10 DEF Reboot, DriverRestarts
  <1>11. CASE PowerCycle
    BY <1>11 DEF PowerCycle, DriverRestarts
  <1>12. CASE UNCHANGED vars
    BY <1>12 DEF vars
  <1> QED
    BY <1>1, <1>2, <1>3, <1>4, <1>5, <1>6, <1>7, <1>8, <1>9, <1>10,
       <1>11, <1>12 DEF Next, Driver

\* Only known settings are written and only known measurements read.
LEMMA SampleTypeStep == RangeInv /\ [Next]_vars => SampleTypeOK'
  <1> SUFFICES ASSUME RangeInv, [Next]_vars PROVE SampleTypeOK'
    OBVIOUS
  <1>0. SampleTypeOK
    BY DEF RangeInv, Vl6180xTypeOK
  <1> USE <1>0, Vl6180xAssumption DEF SampleTypeOK, CounterTypeOK, Settings, Ages,
          setupVars, sampleVars
  <1>1. CASE Probe
    BY <1>1 DEF Probe
  <1>2. CASE MandatoryWrite
    <2>1. setting \in 1 .. NumSettings
      BY <1>2 DEF MandatoryWrite, RangeInv, Vl6180xTypeOK
    <2> QED
      BY <1>2, <2>1 DEF MandatoryWrite
  <1>3. CASE MandatoryEnd
    BY <1>3 DEF MandatoryEnd
  <1>4. CASE PublicConfig
    BY <1>4 DEF PublicConfig
  <1>5. CASE Poll
    BY <1>5 DEF Poll, CutOff
  <1>6. CASE Read
    BY <1>6 DEF Read, CutOff
  <1>7. CASE Clear
    BY <1>7 DEF Clear, CutOff
  <1>8. CASE Start
    BY <1>8 DEF Start, Older
  <1>9. CASE Finish
    BY <1>9 DEF Finish
  <1>10. CASE Reboot
    BY <1>10 DEF Reboot, DriverRestarts
  <1>11. CASE PowerCycle
    BY <1>11 DEF PowerCycle, DriverRestarts
  <1>12. CASE UNCHANGED vars
    BY <1>12 DEF vars
  <1> QED
    BY <1>1, <1>2, <1>3, <1>4, <1>5, <1>6, <1>7, <1>8, <1>9, <1>10,
       <1>11, <1>12 DEF Next, Driver

\* Only the driver writes settings or clears the flag, and a power cycle undoes
\* both together.
LEMMA SetUpStep == RangeInv /\ [Next]_vars => SetUpInv'
  <1> SUFFICES ASSUME RangeInv, [Next]_vars PROVE SetUpInv'
    OBVIOUS
  <1> USE Vl6180xAssumption
      DEF RangeInv, Vl6180xTypeOK, CounterTypeOK, SampleTypeOK, SetUpInv,
          FreshUntilSetUp, Settings, setupVars, sampleVars
  <1>1. CASE Probe
    BY <1>1 DEF Probe
  <1>2. CASE MandatoryWrite
    <2>1. setting \in Settings /\ 1 .. setting - 1 \subseteq settings
      BY <1>2 DEF MandatoryWrite
    <2>2. CASE settings' = settings \cup {setting} /\ setting' = setting + 1
      <3>1. \A i \in 1 .. setting' - 1 : i \in 1 .. setting - 1 \/ i = setting
        BY <2>1, <2>2
      <3>2. 1 .. setting' - 1 \subseteq settings'
        BY <2>1, <2>2, <3>1
      <3>3. FreshUntilSetUp'
        BY <1>2, <2>1, <2>2 DEF MandatoryWrite
      <3> QED
        BY <3>2, <3>3
    <2>3. CASE pc' = "idle" /\ UNCHANGED <<settings, setting>>
      BY <1>2, <2>3 DEF MandatoryWrite
    <2> QED
      BY <1>2, <2>2, <2>3 DEF MandatoryWrite
  <1>3. CASE MandatoryEnd
    <2>1. setting = NumSettings + 1
      BY <1>3 DEF MandatoryEnd
    <2>2. Settings \subseteq settings
      BY <1>3, <2>1 DEF MandatoryEnd
    <2>3. settings = Settings
      BY <2>2
    <2> QED
      BY <1>3, <2>3 DEF MandatoryEnd
  <1>4. CASE PublicConfig
    BY <1>4 DEF PublicConfig
  <1>5. CASE Poll \/ Read \/ Clear
    BY <1>5 DEF Poll, Read, Clear, CutOff
  <1>6. CASE Start \/ Finish
    BY <1>6 DEF Start, Finish
  <1>7. CASE Reboot \/ PowerCycle
    BY <1>7 DEF Reboot, PowerCycle, DriverRestarts
  <1>8. CASE UNCHANGED vars
    BY <1>8 DEF vars
  <1> QED
    BY <1>1, <1>2, <1>3, <1>4, <1>5, <1>6, <1>7, <1>8 DEF Next, Driver

\* A call that runs to its end leaves the sensor as it found it: at rest.
LEMMA SampleStep == RangeInv /\ [Next]_vars => SampleInv'
  <1> SUFFICES ASSUME RangeInv, [Next]_vars PROVE SampleInv'
    OBVIOUS
  <1> USE DEF RangeInv, SampleInv, setupVars, sampleVars
  <1>1. CASE Probe \/ MandatoryWrite
    BY <1>1 DEF Probe, MandatoryWrite
  <1>2. CASE MandatoryEnd \/ PublicConfig
    BY <1>2 DEF MandatoryEnd, PublicConfig
  <1>3. CASE Poll
    BY <1>3 DEF Poll, CutOff
  <1>4. CASE Read
    BY <1>4 DEF Read, CutOff
  <1>5. CASE Clear
    BY <1>5 DEF Clear, CutOff
  <1>6. CASE Start
    BY <1>6 DEF Start, Older
  <1>7. CASE Finish
    <2>1. CASE cut_off
      BY <1>7, <2>1 DEF Finish
    <2>2. CASE ~cut_off
      <3>1. pc = "poll" /\ measuring = "own"
        BY <1>7, <2>2 DEF Finish, Vl6180xTypeOK, CounterTypeOK
      <3>2. pc' = "poll" /\ measuring' = "none" /\ range_val' = "own"
        BY <1>7, <3>1 DEF Finish
      <3> QED
        BY <3>2
    <2> QED
      BY <2>1, <2>2
  <1>8. CASE Reboot
    <2>1. pc' = "boot" /\ UNCHANGED sampleVars
      BY <1>8 DEF Reboot, DriverRestarts
    <2>2. CASE cut_off \/ pc \in {"poll", "read", "clear"}
      <3>1. cut_off'
        BY <1>8, <2>2 DEF Reboot
      <3> QED
        BY <3>1
    <2>3. CASE ~cut_off /\ pc \notin {"poll", "read", "clear"}
      <3>1. ~intr /\ measuring = "none"
        BY <2>3 DEF Vl6180xTypeOK, CounterTypeOK
      <3> QED
        BY <2>1, <3>1
    <2> QED
      BY <2>2, <2>3
  <1>9. CASE PowerCycle
    BY <1>9 DEF PowerCycle, DriverRestarts
  <1>10. CASE UNCHANGED vars
    BY <1>10 DEF vars
  <1> QED
    BY <1>1, <1>2, <1>3, <1>4, <1>5, <1>6, <1>7, <1>8, <1>9, <1>10
    DEF Next, Driver

\* The invariant holds in every reachable state.
LEMMA SensorInvariant == Spec => []RangeInv
  <1>1. RangeInv /\ [Next]_vars => RangeInv'
    BY CounterStep, FlagStep, SampleTypeStep, SetUpStep, SampleStep
    DEF RangeInv, Vl6180xTypeOK
  <1> QED
    BY RangeInitial, <1>1, PTL DEF Spec

\* vl6180x_mandatory_init clears FRESH_OUT_OF_RESET only behind every setting: no
\* error, reboot or power cycle makes a later boot skip one that is missing.
THEOREM FreshUntilSetUpHolds == Spec => []FreshUntilSetUp
  <1>1. RangeInv => FreshUntilSetUp
    BY DEF RangeInv, SetUpInv
  <1> QED
    BY SensorInvariant, <1>1, PTL

\* vl6180x_module_read_range returns the measurement it started unless a call has
\* ended between its start and its clear since the sensor was powered.
THEOREM FreshUnlessCutOffHolds == Spec => []FreshUnlessCutOff
  <1>1. RangeInv => FreshUnlessCutOff
    BY DEF RangeInv, SampleInv, FreshUnlessCutOff
  <1> QED
    BY SensorInvariant, <1>1, PTL

-----------------------------------------------------------------------------
(* What the sensors are said to measure.                                   *)

LEMMA DecimalIsExact ==
  ASSUME NEW v \in SensorValueType
  PROVE  ValueOf(Decimal(v.val1, v.val2)) = v.val1 * Micro + v.val2
  <1>1. v.val1 \in Int /\ v.val2 \in Int
    BY DEF SensorValueType
  <1>2. ~(v.val1 > 0 /\ v.val2 < 0) /\ ~(v.val1 < 0 /\ v.val2 > 0)
    BY DEF SensorValueType
  <1> DEFINE d == Decimal(v.val1, v.val2)
  <1>3. /\ d.negative = (v.val1 < 0 \/ v.val2 < 0)
        /\ d.whole = Magnitude(v.val1) /\ d.micro = Magnitude(v.val2)
    BY DEF Decimal
  <1>4. ValueOf(d) = (IF d.negative THEN -1 ELSE 1) * (d.whole * Micro + d.micro)
    BY DEF ValueOf
  <1> HIDE DEF d
  <1>5. CASE v.val1 < 0 \/ v.val2 < 0
    <2>1. Magnitude(v.val1) = -v.val1 /\ Magnitude(v.val2) = -v.val2
      BY <1>1, <1>2, <1>5 DEF Magnitude
    <2>2. ValueOf(d) = (-1) * ((-v.val1) * Micro + (-v.val2))
      <3>1. d.negative = TRUE
        BY <1>3, <1>5, Zenon
      <3>2. d.whole = -v.val1 /\ d.micro = -v.val2
        BY <1>3, <2>1
      <3> QED
        BY <1>4, <3>1, <3>2, Zenon
    <2>3. (-1) * ((-v.val1) * Micro + (-v.val2)) = v.val1 * Micro + v.val2
      BY <1>1, SMT DEF Micro
    <2> QED
      BY <2>2, <2>3 DEF d
  <1>6. CASE ~(v.val1 < 0 \/ v.val2 < 0)
    <2>1. Magnitude(v.val1) = v.val1 /\ Magnitude(v.val2) = v.val2
      BY <1>1, <1>6 DEF Magnitude
    <2>2. ValueOf(d) = 1 * (v.val1 * Micro + v.val2)
      BY <1>3, <1>4, <1>6, <2>1
    <2>3. 1 * (v.val1 * Micro + v.val2) = v.val1 * Micro + v.val2
      BY <1>1, SMT DEF Micro
    <2> QED
      BY <2>2, <2>3 DEF d
  <1> QED
    BY <1>5, <1>6

LEMMA PercentIsRoundedDown ==
  ASSUME NEW raw \in Int
  PROVE  LET p == Level(raw).percent
         IN /\ p \in 0 .. 100
            /\ raw \in 0 .. AdcFullScale =>
                  /\ p * AdcFullScale <= raw * 100
                  /\ raw * 100 < (p + 1) * AdcFullScale
  <1>1. Clamp(raw) \in 0 .. AdcFullScale
    BY SMT DEF Clamp, AdcFullScale
  <1>2. ASSUME NEW n \in 0 .. AdcFullScale
        PROVE  LET p == (n * 100) \div AdcFullScale
               IN /\ p \in 0 .. 100
                  /\ p * AdcFullScale <= n * 100
                  /\ n * 100 < (p + 1) * AdcFullScale
    BY SMT DEF AdcFullScale
  <1>3. raw \in 0 .. AdcFullScale => Clamp(raw) = raw
    BY SMT DEF Clamp, AdcFullScale
  <1> QED
    BY <1>1, <1>2, <1>3 DEF Level

LEMMA AnswerIsMeasured ==
  ASSUME SensorsAssumption, GetSensor PROVE ShownIsMeasured'
  <1>1. shown' = Answer(sample') /\ sample' \in Samples
    BY DEF GetSensor
  <1>6. SensorValues \subseteq SensorValueType
    BY Zenon DEF SensorsAssumption
  <1>2. CASE sample' \in Levels
    <2>1. PICK raw \in AdcSamples : sample' = [kind |-> "level", raw |-> raw]
      BY <1>2 DEF Levels
    <2>2. raw \in Int
      BY <2>1, SMT DEF SensorsAssumption, Int16
    <2>3. shown' = Level(raw)
      BY <1>1, <2>1 DEF Answer
    <2>4. sample'.kind = "level" /\ sample'.raw = raw
      BY <2>1
    <2>5. /\ shown'.percent \in 0 .. 100
          /\ raw \in 0 .. AdcFullScale =>
                /\ shown'.percent * AdcFullScale <= raw * 100
                /\ raw * 100 < (shown'.percent + 1) * AdcFullScale
      BY <2>2, <2>3, PercentIsRoundedDown, Zenon
    <2> QED
      BY <2>4, <2>5 DEF ShownIsMeasured
  <1>3. CASE sample' \in Decimals
    <2>1. PICK v \in SensorValues : sample' = [kind |-> "decimal", val |-> v]
      BY <1>3 DEF Decimals
    <2>2. v \in SensorValueType
      BY <1>6, Zenon
    <2>3. shown' = Decimal(v.val1, v.val2)
      BY <1>1, <2>1 DEF Answer
    <2>4. ValueOf(shown)' = sample'.val.val1 * Micro + sample'.val.val2
      <3>1. ValueOf(shown') = v.val1 * Micro + v.val2
        BY <2>2, <2>3, DecimalIsExact, Zenon
      <3>2. ValueOf(shown)' = ValueOf(shown')
        BY DEF ValueOf
      <3>3. sample'.val = v
        BY <2>1
      <3> QED
        BY <3>1, <3>2, <3>3, Zenon
    <2>5. sample'.kind = "decimal"
      BY <2>1
    <2> QED
      BY <2>4, <2>5 DEF ShownIsMeasured
  <1>4. CASE sample' \in Switches
    <2>1. PICK pin \in {0, 1} : sample' = [kind |-> "switch", pin |-> pin]
      BY <1>4 DEF Switches
    <2>2. shown' = Switch(pin)
      BY <1>1, <2>1 DEF Answer
    <2> QED
      BY <2>1, <2>2 DEF ShownIsMeasured, Switch
  <1>5. CASE sample' = Unavailable
    BY <1>5 DEF Unavailable, ShownIsMeasured
  <1> QED
    BY <1>1, <1>2, <1>3, <1>4, <1>5 DEF Samples

\* api_module.c, handlers of the sensors: for every sample a driver may deliver
\* the answer says what was measured.
THEOREM ShownIsMeasuredHolds == SensorsSpec => []ShownIsMeasured
  <1>1. SensorsInit => ShownIsMeasured
    BY DEF SensorsInit, ShownIsMeasured, Unavailable
  <1>2. ShownIsMeasured /\ [GetSensor]_sensorVars => ShownIsMeasured'
    BY AnswerIsMeasured, SensorsAssumption DEF ShownIsMeasured, ValueOf, sensorVars
  <1> QED
    BY <1>1, <1>2, PTL DEF SensorsSpec

-----------------------------------------------------------------------------
(* What the status LED shows.                                              *)

\* What a call that is alone has done so far, once all that came before it are
\* over.  With no call under way the LED has caught up with the mode.
CallInv(c) ==
    /\ next[c] = mode /\ mode # "boot"
    /\ stage[c] = "update" => pixels = mode
    /\ \A d \in Callers \ {c} : stage[d] = "out"

LedInv ==
    /\ stage \in [Callers -> {"out", "fill", "update"}]
    /\ next \in [Callers -> Modes]
    /\ unsure \in BOOLEAN
    /\ ~unsure => \A c \in Callers : stage[c] # "out" => CallInv(c)
    /\ LedShowsMode

LEMMA LedInitial == LedInit => LedInv
  BY DEF LedInit, LedInv, LedShowsMode, CallInv, Modes

\* A new call is the only one, or makes the outcome unsure.
LEMMA SetModeKeepsInv ==
  ASSUME NEW c \in Callers, LedInv, SetMode(c) PROVE LedInv'
  <1>1. PICK m \in Modes \ {"boot", mode} :
          /\ mode' = m
          /\ stage' = [stage EXCEPT ![c] = "fill"] /\ next' = [next EXCEPT ![c] = m]
          /\ stage[c] = "out"
    BY DEF SetMode
  <1>2. /\ stage' \in [Callers -> {"out", "fill", "update"}]
        /\ next' \in [Callers -> Modes]
    BY <1>1 DEF LedInv
  <1>3. unsure' = \E d \in Callers : stage[d] # "out"
    BY DEF SetMode
  <1>4. stage'[c] = "fill" /\ next'[c] = mode' /\ mode' # "boot"
    BY <1>1 DEF LedInv
  <1>5. ASSUME ~unsure', NEW d \in Callers, d # c PROVE stage'[d] = "out"
    BY <1>1, <1>3, <1>5 DEF LedInv
  <1>6. ~unsure' => \A d \in Callers : stage'[d] # "out" => CallInv(d)'
    BY <1>4, <1>5 DEF CallInv
  <1>7. LedShowsMode'
    BY <1>4 DEF LedShowsMode
  <1> QED
    BY <1>2, <1>3, <1>6, <1>7 DEF LedInv

LEMMA SetColorKeepsInv ==
  ASSUME NEW c \in Callers, LedInv, SetColor(c) PROVE LedInv'
  <1>1. /\ stage' = [stage EXCEPT ![c] = "update"] /\ pixels' = next[c]
        /\ UNCHANGED <<mode, next, strip, unsure>> /\ stage[c] = "fill"
    BY DEF SetColor
  <1>2. stage' \in [Callers -> {"out", "fill", "update"}]
    BY <1>1 DEF LedInv
  <1>3. ASSUME ~unsure', NEW d \in Callers, stage'[d] # "out" PROVE CallInv(d)'
    <2>1. CallInv(c) /\ d = c
      BY <1>1, <1>3 DEF LedInv, CallInv
    <2> QED
      BY <1>1, <2>1 DEF LedInv, CallInv
  <1>4. LedShowsMode'
    BY <1>1 DEF LedInv, LedShowsMode
  <1> QED
    BY <1>1, <1>2, <1>3, <1>4 DEF LedInv

\* The transfer of a call that was alone brings the strip up to the mode.
LEMMA UpdateKeepsInv ==
  ASSUME NEW c \in Callers, LedInv, Update(c) PROVE LedInv'
  <1>1. /\ stage[c] = "update" /\ stage' = [stage EXCEPT ![c] = "out"]
        /\ next' = [next EXCEPT ![c] = "boot"] /\ UNCHANGED <<mode, pixels>>
        /\ \/ strip' = pixels /\ unsure' = unsure
           \/ unsure' = TRUE
    BY DEF Update, LeaveSetMode
  <1>2. /\ stage' \in [Callers -> {"out", "fill", "update"}]
        /\ next' \in [Callers -> Modes] /\ unsure' \in BOOLEAN
    BY <1>1 DEF LedInv, Modes
  <1>3. ASSUME ~unsure' PROVE /\ \A d \in Callers : stage'[d] = "out"
                              /\ strip' = mode'
    BY <1>1, <1>3 DEF LedInv, CallInv
  <1> QED
    BY <1>2, <1>3 DEF LedInv, LedShowsMode

LEMMA ResetKeepsInv ==
  ASSUME NEW left, LedReset(left) PROVE LedInv'
  BY DEF LedReset, LedInv, LedShowsMode, CallInv, Modes

LEMMA StutterKeepsInv == LedInv /\ UNCHANGED ledVars => LedInv'
  BY DEF LedInv, LedShowsMode, CallInv, ledVars

\* provision_module.c, set_mode: whatever the order of the threads that change
\* the mode, the LED is right in the end when the last of them was alone and its
\* transfer worked, also after calls that were not.
THEOREM LedShowsModeHolds == LedSpec => []LedShowsMode
  <1>1. LedInit => LedInv
    BY LedInitial
  <1>2. LedInv /\ [LedNext \/ \E left \in Modes \cup {Dark} : LedReset(left)]_ledVars
            => LedInv'
    BY SetModeKeepsInv, SetColorKeepsInv, UpdateKeepsInv, ResetKeepsInv,
       StutterKeepsInv DEF LedNext
  <1>3. LedInv => LedShowsMode
    BY DEF LedInv
  <1> QED
    BY <1>1, <1>2, <1>3, PTL DEF LedSpec

-----------------------------------------------------------------------------
(* What the actuators do and report.                                       *)

\* What an output may carry.
ServoPulses == ServoMinPulseNs .. ServoMaxPulseNs
MotorPulses == 0 .. MotorPeriodNs

CanCarry(o) ==
    IF o = "servo" THEN {0} \cup ServoPulses
    ELSE IF o \in {"in1", "in2"} THEN MotorPulses
    ELSE IF o = "buzzer" THEN BuzzerTones
    ELSE {0, 1}

OutputsOf(dev) == IF dev = "motor" THEN {"in1", "in2"} ELSE {dev}

WriteRecords == [output : Outputs, value : Nat]
MotorStates == [speed_percent : 0 .. 100, direction : Directions]

\* w's last write to o writes v.
LastWrite(w, o, v) ==
    \E i \in 1 .. Len(w) :
        /\ w[i] = Write(o, v)
        /\ \A j \in i + 1 .. Len(w) : w[j].output # o

\* A call ends with v on o, unless the last write to o fails.
EndsAt(o, v) ==
    \/ LastWrite(writes, o, v)
    \/ /\ \A i \in 1 .. Len(writes) : writes[i].output # o
       /\ o \in slips \/ driven[o] = v

\* The writes w of a call of dev are writes to its outputs.
GoodWrites(dev, w) ==
    /\ w \in Seq(WriteRecords)
    /\ \A i \in 1 .. Len(w) : /\ w[i].value \in CanCarry(w[i].output)
                              /\ w[i].output \in OutputsOf(dev)

GoodReport(c) ==
    /\ c.dev \in Devices
    /\ c.dev = "motor" => c.sets \in MotorStates
    /\ c.dev = "servo" => c.sets \in 0 .. 180
    /\ c.dev = "buzzer" => c.sets \in BuzzerTones
    /\ c.dev \in Pins => c.sets \in BOOLEAN

\* A call under way will end with its outputs as its report says.
CallEnds(c) ==
    /\ c.dev = "motor" => /\ EndsAt("in1", Duty(c.sets, "forward"))
                          /\ EndsAt("in2", Duty(c.sets, "backward"))
    /\ c.dev = "servo" => EndsAt("servo", PulseNs(c.sets))
    /\ c.dev = "buzzer" => EndsAt("buzzer", c.sets)
    /\ c.dev \in Pins => EndsAt(c.dev, IF c.sets THEN 1 ELSE 0)

CallUnderWay ==
    /\ busy => GoodReport(call) /\ GoodWrites(call.dev, writes) /\ CallEnds(call)
    /\ ~busy => writes = << >> /\ slips = {}
    /\ slips # {} => busy /\ call.dev \in in_doubt

\* Every other device does what it reports; the servo has no position before
\* main moves it.
RestMatches ==
    \A dev \in Devices :
        \/ dev \in in_doubt \/ Matches(dev)
        \/ busy /\ call.dev = dev
        \/ dev = "servo" /\ boot <= 2

\* What is left of a call of the motor: the last two writes are in1 and in2, one
\* of them off, and before them at most a stop of both.
MotorPlan(w) ==
    LET n == Len(w) IN
    /\ n \in 0 .. 4
    /\ n >= 1 => w[n].output = "in2"
    /\ n >= 2 => w[n - 1].output = "in1" /\ (w[n - 1].value <= 1 \/ w[n].value <= 1)
    /\ n >= 3 => w[n - 2].output = "in2" /\ w[n - 2].value <= 1
    /\ n = 4 => w[1].output = "in1" /\ w[1].value <= 1
    /\ n = 3 => driven["in1"] <= 1
    /\ n = 2 => driven["in2"] <= 1 \/ w[1].value <= 1
    /\ n = 1 => driven["in1"] <= 1 \/ w[1].value <= 1

MotorInv ==
    "motor" \notin in_doubt =>
        /\ driven["in1"] <= 1 \/ driven["in2"] <= 1
        /\ busy /\ call.dev = "motor" => MotorPlan(writes)

ActuatorTypes ==
    /\ boot \in 1 .. 7 /\ busy \in BOOLEAN
    /\ slips \subseteq Outputs /\ in_doubt \subseteq Devices
    /\ driven \in [Outputs -> Nat] /\ \A o \in Outputs : driven[o] \in CanCarry(o)
    /\ motor_state \in MotorStates /\ current_angle \in 0 .. 180
    /\ pin_state \in [Pins -> BOOLEAN] /\ tone \in BuzzerTones

ActuatorInv == ActuatorTypes /\ CallUnderWay /\ RestMatches /\ MotorInv

\* Pins are no channels, and their names are those of no other device.
LEMMA PinNames ==
  /\ \A p \in Pins : p \notin {"in1", "in2", "servo", "buzzer", "motor"}
  /\ Outputs = {"in1", "in2", "servo", "buzzer"} \cup Pins
  /\ Devices = {"motor", "servo", "buzzer"} \cup Pins
  BY ActuatorsAssumption DEF Outputs, Channels, Devices

LEMMA SixBootCalls == Len(BootCalls) = 6
  BY DEF BootCalls

\* The pulses of the motor and the servo stay within their periods, and the
\* motor is driven by one channel at a time.
LEMMA PulseBounds ==
  /\ ServoMinPulseNs \in Nat /\ ServoMaxPulseNs \in Nat
  /\ MotorPeriodNs \in Nat /\ 1 <= MotorPeriodNs
  BY SMT DEF ServoMinPulseNs, ServoMaxPulseNs, MotorPeriodNs

LEMMA PulsesAreNumbers ==
  /\ ServoPulses \subseteq Nat /\ MotorPulses \subseteq Nat
  /\ 0 \in MotorPulses /\ 1 \in MotorPulses
  BY PulseBounds DEF ServoPulses, MotorPulses

LEMMA ServoInRange ==
  ASSUME NEW angle \in 0 .. 180
  PROVE  PulseNs(angle) \in ServoPulses
  <1>1. /\ PulseNs(angle) \in Int
        /\ ServoMinPulseNs <= PulseNs(angle) /\ PulseNs(angle) <= ServoMaxPulseNs
    BY SMT DEF PulseNs, ServoMinPulseNs, ServoMaxPulseNs
  <1> QED
    BY <1>1, PulseBounds DEF ServoPulses

LEMMA DutyInRange ==
  ASSUME NEW n \in 0 .. 100
  PROVE  DutyNs(n) \in MotorPulses /\ (n = 0 => DutyNs(n) = 0)
  <1>1. /\ DutyNs(n) \in Int /\ 0 <= DutyNs(n) /\ DutyNs(n) <= MotorPeriodNs
        /\ n = 0 => DutyNs(n) = 0
    BY SMT DEF DutyNs, MotorPeriodNs
  <1> QED
    BY <1>1, PulseBounds DEF MotorPulses

LEMMA OneChannel ==
  ASSUME NEW s \in MotorStates
  PROVE  /\ Duty(s, "forward") \in MotorPulses /\ Duty(s, "backward") \in MotorPulses
         /\ Duty(s, "forward") = 0 \/ Duty(s, "backward") = 0
         /\ s.speed_percent = 0 => Duty(s, "forward") = 0 /\ Duty(s, "backward") = 0
         /\ s.direction = "forward" => Duty(s, "backward") = 0
         /\ s.direction = "backward" => Duty(s, "forward") = 0
  <1>1. s.speed_percent \in 0 .. 100 /\ s.direction \in {"forward", "backward"}
    BY DEF MotorStates, Directions
  <1>2. 0 \in MotorPulses
    BY PulsesAreNumbers
  <1> QED
    BY <1>1, <1>2, DutyInRange DEF Duty

\* The head and the tail of what a call has still to write.
LEMMA WritesLeft ==
  ASSUME NEW S, NEW w \in Seq(S), w # << >>
  PROVE  /\ Len(w) \in Nat /\ Len(w) >= 1
         /\ Head(w) = w[1] /\ Tail(w) \in Seq(S) /\ Len(Tail(w)) = Len(w) - 1
         /\ \A i \in 1 .. Len(w) - 1 : Tail(w)[i] = w[i + 1]
  BY HeadTailProperties, EmptySeq, LenProperties

\* One write, successful or not, leaves what the call ends with.
LEMMA EndsAsBefore ==
  ASSUME NEW S, writes \in Seq(S), writes # << >>, writes' = Tail(writes),
         driven \in [Outputs -> Nat], NEW o \in Outputs, NEW v, EndsAt(o, v),
         \/ /\ driven' = [driven EXCEPT ![Head(writes).output] = Head(writes).value]
            /\ slips' = slips \ {Head(writes).output}
         \/ driven' = driven /\ slips' = slips \cup {Head(writes).output}
  PROVE  EndsAt(o, v)'
  <1>1. /\ Len(writes) \in Nat /\ Len(writes) >= 1 /\ Head(writes) = writes[1]
        /\ Len(writes') = Len(writes) - 1
        /\ \A i \in 1 .. Len(writes) - 1 : writes'[i] = writes[i + 1]
    BY WritesLeft
  <1>2. CASE writes[1].output # o
    <2>1. (o \in slips' <=> o \in slips) /\ driven'[o] = driven[o]
      BY <1>1, <1>2
    <2>2. CASE LastWrite(writes, o, v)
      <3>1. PICK i \in 1 .. Len(writes) :
              /\ writes[i] = Write(o, v)
              /\ \A j \in i + 1 .. Len(writes) : writes[j].output # o
        BY <2>2 DEF LastWrite
      <3>2. i # 1
        BY <1>2, <3>1 DEF Write
      <3>3. i - 1 \in 1 .. Len(writes') /\ writes'[i - 1] = Write(o, v)
        BY <1>1, <3>1, <3>2
      <3>4. ASSUME NEW j \in (i - 1) + 1 .. Len(writes') PROVE writes'[j].output # o
        BY <1>1, <3>1, <3>2
      <3> QED
        BY <3>3, <3>4 DEF EndsAt, LastWrite
    <2>3. CASE /\ \A i \in 1 .. Len(writes) : writes[i].output # o
               /\ o \in slips \/ driven[o] = v
      <3>1. \A i \in 1 .. Len(writes') : writes'[i].output # o
        BY <1>1, <2>3
      <3> QED
        BY <2>1, <2>3, <3>1 DEF EndsAt
    <2> QED
      BY <2>2, <2>3 DEF EndsAt
  <1>3. CASE writes[1].output = o
    <2>1. PICK i \in 1 .. Len(writes) :
            /\ writes[i] = Write(o, v)
            /\ \A j \in i + 1 .. Len(writes) : writes[j].output # o
      BY <1>1, <1>3 DEF EndsAt, LastWrite
    <2>2. CASE i = 1
      <3>1. \A j \in 1 .. Len(writes') : writes'[j].output # o
        BY <1>1, <2>1, <2>2
      <3>2. writes[1].value = v
        BY <2>1, <2>2 DEF Write
      <3>3. o \in slips' \/ driven'[o] = v
        BY <1>1, <1>3, <3>2
      <3> QED
        BY <3>1, <3>3 DEF EndsAt
    <2>3. CASE i # 1
      <3>1. i - 1 \in 1 .. Len(writes') /\ writes'[i - 1] = Write(o, v)
        BY <1>1, <2>1, <2>3
      <3>2. ASSUME NEW j \in (i - 1) + 1 .. Len(writes') PROVE writes'[j].output # o
        BY <1>1, <2>1, <2>3
      <3> QED
        BY <3>1, <3>2 DEF EndsAt, LastWrite
    <2> QED
      BY <2>2, <2>3
  <1> QED
    BY <1>2, <1>3

\* What a device carries as it reports.
LEMMA MatchesMeans ==
  /\ Matches("motor") <=> /\ driven["in1"] = Duty(motor_state, "forward")
                          /\ driven["in2"] = Duty(motor_state, "backward")
  /\ Matches("servo") <=> driven["servo"] = PulseNs(current_angle)
  /\ Matches("buzzer") <=> driven["buzzer"] = tone
  /\ \A p \in Pins : Matches(p) <=> driven[p] = IF pin_state[p] THEN 1 ELSE 0
  <1>1. \A p \in Pins : p # "motor" /\ p # "servo" /\ p # "buzzer"
    BY PinNames
  <1> QED
    BY <1>1, Zenon DEF Matches

LEMMA MatchesMeansNext ==
  /\ Matches("motor")' <=> /\ driven'["in1"] = Duty(motor_state', "forward")
                           /\ driven'["in2"] = Duty(motor_state', "backward")
  /\ Matches("servo")' <=> driven'["servo"] = PulseNs(current_angle')
  /\ Matches("buzzer")' <=> driven'["buzzer"] = tone'
  /\ \A p \in Pins : Matches(p)' <=> driven'[p] = IF pin_state'[p] THEN 1 ELSE 0
  <1>1. \A p \in Pins : p # "motor" /\ p # "servo" /\ p # "buzzer"
    BY PinNames
  <1> QED
    BY <1>1, Zenon DEF Matches, Duty, PulseNs, DutyNs

\* A device whose outputs and whose report stay as they are.
LEMMA MatchesKept ==
  ASSUME NEW dev \in Devices, Matches(dev), UNCHANGED reportVars,
         \A o \in OutputsOf(dev) : driven'[o] = driven[o]
  PROVE  Matches(dev)'
  <1>1. UNCHANGED <<motor_state, current_angle, pin_state, tone>>
    BY DEF reportVars
  <1>2. CASE dev = "motor"
    BY <1>1, <1>2, MatchesMeans, MatchesMeansNext DEF OutputsOf
  <1>3. CASE dev = "servo"
    BY <1>1, <1>3, MatchesMeans, MatchesMeansNext DEF OutputsOf
  <1>4. CASE dev = "buzzer"
    BY <1>1, <1>4, MatchesMeans, MatchesMeansNext DEF OutputsOf
  <1>5. CASE dev \in Pins
    <2>1. dev # "motor" /\ driven'[dev] = driven[dev] /\ pin_state'[dev] = pin_state[dev]
      BY <1>1, <1>5, PinNames DEF OutputsOf
    <2> QED
      BY <1>5, <2>1, MatchesMeans, MatchesMeansNext
  <1> QED
    BY <1>2, <1>3, <1>4, <1>5, PinNames

\* The writes of a new call end with what it will report.
WritesReport(c) ==
    /\ c.dev = "motor" => /\ LastWrite(c.writes, "in1", Duty(c.sets, "forward"))
                          /\ LastWrite(c.writes, "in2", Duty(c.sets, "backward"))
    /\ c.dev = "servo" => LastWrite(c.writes, "servo", PulseNs(c.sets))
    /\ c.dev = "buzzer" => LastWrite(c.writes, "buzzer", c.sets)
    /\ c.dev \in Pins => LastWrite(c.writes, c.dev, IF c.sets THEN 1 ELSE 0)

GoodCall(c) ==
    /\ GoodReport(c) /\ GoodWrites(c.dev, c.writes) /\ WritesReport(c)
    /\ c.dev = "motor" /\ "motor" \notin in_doubt => MotorPlan(c.writes)

\* A call begins.
LEMMA BeginKeeps ==
  ASSUME ActuatorInv, NEW c, GoodCall(c), Begin(c),
         boot' \in 1 .. 7, boot <= 2 /\ boot' > 2 => c.dev = "servo"
  PROVE  ActuatorInv'
  <1>1. /\ ~busy /\ busy' = TRUE /\ call' = c /\ writes' = c.writes /\ slips' = {}
        /\ UNCHANGED <<driven, reportVars, in_doubt>>
    BY DEF Begin
  <1>2. UNCHANGED <<motor_state, current_angle, pin_state, tone>>
    BY <1>1 DEF reportVars
  <1>3. ActuatorTypes'
    BY <1>1, <1>2 DEF ActuatorInv, ActuatorTypes
  <1>4. CallUnderWay'
    <2>1. GoodReport(call)' /\ GoodWrites(call.dev, writes)'
      BY <1>1 DEF GoodCall
    <2>2. CallEnds(call)'
      BY <1>1 DEF GoodCall, WritesReport, CallEnds, EndsAt
    <2> QED
      BY <1>1, <2>1, <2>2 DEF CallUnderWay
  <1>5. RestMatches'
    <2> SUFFICES ASSUME NEW dev \in Devices, dev \notin in_doubt', dev # c.dev,
                        ~(dev = "servo" /\ boot' <= 2)
                 PROVE  Matches(dev)'
      BY <1>1 DEF RestMatches
    <2>1. ~(dev = "servo" /\ boot <= 2)
      BY DEF ActuatorInv, ActuatorTypes
    <2>2. Matches(dev)
      BY <1>1, <2>1 DEF ActuatorInv, RestMatches
    <2> QED
      BY <1>1, <2>2, MatchesKept
  <1>6. MotorInv'
    BY <1>1 DEF ActuatorInv, MotorInv, MotorPlan, GoodCall
  <1> QED
    BY <1>3, <1>4, <1>5, <1>6 DEF ActuatorInv

\* One write of a call, done or failed.
LEMMA WriteKeeps == ActuatorInv /\ WriteNext => ActuatorInv'
  <1> SUFFICES ASSUME ActuatorInv, WriteNext PROVE ActuatorInv'
    OBVIOUS
  <1> DEFINE w == writes[1]
  <1>1. /\ writes # << >> /\ writes' = Tail(writes)
        /\ UNCHANGED <<boot, busy, call, reportVars>>
        /\ \/ /\ driven' = [driven EXCEPT ![Head(writes).output] = Head(writes).value]
              /\ slips' = slips \ {Head(writes).output}
              /\ in_doubt' = in_doubt
           \/ /\ slips' = slips \cup {Head(writes).output}
              /\ in_doubt' = in_doubt \cup {call.dev}
              /\ driven' = driven
    BY DEF WriteNext
  <1>2. busy /\ GoodReport(call) /\ GoodWrites(call.dev, writes) /\ CallEnds(call)
    BY <1>1 DEF ActuatorInv, CallUnderWay
  <1>3. /\ writes \in Seq(WriteRecords)
        /\ Len(writes) \in Nat /\ Len(writes) >= 1 /\ Head(writes) = w
        /\ writes' \in Seq(WriteRecords) /\ Len(writes') = Len(writes) - 1
        /\ \A i \in 1 .. Len(writes) - 1 : writes'[i] = writes[i + 1]
    BY <1>1, <1>2, WritesLeft DEF GoodWrites
  <1> DEFINE o0 == w.output
             v0 == w.value
  <1>4. o0 \in Outputs /\ v0 \in Nat /\ v0 \in CanCarry(o0) /\ o0 \in OutputsOf(call.dev)
    <2>1. 1 \in 1 .. Len(writes)
      BY <1>3
    <2>2. w \in WriteRecords
      BY <1>3, <2>1, ElementOfSeq
    <2>3. w.value \in CanCarry(w.output) /\ w.output \in OutputsOf(call.dev)
      BY <1>2, <2>1 DEF GoodWrites
    <2> QED
      BY <2>2, <2>3 DEF WriteRecords
  <1>5. UNCHANGED <<motor_state, current_angle, pin_state, tone>>
    BY <1>1 DEF reportVars
  <1>10. /\ driven \in [Outputs -> Nat] /\ \A o \in Outputs : driven[o] \in CanCarry(o)
         /\ slips \subseteq Outputs /\ in_doubt \subseteq Devices
    BY DEF ActuatorInv, ActuatorTypes
  <1>11. call.dev \in Devices
    BY <1>2 DEF GoodReport
  <1>12. \/ /\ driven' = [driven EXCEPT ![o0] = v0]
            /\ slips' = slips \ {o0}
            /\ in_doubt' = in_doubt
         \/ /\ slips' = slips \cup {o0}
            /\ in_doubt' = in_doubt \cup {call.dev}
            /\ driven' = driven
    BY <1>1, <1>3
  <1> HIDE DEF w, o0, v0
  <1>6. ActuatorTypes'
    <2>1. driven' \in [Outputs -> Nat] /\ \A o \in Outputs : driven'[o] \in CanCarry(o)
      BY <1>4, <1>10, <1>12
    <2>2. slips' \subseteq Outputs /\ in_doubt' \subseteq Devices
      BY <1>4, <1>10, <1>11, <1>12
    <2>3. /\ boot \in 1 .. 7 /\ busy \in BOOLEAN
          /\ motor_state \in MotorStates /\ current_angle \in 0 .. 180
          /\ pin_state \in [Pins -> BOOLEAN] /\ tone \in BuzzerTones
      BY DEF ActuatorInv, ActuatorTypes
    <2>4. UNCHANGED <<boot, busy>>
      BY <1>1
    <2> QED
      BY <1>5, <2>1, <2>2, <2>3, <2>4 DEF ActuatorTypes
  <1>7. CallUnderWay'
    <2>1. GoodReport(call)'
      BY <1>1, <1>2
    <2>2. GoodWrites(call.dev, writes)'
      BY <1>1, <1>2, <1>3 DEF GoodWrites
    <2>3. ASSUME NEW o \in Outputs, NEW v, EndsAt(o, v) PROVE EndsAt(o, v)'
      <3>1. writes # << >> /\ writes' = Tail(writes) /\ writes \in Seq(WriteRecords)
        BY <1>1, <1>3
      <3>2. \/ /\ driven' = [driven EXCEPT ![Head(writes).output] = Head(writes).value]
               /\ slips' = slips \ {Head(writes).output}
            \/ driven' = driven /\ slips' = slips \cup {Head(writes).output}
        BY <1>1
      <3>3. driven \in [Outputs -> Nat]
        BY <1>10
      <3> QED
        BY <2>3, <3>1, <3>2, <3>3, EndsAsBefore
    <2>4. CallEnds(call)'
      <3>1. CASE call.dev = "motor"
        <4>1. EndsAt("in1", Duty(call.sets, "forward"))' /\ EndsAt("in2", Duty(call.sets, "backward"))'
          BY <1>1, <1>2, <2>3, <3>1, PinNames DEF CallEnds
        <4> QED
          BY <1>1, <3>1, <4>1, PinNames DEF CallEnds
      <3>2. CASE call.dev = "servo"
        BY <1>1, <1>2, <2>3, <3>2, PinNames DEF CallEnds
      <3>3. CASE call.dev = "buzzer"
        BY <1>1, <1>2, <2>3, <3>3, PinNames DEF CallEnds
      <3>4. CASE call.dev \in Pins
        BY <1>1, <1>2, <2>3, <3>4, PinNames DEF CallEnds
      <3> QED
        BY <1>11, <3>1, <3>2, <3>3, <3>4, PinNames
    <2>5. slips' # {} => call'.dev \in in_doubt'
      BY <1>1 DEF ActuatorInv, CallUnderWay
    <2> QED
      BY <1>1, <1>2, <2>1, <2>2, <2>4, <2>5 DEF CallUnderWay
  <1>8. RestMatches'
    <2> SUFFICES ASSUME NEW dev \in Devices, dev \notin in_doubt', dev # call.dev,
                        ~(dev = "servo" /\ boot <= 2)
                 PROVE  Matches(dev)'
      BY <1>1, <1>2 DEF RestMatches
    <2>1. Matches(dev)
      BY <1>1 DEF ActuatorInv, RestMatches
    <2>2. \A o \in OutputsOf(dev) : o # o0
      BY <1>4, <1>11, PinNames DEF OutputsOf
    <2>3. \A o \in OutputsOf(dev) : o \in Outputs
      BY PinNames DEF OutputsOf
    <2>4. \A o \in OutputsOf(dev) : driven'[o] = driven[o]
      BY <1>10, <1>12, <2>2, <2>3
    <2> QED
      BY <1>1, <2>1, <2>4, MatchesKept
  <1>9. MotorInv'
    <2> SUFFICES ASSUME "motor" \notin in_doubt'
                 PROVE  /\ driven'["in1"] <= 1 \/ driven'["in2"] <= 1
                        /\ call.dev = "motor" => MotorPlan(writes)'
      BY <1>1 DEF MotorInv
    <2>1. "motor" \notin in_doubt /\ (driven["in1"] <= 1 \/ driven["in2"] <= 1)
      BY <1>1 DEF ActuatorInv, MotorInv
    <2>2. CASE call.dev # "motor"
      <3>1. o0 \notin {"in1", "in2"}
        BY <1>4, <1>11, <2>2, PinNames DEF OutputsOf
      <3>2. driven'["in1"] = driven["in1"] /\ driven'["in2"] = driven["in2"]
        BY <1>10, <1>12, <3>1, PinNames
      <3> QED
        BY <2>1, <2>2, <3>2
    <2>3. CASE call.dev = "motor"
      <3>1. MotorPlan(writes)
        BY <1>2, <2>1, <2>3 DEF ActuatorInv, MotorInv
      <3>2. driven' = [driven EXCEPT ![o0] = v0]
        BY <1>12, <2>3
      <3>3. \A o \in {"in1", "in2"} : driven'[o] = IF o0 = o THEN v0 ELSE driven[o]
        BY <1>10, <3>2, PinNames
      <3>4. /\ driven'["in1"] = IF o0 = "in1" THEN v0 ELSE driven["in1"]
            /\ driven'["in2"] = IF o0 = "in2" THEN v0 ELSE driven["in2"]
        BY <3>3
      <3> DEFINE n == Len(writes)
      <3>5. n \in 1 .. 4
        <4>1. n \in 0 .. 4
          BY <3>1, Zenon DEF MotorPlan
        <4> QED
          BY <1>3, <4>1
      <3>6. CASE n = 4
        BY <1>3, <3>1, <3>4, <3>6 DEF MotorPlan, w, o0, v0
      <3>7. CASE n = 3
        BY <1>3, <3>1, <3>4, <3>7 DEF MotorPlan, w, o0, v0
      <3>8. CASE n = 2
        BY <1>3, <2>1, <3>1, <3>4, <3>8 DEF MotorPlan, w, o0, v0
      <3>9. CASE n = 1
        BY <1>3, <2>1, <3>1, <3>4, <3>9 DEF MotorPlan, w, o0, v0
      <3> QED
        BY <3>5, <3>6, <3>7, <3>8, <3>9
    <2> QED
      BY <2>2, <2>3
  <1> QED
    BY <1>6, <1>7, <1>8, <1>9 DEF ActuatorInv

\* The writes of the handlers.
LEMMA OneWrite ==
  ASSUME NEW dev, NEW o \in Outputs, o \in OutputsOf(dev), NEW v \in Nat, v \in CanCarry(o)
  PROVE  GoodWrites(dev, <<Write(o, v)>>) /\ LastWrite(<<Write(o, v)>>, o, v)
  <1> DEFINE r == Write(o, v)
             w == <<r>>
  <1>1. r \in WriteRecords /\ r.output = o /\ r.value = v
    BY DEF WriteRecords, Write
  <1>2. r = Write(o, v)
    OBVIOUS
  <1> HIDE DEF r
  <1>3. Len(w) = 1 /\ w[1] = r /\ w \in Seq(WriteRecords)
    BY <1>1
  <1> HIDE DEF w
  <1>4. GoodWrites(dev, w)
    BY <1>1, <1>3 DEF GoodWrites
  <1>5. LastWrite(w, o, v)
    BY <1>2, <1>3 DEF LastWrite
  <1> QED
    BY <1>4, <1>5 DEF r, w

LEMMA BeepWritesGood ==
  ASSUME NEW f \in BuzzerTones
  PROVE  GoodWrites("buzzer", BeepWrites(f)) /\ LastWrite(BeepWrites(f), "buzzer", 0)
  <1> DEFINE r == Write("buzzer", f)
             z == Write("buzzer", 0)
             w == <<r, z>>
  <1>1. f \in Nat /\ f \in CanCarry("buzzer") /\ 0 \in CanCarry("buzzer")
        /\ "buzzer" \in Outputs /\ "buzzer" \in OutputsOf("buzzer")
    BY PinNames DEF CanCarry, BuzzerTones, OutputsOf
  <1>2. /\ r \in WriteRecords /\ r.output = "buzzer" /\ r.value = f
        /\ z \in WriteRecords /\ z.output = "buzzer" /\ z.value = 0
    BY <1>1 DEF WriteRecords, Write
  <1>3. z = Write("buzzer", 0) /\ BeepWrites(f) = w
    BY DEF BeepWrites
  <1> HIDE DEF r, z
  <1>4. Len(w) = 2 /\ w[1] = r /\ w[2] = z /\ w \in Seq(WriteRecords)
    BY <1>2
  <1> HIDE DEF w
  <1>5. GoodWrites("buzzer", w)
    BY <1>1, <1>2, <1>4 DEF GoodWrites
  <1>6. LastWrite(w, "buzzer", 0)
    BY <1>3, <1>4 DEF LastWrite
  <1> QED
    BY <1>3, <1>5, <1>6

\* One sequence of writes after the other.
LEMMA Concatenated ==
  ASSUME NEW u \in Seq(WriteRecords), NEW v \in Seq(WriteRecords)
  PROVE  /\ u \o v \in Seq(WriteRecords) /\ Len(u \o v) = Len(u) + Len(v)
         /\ Len(u) \in Nat /\ Len(v) \in Nat
         /\ \A i \in 1 .. Len(u) : (u \o v)[i] = u[i]
         /\ \A i \in 1 .. Len(v) : (u \o v)[Len(u) + i] = v[i]
  <1>1. /\ u \o v \in Seq(WriteRecords)
        /\ Len(u \o v) = Len(u) + Len(v)
        /\ \A i \in 1 .. Len(u) + Len(v) :
              (u \o v)[i] = IF i <= Len(u) THEN u[i] ELSE v[i - Len(u)]
    BY ConcatProperties, Zenon
  <1>2. Len(u) \in Nat /\ Len(v) \in Nat
    OBVIOUS
  <1> DEFINE m == Len(u)
             n == Len(v)
             w == u \o v
  <1>3. m \in Nat /\ n \in Nat /\ \A i \in 1 .. m + n : w[i] = IF i <= m THEN u[i] ELSE v[i - m]
    BY <1>1, <1>2
  <1> HIDE DEF m, n, w
  <1>4. \A i \in 1 .. m : w[i] = u[i]
    BY <1>3
  <1>5. ASSUME NEW i \in 1 .. n PROVE w[m + i] = v[i]
    <2>1. m + i \in 1 .. m + n /\ ~(m + i <= m) /\ (m + i) - m = i
      BY <1>3
    <2> QED
      BY <1>3, <2>1
  <1> QED
    BY <1>1, <1>2, <1>4, <1>5 DEF m, n, w

LEMMA ConcatenatedWrites ==
  ASSUME NEW dev, NEW u, GoodWrites(dev, u), NEW v, GoodWrites(dev, v),
         NEW o, NEW x, LastWrite(v, o, x)
  PROVE  GoodWrites(dev, u \o v) /\ LastWrite(u \o v, o, x)
  <1> DEFINE w == u \o v
             m == Len(u)
             n == Len(v)
  <1>1. u \in Seq(WriteRecords) /\ v \in Seq(WriteRecords)
    BY DEF GoodWrites
  <1>2. /\ w \in Seq(WriteRecords) /\ Len(w) = m + n /\ m \in Nat /\ n \in Nat
        /\ \A i \in 1 .. m : w[i] = u[i]
        /\ \A i \in 1 .. n : w[m + i] = v[i]
    BY <1>1, Concatenated
  <1>3. /\ \A i \in 1 .. m : u[i].value \in CanCarry(u[i].output) /\ u[i].output \in OutputsOf(dev)
        /\ \A i \in 1 .. n : v[i].value \in CanCarry(v[i].output) /\ v[i].output \in OutputsOf(dev)
    BY DEF GoodWrites
  <1>4. PICK k \in 1 .. n : v[k] = Write(o, x) /\ \A j \in k + 1 .. n : v[j].output # o
    BY DEF LastWrite
  <1> HIDE DEF w, m, n
  <1>5. ASSUME NEW i \in 1 .. m + n
        PROVE  w[i].value \in CanCarry(w[i].output) /\ w[i].output \in OutputsOf(dev)
    <2>1. CASE i <= m
      BY <1>2, <1>3, <2>1
    <2>2. CASE i > m
      <3>1. i - m \in 1 .. n /\ m + (i - m) = i
        BY <1>2, <2>2
      <3> QED
        BY <1>2, <1>3, <3>1
    <2> QED
      BY <1>2, <2>1, <2>2
  <1>6. ASSUME NEW j \in (m + k) + 1 .. m + n PROVE w[j].output # o
    <2>1. j - m \in k + 1 .. n /\ j - m \in 1 .. n /\ m + (j - m) = j
      BY <1>2, <1>4
    <2> QED
      BY <1>2, <1>4, <2>1
  <1>7. m + k \in 1 .. m + n /\ w[m + k] = Write(o, x)
    BY <1>2, <1>4
  <1> QED
    BY <1>2, <1>5, <1>6, <1>7 DEF GoodWrites, LastWrite, w

\* The test tones of the buzzer at boot.
LEMMA TestTones ==
  LET w == <<Write("buzzer", 0)>> \o BeepWrites(1000) \o BeepWrites(2000) \o BeepWrites(3000)
  IN  GoodWrites("buzzer", w) /\ LastWrite(w, "buzzer", 0)
  <1> DEFINE z == <<Write("buzzer", 0)>>
             a == BeepWrites(1000)
             b == BeepWrites(2000)
             c == BeepWrites(3000)
  <1>1. 1000 \in BuzzerTones /\ 2000 \in BuzzerTones /\ 3000 \in BuzzerTones
    BY SMT DEF BuzzerTones
  <1>2. 0 \in CanCarry("buzzer") /\ "buzzer" \in Outputs /\ "buzzer" \in OutputsOf("buzzer")
    BY PinNames, SMT DEF CanCarry, BuzzerTones, OutputsOf
  <1>3. GoodWrites("buzzer", z)
    BY <1>2, OneWrite
  <1>4. /\ GoodWrites("buzzer", a) /\ LastWrite(a, "buzzer", 0)
        /\ GoodWrites("buzzer", b) /\ LastWrite(b, "buzzer", 0)
        /\ GoodWrites("buzzer", c) /\ LastWrite(c, "buzzer", 0)
    BY <1>1, BeepWritesGood
  <1> HIDE DEF z, a, b, c
  <1>5. GoodWrites("buzzer", z \o a)
    BY <1>3, <1>4, ConcatenatedWrites
  <1>6. GoodWrites("buzzer", z \o a \o b)
    BY <1>4, <1>5, ConcatenatedWrites
  <1>7. GoodWrites("buzzer", z \o a \o b \o c) /\ LastWrite(z \o a \o b \o c, "buzzer", 0)
    BY <1>4, <1>6, ConcatenatedWrites
  <1> QED
    BY <1>7 DEF z, a, b, c

\* Both channels, and both after a stop.
LEMMA ChannelWrites ==
  ASSUME NEW a \in MotorPulses, NEW b \in MotorPulses
  PROVE  /\ Len(SetChannels(a, b)) = 2
         /\ SetChannels(a, b)[1] = Write("in1", a) /\ SetChannels(a, b)[2] = Write("in2", b)
         /\ SetChannels(a, b) \in Seq(WriteRecords)
         /\ GoodWrites("motor", SetChannels(a, b))
         /\ LastWrite(SetChannels(a, b), "in1", a) /\ LastWrite(SetChannels(a, b), "in2", b)
  <1> DEFINE r == Write("in1", a)
             z == Write("in2", b)
             w == <<r, z>>
  <1>1. /\ a \in Nat /\ b \in Nat /\ a \in CanCarry("in1") /\ b \in CanCarry("in2")
        /\ "in1" \in Outputs /\ "in2" \in Outputs
        /\ "in1" \in OutputsOf("motor") /\ "in2" \in OutputsOf("motor")
    BY PinNames, PulsesAreNumbers DEF CanCarry, OutputsOf
  <1>2. /\ r \in WriteRecords /\ r.output = "in1" /\ r.value = a
        /\ z \in WriteRecords /\ z.output = "in2" /\ z.value = b
    BY <1>1 DEF WriteRecords, Write
  <1>3. r = Write("in1", a) /\ z = Write("in2", b) /\ SetChannels(a, b) = w
    BY DEF SetChannels
  <1> HIDE DEF r, z
  <1>4. Len(w) = 2 /\ w[1] = r /\ w[2] = z /\ w \in Seq(WriteRecords)
    BY <1>2
  <1> HIDE DEF w
  <1>5. GoodWrites("motor", w)
    BY <1>1, <1>2, <1>4 DEF GoodWrites
  <1>6. LastWrite(w, "in1", a) /\ LastWrite(w, "in2", b)
    BY <1>2, <1>3, <1>4 DEF LastWrite
  <1> QED
    BY <1>3, <1>4, <1>5, <1>6

LEMMA StopThenChannels ==
  ASSUME NEW x \in {0, 1}, NEW a \in MotorPulses, NEW b \in MotorPulses, a <= 1 \/ b <= 1
  PROVE  LET w == SetChannels(x, x) \o SetChannels(a, b)
         IN /\ GoodWrites("motor", w) /\ MotorPlan(w)
            /\ LastWrite(w, "in1", a) /\ LastWrite(w, "in2", b)
  <1> DEFINE u == SetChannels(x, x)
             v == SetChannels(a, b)
             w == u \o v
  <1>1. x \in MotorPulses /\ x <= 1
    BY PulsesAreNumbers
  <1>2. /\ Len(u) = 2 /\ u \in Seq(WriteRecords)
        /\ u[1] = Write("in1", x) /\ u[2] = Write("in2", x) /\ GoodWrites("motor", u)
        /\ Len(v) = 2 /\ v \in Seq(WriteRecords)
        /\ v[1] = Write("in1", a) /\ v[2] = Write("in2", b) /\ GoodWrites("motor", v)
    BY <1>1, ChannelWrites
  <1>3. /\ LastWrite(v, "in1", a) /\ LastWrite(v, "in2", b)
    BY ChannelWrites
  <1> HIDE DEF u, v
  <1>4. GoodWrites("motor", w) /\ LastWrite(w, "in1", a) /\ LastWrite(w, "in2", b)
    BY <1>2, <1>3, ConcatenatedWrites
  <1>5. /\ Len(w) = 4
        /\ w[1] = u[1] /\ w[2] = u[2] /\ w[3] = v[1] /\ w[4] = v[2]
    <2>1. /\ Len(w) = Len(u) + Len(v)
          /\ \A i \in 1 .. Len(u) : w[i] = u[i]
          /\ \A i \in 1 .. Len(v) : w[Len(u) + i] = v[i]
      BY <1>2, Concatenated
    <2> HIDE DEF w
    <2> QED
      BY <1>2, <2>1
  <1> HIDE DEF w
  <1>6. /\ w[1].output = "in1" /\ w[1].value = x /\ w[2].output = "in2" /\ w[2].value = x
        /\ w[3].output = "in1" /\ w[3].value = a /\ w[4].output = "in2" /\ w[4].value = b
    BY <1>2, <1>5 DEF Write
  <1>7. MotorPlan(w)
    BY <1>1, <1>5, <1>6 DEF MotorPlan
  <1> QED
    BY <1>4, <1>7 DEF w, u, v

-----------------------------------------------------------------------------
(* The calls that main and the handlers make.                              *)

LEMMA ServoCall ==
  ASSUME NEW angle \in 0 .. 180
  PROVE  /\ GoodCall(Call("servo", angle, ServoWrites(angle)))
         /\ Call("servo", angle, ServoWrites(angle)).dev = "servo"
  <1> DEFINE w == ServoWrites(angle)
             c == Call("servo", angle, w)
  <1>1. /\ "servo" \in Outputs /\ "servo" \in OutputsOf("servo") /\ "servo" \in Devices
        /\ "servo" \notin Pins
        /\ PulseNs(angle) \in Nat /\ PulseNs(angle) \in CanCarry("servo")
    BY PinNames, ServoInRange, PulsesAreNumbers DEF OutputsOf, CanCarry
  <1>2. GoodWrites("servo", w) /\ LastWrite(w, "servo", PulseNs(angle))
    BY <1>1, OneWrite DEF ServoWrites
  <1> HIDE DEF w
  <1>3. c.dev = "servo" /\ c.sets = angle /\ c.writes = w
    BY DEF Call
  <1> HIDE DEF c
  <1>4. GoodReport(c)
    BY <1>1, <1>3 DEF GoodReport
  <1>5. WritesReport(c)
    BY <1>1, <1>2, <1>3 DEF WritesReport
  <1>6. GoodCall(c)
    BY <1>2, <1>3, <1>4, <1>5 DEF GoodCall
  <1> QED
    BY <1>3, <1>6 DEF c, w

\* A call of the buzzer whose writes end with the tone it reports.
LEMMA BuzzerCall ==
  ASSUME NEW f \in BuzzerTones, NEW w, GoodWrites("buzzer", w), LastWrite(w, "buzzer", f)
  PROVE  GoodCall(Call("buzzer", f, w))
  <1> DEFINE c == Call("buzzer", f, w)
  <1>1. "buzzer" \in Devices /\ "buzzer" \notin Pins
    BY PinNames
  <1>2. c.dev = "buzzer" /\ c.sets = f /\ c.writes = w
    BY DEF Call
  <1> HIDE DEF c
  <1>3. GoodReport(c)
    BY <1>1, <1>2 DEF GoodReport
  <1>4. WritesReport(c)
    BY <1>1, <1>2 DEF WritesReport
  <1>5. GoodCall(c)
    BY <1>2, <1>3, <1>4 DEF GoodCall
  <1> QED
    BY <1>5 DEF c

LEMMA BuzzerTone ==
  ASSUME NEW f \in BuzzerTones
  PROVE  /\ GoodCall(Call("buzzer", f, <<Write("buzzer", f)>>))
         /\ GoodCall(Call("buzzer", 0, BeepWrites(f)))
  <1>1. /\ "buzzer" \in Outputs /\ "buzzer" \in OutputsOf("buzzer")
        /\ f \in Nat /\ f \in CanCarry("buzzer") /\ 0 \in BuzzerTones
    BY PinNames, SMT DEF OutputsOf, CanCarry, BuzzerTones
  <1>2. GoodCall(Call("buzzer", f, <<Write("buzzer", f)>>))
    BY <1>1, OneWrite, BuzzerCall
  <1>3. GoodCall(Call("buzzer", 0, BeepWrites(f)))
    BY <1>1, BeepWritesGood, BuzzerCall
  <1> QED
    BY <1>2, <1>3

LEMMA PinCall ==
  ASSUME NEW p \in Pins, NEW on \in BOOLEAN
  PROVE  GoodCall(Call(p, on, <<Write(p, IF on THEN 1 ELSE 0)>>))
  <1> DEFINE v == IF on THEN 1 ELSE 0
             w == <<Write(p, v)>>
             c == Call(p, on, w)
  <1>1. /\ p \in Outputs /\ p \in OutputsOf(p) /\ p \in Devices
        /\ p \notin {"in1", "in2", "servo", "buzzer", "motor"}
        /\ v \in Nat /\ v \in CanCarry(p)
    BY PinNames DEF OutputsOf, CanCarry
  <1> HIDE DEF v
  <1>2. GoodWrites(p, w) /\ LastWrite(w, p, v)
    BY <1>1, OneWrite
  <1> HIDE DEF w
  <1>3. c.dev = p /\ c.sets = on /\ c.writes = w
    BY DEF Call
  <1> HIDE DEF c
  <1>4. GoodReport(c)
    BY <1>1, <1>3 DEF GoodReport
  <1>5. WritesReport(c)
    BY <1>1, <1>2, <1>3 DEF WritesReport, v
  <1>6. GoodCall(c)
    BY <1>1, <1>2, <1>3, <1>4, <1>5 DEF GoodCall
  <1> QED
    BY <1>6 DEF c, w, v

\* A call of the motor.
LEMMA MotorCallGood ==
  ASSUME NEW s \in MotorStates, NEW w, GoodWrites("motor", w),
         LastWrite(w, "in1", Duty(s, "forward")), LastWrite(w, "in2", Duty(s, "backward")),
         "motor" \notin in_doubt => MotorPlan(w)
  PROVE  GoodCall(Call("motor", s, w))
  <1> DEFINE c == Call("motor", s, w)
  <1>1. "motor" \in Devices /\ "motor" \notin Pins
    BY PinNames
  <1>2. c.dev = "motor" /\ c.sets = s /\ c.writes = w
    BY DEF Call
  <1> HIDE DEF c
  <1>3. GoodReport(c)
    BY <1>1, <1>2 DEF GoodReport
  <1>4. WritesReport(c)
    BY <1>1, <1>2 DEF WritesReport
  <1>5. GoodCall(c)
    BY <1>2, <1>3, <1>4 DEF GoodCall
  <1> QED
    BY <1>5 DEF c

\* Two writes are enough when the motor stands or keeps its direction.
LEMMA TwoChannelWrites ==
  ASSUME ActuatorInv, ~busy, NEW s \in MotorStates,
         \/ s.speed_percent = 0 \/ motor_state.speed_percent = 0
         \/ s.direction = motor_state.direction
  PROVE  LET w == SetChannels(Duty(s, "forward"), Duty(s, "backward"))
         IN  /\ GoodWrites("motor", w)
             /\ LastWrite(w, "in1", Duty(s, "forward"))
             /\ LastWrite(w, "in2", Duty(s, "backward"))
             /\ "motor" \notin in_doubt => MotorPlan(w)
  <1> DEFINE a == Duty(s, "forward")
             b == Duty(s, "backward")
             w == SetChannels(a, b)
  <1>1. /\ a \in MotorPulses /\ b \in MotorPulses /\ a \in Nat /\ b \in Nat
        /\ a = 0 \/ b = 0
        /\ s.speed_percent = 0 => a = 0 /\ b = 0
        /\ s.direction = "forward" => b = 0
        /\ s.direction = "backward" => a = 0
        /\ s.direction \in {"forward", "backward"}
    BY OneChannel, PulsesAreNumbers DEF MotorStates, Directions
  <1>2. ASSUME "motor" \notin in_doubt
        PROVE  a <= 1 \/ driven["in2"] <= 1
    <2>1. motor_state \in MotorStates /\ driven["in2"] = Duty(motor_state, "backward")
      BY <1>2, MatchesMeans, PinNames DEF ActuatorInv, ActuatorTypes, RestMatches
    <2>2. /\ motor_state.speed_percent = 0 => driven["in2"] = 0
          /\ motor_state.direction = "forward" => driven["in2"] = 0
      BY <2>1, OneChannel
    <2>3. motor_state.direction \in {"forward", "backward"}
      BY <2>1 DEF MotorStates, Directions
    <2> HIDE DEF a, b
    <2> QED
      BY <1>1, <2>2, <2>3
  <1> HIDE DEF a, b
  <1>3. /\ GoodWrites("motor", w) /\ LastWrite(w, "in1", a) /\ LastWrite(w, "in2", b)
        /\ Len(w) = 2 /\ w[1] = Write("in1", a) /\ w[2] = Write("in2", b)
    BY <1>1, ChannelWrites
  <1> HIDE DEF w
  <1>4. /\ w[1].output = "in1" /\ w[1].value = a
        /\ w[2].output = "in2" /\ w[2].value = b
    BY <1>3 DEF Write
  <1>5. "motor" \notin in_doubt => MotorPlan(w)
    <2> SUFFICES ASSUME "motor" \notin in_doubt PROVE MotorPlan(w)
      OBVIOUS
    <2>1. a <= 1 \/ b <= 1
      BY <1>1
    <2> QED
      BY <1>2, <1>3, <1>4, <2>1 DEF MotorPlan
  <1> QED
    BY <1>3, <1>5 DEF w, a, b

LEMMA MotorCalls ==
  ASSUME ActuatorInv, ~busy
  PROVE  /\ GoodCall(Call("motor", MotorState(0, motor_state.direction), SetChannels(0, 0)))
         /\ \A speed \in 1 .. 100, d \in Directions :
               LET s == MotorState(speed, d) IN GoodCall(Call("motor", s, MotorWrites(s)))
  <1>1. motor_state \in MotorStates
    BY DEF ActuatorInv, ActuatorTypes
  <1>2. GoodCall(Call("motor", MotorState(0, motor_state.direction), SetChannels(0, 0)))
    <2> DEFINE s == MotorState(0, motor_state.direction)
    <2>1. s \in MotorStates /\ s.speed_percent = 0
      BY <1>1 DEF MotorState, MotorStates
    <2> HIDE DEF s
    <2>2. Duty(s, "forward") = 0 /\ Duty(s, "backward") = 0
      BY <2>1, OneChannel
    <2>3. /\ GoodWrites("motor", SetChannels(0, 0))
          /\ LastWrite(SetChannels(0, 0), "in1", Duty(s, "forward"))
          /\ LastWrite(SetChannels(0, 0), "in2", Duty(s, "backward"))
          /\ "motor" \notin in_doubt => MotorPlan(SetChannels(0, 0))
      BY <2>1, <2>2, TwoChannelWrites
    <2>4. GoodCall(Call("motor", s, SetChannels(0, 0)))
      BY <2>1, <2>3, MotorCallGood
    <2> QED
      BY <2>4 DEF s
  <1>3. ASSUME NEW speed \in 1 .. 100, NEW d \in Directions
        PROVE  LET s == MotorState(speed, d) IN GoodCall(Call("motor", s, MotorWrites(s)))
    <2> DEFINE s == MotorState(speed, d)
               a == Duty(s, "forward")
               b == Duty(s, "backward")
    <2>1. s \in MotorStates
      BY DEF MotorState, MotorStates
    <2> HIDE DEF s
    <2>2. a \in MotorPulses /\ b \in MotorPulses /\ (a <= 1 \/ b <= 1)
      BY <2>1, OneChannel
    <2>3. CASE motor_state.speed_percent > 0 /\ s.direction # motor_state.direction
      <3>1. MotorWrites(s) = SetChannels(0, 0) \o SetChannels(a, b)
        BY <2>3 DEF MotorWrites
      <3> HIDE DEF a, b
      <3>2. /\ GoodWrites("motor", MotorWrites(s)) /\ MotorPlan(MotorWrites(s))
            /\ LastWrite(MotorWrites(s), "in1", a) /\ LastWrite(MotorWrites(s), "in2", b)
        BY <2>2, <3>1, StopThenChannels
      <3> QED
        BY <2>1, <3>2, MotorCallGood DEF s, a, b
    <2>4. CASE ~(motor_state.speed_percent > 0 /\ s.direction # motor_state.direction)
      <3>1. motor_state.speed_percent = 0 \/ s.direction = motor_state.direction
        BY <1>1, <2>4 DEF MotorStates
      <3>2. MotorWrites(s) = SetChannels(a, b)
        <4>1. MotorWrites(s) = << >> \o SetChannels(a, b)
          BY <2>4 DEF MotorWrites
        <4>2. SetChannels(a, b) \in Seq(WriteRecords)
          BY <2>2, ChannelWrites
        <4> HIDE DEF a, b
        <4> QED
          BY <4>1, <4>2, ConcatEmptySeq
      <3>3. GoodCall(Call("motor", s, SetChannels(a, b)))
        BY <2>1, <3>1, TwoChannelWrites, MotorCallGood
      <3> QED
        BY <3>2, <3>3 DEF s
    <2> QED
      BY <2>3, <2>4
  <1> QED
    BY <1>2, <1>3

LEMMA BootCallsGood ==
  ASSUME NEW n \in 1 .. 6
  PROVE  GoodCall(BootCalls[n]) /\ (n = 2 => BootCalls[n].dev = "servo")
  <1> DEFINE tones == <<Write("buzzer", 0)>> \o BeepWrites(1000)
                        \o BeepWrites(2000) \o BeepWrites(3000)
             prime == SetChannels(1, 1) \o SetChannels(0, 0)
             s == MotorState(0, "forward")
  <1>1. /\ BootCalls[1] = Call("buzzer", 0, tones)
        /\ BootCalls[2] = Call("servo", 0, ServoWrites(0))
        /\ BootCalls[3] = Call("servo", 90, ServoWrites(90))
        /\ BootCalls[4] = Call("servo", 180, ServoWrites(180))
        /\ BootCalls[5] = Call("servo", 90, ServoWrites(90))
        /\ BootCalls[6] = Call("motor", s, prime)
    BY DEF BootCalls
  <1>2. s \in MotorStates /\ s.speed_percent = 0
    BY DEF MotorState, MotorStates, Directions
  <1>3. GoodCall(Call("buzzer", 0, tones))
    <2>1. GoodWrites("buzzer", tones) /\ LastWrite(tones, "buzzer", 0)
      BY TestTones
    <2>2. 0 \in BuzzerTones
      BY SMT DEF BuzzerTones
    <2> HIDE DEF tones
    <2> QED
      BY <2>1, <2>2, BuzzerCall
  <1>4. GoodCall(Call("motor", s, prime))
    <2>1. Duty(s, "forward") = 0 /\ Duty(s, "backward") = 0
      BY <1>2, OneChannel
    <2>2. /\ GoodWrites("motor", prime) /\ MotorPlan(prime)
          /\ LastWrite(prime, "in1", 0) /\ LastWrite(prime, "in2", 0)
      BY PulsesAreNumbers, StopThenChannels
    <2> HIDE DEF prime, s
    <2> QED
      BY <1>2, <2>1, <2>2, MotorCallGood
  <1> HIDE DEF tones, prime, s
  <1>5. /\ 0 \in 0 .. 180 /\ 90 \in 0 .. 180 /\ 180 \in 0 .. 180
    OBVIOUS
  <1>6. n = 1 \/ n = 2 \/ n = 3 \/ n = 4 \/ n = 5 \/ n = 6
    OBVIOUS
  <1> QED
    BY <1>1, <1>3, <1>4, <1>5, <1>6, ServoCall

-----------------------------------------------------------------------------
(* The steps.                                                              *)

\* What a client writes into a request arrives within the handler's limits.
LEMMA AcceptedInRange ==
  ASSUME NEW lo \in Nat, NEW hi \in Nat
  PROVE  Accepted(lo, hi) \subseteq lo .. hi
  BY DEF Accepted

LEMMA RequestKeeps ==
  ASSUME ActuatorInv, NEW c, GoodCall(c), Request(c)
  PROVE  ActuatorInv'
  <1>1. Begin(c) /\ boot' = boot
    BY DEF Request
  <1>2. boot' \in 1 .. 7 /\ ~(boot <= 2 /\ boot' > 2)
    BY <1>1 DEF ActuatorInv, ActuatorTypes
  <1> QED
    BY <1>1, <1>2, BeginKeeps

LEMMA BootNextKeeps == ActuatorInv /\ BootNext => ActuatorInv'
  <1> SUFFICES ASSUME ActuatorInv, BootNext PROVE ActuatorInv'
    OBVIOUS
  <1>1. boot \in 1 .. 6 /\ boot' = boot + 1 /\ Begin(BootCalls[boot])
    BY SixBootCalls DEF BootNext, Booted, ActuatorInv, ActuatorTypes
  <1>2. boot' \in 1 .. 7
    BY <1>1
  <1>3. GoodCall(BootCalls[boot])
    BY <1>1, BootCallsGood
  <1>4. boot <= 2 /\ boot' > 2 => BootCalls[boot].dev = "servo"
    BY <1>1, BootCallsGood
  <1> QED
    BY <1>1, <1>2, <1>3, <1>4, BeginKeeps

LEMMA PostsKeep ==
  ActuatorInv /\ (PostMotor \/ PostServo \/ PostBuzzer \/ \E p \in Pins : PostPin(p))
    => ActuatorInv'
  <1> SUFFICES ASSUME ActuatorInv
               PROVE  PostMotor \/ PostServo \/ PostBuzzer \/ (\E p \in Pins : PostPin(p))
                        => ActuatorInv'
    OBVIOUS
  <1>1. ASSUME PostMotor PROVE ActuatorInv'
    <2>1. ~busy
      BY <1>1 DEF PostMotor, Request, Begin
    <2>2. Accepted(1, 100) \subseteq 1 .. 100
      BY AcceptedInRange
    <2>3. CASE Request(Call("motor", MotorState(0, motor_state.direction),
                            SetChannels(0, 0)))
      BY <2>1, <2>3, MotorCalls, RequestKeeps
    <2>4. CASE \E speed \in Accepted(1, 100), d \in Directions :
                  LET s == MotorState(speed, d)
                  IN Request(Call("motor", s, MotorWrites(s)))
      <3>1. PICK speed \in 1 .. 100, d \in Directions :
               Request(Call("motor", MotorState(speed, d), MotorWrites(MotorState(speed, d))))
        BY <2>2, <2>4
      <3>2. GoodCall(Call("motor", MotorState(speed, d), MotorWrites(MotorState(speed, d))))
        BY <2>1, MotorCalls
      <3> QED
        BY <3>1, <3>2, RequestKeeps
    <2> QED
      BY <1>1, <2>3, <2>4 DEF PostMotor
  <1>2. ASSUME PostServo PROVE ActuatorInv'
    <2>1. PICK angle \in Accepted(0, 180) : Request(Call("servo", angle, ServoWrites(angle)))
      BY <1>2 DEF PostServo
    <2>2. angle \in 0 .. 180
      BY AcceptedInRange
    <2> QED
      BY <2>1, <2>2, ServoCall, RequestKeeps
  <1>3. ASSUME PostBuzzer PROVE ActuatorInv'
    <2>1. CASE Request(Call("buzzer", 0, <<Write("buzzer", 0)>>))
      <3>1. 0 \in BuzzerTones
        BY SMT DEF BuzzerTones
      <3> QED
        BY <2>1, <3>1, BuzzerTone, RequestKeeps
    <2>2. CASE \E freq \in {1000} \cup Accepted(100, 20000) :
                  \/ Request(Call("buzzer", freq, <<Write("buzzer", freq)>>))
                  \/ Request(Call("buzzer", 0, BeepWrites(freq)))
      <3>1. {1000} \cup Accepted(100, 20000) \subseteq BuzzerTones
        <4>1. Accepted(100, 20000) \subseteq 100 .. 20000
          BY SMT DEF Accepted
        <4>2. 1000 \in BuzzerTones
          BY SMT DEF BuzzerTones
        <4> QED
          BY <4>1, <4>2 DEF BuzzerTones
      <3> QED
        BY <2>2, <3>1, BuzzerTone, RequestKeeps
    <2> QED
      BY <1>3, <2>1, <2>2 DEF PostBuzzer
  <1>4. ASSUME NEW p \in Pins, PostPin(p) PROVE ActuatorInv'
    <2>1. PICK on \in BOOLEAN : Request(Call(p, on, <<Write(p, IF on THEN 1 ELSE 0)>>))
      BY <1>4 DEF PostPin, SetPin
    <2> QED
      BY <2>1, PinCall, RequestKeeps
  <1> QED
    BY <1>1, <1>2, <1>3, <1>4

\* A call whose last writes all worked has left its outputs as it reports.
LEMMA CallDone ==
  ASSUME CallUnderWay, busy, writes = << >>, slips = {}
  PROVE  /\ call.dev = "motor" => /\ driven["in1"] = Duty(call.sets, "forward")
                                  /\ driven["in2"] = Duty(call.sets, "backward")
         /\ call.dev = "servo" => driven["servo"] = PulseNs(call.sets)
         /\ call.dev = "buzzer" => driven["buzzer"] = call.sets
         /\ call.dev \in Pins => driven[call.dev] = IF call.sets THEN 1 ELSE 0
  <1>1. Len(writes) = 0
    OBVIOUS
  <1>2. ASSUME NEW o, NEW v, EndsAt(o, v) PROVE driven[o] = v
    BY <1>1, <1>2 DEF EndsAt, LastWrite
  <1>3. CallEnds(call)
    BY DEF CallUnderWay
  <1> QED
    BY <1>2, <1>3 DEF CallEnds

\* Only the device that was called changes its report, and to what it drives.
LEMMA ReturnReports ==
  ASSUME ActuatorInv, Return
  PROVE  /\ UNCHANGED <<boot, writes, driven>> /\ busy' = FALSE /\ slips' = {}
         /\ writes = << >> /\ GoodReport(call)
         /\ call.dev # "motor" \/ slips # {} => motor_state' = motor_state
         /\ call.dev # "servo" \/ slips # {} => current_angle' = current_angle
         /\ call.dev # "buzzer" => tone' = tone
         /\ \A p \in Pins : call.dev # p \/ slips # {} => pin_state'[p] = pin_state[p]
         /\ call.dev = "motor" /\ slips = {} => motor_state' = call.sets /\ Matches("motor")'
         /\ call.dev = "servo" /\ slips = {} => current_angle' = call.sets /\ Matches("servo")'
         /\ call.dev = "buzzer" => tone' = call.sets
         /\ call.dev = "buzzer" /\ slips = {} => Matches("buzzer")'
         /\ \A p \in Pins : call.dev = p /\ slips = {} => Matches(p)'
         /\ pin_state' \in [Pins -> BOOLEAN]
  <1>1. /\ busy /\ writes = << >> /\ UNCHANGED <<boot, writes, driven>>
        /\ busy' = FALSE /\ slips' = {}
    BY DEF Return
  <1>2. CallUnderWay /\ GoodReport(call) /\ pin_state \in [Pins -> BOOLEAN]
    BY <1>1 DEF ActuatorInv, ActuatorTypes, CallUnderWay
  <1>3. call.dev \in Devices /\ (call.dev \in Pins => call.sets \in BOOLEAN)
    BY <1>2 DEF GoodReport
  <1>4. /\ motor_state' = IF call.dev = "motor" /\ Succeeds THEN call.sets ELSE motor_state
        /\ current_angle' = IF call.dev = "servo" /\ Succeeds
                            THEN call.sets ELSE current_angle
        /\ tone' = IF call.dev = "buzzer" THEN call.sets ELSE tone
        /\ pin_state' = IF call.dev \in Pins /\ Succeeds
                        THEN [pin_state EXCEPT ![call.dev] = call.sets] ELSE pin_state
    BY DEF Return
  <1>5. Succeeds <=> slips = {} \/ call.dev = "buzzer"
    BY DEF Succeeds
  <1>6. /\ call.dev # "motor" \/ slips # {} => motor_state' = motor_state
        /\ call.dev = "motor" /\ slips = {} => motor_state' = call.sets
        /\ call.dev # "servo" \/ slips # {} => current_angle' = current_angle
        /\ call.dev = "servo" /\ slips = {} => current_angle' = call.sets
        /\ call.dev # "buzzer" => tone' = tone
        /\ call.dev = "buzzer" => tone' = call.sets
    BY <1>4, <1>5
  <1>7. /\ pin_state' \in [Pins -> BOOLEAN]
        /\ \A p \in Pins : call.dev # p \/ slips # {} => pin_state'[p] = pin_state[p]
        /\ \A p \in Pins : call.dev = p /\ slips = {} => pin_state'[p] = call.sets
    BY <1>2, <1>3, <1>4, <1>5, PinNames
  <1>8. ASSUME slips = {}
        PROVE  /\ call.dev = "motor" => Matches("motor")'
               /\ call.dev = "servo" => Matches("servo")'
               /\ call.dev = "buzzer" => Matches("buzzer")'
               /\ \A p \in Pins : call.dev = p => Matches(p)'
    BY <1>1, <1>2, <1>6, <1>7, <1>8, CallDone, MatchesMeansNext
  <1> QED
    BY <1>1, <1>2, <1>6, <1>7, <1>8

LEMMA ReturnKeeps == ActuatorInv /\ Return => ActuatorInv'
  <1> SUFFICES ASSUME ActuatorInv, Return PROVE ActuatorInv'
    OBVIOUS
  <1>1. /\ UNCHANGED <<boot, writes, driven>> /\ busy' = FALSE /\ slips' = {}
        /\ writes = << >> /\ GoodReport(call)
    BY ReturnReports
  <1>2. in_doubt' = IF slips = {} THEN in_doubt \ {call.dev} ELSE in_doubt
    BY DEF Return
  <1>3. call.dev \in Devices /\ busy /\ (slips # {} => call.dev \in in_doubt)
    BY <1>1 DEF GoodReport, ActuatorInv, CallUnderWay, Return
  <1>4. ActuatorTypes'
    <2>1. motor_state' \in MotorStates /\ current_angle' \in 0 .. 180 /\ tone' \in BuzzerTones
      BY <1>1, ReturnReports DEF GoodReport, ActuatorInv, ActuatorTypes
    <2>2. pin_state' \in [Pins -> BOOLEAN]
      BY ReturnReports
    <2> QED
      BY <1>1, <1>2, <2>1, <2>2 DEF ActuatorInv, ActuatorTypes
  <1>5. CallUnderWay'
    BY <1>1 DEF CallUnderWay
  <1>6. RestMatches'
    <2> SUFFICES ASSUME NEW dev \in Devices, dev \notin in_doubt',
                        ~(dev = "servo" /\ boot <= 2)
                 PROVE  Matches(dev)'
      BY <1>1 DEF RestMatches
    <2>1. CASE dev = call.dev
      <3>1. slips = {}
        BY <1>2, <1>3, <2>1
      <3> QED
        BY <2>1, <3>1, ReturnReports, PinNames
    <2>2. CASE dev # call.dev
      <3>1. Matches(dev)
        BY <1>2, <2>2 DEF ActuatorInv, RestMatches
      <3>2. CASE dev = "motor"
        BY <1>1, <2>2, <3>1, <3>2, ReturnReports, MatchesMeans, MatchesMeansNext
      <3>3. CASE dev = "servo"
        BY <1>1, <2>2, <3>1, <3>3, ReturnReports, MatchesMeans, MatchesMeansNext
      <3>4. CASE dev = "buzzer"
        BY <1>1, <2>2, <3>1, <3>4, ReturnReports, MatchesMeans, MatchesMeansNext
      <3>5. CASE dev \in Pins
        <4>1. pin_state'[dev] = pin_state[dev]
          BY <2>2, <3>5, ReturnReports
        <4> QED
          BY <1>1, <3>1, <3>5, <4>1, MatchesMeans, MatchesMeansNext
      <3> QED
        BY <3>2, <3>3, <3>4, <3>5, PinNames
    <2> QED
      BY <2>1, <2>2
  <1>7. MotorInv'
    <2> SUFFICES ASSUME "motor" \notin in_doubt'
                 PROVE  driven["in1"] <= 1 \/ driven["in2"] <= 1
      BY <1>1 DEF MotorInv
    <2>1. CASE "motor" \notin in_doubt
      BY <2>1 DEF ActuatorInv, MotorInv
    <2>2. CASE "motor" \in in_doubt
      <3>1. call.dev = "motor" /\ slips = {}
        BY <1>2, <2>2
      <3>2. /\ driven["in1"] = Duty(call.sets, "forward")
            /\ driven["in2"] = Duty(call.sets, "backward")
        BY <1>1, <1>3, <3>1, CallDone DEF ActuatorInv
      <3>3. call.sets \in MotorStates
        BY <1>1, <3>1 DEF GoodReport
      <3> QED
        BY <3>2, <3>3, OneChannel
    <2> QED
      BY <2>1, <2>2
  <1> QED
    BY <1>4, <1>5, <1>6, <1>7 DEF ActuatorInv

\* At power on every output is off, and every report but that of the servo says
\* so.
LEMMA ActuatorsInitial == ActuatorsInit => ActuatorInv
  <1> SUFFICES ASSUME ActuatorsInit PROVE ActuatorInv
    OBVIOUS
  <1>1. /\ boot = 1 /\ busy = FALSE /\ writes = << >> /\ slips = {} /\ in_doubt = {}
        /\ driven = [o \in Outputs |-> 0]
        /\ motor_state = MotorState(0, "forward") /\ current_angle = 90 /\ tone = 0
        /\ pin_state = [p \in Pins |-> FALSE]
    BY DEF ActuatorsInit
  <1>2. motor_state \in MotorStates /\ motor_state.speed_percent = 0
    BY <1>1 DEF MotorState, MotorStates, Directions
  <1>3. \A o \in Outputs : driven[o] = 0 /\ 0 \in CanCarry(o)
    BY <1>1, PulsesAreNumbers, SMT DEF CanCarry, BuzzerTones
  <1>4. /\ driven["in1"] = 0 /\ driven["in2"] = 0 /\ driven["buzzer"] = 0
        /\ \A p \in Pins : driven[p] = 0
    BY <1>3, PinNames
  <1>5. ActuatorTypes
    <2>1. 0 \in BuzzerTones
      BY SMT DEF BuzzerTones
    <2>2. driven \in [Outputs -> Nat] /\ pin_state \in [Pins -> BOOLEAN]
      BY <1>1
    <2>3. boot \in 1 .. 7 /\ current_angle \in 0 .. 180
      BY <1>1, SMT
    <2>5. busy \in BOOLEAN
      BY <1>1
    <2>4. slips \subseteq Outputs /\ in_doubt \subseteq Devices
      BY <1>1
    <2> QED
      BY <1>1, <1>2, <1>3, <2>1, <2>2, <2>3, <2>4, <2>5 DEF ActuatorTypes
  <1>6. CallUnderWay
    BY <1>1 DEF CallUnderWay
  <1>7. RestMatches
    <2>1. Matches("motor")
      BY <1>2, <1>4, OneChannel, MatchesMeans
    <2>2. Matches("buzzer") /\ \A p \in Pins : Matches(p)
      BY <1>1, <1>4, MatchesMeans
    <2> QED
      BY <1>1, <2>1, <2>2, PinNames DEF RestMatches
  <1>8. MotorInv
    BY <1>1, <1>4 DEF MotorInv
  <1> QED
    BY <1>5, <1>6, <1>7, <1>8 DEF ActuatorInv

\* A reset of the chip leaves what a power on does.
LEMMA ActuatorsInitialNext == ActuatorsInit' => ActuatorInv'
  BY ActuatorsInitial, PTL

LEMMA ChipResetKeeps == ChipReset => ActuatorInv'
  <1>1. ChipReset => ActuatorsInit'
    BY DEF ChipReset, ActuatorsInit
  <1> QED
    BY <1>1, ActuatorsInitialNext

LEMMA ActuatorsStutter == ActuatorInv /\ UNCHANGED actuatorVars => ActuatorInv'
  <1> SUFFICES ASSUME ActuatorInv, UNCHANGED actuatorVars PROVE ActuatorInv'
    OBVIOUS
  <1>1. UNCHANGED <<boot, busy, call, writes, slips, driven, motor_state, current_angle,
                    pin_state, tone, in_doubt>>
    BY DEF actuatorVars, callVars, reportVars
  <1>2. ActuatorTypes'
    BY <1>1 DEF ActuatorInv, ActuatorTypes
  <1>3. \A o, v : EndsAt(o, v) => EndsAt(o, v)'
    BY <1>1 DEF EndsAt
  <1>4. CallUnderWay'
    BY <1>1, <1>3 DEF ActuatorInv, CallUnderWay, CallEnds
  <1>5. \A dev \in Devices : Matches(dev) => Matches(dev)'
    BY <1>1, MatchesKept DEF reportVars
  <1>6. RestMatches'
    BY <1>1, <1>5 DEF ActuatorInv, RestMatches
  <1>7. MotorPlan(writes) => MotorPlan(writes)'
    BY <1>1 DEF MotorPlan
  <1>8. MotorInv'
    BY <1>1, <1>7 DEF ActuatorInv, MotorInv
  <1> QED
    BY <1>2, <1>4, <1>6, <1>8 DEF ActuatorInv

\* The inductive invariant of the actuators.
LEMMA ActuatorInvariant == ActuatorsSpec => []ActuatorInv
  <1>1. ActuatorInv /\ [ActuatorsNext]_actuatorVars => ActuatorInv'
    BY BootNextKeeps, WriteKeeps, ReturnKeeps, ChipResetKeeps, PostsKeep, ActuatorsStutter
       DEF ActuatorsNext
  <1> QED
    BY <1>1, ActuatorsInitial, PTL DEF ActuatorsSpec

\* Every output stays within what its device can take: the servo never gets a
\* pulse outside 1 to 2 ms, a channel of the motor never one longer than its
\* period (servo_module_set_angle, motor_module_set, handle_buzzer_post).
THEOREM ActuatorsTypeCorrect == ActuatorsSpec => []ActuatorsTypeOK
  <1>1. ActuatorInv => ActuatorsTypeOK
    <2> SUFFICES ASSUME ActuatorInv PROVE ActuatorsTypeOK
      OBVIOUS
    <2>1. ActuatorTypes /\ CallUnderWay
      BY DEF ActuatorInv
    <2>2. boot \in 1 .. Len(BootCalls) + 1 /\ busy \in BOOLEAN
      BY <2>1, SixBootCalls DEF ActuatorTypes
    <2>3. writes \in Seq([output : Outputs, value : Nat])
      <3>1. CASE busy
        BY <2>1, <3>1 DEF CallUnderWay, GoodWrites, WriteRecords
      <3>2. CASE ~busy
        BY <2>1, <3>2 DEF CallUnderWay
      <3> QED
        BY <3>1, <3>2
    <2>4. \A o \in Outputs : driven[o] \in CanCarry(o)
      BY <2>1 DEF ActuatorTypes
    <2>5. /\ driven["servo"] \in {0} \cup ServoPulses
          /\ driven["in1"] \in MotorPulses /\ driven["in2"] \in MotorPulses
          /\ driven["buzzer"] \in BuzzerTones
      BY <2>4, PinNames DEF CanCarry
    <2>6. \A p \in Pins : driven[p] \in {0, 1}
      BY <2>4, PinNames DEF CanCarry
    <2>7. /\ driven["servo"] = 0 \/ driven["servo"] \in ServoMinPulseNs .. ServoMaxPulseNs
          /\ driven["in1"] \in 0 .. MotorPeriodNs /\ driven["in2"] \in 0 .. MotorPeriodNs
      BY <2>5 DEF ServoPulses, MotorPulses
    <2>8. tone \in BuzzerTones
      BY <2>1 DEF ActuatorTypes
    <2>9. /\ slips \subseteq Outputs /\ in_doubt \subseteq Devices /\ DOMAIN driven = Outputs
          /\ motor_state \in [speed_percent : 0 .. 100, direction : Directions]
          /\ current_angle \in 0 .. 180 /\ pin_state \in [Pins -> BOOLEAN]
      BY <2>1 DEF ActuatorTypes, MotorStates
    <2> QED
      BY <2>2, <2>3, <2>5, <2>6, <2>7, <2>8, <2>9, Zenon DEF ActuatorsTypeOK
  <1> QED
    BY <1>1, ActuatorInvariant, PTL

\* The two inputs of the bridge never carry a duty together, also not between
\* two writes of a call, unless a write to the motor has failed since its last
\* good call (motor_module_set stops the motor before it turns it round).
THEOREM NoShootThroughHolds == ActuatorsSpec => []NoShootThrough
  <1>1. ActuatorInv => NoShootThrough
    <2> SUFFICES ASSUME ActuatorInv, driven["in1"] > 1, driven["in2"] > 1
                 PROVE  "motor" \in in_doubt
      BY DEF NoShootThrough
    <2>1. driven["in1"] \in Nat /\ driven["in2"] \in Nat
      BY PinNames DEF ActuatorInv, ActuatorTypes
    <2> QED
      BY <2>1 DEF ActuatorInv, MotorInv
  <1> QED
    BY <1>1, ActuatorInvariant, PTL

\* Once main has set the kit up and no call is under way, every device whose
\* last call had no failed write does what its module reports to a client.
THEOREM ReportedIsDrivenHolds == ActuatorsSpec => []ReportedIsDriven
  <1>1. ActuatorInv => ReportedIsDriven
    <2> SUFFICES ASSUME ActuatorInv, Booted, ~busy, NEW dev \in Devices
                 PROVE  dev \in in_doubt \/ Matches(dev)
      BY DEF ReportedIsDriven
    <2>1. boot > 2
      BY SixBootCalls DEF Booted, ActuatorInv, ActuatorTypes
    <2>2. boot \in 1 .. 7
      BY DEF ActuatorInv, ActuatorTypes
    <2> QED
      BY <2>1, <2>2 DEF ActuatorInv, RestMatches
  <1> QED
    BY <1>1, ActuatorInvariant, PTL

\* A module changes what it reports only to what its outputs carry at that
\* moment, also after writes that failed: motor_module_set, servo_module_set_angle
\* and set_pin record a state only once the writes of the call succeeded.
THEOREM ReportedWasDrivenHolds == ActuatorsSpec => ReportedWasDriven
  <1> DEFINE Step == Booted /\ Booted' =>
                       /\ motor_state' # motor_state => Matches("motor")'
                       /\ current_angle' # current_angle => Matches("servo")'
                       /\ \A p \in Pins : pin_state'[p] # pin_state[p] => Matches(p)'
  <1>1. ActuatorInv /\ [ActuatorsNext]_actuatorVars => Step
    <2> SUFFICES ASSUME ActuatorInv, [ActuatorsNext]_actuatorVars PROVE Step
      OBVIOUS
    <2>1. CASE Return
      BY <2>1, ReturnReports
    <2>2. CASE ChipReset
      <3>1. boot' = 1
        BY <2>2 DEF ChipReset
      <3>2. ~Booted'
        BY <3>1, SixBootCalls DEF Booted
      <3> QED
        BY <3>2
    <2>3. CASE UNCHANGED reportVars
      BY <2>3 DEF reportVars
    <2>4. BootNext \/ WriteNext \/ UNCHANGED actuatorVars => UNCHANGED reportVars
      BY DEF BootNext, Begin, WriteNext, actuatorVars
    <2>5. PostMotor \/ PostServo \/ PostBuzzer \/ (\E p \in Pins : PostPin(p))
            => UNCHANGED reportVars
      <3>1. ASSUME NEW c, Request(c) PROVE UNCHANGED reportVars
        BY <3>1 DEF Request, Begin
      <3>2. PostMotor => UNCHANGED reportVars
        BY <3>1, Zenon DEF PostMotor
      <3>3. PostServo => UNCHANGED reportVars
        BY <3>1, Zenon DEF PostServo
      <3>4. PostBuzzer => UNCHANGED reportVars
        <4>1. ASSUME NEW freq, Request(Call("buzzer", freq, <<Write("buzzer", freq)>>))
                                 \/ Request(Call("buzzer", 0, BeepWrites(freq)))
              PROVE  UNCHANGED reportVars
          BY <3>1, <4>1
        <4>2. Request(Call("buzzer", 0, <<Write("buzzer", 0)>>)) => UNCHANGED reportVars
          BY <3>1
        <4>3. PostBuzzer => \/ Request(Call("buzzer", 0, <<Write("buzzer", 0)>>))
                            \/ \E freq :
                                  \/ Request(Call("buzzer", freq, <<Write("buzzer", freq)>>))
                                  \/ Request(Call("buzzer", 0, BeepWrites(freq)))
          BY DEF PostBuzzer
        <4> QED
          BY <4>1, <4>2, <4>3, Zenon
      <3>5. (\E p \in Pins : PostPin(p)) => UNCHANGED reportVars
        BY <3>1, Zenon DEF PostPin, SetPin
      <3> QED
        BY <3>2, <3>3, <3>4, <3>5
    <2> QED
      BY <2>1, <2>2, <2>3, <2>4, <2>5 DEF ActuatorsNext
  <1>2. ActuatorsSpec => [][Step]_actuatorVars
    BY <1>1, ActuatorInvariant, PTL DEF ActuatorsSpec
  <1> QED
    BY <1>2 DEF ReportedWasDriven
=============================================================================
