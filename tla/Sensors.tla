------------------------------ MODULE Sensors ------------------------------
(***************************************************************************)
(* analog_module.c, gpio_inputs_module.c, dht22_module.c, mpu6050_module.c *)
(* and the handlers of api_module.c that answer with their readings.  A    *)
(* reading is a sample of a Zephyr driver turned into the numbers of the   *)
(* answer; nothing is kept from one request to the next.                   *)
(***************************************************************************)
EXTENDS Integers

CONSTANTS
    AdcSamples,  \* what the ADC may deliver, an int16_t
    SensorValues \* what a sensor driver may deliver, a struct sensor_value

Micro == 1000000
AdcFullScale == 4095
Int16 == -32768 .. 32767

\* A sensor_value is val1 + val2 / 10^6, both parts with the sign of the value.
SensorValueType ==
    {v \in [val1 : Int, val2 : Int] :
        /\ -Micro < v.val2 /\ v.val2 < Micro
        /\ ~(v.val1 > 0 /\ v.val2 < 0) /\ ~(v.val1 < 0 /\ v.val2 > 0)}

ASSUME SensorsAssumption ==
    /\ AdcSamples \subseteq Int16
    /\ SensorValues \subseteq SensorValueType

VARIABLES
    sample, \* what the driver delivered for the last request
    shown   \* what the request was answered

sensorVars == <<sample, shown>>

-----------------------------------------------------------------------------
(* From samples to answers.                                                *)

\* read_channel, for handle_ldr_get and handle_water_get.
Clamp(raw) == IF raw < 0 THEN 0
              ELSE IF raw > AdcFullScale THEN AdcFullScale ELSE raw

Level(raw) == [raw |-> Clamp(raw),
               percent |-> (Clamp(raw) * 100) \div AdcFullScale]

\* handle_dht_get and handle_imu_get: SV_SIGN, and SV_ABS of both parts.
\* Only the humidity is printed as it is, which is the same for it is not negative.
Magnitude(v) == IF v < 0 THEN -v ELSE v

MutDecimal(val1, val2) == [negative |-> val1 < 0, whole |-> Magnitude(val1),
                           micro |-> Magnitude(val2)]
Decimal(val1, val2) == [negative |-> val1 < 0 \/ val2 < 0,
                        whole |-> Magnitude(val1), micro |-> Magnitude(val2)]

\* handle_magnetic_get and handle_button_get, for the level of the pin.
Switch(val) == [on |-> val = 1]

\* A driver that fails is answered as "not available".
Unavailable == [kind |-> "unavailable"]
Levels == {[kind |-> "level", raw |-> raw] : raw \in AdcSamples}
Decimals == {[kind |-> "decimal", val |-> v] : v \in SensorValues}
Switches == {[kind |-> "switch", pin |-> pin] : pin \in {0, 1}}
Samples == Levels \cup Decimals \cup Switches \cup {Unavailable}

Answer(s) ==
    CASE s.kind = "level" -> Level(s.raw)
      [] s.kind = "decimal" -> Decimal(s.val.val1, s.val.val2)
      [] s.kind = "switch" -> Switch(s.pin)
      [] s.kind = "unavailable" -> Unavailable

SensorsInit == sample = Unavailable /\ shown = Unavailable

GetSensor ==
    /\ sample' \in Samples
    /\ shown' = Answer(sample')

SensorsSpec == SensorsInit /\ [][GetSensor]_sensorVars

-----------------------------------------------------------------------------
\* The value of an answer, as its reader takes it.
ValueOf(d) ==
    (IF d.negative THEN -1 ELSE 1) * (d.whole * Micro + d.micro)

\* What is shown is what was measured: decimals to the last digit, with the
\* sign of values between -1 and 0 too; levels to one percent of the range.
ShownIsMeasured ==
    /\ sample.kind = "decimal" =>
          ValueOf(shown) = sample.val.val1 * Micro + sample.val.val2
    /\ sample.kind = "level" =>
          /\ shown.percent \in 0 .. 100
          /\ sample.raw \in 0 .. AdcFullScale =>
                /\ shown.percent * AdcFullScale <= sample.raw * 100
                /\ sample.raw * 100 < (shown.percent + 1) * AdcFullScale
    /\ sample.kind = "switch" => (shown.on <=> sample.pin = 1)
=============================================================================
