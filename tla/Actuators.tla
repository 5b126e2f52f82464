----------------------------- MODULE Actuators -----------------------------
(***************************************************************************)
(* The motor, servo, buzzer, relay and LED modules with the handlers of    *)
(* api_module.c that drive them.  One thread makes every call: main while  *)
(* the kit boots, the API thread afterwards.  A call writes its outputs    *)
(* one after the other, each write may fail, and the module remembers what *)
(* it reports: what can go wrong lies between the outputs and the report.  *)
(*                                                                         *)
(* An output carries the length of its pulse in ns, the frequency of the   *)
(* buzzer, or the level of a pin; 0 is off.                                *)
(***************************************************************************)
EXTENDS Integers, Sequences

CONSTANTS
    Pins,        \* relays and LEDs, on one GPIO pin each
    Numbers,     \* numbers a client may write into a request
    IntMod,      \* 2^(width of int)
    DriveFaults  \* subset of DriveFaultKinds

DriveFaultKinds == {"pwm_error", "gpio_error", "chip_reset"}
Channels == {"in1", "in2", "servo", "buzzer"}
Outputs == Channels \cup Pins
Devices == {"motor", "servo", "buzzer"} \cup Pins

ASSUME ActuatorsAssumption ==
    /\ Pins \cap {"in1", "in2", "servo", "buzzer", "motor"} = {}
    /\ Numbers \subseteq Int
    /\ IntMod \in Nat /\ IntMod > 40000
    /\ DriveFaults \subseteq DriveFaultKinds

VARIABLES
    boot,          \* the next of BootCalls
    busy,          \* is a call under way?
    call,          \* its device, and what that reports when it succeeds
    writes,        \* what the call has still to write
    slips,         \* outputs whose last write in this call failed
    driven,        \* hardware: what each output carries
    motor_state, current_angle, pin_state,
    tone,          \* history: what the buzzer was last told, 0 for silence
    in_doubt       \* history: devices whose last call ended with a slip

callVars == <<busy, call, writes, slips>>
reportVars == <<motor_state, current_angle, pin_state, tone>>
actuatorVars == <<boot, callVars, driven, reportVars, in_doubt>>

-----------------------------------------------------------------------------
(* Numbers.                                                                *)

\* json_get_int: digits are accumulated in an int without a look at its width.
JsonInt(n) == ((n + IntMod \div 2) % IntMod) - (IntMod \div 2)

\* The numbers of a request that arrive in a handler as one from lo to hi.
Accepted(lo, hi) == {JsonInt(n) : n \in Numbers} \cap lo .. hi

ServoMinPulseNs == 1000000
ServoMaxPulseNs == 2000000
MotorPeriodNs == 20000000

\* servo_module_set_angle: from the shortest pulse to the longest in 180 steps.
MutPulseNs(angle) ==
    ServoMinPulseNs + angle * ((ServoMaxPulseNs - ServoMinPulseNs) \div 90)
PulseNs(angle) ==
    ServoMinPulseNs + (angle * (ServoMaxPulseNs - ServoMinPulseNs)) \div 180

\* motor_module_set: the share of a period.
DutyNs(speed) == (MotorPeriodNs * speed) \div 100

-----------------------------------------------------------------------------
(* Calls and their writes.                                                 *)

Directions == {"forward", "backward"}
MotorState(speed, direction) ==
    [speed_percent |-> speed, direction |-> direction]

Write(output, value) == [output |-> output, value |-> value]

\* What in1 and in2 carry when the motor runs as in s.
Duty(s, direction) ==
    IF s.direction = direction THEN DutyNs(s.speed_percent) ELSE 0

SetChannels(duty_in1, duty_in2) ==
    <<Write("in1", duty_in1), Write("in2", duty_in2)>>

\* motor_module_set stops the motor before it changes its direction.
MutMotorWrites(s) == SetChannels(Duty(s, "forward"), Duty(s, "backward"))
MotorWrites(s) ==
    (IF motor_state.speed_percent > 0 /\ s.direction # motor_state.direction
     THEN SetChannels(0, 0) ELSE << >>)
    \o SetChannels(Duty(s, "forward"), Duty(s, "backward"))

ServoWrites(angle) == <<Write("servo", PulseNs(angle))>>

MutBeepWrites(freq) == <<Write("buzzer", freq)>>
BeepWrites(freq) == <<Write("buzzer", freq), Write("buzzer", 0)>>

Call(dev, sets, w) == [dev |-> dev, sets |-> sets, writes |-> w]
NoCall == Call("none", 0, << >>)

\* main calls the init functions and only logs what they return: the buzzer and
\* the servo test themselves, the channels of the motor are primed.  Left out is
\* servo_module_init when the PWM device is not ready: then there are no writes.
BootCalls ==
    <<Call("buzzer", 0, <<Write("buzzer", 0)>> \o BeepWrites(1000)
                            \o BeepWrites(2000) \o BeepWrites(3000)),
      Call("servo", 0, ServoWrites(0)),
      Call("servo", 90, ServoWrites(90)),
      Call("servo", 180, ServoWrites(180)),
      Call("servo", 90, ServoWrites(90)),
      Call("motor", MotorState(0, "forward"),
           SetChannels(1, 1) \o SetChannels(0, 0))>>

Booted == boot > Len(BootCalls)

ActuatorsInit ==
    /\ boot = 1 /\ busy = FALSE
    /\ call = NoCall /\ writes = << >> /\ slips = {}
    /\ driven = [o \in Outputs |-> 0]
    /\ motor_state = MotorState(0, "forward") /\ current_angle = 90
    /\ pin_state = [p \in Pins |-> FALSE]
    /\ tone = 0 /\ in_doubt = {}

Begin(c) ==
    /\ ~busy /\ busy' = TRUE
    /\ call' = c /\ writes' = c.writes /\ slips' = {}
    /\ UNCHANGED <<driven, reportVars, in_doubt>>

BootNext ==
    /\ ~Booted
    /\ Begin(BootCalls[boot])
    /\ boot' = boot + 1

-----------------------------------------------------------------------------
(* The handlers of the API.  A request that fails its checks is answered   *)
(* and changes nothing: only the others are steps here.                    *)

Request(c) == Booted /\ Begin(c) /\ UNCHANGED boot

\* handle_motor_post: speed 0 is motor_module_stop, whatever the direction.
PostMotor ==
    \/ /\ 0 \in Accepted(0, 100)
       /\ Request(Call("motor", MotorState(0, motor_state.direction),
                       SetChannels(0, 0)))
    \/ \E speed \in Accepted(1, 100), d \in Directions :
          LET s == MotorState(speed, d)
          IN Request(Call("motor", s, MotorWrites(s)))

PostServo ==
    \E angle \in Accepted(0, 180) :
        Request(Call("servo", angle, ServoWrites(angle)))

\* handle_buzzer_post: 1000 Hz unless the request says otherwise; the pause of
\* a beep lies between its two writes.
PostBuzzer ==
    \/ Request(Call("buzzer", 0, <<Write("buzzer", 0)>>))
    \/ \E freq \in {1000} \cup Accepted(100, 20000) :
          \/ Request(Call("buzzer", freq, <<Write("buzzer", freq)>>))
          \/ Request(Call("buzzer", 0, BeepWrites(freq)))

\* handle_relay_post and handle_led_post.
SetPin(p, on) == Request(Call(p, on, <<Write(p, IF on THEN 1 ELSE 0)>>))
PostPin(p) == \E on \in BOOLEAN : SetPin(p, on)

-----------------------------------------------------------------------------
(* A call goes on.                                                         *)

\* pwm_set or gpio_pin_set_dt.  A later write of the call goes on regardless.
WriteNext ==
    /\ writes # << >>
    /\ writes' = Tail(writes)
    /\ LET w == Head(writes)
           fault == IF w.output \in Pins THEN "gpio_error" ELSE "pwm_error"
       IN \/ /\ driven' = [driven EXCEPT ![w.output] = w.value]
             /\ slips' = slips \ {w.output}
             /\ UNCHANGED in_doubt
          \/ /\ fault \in DriveFaults
             /\ slips' = slips \cup {w.output}
             /\ in_doubt' = in_doubt \cup {call.dev}
             /\ UNCHANGED driven
    /\ UNCHANGED <<boot, busy, call, reportVars>>

\* What the call returns: set_channels fails when one of its two writes does,
\* and nobody looks at those of the buzzer.
MutSucceeds == "in1" \notin slips
Succeeds == slips = {} \/ call.dev = "buzzer"

Return ==
    /\ busy /\ writes = << >>
    /\ busy' = FALSE /\ call' = NoCall /\ slips' = {}
    /\ motor_state' = IF call.dev = "motor" /\ Succeeds
                      THEN call.sets ELSE motor_state
    /\ current_angle' = IF call.dev = "servo" /\ Succeeds
                        THEN call.sets ELSE current_angle
    /\ pin_state' = IF call.dev \in Pins /\ Succeeds
                    THEN [pin_state EXCEPT ![call.dev] = call.sets]
                    ELSE pin_state
    /\ tone' = IF call.dev = "buzzer" THEN call.sets ELSE tone
    /\ in_doubt' = IF slips = {} THEN in_doubt \ {call.dev} ELSE in_doubt
    /\ UNCHANGED <<boot, writes, driven>>

\* The chip is reset, by the factory reset or by its supply: every output falls
\* back to 0, every module to its initial values, and main begins anew.
ChipReset ==
    /\ "chip_reset" \in DriveFaults
    /\ boot > 1
    /\ boot' = 1 /\ busy' = FALSE
    /\ call' = NoCall /\ writes' = << >> /\ slips' = {}
    /\ driven' = [o \in Outputs |-> 0]
    /\ motor_state' = MotorState(0, "forward") /\ current_angle' = 90
    /\ pin_state' = [p \in Pins |-> FALSE]
    /\ tone' = 0 /\ in_doubt' = {}

ActuatorsNext ==
    \/ BootNext \/ WriteNext \/ Return \/ ChipReset
    \/ PostMotor \/ PostServo \/ PostBuzzer \/ \E p \in Pins : PostPin(p)

ActuatorsSpec == ActuatorsInit /\ [][ActuatorsNext]_actuatorVars

-----------------------------------------------------------------------------
(* What a client and the hardware rely on.                                 *)

\* What the buzzer is told: off, or a frequency handle_buzzer_post accepts.
BuzzerTones == {0} \cup 100 .. 20000

\* Every output stays within what its device can take: no pulse of the servo
\* outside 1 to 2 ms, no pulse of the motor longer than its period.
ActuatorsTypeOK ==
    /\ boot \in 1 .. Len(BootCalls) + 1 /\ busy \in BOOLEAN
    /\ writes \in Seq([output : Outputs, value : Nat])
    /\ slips \subseteq Outputs /\ in_doubt \subseteq Devices
    /\ DOMAIN driven = Outputs
    /\ driven["servo"] = 0 \/ driven["servo"] \in ServoMinPulseNs .. ServoMaxPulseNs
    /\ driven["in1"] \in 0 .. MotorPeriodNs /\ driven["in2"] \in 0 .. MotorPeriodNs
    /\ driven["buzzer"] \in BuzzerTones
    /\ \A p \in Pins : driven[p] \in {0, 1}
    /\ motor_state \in [speed_percent : 0 .. 100, direction : Directions]
    /\ current_angle \in 0 .. 180 /\ pin_state \in [Pins -> BOOLEAN]
    /\ tone \in BuzzerTones

Matches(dev) ==
    CASE dev = "motor" -> /\ driven["in1"] = Duty(motor_state, "forward")
                          /\ driven["in2"] = Duty(motor_state, "backward")
      [] dev = "servo" -> driven["servo"] = PulseNs(current_angle)
      [] dev = "buzzer" -> driven["buzzer"] = tone
      [] dev \in Pins -> driven[dev] = IF pin_state[dev] THEN 1 ELSE 0

\* Between calls every device is doing what it reports, unless its last call
\* ended with a failed write: a call that fails half-way keeps the old report.
ReportedIsDriven ==
    Booted /\ ~busy => \A dev \in Devices : dev \in in_doubt \/ Matches(dev)

\* A report changes only to what the outputs carry at that moment, whatever
\* failed before: a module never reports what it has not driven.
ReportedWasDriven ==
    [][Booted /\ Booted' =>
        /\ motor_state' # motor_state => Matches("motor")'
        /\ current_angle' # current_angle => Matches("servo")'
        /\ \A p \in Pins : pin_state'[p] # pin_state[p] => Matches(p)']_actuatorVars

\* "Stop active channel before switching direction": the two inputs of the
\* bridge never carry a duty together, also not between the writes of a call,
\* unless a write to the motor has failed since its last good call.
NoShootThrough ==
    driven["in1"] > 1 /\ driven["in2"] > 1 => "motor" \in in_doubt
=============================================================================
