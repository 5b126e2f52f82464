------------------------------ MODULE Devices ------------------------------
(***************************************************************************)
(* The device modules under their one caller.  main initialises them one   *)
(* after the other, then the API thread serves one request at a time, so a *)
(* call of one device never overlaps that of another.  A reset of the chip *)
(* cuts all of them off together, and only the range sensor outlives it.   *)
(*                                                                         *)
(* Requests come from anywhere, or from the relay and LED pages of the     *)
(* desktop app and from others that drive the same outputs.  The devices   *)
(* share nothing but their caller: in each behaviour one of them is in     *)
(* use, and the others only boot.                                          *)
(***************************************************************************)
EXTENDS Vl6180x, Actuators, Sensors, DesktopApp, StatusLed

\* The rows of the app are outputs of the kit, and no pin is named as a part.
ASSUME DevicesAssumption ==
    /\ Rows \subseteq Pins
    /\ Pins \cap {"range", "sensors", "app", "status_led"} = {}

VARIABLE used  \* what is in use

deviceVars == <<vars, actuatorVars, sensorVars, appVars, ledVars, used>>

DevicesInit ==
    /\ Init /\ ActuatorsInit /\ SensorsInit /\ AppInit /\ LedInit
    /\ used \in Devices \cup {"range", "sensors", "app", "status_led"}

\* The modules keep out of each other's state.
RangeOnly(action) ==
    action /\ UNCHANGED <<actuatorVars, sensorVars, appVars, ledVars, used>>
ActuatorsOnly(action) ==
    action /\ UNCHANGED <<vars, sensorVars, appVars, ledVars, used>>
AppOnly(action) ==
    action /\ UNCHANGED <<vars, actuatorVars, sensorVars, ledVars, used>>
LedOnly(action) ==
    action /\ UNCHANGED <<vars, actuatorVars, sensorVars, appVars, used>>

-----------------------------------------------------------------------------
(* main: the buzzer, the range sensor, the servo, the motor.               *)

RangeBooted == pc \notin {"boot", "mandatory", "public"}

\* Only the device in use meets faults.
Sound == INSTANCE Vl6180x WITH BusFaults <- {}

RangeDriver ==
    /\ RangeBooted \/ (boot = 2 /\ ~busy)
    /\ RangeOnly(IF used = "range" THEN Driver ELSE Sound!Driver)

BootActuator ==
    /\ boot = 1 \/ RangeBooted
    /\ ActuatorsOnly(BootNext)

-----------------------------------------------------------------------------
(* The API thread.                                                         *)

Taken == {w \in Workers : at[w] \in {"serving", "left_serving"}}

ApiFree == Booted /\ ~busy /\ pc = "idle" /\ Taken = {}

InUse == IF used = "app" THEN Rows ELSE {used}

GetRange ==
    /\ used = "range" /\ ApiFree
    /\ RangeOnly(Start)

GetReading ==
    /\ used = "sensors" /\ ApiFree
    /\ GetSensor
    /\ UNCHANGED <<vars, actuatorVars, appVars, ledVars, used>>

\* Any client; next to the app, others post to its outputs.
PostActuator ==
    /\ ApiFree
    /\ ActuatorsOnly(\/ used = "motor" /\ PostMotor
                     \/ used = "servo" /\ PostServo
                     \/ used = "buzzer" /\ PostBuzzer
                     \/ \E p \in InUse \cap Pins : PostPin(p))

\* A request of the app is taken; one that sets a pin begins the call of it.
TakeRequest(w) ==
    /\ ApiFree /\ Take(w)
    /\ IF task[w].kind = "set" THEN SetPin(task[w].row, task[w].text = "on")
                               ELSE UNCHANGED actuatorVars
    /\ UNCHANGED <<vars, sensorVars, ledVars, used>>

\* Its answer.  How a POST /wifi ends is up to the network.
AnswerRequest(w) ==
    /\ w \in Taken
    /\ \/ /\ task[w].kind = "connect"
          /\ \E text \in {"none", "error"} : Reply(text)
          /\ UNCHANGED actuatorVars
       \/ /\ task[w].kind = "read"
          /\ Reply(IF pin_state[task[w].row] THEN "on" ELSE "off")
          /\ UNCHANGED actuatorVars
       \/ /\ task[w].kind = "set"
          /\ Return
          /\ Reply(IF Succeeds THEN task[w].text ELSE "error")
    /\ UNCHANGED <<vars, sensorVars, ledVars, used>>

\* The app does not see the call of another client.
ActuatorGoesOn ==
    \/ /\ WriteNext /\ in_doubt' \subseteq InUse
       /\ IF used = "app" /\ Taken = {} /\ call.dev \in Rows
          THEN OthersDrive(call.dev) ELSE UNCHANGED appVars
       /\ UNCHANGED <<vars, sensorVars, ledVars, used>>
    \/ ActuatorsOnly(Taken = {} /\ Return)

-----------------------------------------------------------------------------
AppStep ==
    /\ used = "app"
    /\ AppOnly(UserStep \/ PollTimer \/ RunCallback)

WorkerGoesOn(w) == AppOnly(WorkerStep(w))

SensorGoesOn == RangeOnly(Finish)

\* The modes change long before main is done with the devices, but apart from
\* them: here they change afterwards.
LedStep ==
    /\ used = "status_led" /\ Booted
    /\ LedOnly(LedNext)

\* The factory reset reboots the processor, a power cycle everything.
Restart ==
    /\ \/ Reboot /\ LedReset(strip)
       \/ PowerCycle /\ LedReset(Dark)
    /\ ChipReset
    /\ IF used = "app" THEN DeviceReset ELSE UNCHANGED appVars
    /\ sample' = Unavailable /\ shown' = Unavailable
    /\ UNCHANGED used

DevicesNext ==
    \/ RangeDriver \/ BootActuator \/ GetRange \/ GetReading
    \/ PostActuator \/ ActuatorGoesOn \/ SensorGoesOn \/ Restart
    \/ AppStep \/ LedStep
    \/ \E w \in Workers : TakeRequest(w) \/ AnswerRequest(w) \/ WorkerGoesOn(w)

\* The range driver goes on once begun.  Every request of the app ends, at the
\* latest by its timeout, and the main loop of Tk runs its callbacks.
DevicesSpec ==
    /\ DevicesInit /\ [][DevicesNext]_deviceVars
    /\ WF_deviceVars(RangeDriver)
    /\ \A w \in Workers : WF_deviceVars(WorkerGoesOn(w))
    /\ WF_deviceVars(AppOnly(RunCallback))

-----------------------------------------------------------------------------
\* What the app says of an output is what the output does: from the click over
\* the request, the module and the pin to the answer and the callback.  Not
\* covered is a label whose last request overlapped with another of its row, or
\* whose output another client or a reset of the device has driven since that
\* request was made: no page follows the device unasked.
LabelIsDriven ==
    \A r \in Rows :
        /\ label[r] \in {"on", "off"} /\ r \notin muddled /\ ~Outstanding(r)
        => driven[r] = IF label[r] = "on" THEN 1 ELSE 0
=============================================================================
