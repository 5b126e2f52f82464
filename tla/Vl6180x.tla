------------------------------ MODULE Vl6180x ------------------------------
(***************************************************************************)
(* src/modules/vl6180x_module.c against the sensor it drives.  The sensor  *)
(* measures in its own time, keeps its registers when the processor        *)
(* reboots, and answers over an I2C bus on which any transfer may fail.    *)
(*                                                                         *)
(* A measurement is known by its age: "own" was started by the call that   *)
(* is running or ran last, "before" by an earlier one.                     *)
(***************************************************************************)
EXTENDS Integers

CONSTANTS
    NumSettings, \* mandatory private settings
    MaxPolls,    \* polls of a call before it times out
    BusFaults    \* subset of BusFaultKinds

BusFaultKinds == {"i2c_error", "reboot", "power_cycle"}

ASSUME Vl6180xAssumption ==
    /\ NumSettings \in Nat \ {0} /\ MaxPolls \in Nat \ {0}
    /\ BusFaults \subseteq BusFaultKinds

VARIABLES
    pc,        \* where the driver is
    setting,   \* next mandatory setting to write
    timeout,   \* polls left
    range_mm,  \* the measurement that the call has read
    cut_off,   \* history: a call ended between its start and its clear
    fresh,     \* sensor: FRESH_OUT_OF_RESET
    settings,  \* sensor: mandatory settings it has received
    enabled,   \* sensor: does it raise the interrupt on a new sample?
    measuring, \* sensor: measurement in progress
    intr,      \* sensor: RESULT__INTERRUPT_STATUS_GPIO
    range_val  \* sensor: measurement in RESULT_RANGE_VAL

setupVars == <<fresh, settings, enabled>>
sampleVars == <<measuring, intr, range_val>>
vars == <<pc, setting, timeout, range_mm, cut_off, setupVars, sampleVars>>

Settings == 1 .. NumSettings
Ages == {"none", "before", "own"}

CounterTypeOK ==
    /\ pc \in {"boot", "mandatory", "public", "idle", "poll", "read", "clear"}
    /\ setting \in 1 .. NumSettings + 1 /\ timeout \in 0 .. MaxPolls
FlagTypeOK ==
    /\ cut_off \in BOOLEAN /\ fresh \in BOOLEAN /\ enabled \in BOOLEAN
    /\ intr \in BOOLEAN
SampleTypeOK ==
    /\ settings \subseteq Settings
    /\ range_mm \in Ages /\ measuring \in Ages /\ range_val \in Ages

Vl6180xTypeOK == CounterTypeOK /\ FlagTypeOK /\ SampleTypeOK

Init ==
    /\ pc = "boot" /\ setting = 1 /\ timeout = 0
    /\ range_mm = "none" /\ cut_off = FALSE
    /\ fresh = TRUE /\ settings = {} /\ enabled = FALSE
    /\ measuring = "none" /\ intr = FALSE /\ range_val = "none"

BusError == "i2c_error" \in BusFaults

-----------------------------------------------------------------------------
(* vl6180x_module_init.  main only logs its failure, so the module can be  *)
(* called afterwards in any case.                                          *)

\* Identification, and the question whether the sensor is fresh out of reset:
\* without an answer to it the mandatory settings are skipped.
Probe ==
    /\ pc = "boot"
    /\ setting' = 1
    /\ \/ pc' = IF fresh THEN "mandatory" ELSE "public"
       \/ BusError /\ pc' \in {"idle", "public"}
    /\ UNCHANGED <<timeout, range_mm, cut_off, setupVars, sampleVars>>

\* One of the mandatory settings; the first error ends the initialisation.
MutMandatoryWrite ==
    /\ pc = "mandatory" /\ setting <= NumSettings
    /\ settings' \in {settings \cup {setting}} \cup (IF BusError THEN {settings} ELSE {})
    /\ setting' = setting + 1
    /\ UNCHANGED <<pc, timeout, range_mm, cut_off, fresh, enabled, sampleVars>>

MandatoryWrite ==
    /\ pc = "mandatory" /\ setting <= NumSettings
    /\ \/ /\ settings' = settings \cup {setting}
          /\ setting' = setting + 1
          /\ pc' = pc
       \/ /\ BusError
          /\ pc' = "idle"
          /\ UNCHANGED <<settings, setting>>
    /\ UNCHANGED <<timeout, range_mm, cut_off, fresh, enabled, sampleVars>>

\* The flag is cleared last, and nobody looks whether that arrived.
MandatoryEnd ==
    /\ pc = "mandatory" /\ setting > NumSettings
    /\ pc' = "public"
    /\ fresh' \in {FALSE} \cup (IF BusError THEN {fresh} ELSE {})
    /\ UNCHANGED <<setting, timeout, range_mm, cut_off, settings, enabled,
                   sampleVars>>

\* Of the public settings, all written without a look at the results, only the
\* last matters here.
PublicConfig ==
    /\ pc = "public"
    /\ pc' = "idle"
    /\ enabled' \in {TRUE} \cup (IF BusError THEN {enabled} ELSE {})
    /\ UNCHANGED <<setting, timeout, range_mm, cut_off, fresh, settings,
                   sampleVars>>

-----------------------------------------------------------------------------
(* vl6180x_module_read_range.                                              *)

Older(age) == IF age = "own" THEN "before" ELSE age

\* A sensor that is still measuring may begin anew or ignore the request.
Start ==
    /\ pc = "idle"
    /\ pc' = "poll" /\ timeout' = MaxPolls
    /\ range_mm' = "none"
    /\ measuring' \in {"own"} \cup ({Older(measuring)} \ {"none"})
    /\ range_val' = Older(range_val)
    /\ UNCHANGED <<setting, cut_off, setupVars, intr>>

\* The call returns an error after it has started a measurement.
CutOff ==
    /\ pc' = "idle" /\ cut_off' = TRUE
    /\ UNCHANGED <<setting, range_mm, setupVars, sampleVars>>

\* The last poll of MaxPolls that finds nothing ends the call.
MutPollForever ==
    /\ pc = "poll"
    /\ intr /\ pc' = "read"
    /\ UNCHANGED <<timeout, setting, range_mm, cut_off, setupVars, sampleVars>>
MutPollPostDecrement ==
    /\ pc = "poll"
    /\ timeout' = IF intr THEN timeout ELSE timeout - 1
    /\ pc' = IF intr \/ timeout = 0 THEN "read" ELSE "poll"
    /\ UNCHANGED <<setting, range_mm, cut_off, setupVars, sampleVars>>

Poll ==
    /\ pc = "poll"
    /\ \/ /\ intr
          /\ pc' = "read"
          /\ UNCHANGED <<timeout, setting, range_mm, cut_off, setupVars,
                         sampleVars>>
       \/ /\ ~intr /\ timeout > 1
          /\ timeout' = timeout - 1
          /\ UNCHANGED <<pc, setting, range_mm, cut_off, setupVars, sampleVars>>
       \/ ~intr /\ timeout = 1 /\ timeout' = 0 /\ CutOff
       \/ BusError /\ timeout' = 0 /\ CutOff

Read ==
    /\ pc = "read"
    /\ timeout' = 0
    /\ \/ /\ pc' = "clear" /\ range_mm' = range_val
          /\ UNCHANGED <<setting, cut_off, setupVars, sampleVars>>
       \/ BusError /\ CutOff

\* The value is returned whether or not the interrupt was cleared.
MutClear ==
    /\ pc = "clear"
    /\ pc' = "idle"
    /\ UNCHANGED <<setting, timeout, range_mm, cut_off, setupVars, sampleVars>>

Clear ==
    /\ pc = "clear"
    /\ \/ /\ pc' = "idle" /\ intr' = FALSE
          /\ UNCHANGED <<setting, range_mm, cut_off, setupVars, measuring,
                         range_val>>
       \/ BusError /\ CutOff
    /\ UNCHANGED timeout

Driver == Probe \/ MandatoryWrite \/ MandatoryEnd \/ PublicConfig
          \/ Poll \/ Read \/ Clear

-----------------------------------------------------------------------------
(* The sensor and the power.                                               *)

Finish ==
    /\ measuring # "none"
    /\ measuring' = "none" /\ range_val' = measuring
    /\ intr' = (intr \/ enabled)
    /\ UNCHANGED <<pc, setting, timeout, range_mm, cut_off, setupVars>>

\* The driver forgets everything and starts over.
DriverRestarts ==
    /\ pc' = "boot" /\ setting' = 1 /\ timeout' = 0 /\ range_mm' = "none"

\* sys_reboot, as after a factory reset: the sensor does not notice.
Reboot ==
    /\ "reboot" \in BusFaults
    /\ pc # "boot"
    /\ DriverRestarts
    /\ cut_off' = (cut_off \/ pc \in {"poll", "read", "clear"})
    /\ UNCHANGED <<setupVars, sampleVars>>

PowerCycle ==
    /\ "power_cycle" \in BusFaults
    /\ pc # "boot"
    /\ DriverRestarts
    /\ cut_off' = FALSE
    /\ fresh' = TRUE /\ settings' = {} /\ enabled' = FALSE
    /\ measuring' = "none" /\ intr' = FALSE /\ range_val' = "none"

Next == Driver \/ Start \/ Finish \/ Reboot \/ PowerCycle

\* Calls are begun by the API thread when it likes, and go on once begun.
Spec == Init /\ [][Next]_vars
FairSpec == Spec /\ WF_vars(Driver)

-----------------------------------------------------------------------------
(* What the callers rely on.                                               *)

\* The sensor says that it is fresh until it has received every mandatory
\* setting, whatever errors, reboots and power cycles come between them; else
\* the next boot would skip what is missing.
FreshUntilSetUp == ~fresh => settings = Settings

\* A call that ends in the middle leaves the interrupt of its measurement
\* behind.  As long as none has, a call returns the measurement it started.
FreshUnlessCutOff == pc = "clear" => range_mm = "own" \/ cut_off

\* The value a call returns is that of the measurement it started.
FreshRange == pc = "clear" => range_mm = "own"

\* A call ends although the sensor may never answer.
CallReturns == pc = "poll" ~> pc \in {"idle", "boot"}
=============================================================================
