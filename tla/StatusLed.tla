----------------------------- MODULE StatusLed -----------------------------
(***************************************************************************)
(* set_mode of provision_module.c and rgb_module.c under it.  Four threads *)
(* change the mode, without a lock, and the transfer to the strip lets the *)
(* others run: what the LED shows in the end need not be the mode.         *)
(***************************************************************************)
CONSTANTS
    Callers,   \* threads that call set_mode
    LedFaults  \* subset of LedFaultKinds

LedFaultKinds == {"strip_error"}

ASSUME LedAssumption == LedFaults \subseteq LedFaultKinds

Modes == {"boot", "provisioning", "connecting", "operational"}
Dark == "dark"

VARIABLES
    mode,    \* of provision_module
    stage,   \* where each caller is in set_mode
    next,    \* its argument
    pixels,  \* of rgb_module, in the colour of a mode
    strip,   \* hardware: what the LED shows
    unsure   \* history: the last call was not alone, or its update failed

ledVars == <<mode, stage, next, pixels, strip, unsure>>

LedInit ==
    /\ mode = "boot" /\ pixels = Dark /\ strip = Dark /\ unsure = FALSE
    /\ stage = [c \in Callers |-> "out"] /\ next = [c \in Callers |-> "boot"]

\* The mode is assigned before the LED is touched; no change, no colour.
SetMode(c) ==
    \E m \in Modes \ {"boot", mode} :
        /\ stage[c] = "out"
        /\ mode' = m
        /\ stage' = [stage EXCEPT ![c] = "fill"] /\ next' = [next EXCEPT ![c] = m]
        /\ unsure' = \E d \in Callers : stage[d] # "out"
        /\ UNCHANGED <<pixels, strip>>

\* rgb_module_set_color fills the pixels of the module, ...
SetColor(c) ==
    /\ stage[c] = "fill"
    /\ stage' = [stage EXCEPT ![c] = "update"]
    /\ pixels' = next[c]
    /\ UNCHANGED <<mode, next, strip, unsure>>

LeaveSetMode(c) ==
    /\ stage[c] = "update"
    /\ stage' = [stage EXCEPT ![c] = "out"] /\ next' = [next EXCEPT ![c] = "boot"]

\* ... and hands them to the strip; a failure is only printed.
MutUpdate(c) ==
    /\ LeaveSetMode(c)
    /\ UNCHANGED <<mode, pixels, strip, unsure>>
Update(c) ==
    /\ LeaveSetMode(c)
    /\ \/ strip' = pixels /\ UNCHANGED unsure
       \/ /\ "strip_error" \in LedFaults
          /\ unsure' = TRUE /\ UNCHANGED strip
    /\ UNCHANGED <<mode, pixels>>

\* A reset of the processor; the LED holds its colour while it has power.
LedReset(left) ==
    /\ mode' = "boot" /\ pixels' = Dark /\ unsure' = FALSE
    /\ stage' = [c \in Callers |-> "out"] /\ next' = [c \in Callers |-> "boot"]
    /\ strip' = left

LedNext == \E c \in Callers : SetMode(c) \/ SetColor(c) \/ Update(c)

LedSpec ==
    LedInit /\ [][LedNext \/ \E left \in Modes \cup {Dark} : LedReset(left)]_ledVars

-----------------------------------------------------------------------------
\* The LED shows the mode once no call of set_mode is under way, unless the last
\* one met another or its transfer failed: nothing corrects it until the mode
\* changes again.  Nobody sets the colour of the mode "boot".
LedShowsMode ==
    (\A c \in Callers : stage[c] = "out") /\ ~unsure /\ mode # "boot"
        => strip = mode
=============================================================================
