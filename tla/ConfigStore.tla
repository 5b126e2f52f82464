---------------------------- MODULE ConfigStore ----------------------------
(***************************************************************************)
(* src/modules/config_module.c with the threads that use it: main at boot, *)
(* the API thread (read, modify and save of the whole configuration), the  *)
(* event thread (the wifi_provisioned flag), and the factory reset of      *)
(* reset_button_module.c on the system work queue.                         *)
(*                                                                         *)
(* The configuration is a RAM copy (current_config) and one entry per key  *)
(* in flash.  config_lock protects each access, but not a read and the     *)
(* save that follows it, nor the eight flash writes of a save against a    *)
(* reset.  One key is written or deleted at a time; NVS makes each atomic. *)
(***************************************************************************)
EXTENDS Integers, Sequences

CONSTANTS
    Profiles,    \* Wi-Fi settings a client may post, one value for all fields
    Names,       \* device ids and tokens a client may put
    Default,     \* the initialiser of every field; an empty SSID and PSK
    Mac,         \* the device id made from the MAC address
    Absent,      \* no entry in flash
    HoldTime,    \* HOLD_DURATION_MS, in ticks
    ActiveLow,   \* does the sw0 alias of the board carry GPIO_ACTIVE_LOW?
    StoreFaults  \* subset of StoreFaultKinds

StoreFaultKinds == {"save_error", "erase_error", "power_loss", "button"}

\* provision_module_connect_blocking refuses an empty SSID: what a client posts
\* is never the initialiser.
ASSUME StoreAssumption ==
    /\ HoldTime \in Nat \ {0} /\ ActiveLow \in BOOLEAN
    /\ StoreFaults \subseteq StoreFaultKinds
    /\ Absent \notin Profiles \cup Names \cup {Default, Mac}
    /\ Default \notin Profiles

VARIABLES
    phase,            \* "boot" while main initialises, then "up"
    current_config, wifi_provisioned,
    nvs,              \* flash
    lock,             \* owner of config_lock
    next,             \* key the owner is about to write or delete
    api, api_op,      \* where the API thread is, and in which operation
    api_copy, api_copy_provisioned,  \* its struct kit_config on the stack
    reset,            \* where reset_work_handler is
    reset_work,       \* ticks until reset_work is due, Off if not scheduled
    button, held      \* is it down, and for how many ticks (up to HoldTime)

storeVars == <<current_config, wifi_provisioned, nvs, lock, next>>
apiVars == <<api, api_op, api_copy, api_copy_provisioned>>
buttonVars == <<reset_work, button, held>>
vars == <<phase, storeVars, apiVars, reset, buttonVars>>

Off == -1

\* The order in which config_module_save and config_module_factory_reset go
\* through the keys.
MutKeyOrder ==
    <<"device_id", "wifi_ssid", "wifi_psk", "api_token", "wifi_ip_mode",
      "wifi_ip_address", "wifi_netmask">>
KeyOrder ==
    <<"device_id", "wifi_ssid", "wifi_psk", "api_token", "wifi_ip_mode",
      "wifi_ip_address", "wifi_netmask", "wifi_gateway">>
WifiKeys == {"wifi_ssid", "wifi_psk", "wifi_ip_mode", "wifi_ip_address",
             "wifi_netmask", "wifi_gateway"}
Keys == WifiKeys \cup {"device_id", "api_token"}

Values == Profiles \cup Names \cup {Default, Mac}
Defaults == [k \in Keys |-> Default]

\* settings_load_subtree over the initial current_config.
MutLoaded(flash) == flash
Loaded(flash) == [k \in Keys |-> IF flash[k] = Absent THEN Default ELSE flash[k]]

StoreTypeOK ==
    /\ phase \in {"boot", "up"}
    /\ current_config \in [Keys -> Values] /\ wifi_provisioned \in BOOLEAN
    /\ nvs \in [Keys -> Values \cup {Absent}]
    /\ lock \in {"free", "api", "work"} /\ next \in 1 .. Len(KeyOrder) + 1
    /\ api \in {"idle", "holding", "writing", "verifying", "marking"}
    /\ api_op \in {"none", "put", "save", "clear"}
    /\ api_copy \in [Keys -> Values] /\ api_copy_provisioned \in BOOLEAN
    /\ reset \in {"idle", "waiting", "erasing", "rebooting"}
    /\ reset_work \in {Off} \cup 0 .. HoldTime
    /\ button \in BOOLEAN /\ held \in 0 .. HoldTime

Init ==
    /\ phase = "boot"
    /\ nvs = [k \in Keys |-> Absent]
    /\ current_config = Loaded(nvs) /\ wifi_provisioned = FALSE
    /\ lock = "free" /\ next = 1
    /\ api = "idle" /\ api_op = "none"
    /\ api_copy = Defaults /\ api_copy_provisioned = FALSE
    /\ reset = "idle" /\ reset_work = Off /\ button = FALSE /\ held = 0

-----------------------------------------------------------------------------
(* Boot.                                                                   *)

\* A reset of the chip: RAM is loaded from flash, every thread starts anew.
Restart ==
    /\ phase' = "boot"
    /\ current_config' = Loaded(nvs)
    /\ wifi_provisioned' = (Loaded(nvs)["wifi_ssid"] # Default)
    /\ lock' = "free" /\ next' = 1
    /\ api' = "idle" /\ api_op' = "none"
    /\ api_copy' = Defaults /\ api_copy_provisioned' = FALSE
    /\ reset' = "idle" /\ reset_work' = Off
    /\ UNCHANGED <<nvs, button, held>>

\* provision_module_init replaces the default device id; main goes on and
\* starts the button and the API.
Boot ==
    /\ phase = "boot"
    /\ phase' = "up"
    /\ \/ /\ current_config["device_id"] = Default
          /\ current_config' = [current_config EXCEPT !["device_id"] = Mac]
          /\ \/ nvs' = [nvs EXCEPT !["device_id"] = Mac]
             \/ "save_error" \in StoreFaults /\ nvs' = nvs
       \/ /\ current_config["device_id"] # Default
          /\ UNCHANGED <<current_config, nvs>>
    /\ UNCHANGED <<wifi_provisioned, lock, next, apiVars, reset, buttonVars>>

PowerLoss ==
    /\ "power_loss" \in StoreFaults
    /\ phase = "up"
    /\ Restart

-----------------------------------------------------------------------------
(* The API thread: config_module_get, a change of the copy, and            *)
(* config_module_save of the whole copy, which goes with its stack frame.  *)

ApiReturns ==
    /\ api' = "idle" /\ api_op' = "none"
    /\ api_copy' = Defaults /\ api_copy_provisioned' = FALSE

\* handle_config_put changes the device id, the token, or both.
PutCopy ==
    {[current_config EXCEPT !["device_id"] = i, !["api_token"] = t] :
        i \in Names \cup {current_config["device_id"]},
        t \in Names \cup {current_config["api_token"]}}

\* config_module_save_wifi_config, after a connection that succeeded.
SaveWifiCopy ==
    {[k \in Keys |-> IF k \in WifiKeys THEN p ELSE current_config[k]] :
        p \in Profiles}

\* config_module_clear_wifi: the address settings stay.
ClearWifiCopy ==
    {[current_config EXCEPT !["wifi_ssid"] = Default, !["wifi_psk"] = Default]}

\* The flag of the copy: only a put keeps what it read.
MutCopiedFlag(op) == wifi_provisioned
CopiedFlag(op) == wifi_provisioned /\ op = "put"

ApiGet ==
    /\ phase = "up" /\ api = "idle" /\ lock = "free"
    /\ api' = "holding"
    /\ \/ api_op' = "put" /\ api_copy' \in PutCopy
       \/ api_op' = "save" /\ api_copy' \in SaveWifiCopy
       \/ api_op' = "clear" /\ api_copy' \in ClearWifiCopy
    /\ api_copy_provisioned' = CopiedFlag(api_op')
    /\ UNCHANGED <<phase, storeVars, reset, buttonVars>>

\* RAM takes the copy before any key is written.
ApiSaveBegin ==
    /\ api = "holding" /\ lock = "free"
    /\ lock' = "api" /\ next' = 1
    /\ current_config' = api_copy
    /\ wifi_provisioned' = api_copy_provisioned
    /\ api' = "writing"
    /\ UNCHANGED <<phase, nvs, api_op, api_copy, api_copy_provisioned, reset,
                   buttonVars>>

ApiSaveKey ==
    /\ api = "writing" /\ next <= Len(KeyOrder)
    /\ nvs' = [nvs EXCEPT ![KeyOrder[next]] = current_config[KeyOrder[next]]]
    /\ next' = next + 1
    /\ UNCHANGED <<phase, current_config, wifi_provisioned, lock, apiVars,
                   reset, buttonVars>>

\* The first error ends the save; the keys written before it stay written.
MutApiSaveFails ==
    /\ "save_error" \in StoreFaults
    /\ api = "writing" /\ next <= Len(KeyOrder)
    /\ ApiReturns
    /\ UNCHANGED <<phase, storeVars, reset, buttonVars>>

ApiSaveFails ==
    /\ "save_error" \in StoreFaults
    /\ api = "writing" /\ next <= Len(KeyOrder)
    /\ lock' = "free" /\ next' = 1
    /\ ApiReturns
    /\ UNCHANGED <<phase, current_config, wifi_provisioned, nvs, reset,
                   buttonVars>>

ApiSaveEnd ==
    /\ api = "writing" /\ next > Len(KeyOrder)
    /\ lock' = "free" /\ next' = 1
    /\ IF api_op = "save"
       THEN /\ api' = "verifying"
            /\ UNCHANGED <<api_op, api_copy, api_copy_provisioned>>
       ELSE ApiReturns
    /\ UNCHANGED <<phase, current_config, wifi_provisioned, nvs, reset,
                   buttonVars>>

\* handle_wifi_post reads the SSID back, ...
ApiVerify ==
    /\ api = "verifying" /\ lock = "free"
    /\ IF current_config["wifi_ssid"] = api_copy["wifi_ssid"]
       THEN /\ api' = "marking"
            /\ UNCHANGED <<api_op, api_copy, api_copy_provisioned>>
       ELSE ApiReturns
    /\ UNCHANGED <<phase, storeVars, reset, buttonVars>>

\* ... and marks the device as provisioned.
ApiMark ==
    /\ api = "marking" /\ lock = "free"
    /\ wifi_provisioned' = TRUE
    /\ ApiReturns
    /\ UNCHANGED <<phase, current_config, nvs, lock, next, reset, buttonVars>>

ApiSave == ApiSaveBegin \/ ApiSaveKey \/ ApiSaveFails \/ ApiSaveEnd
           \/ ApiVerify \/ ApiMark

\* on_sta_operational, after a connection with the stored credentials.
\* The handler does not look at the SSID; it is there because a reset takes
\* sta_connect_in_progress away before it clears the configuration.
StaOperational ==
    /\ phase = "up" /\ lock = "free"
    /\ current_config["wifi_ssid"] # Default
    /\ wifi_provisioned' = TRUE
    /\ UNCHANGED <<phase, current_config, nvs, lock, next, apiVars, reset,
                   buttonVars>>

-----------------------------------------------------------------------------
(* The factory reset.                                                      *)

\* What button_isr makes of the pin.  Pressing pulls the pin low, and
\* gpio_pin_get_dt inverts it when the alias says so.
Pressed(down) == IF ActiveLow THEN ~down ELSE down

MutButtonIsr(down) ==
    reset_work' = IF Pressed(down) THEN HoldTime ELSE reset_work

ButtonIsr(down) ==
    reset_work' = IF Pressed(down) THEN HoldTime ELSE Off

ButtonEdge ==
    /\ "button" \in StoreFaults
    /\ button' = ~button /\ held' = 0
    /\ IF phase = "up" THEN ButtonIsr(button') ELSE UNCHANGED reset_work
    /\ UNCHANGED <<phase, storeVars, apiVars, reset>>

\* Time passes unless the work queue has reset_work to run.
Tick ==
    /\ reset_work # Off /\ (reset_work > 0 \/ reset # "idle")
    /\ reset_work' = IF reset_work > 0 THEN reset_work - 1 ELSE 0
    /\ held' = IF button /\ held < HoldTime THEN held + 1 ELSE held
    /\ UNCHANGED <<phase, storeVars, apiVars, reset, button>>

\* reset_work_handler waits for config_lock, ...
ResetBegin ==
    /\ reset = "idle" /\ reset_work = 0
    /\ reset' = "waiting" /\ reset_work' = Off
    /\ UNCHANGED <<phase, storeVars, apiVars, button, held>>

ResetLock ==
    /\ reset = "waiting" /\ lock = "free"
    /\ reset' = "erasing"
    /\ lock' = "work" /\ next' = 1
    /\ UNCHANGED <<phase, current_config, wifi_provisioned, nvs, apiVars,
                   buttonVars>>

\* ... deletes every key, whatever settings_delete returns, ...
ResetKey ==
    /\ reset = "erasing" /\ next <= Len(KeyOrder)
    /\ \/ nvs' = [nvs EXCEPT ![KeyOrder[next]] = Absent]
       \/ "erase_error" \in StoreFaults /\ nvs' = nvs
    /\ next' = next + 1
    /\ UNCHANGED <<phase, current_config, wifi_provisioned, lock, apiVars,
                   reset, buttonVars>>

ResetDefaults ==
    /\ reset = "erasing" /\ next > Len(KeyOrder)
    /\ current_config' = Defaults /\ wifi_provisioned' = FALSE
    /\ lock' = "free" /\ next' = 1
    /\ reset' = "rebooting"
    /\ UNCHANGED <<phase, nvs, apiVars, buttonVars>>

\* ... sleeps for 300 ms, in which the other threads go on, and reboots.
Reboot ==
    /\ reset = "rebooting"
    /\ Restart

ResetStep == ResetBegin \/ ResetLock \/ ResetKey \/ ResetDefaults \/ Reboot

Next == Boot \/ PowerLoss \/ ApiGet \/ ApiSave \/ StaOperational
        \/ ButtonEdge \/ Tick \/ ResetStep

\* The threads run; config_lock is handed to the waiting work queue, the thread
\* with the higher priority, when the API thread unlocks it.
Fairness ==
    /\ WF_vars(Boot) /\ WF_vars(ApiSave) /\ SF_vars(ResetStep)

Spec == Init /\ [][Next]_vars
FairSpec == Spec /\ Fairness
=============================================================================
