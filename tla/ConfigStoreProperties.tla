----------------------- MODULE ConfigStoreProperties -----------------------
(***************************************************************************)
(* What the configuration store promises to its threads and to the user.   *)
(***************************************************************************)
EXTENDS ConfigStore

\* Whenever config_lock is free the RAM copy is what a reboot would load, for
\* every key: saves, resets, their interleavings and power losses leave no
\* difference.  Only a failed flash write can.
RamMirrorsNvs == lock = "free" => current_config = Loaded(nvs)

\* The flag that GET /config and the status report is only set while there are
\* credentials, although two threads set it and a third saves stale copies; only
\* in the moment between the erase of a factory reset and its reboot it may lie.
ProvisionedHasCredentials ==
    wifi_provisioned /\ reset # "rebooting"
        => current_config["wifi_ssid"] # Default

\* A factory reset begins only after the button has been down for HoldTime.
HoldToReset ==
    [][reset = "idle" /\ reset' = "waiting" => button /\ held = HoldTime]_vars

\* Once reset_work is due and not cancelled the device reboots, whatever the
\* API thread is doing with config_lock and whatever the flash answers.
ResetCompletes == reset = "waiting" ~> phase = "boot"
=============================================================================
