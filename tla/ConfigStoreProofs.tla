------------------------- MODULE ConfigStoreProofs -------------------------
(***************************************************************************)
(* What TLAPS proves about ConfigStore for every set of profiles and       *)
(* names: the type invariant, that RAM mirrors flash as long as the flash  *)
(* takes every write, that a device called provisioned has credentials,    *)
(* and that a factory reset takes a button held down.                      *)
(***************************************************************************)
EXTENDS ConfigStoreProperties, TLAPS

\* Who holds config_lock, and how far the holder has got: a save has written a
\* prefix of the keys, a factory reset has deleted one.  While main initialises
\* neither thread has started.
LockInv ==
    /\ lock = "api" <=> api = "writing"
    /\ lock = "work" <=> reset = "erasing"
    /\ phase = "boot" =>
          lock = "free" /\ api = "idle" /\ reset = "idle" /\ reset_work = Off

PrefixInv ==
    /\ lock = "api" => \A i \in 1 .. next - 1 :
                          nvs[KeyOrder[i]] = current_config[KeyOrder[i]]
    /\ lock = "work" => \A i \in 1 .. next - 1 : nvs[KeyOrder[i]] = Absent

StoreInv == StoreTypeOK /\ LockInv

MirrorInv == PrefixInv /\ RamMirrorsNvs

-----------------------------------------------------------------------------
(* The keys and the configurations.                                        *)

\* The list that save and factory reset go through names every key.
LEMMA KeyOrderComplete ==
  /\ Len(KeyOrder) = 8
  /\ \A i \in 1 .. 8 : KeyOrder[i] \in Keys
  /\ \A k \in Keys : \E i \in 1 .. 8 : KeyOrder[i] = k
  BY DEF KeyOrder, Keys, WifiKeys

\* What settings_load makes of well-typed flash is well-typed.
LEMMA LoadedType ==
  ASSUME nvs \in [Keys -> Values \cup {Absent}]
  PROVE  Loaded(nvs) \in [Keys -> Values]
  BY DEF Loaded, Values

\* What the API thread may hold in its copy.
LEMMA CopyType ==
  ASSUME current_config \in [Keys -> Values]
  PROVE  /\ PutCopy \subseteq [Keys -> Values]
         /\ SaveWifiCopy \subseteq [Keys -> Values]
         /\ ClearWifiCopy \subseteq [Keys -> Values]
  <1>1. PutCopy \subseteq [Keys -> Values]
    <2>1. ASSUME NEW i \in Names \cup {current_config["device_id"]},
                 NEW t \in Names \cup {current_config["api_token"]}
          PROVE  [current_config EXCEPT !["device_id"] = i, !["api_token"] = t]
                    \in [Keys -> Values]
      <3>1. i \in Values /\ t \in Values BY DEF Values, Keys
      <3> QED BY <3>1 DEF Keys
    <2> QED BY <2>1 DEF PutCopy
  <1>2. SaveWifiCopy \subseteq [Keys -> Values]
    BY DEF SaveWifiCopy, Values
  <1>3. ClearWifiCopy \subseteq [Keys -> Values]
    BY DEF ClearWifiCopy, Values
  <1> QED BY <1>1, <1>2, <1>3

\* The initial configuration.
LEMMA DefaultsType == Defaults \in [Keys -> Values]
  BY DEF Defaults, Values

-----------------------------------------------------------------------------
(* The types, and who holds the lock.                                      *)

\* Nothing holds the lock at power on.
LEMMA InitStore == Init => StoreInv
  <1> SUFFICES ASSUME Init PROVE StoreInv
    OBVIOUS
  <1>1. nvs \in [Keys -> Values \cup {Absent}] BY DEF Init
  <1>2. current_config \in [Keys -> Values] /\ api_copy \in [Keys -> Values]
    BY <1>1, LoadedType, DefaultsType DEF Init
  <1>3. next \in 1 .. Len(KeyOrder) + 1
    BY KeyOrderComplete DEF Init
  <1>4. held \in 0 .. HoldTime /\ reset_work \in {Off} \cup 0 .. HoldTime
    BY StoreAssumption DEF Init
  <1> QED BY <1>1, <1>2, <1>3, <1>4 DEF Init, StoreInv, StoreTypeOK, LockInv

\* Nor after a reset of the chip, wherever the threads were.
LEMMA RestartStore == StoreInv /\ Restart => StoreInv'
  <1> SUFFICES ASSUME StoreInv, Restart PROVE StoreInv'
    OBVIOUS
  <1>1. nvs \in [Keys -> Values \cup {Absent}] BY DEF StoreInv, StoreTypeOK
  <1>2. wifi_provisioned' \in BOOLEAN BY DEF Restart
  <1>3. current_config' \in [Keys -> Values] /\ api_copy' \in [Keys -> Values]
    BY <1>1, LoadedType, DefaultsType DEF Restart
  <1>4. next' \in 1 .. Len(KeyOrder) + 1
    BY KeyOrderComplete DEF Restart
  <1>5. nvs' = nvs /\ button' = button /\ held' = held /\ reset_work' = Off
    BY DEF Restart
  <1> QED BY <1>1, <1>2, <1>3, <1>4, <1>5
          DEF Restart, StoreInv, StoreTypeOK, LockInv

\* Every step keeps the types and the owner of the lock.
LEMMA NextStore == StoreInv /\ [Next]_vars => StoreInv'
  <1> SUFFICES ASSUME StoreInv, [Next]_vars PROVE StoreInv'
    OBVIOUS
  <1> USE DEF StoreInv, StoreTypeOK, LockInv
  <1>0. Len(KeyOrder) = 8 BY KeyOrderComplete
  <1>1. CASE Boot
    <2>1. current_config' \in [Keys -> Values]
      BY <1>1 DEF Boot, Values, Keys
    <2>2. nvs' \in [Keys -> Values \cup {Absent}]
      BY <1>1 DEF Boot, Values, Keys
    <2> QED BY <1>1, <2>1, <2>2 DEF Boot, apiVars, buttonVars
  <1>2. CASE PowerLoss
    BY <1>2, RestartStore DEF PowerLoss
  <1>3. CASE ApiGet
    <2>1. api_copy' \in [Keys -> Values]
      BY <1>3, CopyType DEF ApiGet
    <2>2. api_copy_provisioned' \in BOOLEAN
      BY <1>3 DEF ApiGet, CopiedFlag
    <2> QED BY <1>3, <2>1, <2>2 DEF ApiGet, storeVars, buttonVars
  <1>4. CASE ApiSaveBegin
    <2>1. next' \in 1 .. Len(KeyOrder) + 1 BY <1>0, <1>4 DEF ApiSaveBegin
    <2> QED BY <1>4, <2>1 DEF ApiSaveBegin, buttonVars
  <1>5. CASE ApiSaveKey
    <2>1. next \in 1 .. 8 BY <1>0, <1>5 DEF ApiSaveKey
    <2>2. nvs' \in [Keys -> Values \cup {Absent}]
      BY <1>5, <2>1, KeyOrderComplete DEF ApiSaveKey
    <2> QED BY <1>0, <1>5, <2>1, <2>2 DEF ApiSaveKey, apiVars, buttonVars
  <1>6. CASE ApiSaveFails \/ ApiSaveEnd
    <2>1. next' \in 1 .. Len(KeyOrder) + 1
      BY <1>0, <1>6 DEF ApiSaveFails, ApiSaveEnd
    <2>2. /\ api' \in {"idle", "verifying"}
          /\ api_op' \in {"none", "put", "save", "clear"}
          /\ api_copy' \in [Keys -> Values] /\ api_copy_provisioned' \in BOOLEAN
      BY <1>6, DefaultsType DEF ApiSaveFails, ApiSaveEnd, ApiReturns
    <2> QED BY <1>6, <2>1, <2>2 DEF ApiSaveFails, ApiSaveEnd, buttonVars
  <1>7. CASE ApiVerify \/ ApiMark
    <2>1. /\ api' \in {"idle", "marking"}
          /\ api_op' \in {"none", "put", "save", "clear"}
          /\ api_copy' \in [Keys -> Values] /\ api_copy_provisioned' \in BOOLEAN
      BY <1>7, DefaultsType DEF ApiVerify, ApiMark, ApiReturns
    <2> QED BY <1>7, <2>1 DEF ApiVerify, ApiMark, storeVars, buttonVars
  <1>8. CASE StaOperational
    BY <1>8 DEF StaOperational, apiVars, buttonVars
  <1>9. CASE ButtonEdge
    <2>1. reset_work' \in {Off} \cup 0 .. HoldTime
      BY <1>9, StoreAssumption DEF ButtonEdge, ButtonIsr
    <2> QED BY <1>9, <2>1, StoreAssumption DEF ButtonEdge, storeVars, apiVars
  <1>10. CASE Tick
    <2>1. reset_work' \in {Off} \cup 0 .. HoldTime
      BY <1>10, StoreAssumption DEF Tick, Off
    <2>2. held' \in 0 .. HoldTime
      BY <1>10, StoreAssumption DEF Tick
    <2> QED BY <1>10, <2>1, <2>2 DEF Tick, storeVars, apiVars
  <1>11. CASE ResetBegin
    BY <1>11 DEF ResetBegin, storeVars, apiVars, Off
  <1>12. CASE ResetLock
    <2>1. next' \in 1 .. Len(KeyOrder) + 1 BY <1>0, <1>12 DEF ResetLock
    <2> QED BY <1>12, <2>1 DEF ResetLock, apiVars, buttonVars
  <1>13. CASE ResetKey
    <2>1. next \in 1 .. 8 BY <1>0, <1>13 DEF ResetKey
    <2>2. nvs' \in [Keys -> Values \cup {Absent}]
      BY <1>13, <2>1, KeyOrderComplete DEF ResetKey
    <2> QED BY <1>0, <1>13, <2>1, <2>2 DEF ResetKey, apiVars, buttonVars
  <1>14. CASE ResetDefaults
    <2>1. next' \in 1 .. Len(KeyOrder) + 1 BY <1>0, <1>14 DEF ResetDefaults
    <2>2. current_config' \in [Keys -> Values]
      BY <1>14, DefaultsType DEF ResetDefaults
    <2> QED BY <1>14, <2>1, <2>2 DEF ResetDefaults, apiVars, buttonVars
  <1>15. CASE Reboot
    BY <1>15, RestartStore DEF Reboot
  <1>16. CASE UNCHANGED vars
    BY <1>16 DEF vars, storeVars, apiVars, buttonVars
  <1> QED BY <1>1, <1>2, <1>3, <1>4, <1>5, <1>6, <1>7, <1>8, <1>9, <1>10, <1>11,
             <1>12, <1>13, <1>14, <1>15, <1>16 DEF Next, ApiSave, ResetStep

\* The store keeps its types; with LockInv, config_lock has one owner, and it is
\* the thread that is writing.
THEOREM StoreTypeCorrect == Spec => []StoreTypeOK
  <1>1. StoreInv => StoreTypeOK BY DEF StoreInv
  <1> QED BY <1>1, InitStore, NextStore, PTL DEF Spec

-----------------------------------------------------------------------------
(* RAM mirrors flash.                                                      *)

\* A step that touches neither RAM, flash nor the lock.
LEMMA MirrorKept ==
  ASSUME MirrorInv, UNCHANGED <<current_config, nvs, lock, next>>
  PROVE  MirrorInv'
  BY DEF MirrorInv, PrefixInv, RamMirrorsNvs, Loaded

\* A reset of the chip loads RAM from flash.
LEMMA MirrorRestart ==
  ASSUME Restart
  PROVE  MirrorInv'
  BY DEF Restart, MirrorInv, PrefixInv, RamMirrorsNvs, Loaded

\* Without a failed write every step keeps RAM and flash the same, up to the key
\* that the owner of the lock has reached.
LEMMA NextMirror ==
  ASSUME StoreFaults \cap {"save_error", "erase_error"} = {},
         StoreInv, MirrorInv, [Next]_vars
  PROVE  MirrorInv'
  <1>0. /\ current_config \in [Keys -> Values]
        /\ nvs \in [Keys -> Values \cup {Absent}]
        /\ next \in 1 .. 9 /\ Absent \notin Values
    BY StoreAssumption, KeyOrderComplete DEF StoreInv, StoreTypeOK, Values
  <1>1. CASE Boot
    <2>1. lock = "free" /\ lock' = "free" /\ current_config = Loaded(nvs)
      BY <1>1 DEF Boot, StoreInv, LockInv, MirrorInv, RamMirrorsNvs
    <2>2. current_config' = Loaded(nvs')
      <3>1. CASE UNCHANGED <<current_config, nvs>>
        BY <2>1, <3>1
      <3>2. CASE /\ current_config' = [current_config EXCEPT !["device_id"] = Mac]
                 /\ nvs' = [nvs EXCEPT !["device_id"] = Mac]
        BY <1>0, <2>1, <3>2 DEF Loaded, Values, Keys
      <3> QED BY <1>1, <3>1, <3>2 DEF Boot
    <2> QED BY <2>1, <2>2 DEF MirrorInv, PrefixInv, RamMirrorsNvs
  <1>2. CASE PowerLoss \/ Reboot
    BY <1>2, MirrorRestart DEF PowerLoss, Reboot
  <1>3. CASE ApiSaveBegin
    BY <1>3 DEF ApiSaveBegin, MirrorInv, PrefixInv, RamMirrorsNvs
  <1>4. CASE ApiSaveKey
    <2>1. /\ lock = "api" /\ lock' = "api" /\ next \in 1 .. 8 /\ next' = next + 1
          /\ current_config' = current_config
          /\ nvs' = [nvs EXCEPT ![KeyOrder[next]] = current_config[KeyOrder[next]]]
      BY <1>0, <1>4, KeyOrderComplete DEF ApiSaveKey, StoreInv, LockInv
    <2>2. \A i \in 1 .. next : nvs'[KeyOrder[i]] = current_config[KeyOrder[i]]
      BY <1>0, <2>1, KeyOrderComplete DEF MirrorInv, PrefixInv
    <2> QED BY <2>1, <2>2 DEF MirrorInv, PrefixInv, RamMirrorsNvs
  <1>5. CASE ApiSaveEnd
    <2>1. lock = "api" /\ lock' = "free" /\ next = 9
      BY <1>0, <1>5, KeyOrderComplete DEF ApiSaveEnd, StoreInv, LockInv
    <2>2. \A k \in Keys : nvs[k] = current_config[k]
      BY <1>0, <2>1, KeyOrderComplete DEF MirrorInv, PrefixInv
    <2>3. current_config = Loaded(nvs)
      BY <1>0, <2>2 DEF Loaded
    <2> QED BY <1>5, <2>1, <2>3
            DEF ApiSaveEnd, MirrorInv, PrefixInv, RamMirrorsNvs, Loaded
  <1>6. CASE ResetLock
    BY <1>6 DEF ResetLock, MirrorInv, PrefixInv, RamMirrorsNvs
  <1>7. CASE ResetKey
    <2>1. /\ lock = "work" /\ lock' = "work" /\ next \in 1 .. 8 /\ next' = next + 1
          /\ nvs' = [nvs EXCEPT ![KeyOrder[next]] = Absent]
      BY <1>0, <1>7, KeyOrderComplete DEF ResetKey, StoreInv, LockInv
    <2>2. \A i \in 1 .. next : nvs'[KeyOrder[i]] = Absent
      BY <1>0, <2>1, KeyOrderComplete DEF MirrorInv, PrefixInv
    <2> QED BY <2>1, <2>2 DEF MirrorInv, PrefixInv, RamMirrorsNvs
  <1>8. CASE ResetDefaults
    <2>1. /\ lock = "work" /\ lock' = "free" /\ next = 9
          /\ current_config' = Defaults /\ nvs' = nvs
      BY <1>0, <1>8, KeyOrderComplete DEF ResetDefaults, StoreInv, LockInv
    <2>2. \A k \in Keys : nvs[k] = Absent
      BY <1>0, <2>1, KeyOrderComplete DEF MirrorInv, PrefixInv
    <2>3. Defaults = Loaded(nvs)
      BY <2>2 DEF Loaded, Defaults
    <2> QED BY <2>1, <2>3 DEF MirrorInv, PrefixInv, RamMirrorsNvs, Loaded
  <1>9. CASE ApiSaveFails
    BY <1>9 DEF ApiSaveFails
  <1>10. CASE \/ ApiGet \/ ApiVerify \/ ApiMark \/ StaOperational \/ ButtonEdge
              \/ Tick \/ ResetBegin \/ UNCHANGED vars
    BY <1>10, MirrorKept
       DEF ApiGet, ApiVerify, ApiMark, StaOperational, ButtonEdge, Tick,
           ResetBegin, vars, storeVars
  <1> QED BY <1>1, <1>2, <1>3, <1>4, <1>5, <1>6, <1>7, <1>8, <1>9, <1>10
          DEF Next, ApiSave, ResetStep

\* As long as the flash takes every write and every delete, what the threads
\* read from RAM is what the device will boot with, whatever saves, factory
\* resets and power losses come in between.
THEOREM RamMirrorsNvsHolds ==
  ASSUME StoreFaults \cap {"save_error", "erase_error"} = {}
  PROVE  Spec => []RamMirrorsNvs
  <1>1. Init => MirrorInv
    BY DEF Init, MirrorInv, PrefixInv, RamMirrorsNvs
  <1>2. StoreInv /\ MirrorInv /\ [Next]_vars => MirrorInv'
    BY NextMirror
  <1>3. MirrorInv => RamMirrorsNvs BY DEF MirrorInv
  <1> QED BY <1>1, <1>2, <1>3, InitStore, NextStore, PTL DEF Spec

-----------------------------------------------------------------------------
(* The flag wifi_provisioned.                                              *)

\* Where the flag may come from: the flag of a copy that a put has read
\* together with its SSID, and a POST /wifi that found its SSID saved.  After the
\* erase of a factory reset nothing is claimed until the reboot.
FlagInv ==
    /\ api_op = "save" => api_copy["wifi_ssid"] # Default
    /\ api \in {"verifying", "marking"} => api_op = "save"
    /\ reset # "rebooting" =>
          /\ wifi_provisioned => current_config["wifi_ssid"] # Default
          /\ api_copy_provisioned => api_copy["wifi_ssid"] # Default
          /\ api = "marking" => current_config["wifi_ssid"] # Default

\* A put keeps the SSID, a save has one, and only a put copies the flag.
LEMMA CopyHasSsid ==
  ASSUME StoreInv, FlagInv, ApiGet
  PROVE  FlagInv'
  <1>1. /\ api' = "holding"
        /\ UNCHANGED <<wifi_provisioned, current_config, reset>>
        /\ current_config \in [Keys -> Values]
        /\ "wifi_ssid" \in Keys /\ "wifi_ssid" \in WifiKeys
    BY DEF ApiGet, storeVars, StoreInv, StoreTypeOK, Keys, WifiKeys
  <1>2. CASE api_op' = "put" /\ api_copy' \in PutCopy
    <2>1. api_copy'["wifi_ssid"] = current_config["wifi_ssid"]
      BY <1>1, <1>2 DEF PutCopy
    <2>2. api_copy_provisioned' => wifi_provisioned
      BY DEF ApiGet, CopiedFlag
    <2> QED
      BY <1>1, <1>2, <2>1, <2>2 DEF FlagInv
  <1>3. CASE api_op' = "save" /\ api_copy' \in SaveWifiCopy
    <2>1. api_copy'["wifi_ssid"] # Default
      BY <1>1, <1>3, StoreAssumption DEF SaveWifiCopy
    <2> QED
      BY <1>1, <2>1 DEF FlagInv
  <1>4. CASE api_op' = "clear"
    <2>1. ~api_copy_provisioned'
      BY <1>4 DEF ApiGet, CopiedFlag
    <2> QED
      BY <1>1, <1>4, <2>1 DEF FlagInv
  <1> QED
    BY <1>2, <1>3, <1>4 DEF ApiGet

LEMMA FlagRestart ==
  ASSUME Restart
  PROVE  FlagInv'
  BY DEF Restart, FlagInv

\* A copy that is saved brings its own flag with it.
LEMMA SaveFlag == StoreInv /\ FlagInv /\ ApiSave => FlagInv'
  <1> SUFFICES ASSUME StoreInv, FlagInv, ApiSave PROVE FlagInv'
    OBVIOUS
  <1>1. CASE ApiSaveBegin \/ ApiSaveKey
    BY <1>1 DEF ApiSaveBegin, ApiSaveKey, apiVars, FlagInv
  <1>2. CASE ApiSaveFails \/ ApiSaveEnd
    BY <1>2 DEF ApiSaveFails, ApiSaveEnd, ApiReturns, FlagInv
  <1>3. CASE ApiVerify \/ ApiMark
    BY <1>3 DEF ApiVerify, ApiMark, ApiReturns, storeVars, FlagInv
  <1> QED
    BY <1>1, <1>2, <1>3 DEF ApiSave

LEMMA NextFlag == StoreInv /\ FlagInv /\ [Next]_vars => FlagInv'
  <1> SUFFICES ASSUME StoreInv, FlagInv, [Next]_vars PROVE FlagInv'
    OBVIOUS
  <1>1. CASE Boot
    <2>1. current_config'["wifi_ssid"] = current_config["wifi_ssid"]
      BY <1>1 DEF Boot, StoreInv, StoreTypeOK, Keys, WifiKeys
    <2> QED
      BY <1>1, <2>1 DEF Boot, apiVars, FlagInv
  <1>2. CASE PowerLoss \/ Reboot
    BY <1>2, FlagRestart DEF PowerLoss, Reboot
  <1>3. CASE ApiGet
    BY <1>3, CopyHasSsid
  <1>4. CASE ApiSave
    BY <1>4, SaveFlag
  <1>5. CASE StaOperational
    BY <1>5 DEF StaOperational, apiVars, FlagInv
  <1>6. CASE ResetBegin \/ ResetLock \/ ResetKey \/ ResetDefaults
    BY <1>6 DEF ResetBegin, ResetLock, ResetKey, ResetDefaults, storeVars, apiVars, FlagInv
  <1>7. CASE ButtonEdge \/ Tick \/ UNCHANGED vars
    BY <1>7 DEF ButtonEdge, Tick, vars, storeVars, apiVars, FlagInv
  <1> QED
    BY <1>1, <1>2, <1>3, <1>4, <1>5, <1>6, <1>7 DEF Next, ResetStep

\* config_module_mark_wifi_provisioned is called by two threads, and a third
\* value travels through the copies of config_module_save: the flag is never set
\* on a device without an SSID, whatever the order, the errors of the flash and
\* the power losses, but for the 300 ms between an erase and its reboot.
THEOREM ProvisionedHasCredentialsHolds == Spec => []ProvisionedHasCredentials
  <1>1. Init => FlagInv
    BY DEF Init, FlagInv
  <1>2. StoreInv /\ FlagInv /\ [Next]_vars => FlagInv'
    BY NextFlag
  <1>3. FlagInv => ProvisionedHasCredentials
    BY DEF FlagInv, ProvisionedHasCredentials
  <1> QED
    BY <1>1, <1>2, <1>3, InitStore, NextStore, PTL DEF Spec

-----------------------------------------------------------------------------
(* The reset button.                                                       *)

\* While reset_work is scheduled the button is down, and what is left of the
\* delay is what is left of HoldTime.
HoldInv == reset_work # Off => button /\ held + reset_work = HoldTime

LEMMA NextHold ==
  ASSUME ActiveLow = FALSE, StoreInv, HoldInv, [Next]_vars
  PROVE  HoldInv'
  <1>1. /\ HoldTime \in Nat /\ reset_work \in {Off} \cup 0 .. HoldTime
        /\ held \in 0 .. HoldTime
        /\ phase # "up" => reset_work = Off
    BY StoreAssumption DEF StoreInv, StoreTypeOK, LockInv
  <1>2. CASE ButtonEdge
    <2>1. CASE phase = "up"
      BY <1>1, <1>2, <2>1 DEF ButtonEdge, ButtonIsr, Pressed, HoldInv
    <2>2. CASE phase # "up"
      BY <1>1, <1>2, <2>2 DEF ButtonEdge, HoldInv
    <2> QED
      BY <2>1, <2>2
  <1>3. CASE Tick
    BY <1>1, <1>3 DEF Tick, HoldInv, Off
  <1>4. CASE PowerLoss \/ Reboot \/ ResetBegin
    BY <1>4 DEF PowerLoss, Reboot, Restart, ResetBegin, HoldInv
  <1>5. CASE \/ Boot \/ ApiGet \/ ApiSave \/ StaOperational
             \/ ResetLock \/ ResetKey \/ ResetDefaults \/ UNCHANGED vars
    <2>1. UNCHANGED buttonVars
      BY <1>5
      DEF Boot, ApiGet, ApiSave, ApiSaveBegin, ApiSaveKey, ApiSaveFails, ApiSaveEnd, ApiVerify,
          ApiMark, StaOperational, ResetLock, ResetKey, ResetDefaults, vars
    <2> QED
      BY <2>1 DEF buttonVars, HoldInv
  <1> QED
    BY <1>2, <1>3, <1>4, <1>5 DEF Next, ResetStep

\* reset_button_module.c, on a board whose alias leaves the level of the pin as
\* it is: a release cancels the reset at any moment of the hold, so
\* a factory reset begins only when the button has been down for HoldTime.
THEOREM HoldToResetHolds ==
  ASSUME ActiveLow = FALSE
  PROVE  Spec => HoldToReset
  <1>1. Init => HoldInv
    BY DEF Init, HoldInv
  <1>2. StoreInv /\ HoldInv /\ [Next]_vars => HoldInv'
    BY NextHold
  <1>3. StoreInv /\ HoldInv /\ [Next]_vars
          => [reset = "idle" /\ reset' = "waiting" => button /\ held = HoldTime]_vars
    <2> SUFFICES ASSUME StoreInv, HoldInv, Next, reset = "idle", reset' = "waiting"
                 PROVE  button /\ held = HoldTime
      OBVIOUS
    <2>1. ResetBegin
      BY DEF Next, Boot, PowerLoss, Reboot, Restart, ApiGet, ApiSave, ApiSaveBegin, ApiSaveKey,
             ApiSaveFails, ApiSaveEnd, ApiVerify, ApiMark, StaOperational, ButtonEdge, Tick,
             ResetStep, ResetLock, ResetKey, ResetDefaults
    <2>2. reset_work = 0 /\ held \in Int
      BY <2>1 DEF ResetBegin, StoreInv, StoreTypeOK
    <2> QED
      BY <2>2 DEF HoldInv, Off
  <1> QED
    BY <1>1, <1>2, <1>3, InitStore, NextStore, PTL DEF Spec, HoldToReset
=============================================================================
