--------------------------- MODULE SoftApProofs ---------------------------
(***************************************************************************)
(* What TLAPS proves about the SoftAP of Provision wherever its clients    *)
(* are: a client on the STA network can post and reset while the station   *)
(* is linked, the policy tries, and a fallback or a reconnect is due.      *)
(*                                                                         *)
(* The argument, in two parts.  DoorInv is what the three threads agree on *)
(* about the SoftAP at any lag of the events: it is closed by the stop of  *)
(* a request that is over, and by a connection only when it was not up.    *)
(* WatchInv adds that it is not opened between the success of a request    *)
(* and its stop; this is a matter of time, hence DelayOrder, and of events *)
(* that are handled before the clock goes on, hence EventsKeepUp.          *)
(***************************************************************************)
EXTENDS ProvisionServiceProofs

-----------------------------------------------------------------------------
(* The inductive invariant.                                                *)

\* A POST is at its attempts.
Trying == blocking_connect_active /\ connect_result_sem = 0

\* Until main starts the module.
OffDoor ==
    api = "off" =>
        /\ ~sta_connect_in_progress /\ ~sta_ready /\ ~sta_retry_pending /\ ~use_pending_cfg
        /\ ~drv_ap /\ ~ap_start_requested /\ ~ap_stop_requested
        /\ ~ap_active /\ ~ap_dhcp_running /\ ~provisioning_active

\* provision_module knows of a SoftAP that is up; a stop is scheduled between
\* requests only, and only when credentials were kept.
OpenDoor ==
    /\ drv_ap => provisioning_active /\ ~ap_stop_requested
    /\ api \notin {"off", "idle"} => tStopAp = Off
    /\ tStopAp # Off \/ api = "saved" => config # NoCfg

\* A posted configuration is used up by the attempts of its own request, or
\* was left by one that expired before its first attempt.
RequestDoor ==
    /\ blocking_connect_active => api \in {"waiting", "expired"} /\ pending_sta_cfg \in Cfgs
    /\ api \in {"cancelled", "settling", "waiting", "expired", "saving", "saved"} =>
          api_cfg \in Cfgs
    /\ use_pending_cfg =>
          /\ pending_sta_cfg \in Cfgs
          /\ \/ Trying /\ tConnect # Off
             \/ /\ ~Trying /\ drv_sta = "idle" /\ (tTimeout # Off => tConnect # Off)
                /\ api \notin {"reset_cancelled", "reset_cleared"}

\* An attempt is scheduled or under way, not both.
AttemptDoor ==
    /\ tConnect # Off => /\ ~sta_connect_in_progress
                         /\ tTimeout \in {Off, tConnect + ConnectTimeout}
    /\ sta_link_connected => sta_connect_requested

\* With the SoftAP up and no POST at its attempts: an attempt under way is one
\* whose request was withdrawn, and what is scheduled finds no credentials.
RestDoor ==
    /\ drv_ap /\ ~Trying =>
        /\ sta_connect_in_progress => ~sta_connect_requested
        /\ tConnect # Off \/ tTimeout # Off =>
              config = NoCfg /\ api \in {"idle", "reset_cancelled", "reset_cleared"}
        /\ ~use_pending_cfg
    /\ drv_ap /\ use_pending_cfg => tConnect = 0 /\ api = "waiting" /\ api_timer > 0

\* Without credentials the SoftAP is up, unless the driver refused it.
BareDoor ==
    config = NoCfg =>
        drv_ap \/ (api \in {"off", "idle"} /\ drv_sta = "idle" /\ ~use_pending_cfg)

\* While the fallback SoftAP is still to come, the device is trying, is about to,
\* or will not try before the fallback.
BootDoor ==
    tFallback # Off =>
        /\ api = "idle" /\ ~drv_ap /\ ~provisioning_active /\ ~ap_start_requested
        /\ ~sta_ready /\ ~use_pending_cfg /\ tFallback <= FallbackDelay
        /\ \/ sta_connect_in_progress \/ sta_retry_pending
           \/ tConnect = 0 /\ tFallback # 0
           \/ tConnect = Off /\ tReconnect # Off /\ tFallback < tReconnect

DoorInv == /\ OffDoor /\ OpenDoor /\ RequestDoor /\ AttemptDoor
           /\ RestDoor /\ BareDoor /\ BootDoor

-----------------------------------------------------------------------------
(* Lemmas.                                                                 *)

\* What the type invariant says about the variables of this module.
LEMMA DoorTypes ==
  ASSUME TypeOK
  PROVE  /\ drv_ap \in BOOLEAN /\ provisioning_active \in BOOLEAN
         /\ sta_connect_in_progress \in BOOLEAN /\ sta_ready \in BOOLEAN
         /\ sta_retry_pending \in BOOLEAN /\ use_pending_cfg \in BOOLEAN
         /\ blocking_connect_active \in BOOLEAN /\ connect_result_sem \in {0, 1}
         /\ sta_connect_requested \in BOOLEAN /\ sta_link_connected \in BOOLEAN
         /\ drv_sta \in {"idle", "connecting", "linked"} /\ api \in ApiStates
         /\ pending_sta_cfg \in Cfgs \cup {NoCfg} /\ config \in Cfgs \cup {NoCfg}
         /\ persistent_reconnect \in BOOLEAN /\ connect_result_success \in BOOLEAN
         /\ connect_attempt \in Nat /\ api_timer \in Nat /\ work \in WorkType
         /\ events \in Seq(EventKinds)
  BY DEF TypeOK, WifiTypeOK, StaTypeOK, ApTypeOK, PolicyTypeOK, RequestTypeOK

\* enter_provisioning_mode: it returns at once, or it asks for the SoftAP.
Entered(p, r, f, q) ==
    \/ /\ provisioning_active
       /\ sta_connect_in_progress' = p /\ sta_ready' = r
       /\ tConnect' = f["sta_connect"] /\ tTimeout' = f["connect_timeout"]
       /\ tReconnect' = f["sta_reconnect"] /\ tFallback' = f["boot_fallback_ap"]
       /\ tStopAp' = f["stop_ap"] /\ events' = q
       /\ UNCHANGED <<provisioning_active, drv_ap, ap_start_requested, ap_stop_requested,
                      ap_active, ap_dhcp_running, ap_ipv4_configured, ap_start_error>>
    \/ /\ ~provisioning_active
       /\ drv_ap' = provisioning_active' /\ provisioning_active' \in BOOLEAN
       /\ events' = (IF drv_ap' THEN Append(q, "ap_enabled") ELSE q)
       /\ sta_connect_in_progress' = (p /\ ~r) /\ sta_ready' = FALSE
       /\ tConnect' = f["sta_connect"]
       /\ tTimeout' = (IF p /\ ~r THEN f["connect_timeout"] ELSE Off)
       /\ tReconnect' = f["sta_reconnect"] /\ tFallback' = Off
       /\ tStopAp' = f["stop_ap"]
       /\ \/ ap_start_requested' = TRUE /\ ap_stop_requested' = FALSE
          \/ ~drv_ap' /\ UNCHANGED <<ap_start_requested, ap_stop_requested>>
       /\ UNCHANGED <<ap_active, ap_dhcp_running>>

LEMMA Entering ==
  ASSUME IInv, DoorInv, NEW m, NEW p \in BOOLEAN, NEW r \in BOOLEAN, NEW f \in WorkType, NEW q,
         EnterProvisioning(m, p, r, f, q)
  PROVE  Entered(p, r, f, q)
  <1>1. CASE provisioning_active /\ work' = f
    BY <1>1 DEF EnterProvisioning, Entered, apVars, tConnect, tTimeout, tReconnect, tFallback,
                tStopAp
  <1>2. CASE ~provisioning_active
    <2>1. drv_ap = FALSE
      BY <1>2, DoorTypes DEF IInv, DoorInv, OpenDoor
    <2>2. PICK ok \in BOOLEAN : StartAp(q, ok) /\ provisioning_active' = ok
      BY <1>2 DEF EnterProvisioning, OpenAp
    <2>3. /\ work' = Cancel(f, {"boot_fallback_ap"} \cup
                               IF p /\ ~r THEN {} ELSE {"connect_timeout"})
          /\ sta_connect_in_progress' = (p /\ ~r) /\ sta_ready' = FALSE
      BY <1>2 DEF EnterProvisioning
    <2>4. /\ tConnect' = f["sta_connect"] /\ tReconnect' = f["sta_reconnect"]
          /\ tStopAp' = f["stop_ap"] /\ tFallback' = Off
          /\ tTimeout' = (IF p /\ ~r THEN f["connect_timeout"] ELSE Off)
      BY <2>3 DEF Cancel, Works, tConnect, tTimeout, tReconnect, tFallback, tStopAp
    <2> QED
      BY <1>2, <2>1, <2>2, <2>3, <2>4 DEF StartAp, Entered
  <1> QED
    BY <1>1, <1>2 DEF EnterProvisioning

\* What follows a failed attempt n: the retry, the answer to the client, the
\* wait for the next round, the SoftAP.
Failed(n, f, q) ==
    /\ sta_connect_in_progress' = FALSE
    /\ \/ /\ n < MaxAttempts /\ connect_attempt' = n
          /\ tConnect' = RetryDelay /\ tTimeout' = RetryDelay + ConnectTimeout
          /\ tReconnect' = f["sta_reconnect"] /\ tFallback' = f["boot_fallback_ap"]
          /\ tStopAp' = f["stop_ap"] /\ events' = q
          /\ UNCHANGED <<provisioning_active, sta_ready, blockVars, apVars>>
       \/ /\ n >= MaxAttempts /\ blocking_connect_active /\ connect_attempt' = n
          /\ connect_result_success' = FALSE /\ blocking_connect_active' = FALSE
          /\ connect_result_sem' = 1
          /\ tConnect' = f["sta_connect"] /\ tTimeout' = f["connect_timeout"]
          /\ tReconnect' = f["sta_reconnect"] /\ tFallback' = f["boot_fallback_ap"]
          /\ tStopAp' = f["stop_ap"] /\ events' = q
          /\ UNCHANGED <<provisioning_active, sta_ready, apVars>>
       \/ /\ n >= MaxAttempts /\ ~blocking_connect_active /\ persistent_reconnect
          /\ connect_attempt' = 0
          /\ tConnect' = f["sta_connect"] /\ tTimeout' = f["connect_timeout"]
          /\ tReconnect' = ReconnectDelay /\ tFallback' = f["boot_fallback_ap"]
          /\ tStopAp' = f["stop_ap"] /\ events' = q
          /\ UNCHANGED <<provisioning_active, sta_ready, blockVars, apVars>>
       \/ /\ n >= MaxAttempts /\ ~blocking_connect_active /\ ~persistent_reconnect
          /\ connect_attempt' = n
          /\ Entered(FALSE, sta_ready, f, q)
          /\ UNCHANGED blockVars

LEMMA Failing ==
  ASSUME IInv, DoorInv, NEW n, NEW m, NEW told, NEW f \in WorkType, NEW q,
         AttemptFailed(n, m, told, f, q)
  PROVE  Failed(n, f, q)
  <1>1. CASE n < MaxAttempts /\ RetryAttempt(n, m, f, q)
    <2>1. work' = ScheduleStaConnect(f, RetryDelay)
      BY <1>1 DEF RetryAttempt
    <2>2. /\ tConnect' = RetryDelay /\ tTimeout' = RetryDelay + ConnectTimeout
          /\ tReconnect' = f["sta_reconnect"] /\ tFallback' = f["boot_fallback_ap"]
          /\ tStopAp' = f["stop_ap"]
      BY <2>1 DEF ScheduleStaConnect, WorkType, Works, tConnect, tTimeout, tReconnect,
                  tFallback, tStopAp
    <2> QED
      BY <1>1, <2>2 DEF RetryAttempt, Failed
  <1>2. CASE n >= MaxAttempts /\ blocking_connect_active /\ TellClient(n, told, f, q)
    BY <1>2 DEF TellClient, SignalFailure, Failed, tConnect, tTimeout, tReconnect, tFallback,
                tStopAp
  <1>3. CASE n >= MaxAttempts /\ ~blocking_connect_active /\ persistent_reconnect
             /\ AwaitNextRound(m, f, q)
    <2>1. work' = Arm(f, "sta_reconnect", ReconnectDelay)
      BY <1>3 DEF AwaitNextRound
    <2>2. /\ tConnect' = f["sta_connect"] /\ tTimeout' = f["connect_timeout"]
          /\ tReconnect' = ReconnectDelay /\ tFallback' = f["boot_fallback_ap"]
          /\ tStopAp' = f["stop_ap"]
      BY <2>1 DEF Arm, WorkType, Works, tConnect, tTimeout, tReconnect, tFallback, tStopAp
    <2> QED
      BY <1>3, <2>2 DEF AwaitNextRound, Failed
  <1>4. CASE n >= MaxAttempts /\ ~blocking_connect_active /\ ~persistent_reconnect
             /\ GiveUp(n, m, f, q)
    <2>1. EnterProvisioning(m, FALSE, sta_ready, f, q) /\ connect_attempt' = n
          /\ UNCHANGED blockVars
      BY <1>4 DEF GiveUp
    <2>2. Entered(FALSE, sta_ready, f, q)
      BY <2>1, DoorTypes, Entering DEF IInv
    <2>3. sta_connect_in_progress' = FALSE
      BY <2>2 DEF Entered
    <2> QED
      BY <1>4, <2>1, <2>2, <2>3 DEF Failed
  <1> QED
    BY <1>1, <1>2, <1>3, <1>4 DEF AttemptFailed, AfterLastAttempt

\* A step that leaves the policy alone, and asks nothing of the station.
LEMMA DoorUnchanged ==
  ASSUME DoorInv, UNCHANGED <<provVars, apiVars, cfgVars>>,
         UNCHANGED <<drv_ap, ap_start_requested, ap_stop_requested, ap_active,
                     ap_dhcp_running>>,
         drv_sta = "idle" => drv_sta' = "idle",
         sta_connect_requested' => sta_connect_requested,
         sta_link_connected' => sta_connect_requested'
  PROVE  DoorInv'
  <1>1. UNCHANGED work
    BY DEF provVars
  <1> QED
    BY <1>1, UnchangedWork
    DEF DoorInv, OffDoor, OpenDoor, RequestDoor, AttemptDoor, RestDoor, BareDoor, BootDoor,
        Trying, provVars, flagVars, requestVars, blockVars, apiVars, cfgVars

-----------------------------------------------------------------------------
(* Work handlers.                                                          *)

\* sta_connect_work_handler.
LEMMA NoCredentialsDoor == IInv /\ DoorInv /\ NoCredentials => DoorInv'
  <1> SUFFICES ASSUME IInv, DoorInv, NoCredentials PROVE DoorInv'
    OBVIOUS
  <1> DEFINE f == Cancel(work, {"sta_connect"})
  <1>1. /\ tConnect = 0 /\ AttemptCfg = NoCfg
        /\ sta_retry_pending' = FALSE /\ use_pending_cfg' = FALSE /\ pending_sta_cfg' = NoCfg
        /\ UNCHANGED <<staVars, netVars, blockVars, apiVars, cfgVars>>
        /\ \/ /\ ~blocking_connect_active
              /\ EnterProvisioning(mode, sta_connect_in_progress, sta_ready, f, events)
           \/ blocking_connect_active
    BY DEF NoCredentials, BeginAttempt, Due, tConnect
  <1>2. ~blocking_connect_active /\ ~use_pending_cfg /\ config = NoCfg
    BY <1>1, WifiAssumption DEF AttemptCfg, DoorInv, RequestDoor
  <1>3. /\ f \in WorkType /\ f["sta_connect"] = Off /\ f["connect_timeout"] = tTimeout
        /\ f["sta_reconnect"] = tReconnect /\ f["boot_fallback_ap"] = tFallback
        /\ f["stop_ap"] = tStopAp
    BY DoorTypes DEF IInv, Cancel, Works, WorkType, tTimeout, tReconnect, tFallback, tStopAp
  <1> HIDE DEF f
  <1>4. Entered(sta_connect_in_progress, sta_ready, f, events)
    BY <1>1, <1>2, <1>3, DoorTypes, Entering DEF IInv
  <1>5. api # "off"
    BY Running DEF NoCredentials, BeginAttempt, Works
  <1> QED
    BY <1>1, <1>2, <1>3, <1>4, <1>5, DoorTypes, WorkTypes, ProvisionAssumption
    DEF IInv, Entered, DoorInv, OffDoor, OpenDoor, RequestDoor, AttemptDoor, RestDoor, BareDoor,
        BootDoor, Trying, staVars, netVars, blockVars, apiVars, cfgVars

LEMMA AttemptAcceptedDoor == IInv /\ DoorInv /\ AttemptAccepted => DoorInv'
  <1> SUFFICES ASSUME IInv, DoorInv, AttemptAccepted PROVE DoorInv'
    OBVIOUS
  <1>1. /\ tConnect = 0 /\ tConnect' = Off
        /\ UNCHANGED <<tTimeout, tReconnect, tFallback, tStopAp>>
    BY DoorTypes DEF IInv, AttemptAccepted, BeginAttempt, Due, Cancel, Works, WorkType, tConnect,
                     tTimeout, tReconnect, tFallback, tStopAp
  <1>2. /\ sta_connect_in_progress' = TRUE /\ sta_retry_pending' = FALSE
        /\ use_pending_cfg' = FALSE /\ pending_sta_cfg' = AttemptCfg /\ AttemptCfg # NoCfg
        /\ sta_connect_requested' = TRUE /\ sta_link_connected' = FALSE
        /\ UNCHANGED <<apVars, provisioning_active, sta_ready, blockVars, apiVars, cfgVars>>
    BY DEF AttemptAccepted, BeginAttempt, ConnectSta
  <1>3. api # "off"
    BY Running DEF AttemptAccepted, BeginAttempt, Works
  <1> QED
    BY <1>1, <1>2, <1>3, DoorTypes, WorkTypes, ProvisionAssumption
    DEF IInv, DoorInv, OffDoor, OpenDoor, RequestDoor, AttemptDoor, RestDoor, BareDoor,
        BootDoor, Trying, apVars, blockVars, apiVars, cfgVars, AttemptCfg

LEMMA AttemptRejectedDoor == IInv /\ DoorInv /\ AttemptRejected => DoorInv'
  <1> SUFFICES ASSUME IInv, DoorInv, AttemptRejected PROVE DoorInv'
    OBVIOUS
  <1> DEFINE n == connect_attempt + 1
             f == Cancel(work, {"sta_connect", "connect_timeout"})
  <1>1. /\ tConnect = 0 /\ sta_retry_pending' = (n < MaxAttempts)
        /\ use_pending_cfg' = FALSE /\ pending_sta_cfg' = AttemptCfg /\ AttemptCfg # NoCfg
        /\ sta_connect_requested' = TRUE /\ sta_link_connected' = FALSE
        /\ UNCHANGED <<drv_sta, apiVars, cfgVars>>
        /\ AttemptFailed(n, "connecting", "connecting", f, events)
    BY DEF AttemptRejected, BeginAttempt, ConnectSta, Due, tConnect
  <1>2. /\ f \in WorkType /\ f["sta_connect"] = Off /\ f["connect_timeout"] = Off
        /\ f["sta_reconnect"] = tReconnect /\ f["boot_fallback_ap"] = tFallback
        /\ f["stop_ap"] = tStopAp
    BY DoorTypes DEF IInv, Cancel, Works, WorkType, tTimeout, tReconnect, tFallback, tStopAp
  <1>3. api # "off"
    BY Running DEF AttemptRejected, BeginAttempt, Works
  <1> HIDE DEF f, n
  <1>4. Failed(n, f, events)
    BY <1>1, <1>2, Failing
  <1>5. OffDoor' /\ OpenDoor' /\ RequestDoor'
    BY <1>1, <1>2, <1>3, <1>4, DoorTypes, WorkTypes
    DEF IInv, Failed, Entered, DoorInv, OffDoor, OpenDoor, RequestDoor, AttemptDoor, Trying,
        apVars, blockVars, apiVars, cfgVars, AttemptCfg
  <1>6. AttemptDoor' /\ RestDoor' /\ BareDoor'
    BY <1>1, <1>2, <1>3, <1>4, DoorTypes, WorkTypes, ProvisionAssumption
    DEF IInv, Failed, Entered, DoorInv, OffDoor, OpenDoor, RequestDoor, AttemptDoor, RestDoor,
        BareDoor, Trying, apVars, blockVars, apiVars, cfgVars, AttemptCfg
  <1>7. FallbackDelay \in Nat /\ ReconnectDelay \in Nat /\ FallbackDelay < ReconnectDelay
    BY Delays, DelayOrder
  <1>8. ASSUME n < MaxAttempts PROVE sta_retry_pending' = TRUE
    BY <1>1, <1>8, Zenon
  <1>9. tConnect = 0 /\ use_pending_cfg' = FALSE /\ UNCHANGED <<apiVars, cfgVars>>
    BY <1>1, Zenon
  <1>10. BootDoor'
    <2> SUFFICES ASSUME tFallback' # Off PROVE BootDoor'
      BY DEF BootDoor
    <2>1. tFallback' = tFallback /\ tFallback # Off
      BY <1>2, <1>4, WorkTypes DEF Failed, Entered, IInv
    <2>2. /\ api = "idle" /\ ~drv_ap /\ ~provisioning_active /\ ~ap_start_requested /\ ~sta_ready
          /\ tFallback <= FallbackDelay /\ ~blocking_connect_active
      BY <2>1 DEF DoorInv, BootDoor, RequestDoor
    <2>3. UNCHANGED <<provisioning_active, sta_ready, apVars>>
      BY <1>4, <2>1, <2>2 DEF Failed, Entered
    <2>4. \/ sta_retry_pending'
          \/ tConnect' = Off /\ tReconnect' = ReconnectDelay
      BY <1>2, <1>4, <1>8, <2>1, <2>2 DEF Failed, Entered
    <2> QED
      BY <1>7, <1>9, <2>1, <2>2, <2>3, <2>4, WorkTypes DEF IInv, BootDoor, apVars, apiVars
  <1> QED
    BY <1>5, <1>6, <1>10 DEF DoorInv

\* connect_timeout_work_handler.
LEMMA ConnectTimeoutDoor == IInv /\ DoorInv /\ ConnectTimeoutWork => DoorInv'
  <1> SUFFICES ASSUME IInv, DoorInv, ConnectTimeoutWork PROVE DoorInv'
    OBVIOUS
  <1> DEFINE f == Cancel(work, {"connect_timeout"})
  <1>1. /\ tTimeout = 0 /\ UNCHANGED <<requestVars, apiVars, cfgVars>>
        /\ \/ /\ sta_ready /\ work' = f
              /\ UNCHANGED <<wifiVars, provisioning_active, flagVars, blockVars>>
           \/ /\ ~sta_ready /\ sta_connect_requested' = FALSE /\ sta_link_connected' = FALSE
              /\ drv_sta' = "idle"
              /\ sta_retry_pending' = (sta_retry_pending \/ connect_attempt < MaxAttempts)
              /\ AttemptFailed(connect_attempt, mode, "provisioning", f, AfterDisconnect)
    BY DEF ConnectTimeoutWork, DisconnectSta, Due, tTimeout
  <1>2. /\ f \in WorkType /\ f["sta_connect"] = tConnect /\ f["connect_timeout"] = Off
        /\ f["sta_reconnect"] = tReconnect /\ f["boot_fallback_ap"] = tFallback
        /\ f["stop_ap"] = tStopAp
    BY DoorTypes DEF IInv, Cancel, Works, WorkType, tConnect, tReconnect, tFallback, tStopAp
  <1>3. api # "off"
    BY Running DEF ConnectTimeoutWork, Works
  <1>4. tConnect = Off
    BY <1>1, WorkTypes, ProvisionAssumption DEF IInv, DoorInv, AttemptDoor
  <1> HIDE DEF f
  <1>5. CASE sta_ready /\ work' = f
    <2>1. /\ tConnect' = Off /\ tTimeout' = Off
          /\ UNCHANGED <<tReconnect, tFallback, tStopAp>>
      BY <1>2, <1>4, <1>5 DEF tConnect, tTimeout, tReconnect, tFallback, tStopAp
    <2> QED
      BY <1>1, <1>3, <1>4, <1>5, <2>1, DoorTypes, WorkTypes
      DEF IInv, DoorInv, OffDoor, OpenDoor, RequestDoor, AttemptDoor, RestDoor, BareDoor,
          BootDoor, Trying, wifiVars, staVars, netVars, apVars, flagVars, requestVars,
          blockVars, apiVars, cfgVars
  <1>6. CASE ~sta_ready
    <2>1. Failed(connect_attempt, f, AfterDisconnect)
      BY <1>1, <1>2, <1>6, Failing
    <2>2. OffDoor' /\ OpenDoor' /\ RequestDoor'
      BY <1>1, <1>2, <1>3, <1>4, <1>6, <2>1, DoorTypes, WorkTypes
      DEF IInv, Failed, Entered, DoorInv, OffDoor, OpenDoor, RequestDoor, AttemptDoor, Trying,
          apVars, requestVars, blockVars, apiVars, cfgVars
    <2>3. AttemptDoor' /\ RestDoor' /\ BareDoor'
      BY <1>1, <1>2, <1>3, <1>4, <1>6, <2>1, DoorTypes, WorkTypes, ProvisionAssumption
      DEF IInv, Failed, Entered, DoorInv, OffDoor, OpenDoor, RequestDoor, AttemptDoor, RestDoor,
          BareDoor, BootDoor, Trying, apVars, requestVars, blockVars, apiVars, cfgVars
    <2>4. FallbackDelay \in Nat /\ ReconnectDelay \in Nat /\ FallbackDelay < ReconnectDelay
      BY Delays, DelayOrder
    <2>5. connect_attempt < MaxAttempts => sta_retry_pending'
      BY <1>1, <1>6
    <2>6. BootDoor'
      BY <1>1, <1>2, <1>4, <1>6, <2>1, <2>4, <2>5, DoorTypes, WorkTypes
      DEF IInv, Failed, Entered, DoorInv, OffDoor, OpenDoor, RequestDoor, AttemptDoor, RestDoor,
          BareDoor, BootDoor, Trying, apVars, requestVars, blockVars, apiVars, cfgVars
    <2> QED
      BY <2>2, <2>3, <2>6 DEF DoorInv
  <1> QED
    BY <1>1, <1>5, <1>6

\* sta_reconnect_work_handler.
LEMMA StaReconnectDoor == IInv /\ DoorInv /\ StaReconnectWork => DoorInv'
  <1> SUFFICES ASSUME IInv, DoorInv, StaReconnectWork PROVE DoorInv'
    OBVIOUS
  <1> DEFINE f == Cancel(work, {"sta_reconnect"})
             busy == sta_ready \/ provisioning_active \/ sta_connect_in_progress
  <1>1. /\ tReconnect = 0
        /\ UNCHANGED <<staVars, netVars, sta_retry_pending, requestVars, blockVars, apiVars,
                       cfgVars>>
    BY DEF StaReconnectWork, Due, tReconnect, flagVars
  <1>2. /\ f \in WorkType /\ f["sta_connect"] = tConnect /\ f["connect_timeout"] = tTimeout
        /\ f["sta_reconnect"] = Off /\ f["boot_fallback_ap"] = tFallback
        /\ f["stop_ap"] = tStopAp
    BY DoorTypes DEF IInv, Cancel, Works, WorkType, tConnect, tTimeout, tFallback, tStopAp
  <1>3. api # "off"
    BY Running DEF StaReconnectWork, Works
  <1>4. CASE busy
    <2>1. /\ tReconnect' = Off /\ UNCHANGED <<tConnect, tTimeout, tFallback, tStopAp>>
      BY <1>2, <1>4 DEF StaReconnectWork, tConnect, tTimeout, tReconnect, tFallback, tStopAp
    <2>2. UNCHANGED <<provisioning_active, flagVars, apVars>>
      BY <1>4 DEF StaReconnectWork
    <2> QED
      BY <1>1, <1>3, <1>4, <2>1, <2>2, DoorTypes, WorkTypes
      DEF IInv, DoorInv, OffDoor, OpenDoor, RequestDoor, AttemptDoor, RestDoor, BareDoor,
          BootDoor, Trying, staVars, netVars, apVars, flagVars, requestVars, blockVars, apiVars,
          cfgVars
  <1>5. CASE ~busy /\ config = NoCfg
    <2>1. EnterProvisioning(mode, sta_connect_in_progress, sta_ready, f, events)
      BY <1>5 DEF StaReconnectWork
    <2> HIDE DEF f
    <2>2. Entered(sta_connect_in_progress, sta_ready, f, events)
      BY <1>2, <2>1, DoorTypes, Entering DEF IInv
    <2> QED
      BY <1>1, <1>2, <1>3, <1>5, <2>2, DoorTypes, WorkTypes, ProvisionAssumption
      DEF IInv, Entered, DoorInv, OffDoor, OpenDoor, RequestDoor, AttemptDoor, RestDoor,
          BareDoor, BootDoor, Trying, staVars, netVars, requestVars, blockVars, apiVars, cfgVars
  <1>6. CASE ~busy /\ config # NoCfg
    <2>1. /\ work' = ScheduleStaConnect(f, 0)
          /\ UNCHANGED <<provisioning_active, sta_ready, sta_connect_in_progress, apVars>>
      BY <1>6 DEF StaReconnectWork
    <2>2. /\ tConnect' = 0 /\ tTimeout' = ConnectTimeout /\ tReconnect' = Off
          /\ UNCHANGED <<tFallback, tStopAp>>
      BY <1>2, <2>1, ProvisionAssumption
      DEF ScheduleStaConnect, WorkType, Works, tConnect, tTimeout, tReconnect, tFallback, tStopAp
    <2> QED
      BY <1>1, <1>3, <1>6, <2>1, <2>2, DoorTypes, WorkTypes, ProvisionAssumption
      DEF IInv, DoorInv, OffDoor, OpenDoor, RequestDoor, AttemptDoor, RestDoor, BareDoor,
          BootDoor, Trying, staVars, netVars, apVars, requestVars, blockVars, apiVars, cfgVars
  <1> QED
    BY <1>4, <1>5, <1>6

\* boot_fallback_ap_work_handler.
LEMMA BootFallbackDoor == IInv /\ DoorInv /\ BootFallbackWork => DoorInv'
  <1> SUFFICES ASSUME IInv, DoorInv, BootFallbackWork PROVE DoorInv'
    OBVIOUS
  <1> DEFINE f == Cancel(work, {"boot_fallback_ap"})
             trying == sta_connect_in_progress \/ sta_retry_pending
  <1>1. /\ tFallback = 0
        /\ UNCHANGED <<staVars, netVars, sta_retry_pending, requestVars, blockVars, apiVars,
                       cfgVars>>
    BY DEF BootFallbackWork, Due, tFallback
  <1>2. /\ f \in WorkType /\ f["sta_connect"] = tConnect /\ f["connect_timeout"] = tTimeout
        /\ f["sta_reconnect"] = tReconnect /\ f["boot_fallback_ap"] = Off
        /\ f["stop_ap"] = tStopAp
    BY DoorTypes DEF IInv, Cancel, Works, WorkType, tConnect, tTimeout, tReconnect, tStopAp
  <1>3. api = "idle" /\ ~drv_ap /\ ~provisioning_active /\ ~sta_ready /\ ~use_pending_cfg
    BY <1>1 DEF Off, DoorInv, BootDoor
  <1>4. CASE trying
    <2>1. /\ work' = Arm(f, "boot_fallback_ap", FallbackDelay)
          /\ UNCHANGED <<provisioning_active, sta_ready, sta_connect_in_progress, apVars>>
      BY <1>3, <1>4 DEF BootFallbackWork
    <2>2. /\ tFallback' = FallbackDelay
          /\ UNCHANGED <<tConnect, tTimeout, tReconnect, tStopAp>>
      BY <1>2, <2>1 DEF Arm, WorkType, Works, tConnect, tTimeout, tReconnect, tFallback, tStopAp
    <2> QED
      BY <1>1, <1>3, <1>4, <2>1, <2>2, DoorTypes, WorkTypes, ProvisionAssumption
      DEF IInv, DoorInv, OffDoor, OpenDoor, RequestDoor, AttemptDoor, RestDoor, BareDoor,
          BootDoor, Trying, staVars, netVars, apVars, requestVars, blockVars, apiVars, cfgVars
  <1>5. CASE ~trying
    <2>1. EnterProvisioning(mode, sta_connect_in_progress, sta_ready, f, events)
      BY <1>3, <1>5 DEF BootFallbackWork
    <2>3. tConnect = Off
      BY <1>1, <1>5 DEF Off, DoorInv, BootDoor
    <2> HIDE DEF f
    <2>2. Entered(sta_connect_in_progress, sta_ready, f, events)
      BY <1>2, <2>1, DoorTypes, Entering DEF IInv
    <2> QED
      BY <1>1, <1>2, <1>3, <1>5, <2>2, <2>3, DoorTypes, WorkTypes, ProvisionAssumption
      DEF IInv, Entered, DoorInv, OffDoor, OpenDoor, RequestDoor, AttemptDoor, RestDoor,
          BareDoor, BootDoor, Trying, staVars, netVars, requestVars, blockVars, apiVars, cfgVars
  <1> QED
    BY <1>4, <1>5

\* stop_ap_work_handler: credentials were kept, so nothing needs the SoftAP.
LEMMA StopApDoor == IInv /\ DoorInv /\ StopApWork => DoorInv'
  <1> SUFFICES ASSUME IInv, DoorInv, StopApWork PROVE DoorInv'
    OBVIOUS
  <1>1. /\ tStopAp = 0 /\ tStopAp' = Off
        /\ UNCHANGED <<tConnect, tTimeout, tReconnect, tFallback>>
    BY DoorTypes DEF IInv, StopApWork, Due, Cancel, Works, WorkType, tConnect, tTimeout,
                     tReconnect, tFallback, tStopAp
  <1>2. UNCHANGED <<staVars, netVars, flagVars, requestVars, blockVars, apiVars, cfgVars>>
    BY DEF StopApWork
  <1>3. \/ /\ provisioning_active' = FALSE /\ drv_ap' = FALSE
           /\ ap_start_requested' = FALSE /\ ap_stop_requested' = TRUE
        \/ ~provisioning_active /\ UNCHANGED <<provisioning_active, apVars>>
    BY DEF StopApWork, StopProvisioning, StopAp
  <1>4. api = "idle" /\ config # NoCfg
    <2>1. api # "off"
      BY Running DEF StopApWork, Works
    <2> QED
      BY <1>1, <2>1 DEF Off, DoorInv, OpenDoor
  <1> QED
    BY <1>1, <1>2, <1>3, <1>4, DoorTypes, WorkTypes
    DEF IInv, DoorInv, OffDoor, OpenDoor, RequestDoor, AttemptDoor, RestDoor, BareDoor,
        BootDoor, Trying, staVars, netVars, apVars, flagVars, requestVars, blockVars, apiVars,
        cfgVars

LEMMA WorkDoorInv == IInv /\ DoorInv /\ WorkStep => DoorInv'
  BY NoCredentialsDoor, AttemptAcceptedDoor, AttemptRejectedDoor, ConnectTimeoutDoor,
     StaReconnectDoor, BootFallbackDoor, StopApDoor
  DEF WorkStep, StaConnectWork

-----------------------------------------------------------------------------
(* The start and the events.                                               *)

\* provision_module_start.
LEMMA StartDoor == IInv /\ DoorInv /\ Start => DoorInv'
  <1> SUFFICES ASSUME IInv, DoorInv, Start PROVE DoorInv'
    OBVIOUS
  <1>1. /\ tConnect = Off /\ tTimeout = Off /\ tReconnect = Off /\ tFallback = Off
        /\ tStopAp = Off /\ work \in WorkType /\ drv_sta = "idle"
    BY DoorTypes DEF Start, IInv, BudgetInv, AtRest, Armed, Works, tConnect,
                     tTimeout, tReconnect, tFallback, tStopAp
  <1>2. /\ api = "off" /\ api' = "idle"
        /\ UNCHANGED <<staVars, netVars, sta_retry_pending, requestVars, blockVars, api_cfg,
                       api_timer, cfgVars>>
    BY DEF Start
  <1>3. CASE config = NoCfg
    <2>1. EnterProvisioning(mode, sta_connect_in_progress, sta_ready, work, events)
      BY <1>3 DEF Start
    <2>2. Entered(sta_connect_in_progress, sta_ready, work, events)
      BY <1>1, <2>1, DoorTypes, Entering DEF IInv
    <2>3. /\ work["sta_connect"] = Off /\ work["connect_timeout"] = Off
          /\ work["sta_reconnect"] = Off /\ work["boot_fallback_ap"] = Off
          /\ work["stop_ap"] = Off
      BY <1>1 DEF tConnect, tTimeout, tReconnect, tFallback, tStopAp
    <2> QED
      BY <1>1, <1>2, <1>3, <2>2, <2>3, DoorTypes
      DEF IInv, Entered, DoorInv, OffDoor, OpenDoor, RequestDoor, AttemptDoor, RestDoor,
          BareDoor, BootDoor, Trying, staVars, netVars, requestVars, blockVars, cfgVars
  <1>4. CASE config # NoCfg
    <2>1. /\ work' = ScheduleStaConnect(Arm(work, "boot_fallback_ap", FallbackDelay), 0)
          /\ UNCHANGED <<provisioning_active, sta_ready, sta_connect_in_progress, apVars>>
      BY <1>4 DEF Start
    <2>2. /\ tConnect' = 0 /\ tTimeout' = ConnectTimeout /\ tReconnect' = Off
          /\ tFallback' = FallbackDelay /\ tStopAp' = Off
      BY <1>1, <2>1, ProvisionAssumption
      DEF Arm, ScheduleStaConnect, WorkType, Works, tConnect, tTimeout, tReconnect, tFallback,
          tStopAp
    <2> QED
      BY <1>1, <1>2, <1>4, <2>1, <2>2, DoorTypes, Delays, ProvisionAssumption, DelayOrder
      DEF IInv, DoorInv, OffDoor, OpenDoor, RequestDoor, AttemptDoor, RestDoor,
          BareDoor, BootDoor, Trying, staVars, netVars, apVars, requestVars, blockVars, cfgVars
  <1> QED
    BY <1>3, <1>4

\* What an event does to the station, and what a callback means: the attempt is
\* still one that was requested.
LEMMA StaEventFacts ==
  ASSUME IInv, DoorInv, NEW up, StaEvent(up)
  PROVE  /\ events # << >> /\ Tail(events) \in Seq(EventKinds) /\ api # "off"
         /\ drv_sta' = drv_sta /\ (sta_connect_requested' => sta_connect_requested)
         /\ sta_link_connected' => sta_connect_requested'
         /\ up \in {"sta_connected", "sta_disconnected"} => sta_connect_requested
  <1>1. events # << >> /\ api # "off"
    BY Running DEF StaEvent, ConnectOk, ConnectFailed, Disconnected, Ipv4Event, IgnoredStaEvent,
                   Pending
  <1>2. Tail(events) \in Seq(EventKinds)
    BY <1>1, DoorTypes, Handled DEF IInv
  <1>3. sta_link_connected => sta_connect_requested
    BY DEF DoorInv, AttemptDoor
  <1>4. CASE ConnectOk(up)
    BY <1>1, <1>2, <1>4 DEF ConnectOk
  <1>5. CASE ConnectFailed(up)
    BY <1>1, <1>2, <1>5 DEF ConnectFailed, netVars
  <1>6. CASE Disconnected(up)
    BY <1>1, <1>2, <1>3, <1>6 DEF Disconnected
  <1>7. CASE Ipv4Event(up)
    BY <1>1, <1>2, <1>3, <1>7 DEF Ipv4Event, Notify, MayNotify, netVars
  <1>8. CASE IgnoredStaEvent(up)
    BY <1>1, <1>2, <1>3, <1>8 DEF IgnoredStaEvent, staVars, netVars
  <1> QED
    BY <1>4, <1>5, <1>6, <1>7, <1>8 DEF StaEvent

\* on_sta_operational: outside of a POST the SoftAP is not up.
LEMMA StaConnectedDoor ==
  ASSUME IInv, DoorInv, StaEvent("sta_connected"), NEW q, StaConnected(q),
         UNCHANGED <<apiVars, cfgVars>>
  PROVE  DoorInv'
  <1>1. /\ api # "off" /\ drv_sta' = drv_sta /\ sta_connect_requested
        /\ sta_connect_requested' => sta_connect_requested
        /\ sta_link_connected' => sta_connect_requested'
    BY StaEventFacts
  <1>2. CASE NoCallback(q)
    BY <1>1, <1>2, DoorUnchanged DEF NoCallback, apVars
  <1>3. CASE ~NoCallback(q)
    <2>1. /\ sta_connect_in_progress /\ sta_ready' = TRUE /\ sta_connect_in_progress' = FALSE
          /\ sta_retry_pending' = FALSE /\ UNCHANGED requestVars
          /\ work' = Cancel(work, {"connect_timeout", "boot_fallback_ap", "sta_reconnect"})
          /\ \/ /\ ~blocking_connect_active /\ StopProvisioning(q) /\ UNCHANGED blockVars
             \/ /\ blocking_connect_active /\ connect_result_sem' = 1
                /\ UNCHANGED <<blocking_connect_active, provisioning_active, apVars>>
      BY <1>3 DEF StaConnected, SignalSuccess
    <2>2. /\ tTimeout' = Off /\ tFallback' = Off /\ tReconnect' = Off
          /\ UNCHANGED <<tConnect, tStopAp>>
      BY <2>1, DoorTypes DEF IInv, Cancel, WorkType, Works, tConnect, tTimeout, tReconnect,
                             tFallback, tStopAp
    <2>3. \/ /\ ~blocking_connect_active /\ UNCHANGED blockVars /\ provisioning_active' = FALSE
             /\ drv_ap' = FALSE
          \/ /\ ~blocking_connect_active /\ UNCHANGED blockVars
             /\ UNCHANGED <<provisioning_active, apVars>>
          \/ /\ blocking_connect_active /\ connect_result_sem' = 1
             /\ UNCHANGED <<blocking_connect_active, provisioning_active, apVars>>
      BY <2>1 DEF StopProvisioning, StopAp
    <2>4. tConnect = Off /\ (drv_ap => Trying)
      BY <1>1, <2>1 DEF DoorInv, AttemptDoor, RestDoor
    <2> QED
      BY <1>1, <2>1, <2>2, <2>3, <2>4, DoorTypes
      DEF IInv, DoorInv, OffDoor, OpenDoor, RequestDoor, AttemptDoor, RestDoor, BareDoor,
          BootDoor, Trying, apVars, requestVars, blockVars, apiVars, cfgVars
  <1> QED
    BY <1>2, <1>3

\* Nor is it when a station that was asked for goes.
LEMMA StaDisconnectedDoor ==
  ASSUME IInv, DoorInv, StaEvent("sta_disconnected"), NEW q, StaDisconnected(q),
         UNCHANGED <<apiVars, cfgVars>>
  PROVE  DoorInv'
  <1>1. /\ api # "off" /\ drv_sta' = drv_sta /\ sta_connect_requested
        /\ sta_connect_requested' => sta_connect_requested
        /\ sta_link_connected' => sta_connect_requested'
    BY StaEventFacts
  <1>2. CASE NoCallback(q)
    BY <1>1, <1>2, DoorUnchanged DEF NoCallback, apVars
  <1>3. CASE ~NoCallback(q)
    <2> DEFINE budget == connect_attempt < MaxAttempts
               others == sta_retry_pending \/ (blocking_connect_active /\ ~budget)
    <2>1. /\ ~provisioning_active \/ sta_connect_in_progress
          /\ UNCHANGED <<requestVars, blockVars>>
          /\ \/ /\ \/ others /\ LeaveRetryToOthers
                   \/ ~others /\ RetrySoon
                   \/ ~others /\ config # NoCfg /\ ReconnectLater
                /\ sta_ready' = FALSE /\ sta_connect_in_progress' = FALSE
             \/ /\ ~blocking_connect_active /\ config = NoCfg
                /\ EnterProvisioning(mode, FALSE, FALSE, work, q)
                /\ UNCHANGED sta_retry_pending
      BY <1>3 DEF StaDisconnected
    <2>2. drv_ap => Trying /\ sta_connect_in_progress
      BY <1>1, <2>1 DEF DoorInv, OpenDoor, RestDoor
    <2>3. CASE others /\ LeaveRetryToOthers /\ sta_ready' = FALSE
               /\ sta_connect_in_progress' = FALSE
      <3>1. UNCHANGED <<provisioning_active, sta_retry_pending, work, apVars>>
        BY <2>3 DEF LeaveRetryToOthers
      <3>2. UNCHANGED <<tConnect, tTimeout, tReconnect, tFallback, tStopAp>>
        BY <3>1, UnchangedWork
      <3> QED
        BY <1>1, <2>1, <2>2, <2>3, <3>1, <3>2, DoorTypes
        DEF IInv, DoorInv, OffDoor, OpenDoor, RequestDoor, AttemptDoor, RestDoor, BareDoor,
            BootDoor, Trying, apVars, requestVars, blockVars, apiVars, cfgVars
    <2>4. CASE RetrySoon /\ sta_ready' = FALSE /\ sta_connect_in_progress' = FALSE
      <3>1. sta_retry_pending' = TRUE /\ UNCHANGED <<provisioning_active, apVars>>
        BY <2>4 DEF RetrySoon
      <3>2. /\ tConnect' = RetryDelay /\ tTimeout' = RetryDelay + ConnectTimeout
            /\ UNCHANGED <<tReconnect, tFallback, tStopAp>>
        BY <2>4, DoorTypes DEF IInv, RetrySoon, ScheduleStaConnect, WorkType, Works, tConnect,
                               tTimeout, tReconnect, tFallback, tStopAp
      <3> QED
        BY <1>1, <2>1, <2>2, <2>4, <3>1, <3>2, DoorTypes, WorkTypes, Delays, ProvisionAssumption
        DEF IInv, DoorInv, OffDoor, OpenDoor, RequestDoor, AttemptDoor, RestDoor, BareDoor,
            BootDoor, Trying, apVars, requestVars, blockVars, apiVars, cfgVars
    <2>5. CASE ~others /\ config # NoCfg /\ ReconnectLater /\ sta_ready' = FALSE
               /\ sta_connect_in_progress' = FALSE
      <3>1. UNCHANGED <<provisioning_active, sta_retry_pending, apVars>>
        BY <2>5 DEF ReconnectLater
      <3>2. /\ tReconnect' = ReconnectDelay
            /\ UNCHANGED <<tConnect, tTimeout, tFallback, tStopAp>>
        BY <2>5, DoorTypes DEF IInv, ReconnectLater, Arm, WorkType, Works, tConnect, tTimeout,
                               tReconnect, tFallback, tStopAp
      <3> QED
        BY <1>1, <2>1, <2>2, <2>5, <3>1, <3>2, DoorTypes, WorkTypes, Delays, DelayOrder
        DEF IInv, DoorInv, OffDoor, OpenDoor, RequestDoor, AttemptDoor, RestDoor, BareDoor,
            BootDoor, Trying, apVars, requestVars, blockVars, apiVars, cfgVars
    <2>6. CASE ~blocking_connect_active /\ config = NoCfg /\ UNCHANGED sta_retry_pending
               /\ EnterProvisioning(mode, FALSE, FALSE, work, q)
      <3>1. work \in WorkType /\ Entered(FALSE, FALSE, work, q)
        BY <2>6, DoorTypes, Entering DEF IInv
      <3>2. /\ work["sta_connect"] = tConnect /\ work["connect_timeout"] = tTimeout
            /\ work["sta_reconnect"] = tReconnect /\ work["boot_fallback_ap"] = tFallback
            /\ work["stop_ap"] = tStopAp
        BY DEF tConnect, tTimeout, tReconnect, tFallback, tStopAp
      <3>3. ~drv_ap /\ api = "idle" /\ ~use_pending_cfg
        BY <1>1, <2>2, <2>6 DEF Trying, DoorInv, BareDoor
      <3> QED
        BY <1>1, <2>1, <2>6, <3>1, <3>2, <3>3, DoorTypes, WorkTypes
        DEF IInv, Entered, DoorInv, OffDoor, OpenDoor, RequestDoor, AttemptDoor, RestDoor,
            BareDoor, BootDoor, Trying, apVars, requestVars, blockVars, apiVars, cfgVars
    <2> QED
      BY <2>1, <2>3, <2>4, <2>5, <2>6
  <1> QED
    BY <1>2, <1>3

LEMMA EventDoorInv == IInv /\ DoorInv /\ EventStep => DoorInv'
  <1> SUFFICES ASSUME IInv, DoorInv, EventStep PROVE DoorInv'
    OBVIOUS
  <1>1. CASE HandleStaEvent
    <2>1. PICK up \in {"none", "sta_connected", "sta_disconnected"} :
            StaEvent(up) /\ StaCallback(up, Tail(events))
      BY <1>1 DEF HandleStaEvent
    <2>2. UNCHANGED <<apiVars, cfgVars>>
      BY <1>1 DEF HandleStaEvent
    <2>3. CASE up = "none" /\ NoCallback(Tail(events))
      BY <2>1, <2>2, <2>3, StaEventFacts, DoorUnchanged DEF NoCallback, apVars
    <2> QED
      BY <2>1, <2>2, <2>3, StaConnectedDoor, StaDisconnectedDoor DEF StaCallback
  <1>2. CASE HandleApEvent
    <2>1. PICK up \in {"none", "ap_started", "ap_stopped"} : ApEvent(up) /\ ApCallback(up)
      BY <1>2 DEF HandleApEvent
    <2>2. /\ UNCHANGED <<staVars, netVars, flagVars, requestVars, blockVars, apiVars, cfgVars>>
          /\ UNCHANGED <<tConnect, tTimeout, tReconnect, tFallback, tStopAp>>
      BY <1>2, <2>1, UnchangedWork DEF HandleApEvent, ApCallback
    <2>3. api # "off"
      BY <2>1, Running DEF ApEvent, ApEnabled, ApDisabled, IgnoredApEvent, Pending
    <2>4. \/ /\ ap_start_requested /\ provisioning_active' = TRUE /\ drv_ap' = drv_ap
             /\ ap_start_requested' = FALSE /\ ap_stop_requested' = FALSE
          \/ /\ ap_stop_requested /\ provisioning_active' = FALSE /\ drv_ap' = drv_ap
             /\ ap_start_requested' = FALSE /\ ap_stop_requested' = FALSE
          \/ UNCHANGED <<provisioning_active, apVars>>
      BY <2>1 DEF ApEvent, ApEnabled, ApDisabled, IgnoredApEvent, ApCallback
    <2> QED
      BY <2>2, <2>3, <2>4, DoorTypes
      DEF IInv, DoorInv, OffDoor, OpenDoor, RequestDoor, AttemptDoor, RestDoor, BareDoor,
          BootDoor, Trying, staVars, netVars, apVars, flagVars, requestVars, blockVars, apiVars,
          cfgVars
  <1> QED
    BY <1>1, <1>2 DEF EventStep

-----------------------------------------------------------------------------
(* The API thread.                                                         *)

\* A client that gets through finds the SoftAP up or a link; in both cases no
\* posted configuration is left.
LEMMA ClientDoor == IInv /\ DoorInv /\ ClientStep => DoorInv'
  <1> SUFFICES ASSUME IInv, DoorInv, ClientStep PROVE DoorInv'
    OBVIOUS
  <1>1. /\ api = "idle" /\ (drv_ap \/ drv_sta = "linked") /\ work' = CancelAll(work)
        /\ UNCHANGED <<wifiVars, provisioning_active, flagVars, requestVars, blockVars, cfgVars>>
        /\ \/ api' = "cancelled" /\ api_cfg' \in Cfgs
           \/ api' = "reset_cancelled"
    BY DEF ClientStep, PostWifi, ResetPost, ClientCanReach
  <1>2. /\ tConnect' = Off /\ tTimeout' = Off /\ tReconnect' = Off /\ tFallback' = Off
        /\ tStopAp' = Off
    BY <1>1 DEF CancelAll, Cancel, Works, tConnect, tTimeout, tReconnect, tFallback, tStopAp
  <1>3. ~use_pending_cfg /\ ~Trying
    BY <1>1 DEF DoorInv, RequestDoor, RestDoor, Trying
  <1> QED
    BY <1>1, <1>2, <1>3, DoorTypes
    DEF IInv, DoorInv, OffDoor, OpenDoor, RequestDoor, AttemptDoor, RestDoor, BareDoor,
        BootDoor, Trying, wifiVars, staVars, netVars, apVars, flagVars, requestVars, blockVars,
        cfgVars

LEMMA PostDisconnectDoor == IInv /\ DoorInv /\ PostDisconnect => DoorInv'
  <1> SUFFICES ASSUME IInv, DoorInv, PostDisconnect PROVE DoorInv'
    OBVIOUS
  <1>1. /\ api = "cancelled" /\ api' = "settling" /\ api_cfg' = api_cfg
        /\ sta_connect_requested' = FALSE /\ sta_link_connected' = FALSE /\ drv_sta' = "idle"
        /\ UNCHANGED <<apVars, provVars, cfgVars>>
    BY DEF PostDisconnect, DisconnectSta
  <1>2. UNCHANGED <<tConnect, tTimeout, tReconnect, tFallback, tStopAp>>
    BY <1>1, UnchangedWork DEF provVars
  <1> QED
    BY <1>1, <1>2
    DEF DoorInv, OffDoor, OpenDoor, RequestDoor, AttemptDoor, RestDoor, BareDoor, BootDoor,
        Trying, apVars, provVars, flagVars, requestVars, blockVars, cfgVars

\* The wait is not over before it has begun.
LEMMA BudgetPositive == BlockingBudget > 0
  <1>1. MaxAttempts \in Nat /\ ConnectTimeout + RetryDelay \in Nat /\ Margin \in Nat /\ 0 < Margin
    BY ProvisionAssumption, DelayOrder
  <1> DEFINE d == ConnectTimeout + RetryDelay
  <1> HIDE DEF d
  <1>2. MaxAttempts * d \in Nat
    BY <1>1 DEF d
  <1> QED
    BY <1>1, <1>2 DEF BlockingBudget, d

LEMMA PostBeginDoor == IInv /\ DoorInv /\ PostBegin => DoorInv'
  <1> SUFFICES ASSUME IInv, DoorInv, PostBegin PROVE DoorInv'
    OBVIOUS
  <1>1. /\ api = "settling" /\ api' = "waiting" /\ api_timer' = BlockingBudget
        /\ pending_sta_cfg' = api_cfg /\ use_pending_cfg' = TRUE
        /\ sta_ready' = FALSE /\ sta_connect_in_progress' = FALSE
        /\ sta_retry_pending' = FALSE /\ blocking_connect_active' = TRUE
        /\ connect_result_sem' = 0 /\ work' = ScheduleStaConnect(work, 0)
        /\ UNCHANGED <<wifiVars, provisioning_active, api_cfg, cfgVars>>
    BY DEF PostBegin
  <1>2. /\ tConnect' = 0 /\ tTimeout' = ConnectTimeout
        /\ UNCHANGED <<tReconnect, tFallback, tStopAp>>
    BY <1>1, DoorTypes, ProvisionAssumption
    DEF IInv, ScheduleStaConnect, WorkType, Works, tConnect, tTimeout, tReconnect, tFallback,
        tStopAp
  <1> QED
    BY <1>1, <1>2, BudgetPositive, ProvisionAssumption
    DEF DoorInv, OffDoor, OpenDoor, RequestDoor, AttemptDoor, RestDoor, BareDoor, BootDoor,
        Trying, wifiVars, staVars, netVars, apVars, cfgVars, Off

LEMMA PostEndDoor == IInv /\ DoorInv /\ (PostResult \/ PostExpires \/ PostSave) => DoorInv'
  <1> SUFFICES ASSUME IInv, DoorInv, PostResult \/ PostExpires \/ PostSave PROVE DoorInv'
    OBVIOUS
  <1>1. UNCHANGED <<wifiVars, provisioning_active, flagVars, requestVars, work, api_cfg>>
    BY DEF PostResult, PostExpires, PostSave, provVars
  <1>2. UNCHANGED <<tConnect, tTimeout, tReconnect, tFallback, tStopAp>>
    BY <1>1, UnchangedWork
  <1>3. CASE PostResult
    <2>1. /\ api = "waiting" /\ connect_result_sem = 1 /\ connect_result_sem' = 0
          /\ blocking_connect_active' = FALSE /\ api' \in {"saving", "idle"}
          /\ UNCHANGED cfgVars
      BY <1>3 DEF PostResult
    <2> QED
      BY <1>1, <1>2, <2>1
      DEF DoorInv, OffDoor, OpenDoor, RequestDoor, AttemptDoor, RestDoor, BareDoor, BootDoor,
          Trying, wifiVars, staVars, netVars, apVars, flagVars, requestVars, cfgVars
  <1>4. CASE PostExpires
    <2>1. /\ api = "waiting" /\ connect_result_sem = 0 /\ api_timer = 0 /\ api' = "expired"
          /\ UNCHANGED <<blockVars, cfgVars>>
      BY <1>4 DEF PostExpires, provVars
    <2> QED
      BY <1>1, <1>2, <2>1
      DEF DoorInv, OffDoor, OpenDoor, RequestDoor, AttemptDoor, RestDoor, BareDoor, BootDoor,
          Trying, wifiVars, staVars, netVars, apVars, flagVars, requestVars, blockVars, cfgVars
  <1>5. CASE PostSave
    <2>1. /\ api = "saving" /\ api' \in {"saved", "idle"} /\ config' = api_cfg
          /\ UNCHANGED blockVars
      BY <1>5 DEF PostSave, provVars
    <2>2. api_cfg \in Cfgs /\ api_cfg # NoCfg
      BY <2>1, WifiAssumption DEF DoorInv, RequestDoor
    <2> QED
      BY <1>1, <1>2, <2>1, <2>2
      DEF DoorInv, OffDoor, OpenDoor, RequestDoor, AttemptDoor, RestDoor, BareDoor, BootDoor,
          Trying, wifiVars, staVars, netVars, apVars, flagVars, requestVars, blockVars
  <1> QED
    BY <1>3, <1>4, <1>5

LEMMA PostGiveUpDoor == IInv /\ DoorInv /\ PostGiveUp => DoorInv'
  <1> SUFFICES ASSUME IInv, DoorInv, PostGiveUp PROVE DoorInv'
    OBVIOUS
  <1>1. /\ api = "expired" /\ api' = "idle" /\ blocking_connect_active' = FALSE
        /\ sta_connect_requested' = FALSE /\ sta_link_connected' = FALSE /\ drv_sta' = "idle"
        /\ UNCHANGED <<apVars, provisioning_active, flagVars, requestVars, api_cfg, cfgVars>>
    BY DEF PostGiveUp, DisconnectSta
  <1>2. /\ tConnect' = Off /\ tTimeout' = Off /\ UNCHANGED <<tReconnect, tFallback, tStopAp>>
    BY DoorTypes DEF IInv, PostGiveUp, Cancel, Works, WorkType, tConnect, tTimeout, tReconnect,
                     tFallback, tStopAp
  <1> QED
    BY <1>1, <1>2
    DEF DoorInv, OffDoor, OpenDoor, RequestDoor, AttemptDoor, RestDoor, BareDoor, BootDoor,
        Trying, apVars, flagVars, requestVars, cfgVars

LEMMA PostReplyDoor == IInv /\ DoorInv /\ PostReply => DoorInv'
  <1> SUFFICES ASSUME IInv, DoorInv, PostReply PROVE DoorInv'
    OBVIOUS
  <1>1. /\ api = "saved" /\ api' = "idle" /\ work' = Arm(work, "stop_ap", ApStopDelay)
        /\ UNCHANGED <<wifiVars, provisioning_active, flagVars, requestVars, blockVars, api_cfg,
                       cfgVars>>
    BY DEF PostReply
  <1>2. /\ tStopAp' = ApStopDelay /\ UNCHANGED <<tConnect, tTimeout, tReconnect, tFallback>>
    BY <1>1, DoorTypes DEF IInv, Arm, Works, WorkType, tConnect, tTimeout, tReconnect,
                           tFallback, tStopAp
  <1> QED
    BY <1>1, <1>2
    DEF DoorInv, OffDoor, OpenDoor, RequestDoor, AttemptDoor, RestDoor, BareDoor, BootDoor,
        Trying, wifiVars, staVars, netVars, apVars, flagVars, requestVars, blockVars, cfgVars

LEMMA ResetFlagsDoor == IInv /\ DoorInv /\ ResetFlags => DoorInv'
  <1> SUFFICES ASSUME IInv, DoorInv, ResetFlags PROVE DoorInv'
    OBVIOUS
  <1>1. /\ api = "reset_cancelled" /\ api' = "reset_cleared"
        /\ sta_ready' = FALSE /\ sta_connect_in_progress' = FALSE /\ sta_retry_pending' = FALSE
        /\ UNCHANGED <<wifiVars, provisioning_active, requestVars, blockVars, work, api_cfg,
                       cfgVars>>
    BY DEF ResetFlags
  <1>2. UNCHANGED <<tConnect, tTimeout, tReconnect, tFallback, tStopAp>>
    BY <1>1, UnchangedWork
  <1> QED
    BY <1>1, <1>2
    DEF DoorInv, OffDoor, OpenDoor, RequestDoor, AttemptDoor, RestDoor, BareDoor, BootDoor,
        Trying, wifiVars, staVars, netVars, apVars, requestVars, blockVars, cfgVars

LEMMA ResetClearDoor == IInv /\ DoorInv /\ ResetClear => DoorInv'
  <1> SUFFICES ASSUME IInv, DoorInv, ResetClear PROVE DoorInv'
    OBVIOUS
  <1>1. /\ api = "reset_cleared" /\ api' = "idle" /\ config' = NoCfg
        /\ sta_connect_requested' = FALSE /\ sta_link_connected' = FALSE /\ drv_sta' = "idle"
        /\ EnterProvisioning(mode, sta_connect_in_progress, sta_ready, work, AfterDisconnect)
        /\ UNCHANGED <<sta_retry_pending, requestVars, blockVars, api_cfg>>
    BY DEF ResetClear, DisconnectSta
  <1>2. work \in WorkType
        /\ Entered(sta_connect_in_progress, sta_ready, work, AfterDisconnect)
    BY <1>1, DoorTypes, Entering DEF IInv
  <1>3. /\ work["sta_connect"] = tConnect /\ work["connect_timeout"] = tTimeout
        /\ work["sta_reconnect"] = tReconnect /\ work["boot_fallback_ap"] = tFallback
        /\ work["stop_ap"] = tStopAp
    BY DEF tConnect, tTimeout, tReconnect, tFallback, tStopAp
  <1>4. ~use_pending_cfg /\ ~Trying /\ tFallback = Off /\ tStopAp = Off
    BY <1>1 DEF DoorInv, OpenDoor, RequestDoor, BootDoor, Trying
  <1> QED
    BY <1>1, <1>2, <1>3, <1>4, DoorTypes, WorkTypes, ProvisionAssumption
    DEF IInv, Entered, DoorInv, OffDoor, OpenDoor, RequestDoor, AttemptDoor, RestDoor,
        BareDoor, BootDoor, Trying, requestVars, blockVars

LEMMA ApiDoor == IInv /\ DoorInv /\ ApiStep => DoorInv'
  BY PostDisconnectDoor, PostBeginDoor, PostEndDoor, PostGiveUpDoor, PostReplyDoor,
     ResetFlagsDoor, ResetClearDoor
  DEF ApiStep

-----------------------------------------------------------------------------
(* The environment.                                                        *)

LEMMA TickDoor == IInv /\ DoorInv /\ Tick => DoorInv'
  <1> SUFFICES ASSUME IInv, DoorInv, Tick PROVE DoorInv'
    OBVIOUS
  <1>1. UNCHANGED <<wifiVars, provisioning_active, flagVars, requestVars, blockVars, api,
                    api_cfg, cfgVars>>
    BY DEF Tick
  <1>2. FallbackDelay \in Nat /\ ConnectTimeout \in Nat
    BY ProvisionAssumption
  <1> QED
    BY <1>1, <1>2, Ticked, WorkTypes
    DEF IInv, DoorInv, OffDoor, OpenDoor, RequestDoor, AttemptDoor, RestDoor, BareDoor,
        BootDoor, Trying, wifiVars, staVars, netVars, apVars, flagVars, requestVars, blockVars,
        cfgVars

LEMMA InitDoor == Init => DoorInv
  <1> SUFFICES ASSUME Init PROVE DoorInv
    OBVIOUS
  <1>1. /\ tConnect = Off /\ tTimeout = Off /\ tReconnect = Off /\ tFallback = Off
        /\ tStopAp = Off
    BY DEF Init, Works, tConnect, tTimeout, tReconnect, tFallback, tStopAp
  <1> QED
    BY <1>1
    DEF Init, WifiInit, DoorInv, OffDoor, OpenDoor, RequestDoor, AttemptDoor, RestDoor,
        BareDoor, BootDoor, Trying

LEMMA PowerCycleDoor == PowerCycle => DoorInv'
  <1> SUFFICES ASSUME PowerCycle PROVE DoorInv'
    OBVIOUS
  <1>1. /\ tConnect' = Off /\ tTimeout' = Off /\ tReconnect' = Off /\ tFallback' = Off
        /\ tStopAp' = Off
    BY DEF PowerCycle, Works, tConnect, tTimeout, tReconnect, tFallback, tStopAp
  <1> QED
    BY <1>1
    DEF PowerCycle, WifiReset, DoorInv, OffDoor, OpenDoor, RequestDoor, AttemptDoor, RestDoor,
        BareDoor, BootDoor, Trying

LEMMA DriverDoor == DoorInv /\ Driver => DoorInv'
  <1> SUFFICES ASSUME DoorInv, Driver PROVE DoorInv'
    OBVIOUS
  <1>1. /\ UNCHANGED <<provVars, apiVars, cfgVars, apVars, staVars>>
        /\ drv_sta = "idle" => drv_sta' = "idle"
    BY DEF Driver, DriverStep, LinkUp, JoinFails, LinkLost, DhcpBound
  <1>2. sta_link_connected => sta_connect_requested
    BY DEF DoorInv, AttemptDoor
  <1> QED
    BY <1>1, <1>2, DoorUnchanged DEF apVars, staVars

LEMMA NextDoor == IInv /\ DoorInv /\ [Next]_vars => DoorInv'
  <1> SUFFICES ASSUME IInv, DoorInv, [Next]_vars PROVE DoorInv'
    OBVIOUS
  <1>1. CASE UNCHANGED vars
    <2>1. sta_link_connected => sta_connect_requested
      BY DEF DoorInv, AttemptDoor
    <2> QED
      BY <1>1, <2>1, DoorUnchanged DEF vars, wifiVars, apVars, staVars, netVars
  <1> QED
    BY <1>1, StartDoor, WorkDoorInv, EventDoorInv, ClientDoor, ApiDoor, DriverDoor, TickDoor,
       PowerCycleDoor DEF Next

\* What the three threads agree on about the SoftAP, wherever the clients are
\* and however late the events.
THEOREM DoorInvariant == Spec => [](IInv /\ DoorInv)
  <1>1. IInv /\ DoorInv /\ [Next]_vars => (IInv /\ DoorInv)'
    BY NextIInv, NextDoor
  <1> QED
    BY <1>1, InitIInv, InitDoor, PTL DEF Spec

-----------------------------------------------------------------------------
(* ClientKeepsAp.                                                          *)

\* No handler of the work queue but stop_ap_work_handler closes the SoftAP, and
\* that one is not due while a request is under way.
LEMMA WorkKeepsAp ==
  ASSUME IInv, DoorInv, WorkStep, drv_ap, api \notin {"off", "idle"}
  PROVE  drv_ap'
  <1>0. drv_ap = TRUE
    BY DoorTypes DEF IInv
  <1>1. CASE StaConnectWork
    <2>1. CASE NoCredentials
      BY <1>0, <2>1, EnterDoor DEF NoCredentials, apVars
    <2>2. CASE AttemptAccepted
      BY <2>2 DEF AttemptAccepted, apVars
    <2>3. CASE AttemptRejected
      BY <1>0, <2>3, FailedDoor DEF AttemptRejected
    <2> QED
      BY <1>1, <2>1, <2>2, <2>3 DEF StaConnectWork
  <1>2. CASE ConnectTimeoutWork
    <2>1. CASE sta_ready
      BY <1>2, <2>1 DEF ConnectTimeoutWork, wifiVars, apVars
    <2>2. CASE ~sta_ready
      BY <1>0, <1>2, <2>2, FailedDoor DEF ConnectTimeoutWork
    <2> QED
      BY <2>1, <2>2
  <1>3. CASE StaReconnectWork \/ BootFallbackWork
    BY <1>0, <1>3, EnterDoor DEF StaReconnectWork, BootFallbackWork, apVars
  <1>4. CASE StopApWork
    <2>1. tStopAp # Off
      BY <1>4 DEF StopApWork, Due, Off, tStopAp
    <2> QED
      BY <2>1 DEF DoorInv, OpenDoor
  <1> QED
    BY <1>1, <1>2, <1>3, <1>4 DEF WorkStep

\* A connection closes the SoftAP only when it was not up: with the SoftAP up, a
\* callback is for the attempt of a POST that waits for it.
LEMMA EventKeepsAp ==
  ASSUME IInv, DoorInv, EventStep, drv_ap
  PROVE  drv_ap'
  <1>0. drv_ap = TRUE
    BY DoorTypes DEF IInv
  <1>1. CASE HandleApEvent
    BY <1>1 DEF HandleApEvent, ApEvent, ApEnabled, ApDisabled, IgnoredApEvent, apVars
  <1>2. CASE HandleStaEvent
    <2>1. PICK up \in {"none", "sta_connected", "sta_disconnected"} :
            StaEvent(up) /\ StaCallback(up, Tail(events))
      BY <1>2 DEF HandleStaEvent
    <2>2. CASE NoCallback(Tail(events))
      BY <2>2 DEF NoCallback, apVars
    <2>3. CASE up = "sta_connected" /\ StaConnected(Tail(events))
      <3>1. sta_connect_requested
        BY <2>1, <2>3, StaEventFacts
      <3>2. sta_connect_in_progress => blocking_connect_active
        BY <3>1 DEF DoorInv, RestDoor, Trying
      <3> QED
        BY <2>3, <3>2 DEF StaConnected, NoCallback, apVars
    <2>4. CASE StaDisconnected(Tail(events))
      BY <1>0, <2>4, EnterDoor
      DEF StaDisconnected, NoCallback, LeaveRetryToOthers, RetrySoon, ReconnectLater, apVars
    <2> QED
      BY <2>1, <2>2, <2>3, <2>4 DEF StaCallback
  <1> QED
    BY <1>1, <1>2 DEF EventStep

LEMMA ApiKeepsAp ==
  ASSUME Start \/ ClientStep \/ ApiStep \/ Driver \/ Tick, drv_ap = TRUE
  PROVE  drv_ap'
  <1>1. CASE Start
    BY <1>1, EnterDoor DEF Start, apVars
  <1>2. CASE ClientStep
    BY <1>2 DEF ClientStep, PostWifi, ResetPost, wifiVars, apVars
  <1>3. CASE ApiStep
    <2>1. CASE ResetClear
      BY <2>1, EnterDoor DEF ResetClear
    <2>2. CASE ~ResetClear
      BY <1>3, <2>2
      DEF ApiStep, PostDisconnect, PostBegin, PostResult, PostExpires, PostGiveUp, PostSave,
          PostReply, ResetFlags, wifiVars, apVars
    <2> QED
      BY <2>1, <2>2
  <1>4. CASE Driver \/ Tick
    BY <1>4 DEF Driver, DriverStep, LinkUp, JoinFails, LinkLost, DhcpBound, Tick, wifiVars, apVars
  <1> QED
    BY <1>1, <1>2, <1>3, <1>4

\* "AP stays up so the HTTP connection remains alive": no handler, no timer of
\* an earlier request and no event takes the SoftAP down before the answer,
\* whatever network the client is on.
THEOREM ClientKeepsApHolds == Spec => ClientKeepsAp
  <1>1. IInv /\ DoorInv /\ [Next]_vars =>
          [api \notin {"off", "idle"} /\ drv_ap /\ ~drv_ap' => api' = "off"]_vars
    <2> SUFFICES ASSUME IInv, DoorInv, Next, api \notin {"off", "idle"}, drv_ap, ~drv_ap'
                 PROVE  api' = "off"
      OBVIOUS
    <2>1. drv_ap = TRUE
      BY DoorTypes DEF IInv
    <2> QED
      BY <2>1, WorkKeepsAp, EventKeepsAp, ApiKeepsAp DEF Next, PowerCycle
  <1> QED
    BY <1>1, DoorInvariant, PTL DEF Spec, ClientKeepsAp

-----------------------------------------------------------------------------
(* ApAgreement for clients on either network.                              *)

\* The event thread keeps up.
EventsKeepUp == MaxLag = 0

\* A request is proven, until its SoftAP is closed.
Won == \/ tStopAp # Off \/ api \in {"saving", "saved"}
       \/ api = "waiting" /\ connect_result_sem = 1 /\ connect_result_success

\* The ticks until then, once the request is answered; the delays left after
\* attempt n.
UntilStop == IF tStopAp # Off THEN tStopAp ELSE ApStopDelay
Delayed(n) == (MaxAttempts - 1 - n) * RetryDelay

\* Until then enter_provisioning_mode is not called: not by the fallback, and not
\* after the last attempt, for which the delays leave no time.
WonDoor ==
    Won =>
        /\ tFallback = Off /\ UntilStop <= ApStopDelay
        /\ tReconnect # Off => persistent_reconnect
        /\ ~persistent_reconnect =>
              /\ tConnect <= RetryDelay
              /\ UntilStop < (IF tConnect = Off THEN RetryDelay ELSE tConnect)
                                + Delayed(connect_attempt)

\* The stop of a SoftAP does not overtake the event of its start.
LateDoor == tStopAp # Off /\ Queued("ap_enabled") => tStopAp = ApStopDelay

SureDoor == provisioning_active = drv_ap

WatchInv == SureDoor /\ WonDoor /\ LateDoor /\ ApViewInv

AgreementInv == IInv /\ DoorInv /\ WatchInv

\* The delays of the attempts that are left.
LEMMA DelaysShrink ==
  ASSUME NEW n \in Nat, n <= MaxAttempts
  PROVE  /\ Delayed(n) \in Int
         /\ n < MaxAttempts => Delayed(n) = Delayed(n + 1) + RetryDelay
         /\ n = MaxAttempts => Delayed(n) = -RetryDelay
         /\ n + 1 = MaxAttempts => Delayed(n) = 0
         /\ n = 0 => ApStopDelay < Delayed(n) + RetryDelay
  <1>1. MaxAttempts \in Nat /\ RetryDelay \in Nat /\ ApStopDelay \in Nat
    BY Delays
  <1> DEFINE k == MaxAttempts - 1 - n
             r == RetryDelay
  <1>2. k \in Int /\ r \in Int /\ MaxAttempts - 1 - (n + 1) = k - 1
    BY <1>1
  <1>3. Delayed(n) = k * r /\ Delayed(n + 1) = (k - 1) * r
    BY <1>2 DEF Delayed
  <1>4. (n = MaxAttempts => k = -1) /\ (n + 1 = MaxAttempts => k = 0)
        /\ (n = 0 => MaxAttempts = k + 1)
    BY <1>1
  <1>8. n = 0 => k \in Nat
    BY <1>1, Delays
  <1>5. r \in Nat /\ ApStopDelay < r
    BY <1>1, DelayOrder
  <1> HIDE DEF k, r
  <1>6. k * r \in Int /\ (k - 1) * r = k * r - r /\ (k + 1) * r = k * r + r
    BY <1>2
  <1>7. (-1) * r = -r /\ 0 * r = 0
    BY <1>2
  <1>9. k \in Nat => k * r \in Nat
    BY <1>5
  <1>10. n = 0 => ApStopDelay < k * r + r
    BY <1>1, <1>5, <1>8, <1>9
  <1> QED
    BY <1>1, <1>2, <1>3, <1>4, <1>6, <1>7, <1>10 DEF r

\* A step that leaves the SoftAP alone.
LEMMA SoftApKept ==
  ASSUME SureDoor, LateDoor, ApViewInv, UNCHANGED <<apVars, provisioning_active>>,
         tStopAp' \in {tStopAp, Off},
         Holds(events', "ap_enabled") <=> Queued("ap_enabled"),
         Holds(events', "ap_disabled") <=> Queued("ap_disabled")
  PROVE  SureDoor' /\ LateDoor' /\ ApViewInv'
  <1>1. ApViewInv'
    BY ApViewKept
  <1> QED
    BY <1>1 DEF SureDoor, LateDoor, Queued, apVars

\* A step that opens it, unless it is up, when no stop is scheduled.
LEMMA SoftApEntered ==
  ASSUME IInv, SureDoor, LateDoor, ApViewInv, NEW p, NEW r, NEW f,
         NEW q \in Seq(EventKinds), Entered(p, r, f, q),
         f["stop_ap"] = tStopAp, provisioning_active \/ tStopAp = Off,
         Holds(q, "ap_enabled") <=> Queued("ap_enabled"),
         Holds(q, "ap_disabled") <=> Queued("ap_disabled")
  PROVE  SureDoor' /\ LateDoor' /\ ApViewInv'
  <1>1. CASE provisioning_active
    BY <1>1, SoftApKept DEF Entered, apVars
  <1>2. CASE ~provisioning_active
    <2>1. /\ ~drv_ap /\ drv_ap' = provisioning_active' /\ drv_ap' \in BOOLEAN
          /\ events' = (IF drv_ap' THEN Append(q, "ap_enabled") ELSE q)
          /\ \/ ap_start_requested' = TRUE
             \/ ~drv_ap' /\ UNCHANGED <<ap_start_requested, ap_stop_requested>>
          /\ UNCHANGED <<ap_active, ap_dhcp_running>>
          /\ tStopAp' = Off
      BY <1>2, DoorTypes DEF Entered, SureDoor, IInv
    <2>2. "ap_enabled" \in EventKinds
      BY DEF EventKinds, ApEventKinds
    <2>3. drv_ap' => Holds(events', "ap_enabled")
      BY <2>1, <2>2, Raised
    <2>4. ~drv_ap' => ~Holds(events', "ap_enabled")
      BY <2>1 DEF ApViewInv
    <2> QED
      BY <2>1, <2>3, <2>4 DEF SureDoor, LateDoor, ApViewInv, Queued
  <1> QED
    BY <1>1, <1>2

\* A step that proves no request and leaves what follows a proven one alone.
LEMMA WonKept ==
  ASSUME WonDoor, Won' => Won, tStopAp' = tStopAp, tFallback' \in {tFallback, Off},
         tReconnect' \in {tReconnect, Off},
         UNCHANGED <<tConnect, persistent_reconnect, connect_attempt>>
  PROVE  WonDoor'
  <1>1. Delayed(connect_attempt)' = Delayed(connect_attempt)
    BY DEF Delayed
  <1> QED
    BY <1>1 DEF WonDoor, UntilStop

\* The queue that wifi_manager_disconnect_sta leaves has the events of the SoftAP.
LEMMA DisconnectKeepsApEvents ==
  ASSUME IInv
  PROVE  /\ AfterDisconnect \in Seq(EventKinds) /\ events \in Seq(EventKinds)
         /\ \A x : x # "disconnected" => (Holds(AfterDisconnect, x) <=> Queued(x))
  <1>1. events \in Seq(EventKinds) /\ "disconnected" \in EventKinds
    BY DoorTypes DEF IInv, EventKinds, StaEventKinds
  <1> QED
    BY <1>1, Raised DEF AfterDisconnect, Queued

\* The attempts never exceed their number.
LEMMA AttemptBound ==
  ASSUME IInv
  PROVE  /\ connect_attempt \in Nat /\ connect_attempt <= MaxAttempts
         /\ tConnect # Off => connect_attempt < MaxAttempts
  BY DoorTypes DEF IInv, BudgetInv, AttemptBudget, Armed, tConnect

\* A request that is proven is not at its attempts.
LEMMA WonWhen ==
  ASSUME IInv, DoorInv
  PROVE  /\ Won => config # NoCfg \/ (api \in {"waiting", "saving"} /\ tStopAp = Off)
         /\ blocking_connect_active => tStopAp = Off
         /\ Won /\ tStopAp = Off => api \in {"waiting", "saving", "saved"}
         /\ tStopAp # Off => config # NoCfg /\ api \in {"off", "idle"}
  BY DEF Won, DoorInv, OpenDoor, RequestDoor

\* A failed attempt.
LEMMA FailedWatch ==
  ASSUME EventsKeepUp, AgreementInv, NEW n \in Nat, NEW f, NEW q \in Seq(EventKinds),
         Failed(n, f, q),
         \/ tConnect = 0 /\ n = connect_attempt + 1
         \/ tConnect = Off /\ n = connect_attempt,
         f["sta_connect"] = Off, f["sta_reconnect"] = tReconnect,
         f["boot_fallback_ap"] = tFallback, f["stop_ap"] = tStopAp,
         Holds(q, "ap_enabled") <=> Queued("ap_enabled"),
         Holds(q, "ap_disabled") <=> Queued("ap_disabled"),
         UNCHANGED <<persistent_reconnect, api, cfgVars>>
  PROVE  WatchInv'
  <1>0. IInv /\ DoorInv /\ WatchInv
    BY DEF AgreementInv
  <1>1. /\ connect_attempt \in Nat /\ connect_attempt <= MaxAttempts
        /\ tConnect # Off => connect_attempt < MaxAttempts
    BY <1>0, AttemptBound
  <1>2. /\ Delayed(connect_attempt) \in Int
        /\ connect_attempt < MaxAttempts =>
              Delayed(connect_attempt) = Delayed(connect_attempt + 1) + RetryDelay
        /\ connect_attempt = MaxAttempts => Delayed(connect_attempt) = -RetryDelay
        /\ connect_attempt + 1 = MaxAttempts => Delayed(connect_attempt) = 0
    BY <1>1, DelaysShrink
  <1>3. /\ tConnect \in Nat \cup {-1} /\ tStopAp \in Nat \cup {-1} /\ Off = -1
        /\ MaxAttempts \in Nat /\ RetryDelay \in Nat /\ ApStopDelay \in Nat
    BY <1>0, WorkTypes, Delays DEF IInv
  <1>4. n <= MaxAttempts
    BY <1>1, <1>3
  <1>5. ASSUME n >= MaxAttempts, Won PROVE persistent_reconnect
    <2> SUFFICES ASSUME ~persistent_reconnect PROVE FALSE
      OBVIOUS
    <2>1. UntilStop < (IF tConnect = Off THEN RetryDelay ELSE tConnect)
                        + Delayed(connect_attempt)
      BY <1>0, <1>5 DEF WatchInv, WonDoor
    <2> QED
      BY <1>1, <1>2, <1>3, <1>4, <1>5, <2>1 DEF UntilStop
  <1>6. CASE /\ n < MaxAttempts /\ connect_attempt' = n
             /\ tConnect' = RetryDelay /\ tReconnect' = tReconnect /\ tFallback' = tFallback
             /\ tStopAp' = tStopAp /\ events' = q
             /\ UNCHANGED <<provisioning_active, blockVars, apVars>>
    <2>1. SureDoor' /\ LateDoor' /\ ApViewInv'
      BY <1>0, <1>6, SoftApKept DEF WatchInv
    <2>2. Delayed(connect_attempt)' = Delayed(n)
      BY <1>6 DEF Delayed
    <2>3. (Won' <=> Won) /\ UntilStop' = UntilStop
      BY <1>6 DEF Won, UntilStop, blockVars
    <2>5. /\ tConnect = 0 => Delayed(connect_attempt) = Delayed(n) + RetryDelay
          /\ tConnect = Off => Delayed(connect_attempt) = Delayed(n)
          /\ Delayed(n) \in Int
      BY <1>1, <1>2, <1>3, <1>4, DelaysShrink
    <2>6. /\ Won => /\ tFallback = Off /\ UntilStop <= ApStopDelay
                    /\ tReconnect # Off => persistent_reconnect
          /\ Won /\ ~persistent_reconnect =>
                UntilStop < (IF tConnect = Off THEN RetryDelay ELSE tConnect)
                              + Delayed(connect_attempt)
      BY <1>0 DEF WatchInv, WonDoor
    <2>7. Won /\ ~persistent_reconnect => UntilStop < RetryDelay + Delayed(n)
      BY <1>3, <2>5, <2>6 DEF UntilStop
    <2>4. WonDoor'
      BY <1>3, <1>6, <2>2, <2>3, <2>6, <2>7 DEF WonDoor
    <2> QED
      BY <2>1, <2>4 DEF WatchInv
  <1>7. CASE /\ blocking_connect_active /\ connect_result_success' = FALSE
             /\ tStopAp' = tStopAp /\ events' = q
             /\ UNCHANGED <<provisioning_active, apVars>>
    <2>1. SureDoor' /\ LateDoor' /\ ApViewInv'
      BY <1>0, <1>7, SoftApKept DEF WatchInv
    <2>3. tStopAp = Off /\ api \in {"waiting", "expired"}
      BY <1>0, <1>7, WonWhen DEF DoorInv, RequestDoor
    <2>2. ~Won'
      BY <1>7, <2>3 DEF Won
    <2> QED
      BY <2>1, <2>2 DEF WatchInv, WonDoor
  <1>8. CASE /\ n >= MaxAttempts /\ persistent_reconnect
             /\ tFallback' = tFallback /\ tStopAp' = tStopAp /\ events' = q
             /\ UNCHANGED <<provisioning_active, blockVars, apVars>>
    <2>1. SureDoor' /\ LateDoor' /\ ApViewInv'
      BY <1>0, <1>8, SoftApKept DEF WatchInv
    <2>2. (Won' <=> Won) /\ UntilStop' = UntilStop
      BY <1>8 DEF Won, UntilStop, blockVars
    <2>3. WonDoor'
      BY <1>0, <1>8, <2>2 DEF WatchInv, WonDoor
    <2> QED
      BY <2>1, <2>3 DEF WatchInv
  <1>9. CASE /\ n >= MaxAttempts /\ ~persistent_reconnect /\ UNCHANGED blockVars
             /\ Entered(FALSE, sta_ready, f, q)
    <2>1. ~Won
      BY <1>5, <1>9
    <2>2. tStopAp' = tStopAp
      BY <1>9 DEF Entered
    <2>3. ~Won'
      BY <1>9, <2>1, <2>2 DEF Won, blockVars
    <2>4. tStopAp = Off
      BY <2>1 DEF Won
    <2>5. SureDoor' /\ LateDoor' /\ ApViewInv'
      BY <1>0, <1>9, <2>4, SoftApEntered DEF WatchInv
    <2> QED
      BY <2>3, <2>5 DEF WatchInv, WonDoor
  <1> QED
    BY <1>6, <1>7, <1>8, <1>9 DEF Failed

\* sta_connect_work_handler.
LEMMA StaConnectWatch == EventsKeepUp /\ AgreementInv /\ StaConnectWork => WatchInv'
  <1> SUFFICES ASSUME EventsKeepUp, AgreementInv, StaConnectWork PROVE WatchInv'
    OBVIOUS
  <1>0. IInv /\ DoorInv /\ WatchInv /\ events \in Seq(EventKinds)
    BY DoorTypes DEF AgreementInv, IInv
  <1>1. CASE NoCredentials
    <2> DEFINE f == Cancel(work, {"sta_connect"})
    <2>1. /\ AttemptCfg = NoCfg
          /\ UNCHANGED <<persistent_reconnect, connect_attempt, blockVars, apiVars, cfgVars>>
          /\ \/ /\ ~blocking_connect_active
                /\ EnterProvisioning(mode, sta_connect_in_progress, sta_ready, f, events)
             \/ blocking_connect_active
      BY <1>1 DEF NoCredentials, BeginAttempt
    <2>2. ~blocking_connect_active /\ config = NoCfg
      BY <1>0, <2>1, WifiAssumption DEF AttemptCfg, DoorInv, RequestDoor
    <2>3. f \in WorkType /\ f["stop_ap"] = tStopAp
      BY <1>0, DoorTypes DEF IInv, Cancel, Works, WorkType, tStopAp
    <2>4. tConnect # Off
      BY <1>1 DEF NoCredentials, BeginAttempt, Due, Off, tConnect
    <2> HIDE DEF f
    <2>5. Entered(sta_connect_in_progress, sta_ready, f, events)
      BY <1>0, <2>1, <2>2, <2>3, DoorTypes, Entering DEF IInv
    <2>6. tStopAp = Off
      BY <1>0, <2>2, WonWhen
    <2>7. SureDoor' /\ LateDoor' /\ ApViewInv'
      BY <1>0, <2>3, <2>5, <2>6, SoftApEntered DEF WatchInv, Queued
    <2>8. ~Won'
      <3>1. tStopAp' = Off
        BY <2>3, <2>5, <2>6 DEF Entered
      <3>2. api' \notin {"waiting", "saving", "saved"}
        BY <1>0, <2>1, <2>2, <2>4 DEF DoorInv, RestDoor, BareDoor, Trying, apiVars
      <3> QED
        BY <3>1, <3>2 DEF Won
    <2> QED
      BY <2>7, <2>8 DEF WatchInv, WonDoor
  <1>2. CASE AttemptAccepted
    <2>1. /\ tConnect = 0 /\ tConnect' = Off
          /\ UNCHANGED <<tReconnect, tFallback, tStopAp>>
      BY <1>0, <1>2, DoorTypes DEF IInv, AttemptAccepted, BeginAttempt, Due, Cancel, Works,
                                   WorkType, tConnect, tReconnect, tFallback, tStopAp
    <2>2. /\ connect_attempt' = connect_attempt + 1
          /\ UNCHANGED <<apVars, provisioning_active, blockVars, persistent_reconnect, api,
                         events>>
      BY <1>2 DEF AttemptAccepted, BeginAttempt, apiVars
    <2>3. SureDoor' /\ LateDoor' /\ ApViewInv'
      BY <1>0, <2>1, <2>2, SoftApKept DEF WatchInv, Queued
    <2>4. /\ connect_attempt \in Nat /\ connect_attempt < MaxAttempts
          /\ connect_attempt <= MaxAttempts /\ connect_attempt + 1 <= MaxAttempts
      BY <1>0, <2>1, AttemptBound, Delays DEF Off
    <2>5. /\ Delayed(connect_attempt) \in Int /\ Delayed(connect_attempt + 1) \in Int
          /\ Delayed(connect_attempt) = Delayed(connect_attempt + 1) + RetryDelay
      <3>1. connect_attempt + 1 \in Nat
        BY <2>4
      <3>2. Delayed(connect_attempt + 1) \in Int
        BY <2>4, <3>1, DelaysShrink
      <3> QED
        BY <2>4, <3>2, DelaysShrink
    <2>6. Delayed(connect_attempt)' = Delayed(connect_attempt + 1)
      BY <2>2 DEF Delayed
    <2>7. (Won' <=> Won) /\ UntilStop' = UntilStop
      BY <2>1, <2>2 DEF Won, UntilStop, blockVars
    <2>8. RetryDelay \in Nat /\ Off = -1
      BY Delays DEF Off
    <2>9. WonDoor'
      BY <1>0, <2>1, <2>2, <2>5, <2>6, <2>7, <2>8 DEF WatchInv, WonDoor
    <2> QED
      BY <2>3, <2>9 DEF WatchInv
  <1>3. CASE AttemptRejected
    <2> DEFINE n == connect_attempt + 1
               f == Cancel(work, {"sta_connect", "connect_timeout"})
    <2>1. /\ tConnect = 0 /\ UNCHANGED <<persistent_reconnect, api, cfgVars>>
          /\ AttemptFailed(n, "connecting", "connecting", f, events)
      BY <1>3 DEF AttemptRejected, BeginAttempt, Due, tConnect, apiVars
    <2>2. /\ f \in WorkType /\ f["sta_connect"] = Off
          /\ f["sta_reconnect"] = tReconnect /\ f["boot_fallback_ap"] = tFallback
          /\ f["stop_ap"] = tStopAp
      BY <1>0, DoorTypes DEF IInv, Cancel, Works, WorkType, tReconnect, tFallback, tStopAp
    <2>3. n \in Nat /\ n = connect_attempt + 1
      BY <1>0, AttemptBound
    <2> HIDE DEF f, n
    <2>4. Failed(n, f, events)
      BY <1>0, <2>1, <2>2, Failing
    <2> QED
      BY <1>0, <2>1, <2>2, <2>3, <2>4, FailedWatch DEF Queued
  <1> QED
    BY <1>1, <1>2, <1>3 DEF StaConnectWork

LEMMA WorkWatch == EventsKeepUp /\ AgreementInv /\ WorkStep => WatchInv'
  <1> SUFFICES ASSUME EventsKeepUp, AgreementInv, WorkStep PROVE WatchInv'
    OBVIOUS
  <1>0. IInv /\ DoorInv /\ WatchInv /\ events \in Seq(EventKinds) /\ work \in WorkType
    BY DoorTypes DEF AgreementInv, IInv
  <1>1. CASE ConnectTimeoutWork
    <2> DEFINE f == Cancel(work, {"connect_timeout"})
    <2>1. tTimeout = 0 /\ UNCHANGED <<api, cfgVars, persistent_reconnect>>
      BY <1>1 DEF ConnectTimeoutWork, Due, tTimeout, apiVars, flagVars
    <2>2. /\ f \in WorkType /\ f["sta_connect"] = tConnect
          /\ f["sta_reconnect"] = tReconnect /\ f["boot_fallback_ap"] = tFallback
          /\ f["stop_ap"] = tStopAp
      BY <1>0 DEF Cancel, Works, WorkType, tConnect, tReconnect, tFallback, tStopAp
    <2> HIDE DEF f
    <2>3. CASE sta_ready
      <3>1. work' = f /\ UNCHANGED <<wifiVars, provisioning_active, flagVars, blockVars>>
        BY <1>1, <2>3 DEF ConnectTimeoutWork, f
      <3>2. UNCHANGED <<tConnect, tReconnect, tFallback, tStopAp>>
        BY <2>2, <3>1 DEF tConnect, tReconnect, tFallback, tStopAp
      <3>3. SureDoor' /\ LateDoor' /\ ApViewInv'
        BY <1>0, <3>1, <3>2, SoftApKept DEF WatchInv, wifiVars, Queued
      <3>4. Won' => Won
        BY <2>1, <3>1, <3>2 DEF Won, blockVars
      <3>5. WonDoor'
        BY <1>0, <3>1, <3>2, <3>4, WonKept DEF WatchInv, flagVars
      <3> QED
        BY <3>3, <3>5 DEF WatchInv
    <2>4. CASE ~sta_ready
      <3>1. AttemptFailed(connect_attempt, mode, "provisioning", f, AfterDisconnect)
        BY <1>1, <2>4 DEF ConnectTimeoutWork, f
      <3>2. Failed(connect_attempt, f, AfterDisconnect)
        BY <1>0, <2>2, <3>1, Failing
      <3>3. tConnect = Off
        BY <1>0, <2>1, WorkTypes, ProvisionAssumption DEF IInv, DoorInv, AttemptDoor
      <3>4. connect_attempt \in Nat
        BY <1>0, AttemptBound
      <3> QED
        BY <1>0, <2>1, <2>2, <3>2, <3>3, <3>4, DisconnectKeepsApEvents, FailedWatch
    <2> QED
      BY <2>3, <2>4
  <1>2. CASE StaReconnectWork
    <2> DEFINE f == Cancel(work, {"sta_reconnect"})
               busy == sta_ready \/ provisioning_active \/ sta_connect_in_progress
    <2>1. /\ tReconnect = 0 /\ UNCHANGED <<persistent_reconnect, blockVars, api, cfgVars>>
      BY <1>2 DEF StaReconnectWork, Due, tReconnect, flagVars, apiVars
    <2>2. /\ f \in WorkType /\ f["sta_connect"] = tConnect /\ f["sta_reconnect"] = Off
          /\ f["boot_fallback_ap"] = tFallback /\ f["stop_ap"] = tStopAp
      BY <1>0 DEF Cancel, Works, WorkType, tConnect, tFallback, tStopAp
    <2>3. CASE busy
      <3>1. work' = f /\ UNCHANGED <<provisioning_active, flagVars, apVars, events>>
        BY <1>2, <2>3 DEF StaReconnectWork
      <3> HIDE DEF f
      <3>2. tReconnect' = Off /\ UNCHANGED <<tConnect, tFallback, tStopAp>>
        BY <2>2, <3>1 DEF tConnect, tReconnect, tFallback, tStopAp
      <3>3. SureDoor' /\ LateDoor' /\ ApViewInv'
        BY <1>0, <3>1, <3>2, SoftApKept DEF WatchInv, Queued
      <3>4. Won' => Won
        BY <2>1, <3>1, <3>2 DEF Won, blockVars
      <3>5. WonDoor'
        BY <1>0, <3>1, <3>2, <3>4, WonKept DEF WatchInv, flagVars
      <3> QED
        BY <3>3, <3>5 DEF WatchInv
    <2>4. CASE ~busy /\ config = NoCfg
      <3>1. EnterProvisioning(mode, sta_connect_in_progress, sta_ready, f, events)
            /\ UNCHANGED connect_attempt
        BY <1>2, <2>4 DEF StaReconnectWork
      <3> HIDE DEF f
      <3>2. Entered(sta_connect_in_progress, sta_ready, f, events)
        BY <1>0, <2>2, <3>1, DoorTypes, Entering DEF IInv
      <3>3. tStopAp = Off
        BY <1>0, <2>4, WonWhen
      <3>4. SureDoor' /\ LateDoor' /\ ApViewInv'
        BY <1>0, <2>2, <3>2, <3>3, SoftApEntered DEF WatchInv, Queued
      <3>5. ~Won'
        <4>1. tStopAp' = Off
          BY <2>2, <3>2, <3>3 DEF Entered
        <4>2. ~drv_ap
          BY <1>0, <2>4 DEF DoorInv, OpenDoor
        <4>3. api' \in {"off", "idle"}
          BY <1>0, <2>1, <2>4, <4>2 DEF DoorInv, BareDoor
        <4> QED
          BY <4>1, <4>3 DEF Won
      <3> QED
        BY <3>4, <3>5 DEF WatchInv, WonDoor
    <2>5. CASE ~busy /\ config # NoCfg
      <3>1. /\ work' = ScheduleStaConnect(f, 0)
            /\ UNCHANGED <<provisioning_active, apVars, events>>
        BY <1>2, <2>5 DEF StaReconnectWork
      <3> HIDE DEF f
      <3>2. tReconnect' = Off /\ UNCHANGED <<tFallback, tStopAp>>
        BY <2>2, <3>1 DEF ScheduleStaConnect, WorkType, Works, tReconnect, tFallback, tStopAp
      <3>3. SureDoor' /\ LateDoor' /\ ApViewInv'
        BY <1>0, <3>1, <3>2, SoftApKept DEF WatchInv, Queued
      <3>4. (Won' <=> Won) /\ UntilStop' = UntilStop
        BY <2>1, <3>1, <3>2 DEF Won, UntilStop, blockVars
      <3>5. WonDoor'
        BY <1>0, <2>1, <3>2, <3>4 DEF WatchInv, WonDoor, Off
      <3> QED
        BY <3>3, <3>5 DEF WatchInv
    <2> QED
      BY <2>3, <2>4, <2>5
  <1>3. CASE BootFallbackWork
    <2> DEFINE f == Cancel(work, {"boot_fallback_ap"})
               trying == sta_connect_in_progress \/ sta_retry_pending
    <2>1. /\ tFallback = 0 /\ tFallback # Off
          /\ UNCHANGED <<persistent_reconnect, connect_attempt, blockVars, api, cfgVars>>
      BY <1>3 DEF BootFallbackWork, Due, tFallback, Off, apiVars
    <2>2. ~Won /\ tStopAp = Off
      BY <1>0, <2>1 DEF WatchInv, WonDoor, Won
    <2>3. /\ f \in WorkType /\ f["stop_ap"] = tStopAp
      BY <1>0 DEF Cancel, Works, WorkType, tStopAp
    <2>4. ~provisioning_active /\ ~sta_ready
      BY <1>0, <2>1 DEF DoorInv, BootDoor
    <2>5. CASE trying
      <3>1. /\ work' = Arm(f, "boot_fallback_ap", FallbackDelay)
            /\ UNCHANGED <<provisioning_active, apVars, events>>
        BY <1>3, <2>4, <2>5 DEF BootFallbackWork
      <3> HIDE DEF f
      <3>2. tStopAp' = tStopAp
        BY <2>3, <3>1 DEF Arm, WorkType, Works, tStopAp
      <3>3. SureDoor' /\ LateDoor' /\ ApViewInv'
        BY <1>0, <3>1, <3>2, SoftApKept DEF WatchInv, Queued
      <3>4. ~Won'
        BY <2>1, <2>2, <3>2 DEF Won, blockVars
      <3> QED
        BY <3>3, <3>4 DEF WatchInv, WonDoor
    <2>6. CASE ~trying
      <3>1. EnterProvisioning(mode, sta_connect_in_progress, sta_ready, f, events)
        BY <1>3, <2>4, <2>6 DEF BootFallbackWork
      <3> HIDE DEF f
      <3>2. Entered(sta_connect_in_progress, sta_ready, f, events)
        BY <1>0, <2>3, <3>1, DoorTypes, Entering DEF IInv
      <3>3. SureDoor' /\ LateDoor' /\ ApViewInv'
        BY <1>0, <2>2, <2>3, <3>2, SoftApEntered DEF WatchInv, Queued
      <3>4. tStopAp' = Off
        BY <2>2, <2>3, <3>2 DEF Entered
      <3>5. ~Won'
        BY <2>1, <2>2, <3>4 DEF Won, blockVars
      <3> QED
        BY <3>3, <3>5 DEF WatchInv, WonDoor
    <2> QED
      BY <2>5, <2>6
  <1>4. CASE StopApWork
    <2>1. /\ tStopAp = 0 /\ tStopAp' = Off
          /\ UNCHANGED <<blockVars, api>> /\ StopProvisioning(events)
      BY <1>0, <1>4 DEF StopApWork, Due, Cancel, Works, WorkType, tStopAp, apiVars
    <2>2. ~Queued("ap_enabled")
      BY <1>0, <2>1, DelayOrder, Delays DEF WatchInv, LateDoor, Off
    <2>3. api \in {"off", "idle"}
      BY <1>0, <2>1, WonWhen DEF Off
    <2>4. ~Won'
      BY <2>1, <2>3 DEF Won
    <2>5. CASE ~provisioning_active
      <3>1. UNCHANGED <<provisioning_active, apVars, events>>
        BY <2>1, <2>5 DEF StopProvisioning
      <3>2. SureDoor' /\ LateDoor' /\ ApViewInv'
        BY <1>0, <2>1, <3>1, SoftApKept DEF WatchInv, Queued
      <3> QED
        BY <2>4, <3>2 DEF WatchInv, WonDoor
    <2>6. CASE provisioning_active
      <3>1. drv_ap = TRUE
        BY <1>0, <2>6, DoorTypes DEF WatchInv, SureDoor, IInv
      <3>2. /\ provisioning_active' = FALSE /\ drv_ap' = FALSE /\ ap_dhcp_running' = FALSE
            /\ ap_stop_requested' = TRUE /\ ap_start_requested' = FALSE
            /\ events' = Append(events, "ap_disabled")
        BY <2>1, <2>6, <3>1 DEF StopProvisioning, StopAp
      <3>3. "ap_disabled" \in EventKinds
        BY DEF EventKinds, ApEventKinds
      <3>4. Holds(events', "ap_disabled") /\ ~Holds(events', "ap_enabled")
        BY <1>0, <2>2, <3>2, <3>3, Raised DEF Queued
      <3> QED
        BY <2>1, <2>4, <3>2, <3>4 DEF WatchInv, SureDoor, WonDoor, LateDoor, ApViewInv, Queued
    <2> QED
      BY <2>5, <2>6
  <1> QED
    BY <1>1, <1>2, <1>3, <1>4, StaConnectWatch DEF WorkStep

\* The events.
LEMMA StaEventQueue ==
  ASSUME IInv, NEW up, StaEvent(up)
  PROVE  /\ Tail(events) \in Seq(EventKinds)
         /\ Holds(Tail(events), "ap_enabled") <=> Queued("ap_enabled")
         /\ Holds(Tail(events), "ap_disabled") <=> Queued("ap_disabled")
  <1>1. events # << >> /\ Head(events) \in {"connect_ok", "connect_fail", "disconnected", "ipv4"}
    BY DEF StaEvent, ConnectOk, ConnectFailed, Disconnected, Ipv4Event, IgnoredStaEvent, Pending
  <1>2. events \in Seq(EventKinds)
    BY DoorTypes DEF IInv
  <1> QED
    BY <1>1, <1>2, Handled DEF Queued

\* A success begins with all its attempts ahead of it.
LEMMA StaConnectedWatch ==
  ASSUME EventsKeepUp, AgreementInv, StaEvent("sta_connected"), StaConnected(Tail(events)),
         UNCHANGED <<apiVars, cfgVars>>
  PROVE  WatchInv'
  <1>0. IInv /\ DoorInv /\ WatchInv /\ work \in WorkType
    BY DoorTypes DEF AgreementInv, IInv
  <1>1. /\ Tail(events) \in Seq(EventKinds)
        /\ Holds(Tail(events), "ap_enabled") <=> Queued("ap_enabled")
        /\ Holds(Tail(events), "ap_disabled") <=> Queued("ap_disabled")
    BY <1>0, StaEventQueue
  <1>2. CASE NoCallback(Tail(events))
    <2>1. /\ events' = Tail(events)
          /\ UNCHANGED <<apVars, provisioning_active, work, persistent_reconnect,
                         connect_attempt, blockVars>>
      BY <1>2 DEF NoCallback, provVars, flagVars
    <2>2. UNCHANGED <<tConnect, tTimeout, tReconnect, tFallback, tStopAp>>
      BY <2>1, UnchangedWork
    <2>3. SureDoor' /\ LateDoor' /\ ApViewInv'
      BY <1>0, <1>1, <2>1, <2>2, SoftApKept DEF WatchInv
    <2>4. Won' => Won
      BY <2>1, <2>2 DEF Won, apiVars, blockVars
    <2>5. WonDoor'
      BY <1>0, <2>1, <2>2, <2>4, WonKept DEF WatchInv
    <2> QED
      BY <2>3, <2>5 DEF WatchInv
  <1>3. CASE ~NoCallback(Tail(events))
    <2>1. /\ sta_connect_in_progress /\ persistent_reconnect' = FALSE /\ connect_attempt' = 0
          /\ work' = Cancel(work, {"connect_timeout", "boot_fallback_ap", "sta_reconnect"})
          /\ \/ /\ ~blocking_connect_active /\ StopProvisioning(Tail(events))
             \/ /\ blocking_connect_active /\ events' = Tail(events)
                /\ UNCHANGED <<provisioning_active, apVars>>
      BY <1>3 DEF StaConnected
    <2>2. /\ tFallback' = Off /\ tReconnect' = Off /\ tStopAp' = tStopAp /\ tConnect' = tConnect
      BY <1>0, <2>1 DEF Cancel, WorkType, Works, tConnect, tReconnect, tFallback, tStopAp
    <2>3. tConnect = Off /\ (drv_ap => blocking_connect_active)
      <3>1. sta_connect_requested
        BY <1>0, StaEventFacts
      <3> QED
        BY <1>0, <2>1, <3>1 DEF DoorInv, AttemptDoor, RestDoor, Trying
    <2>4. events' = Tail(events) /\ UNCHANGED <<provisioning_active, apVars>>
      BY <1>0, <2>1, <2>3 DEF StopProvisioning, WatchInv, SureDoor
    <2>5. SureDoor' /\ LateDoor' /\ ApViewInv'
      BY <1>0, <1>1, <2>2, <2>4, SoftApKept DEF WatchInv
    <2>6. Delayed(connect_attempt)' = Delayed(0)
      BY <2>1 DEF Delayed
    <2>7. ApStopDelay < Delayed(0) + RetryDelay /\ Delayed(0) \in Int
      BY DelaysShrink, Delays
    <2>8. ApStopDelay \in Nat /\ RetryDelay \in Nat /\ tStopAp \in Nat \cup {-1} /\ Off = -1
      BY <1>0, Delays, WorkTypes DEF IInv
    <2>9. UntilStop <= ApStopDelay /\ UntilStop \in Int
      BY <1>0, <2>8 DEF WatchInv, WonDoor, Won, UntilStop
    <2>10. UntilStop' = UntilStop
      BY <2>2 DEF UntilStop
    <2>11. WonDoor'
      BY <2>1, <2>2, <2>3, <2>6, <2>7, <2>8, <2>9, <2>10 DEF WonDoor
    <2> QED
      BY <2>5, <2>11 DEF WatchInv
  <1> QED
    BY <1>2, <1>3

LEMMA StaDisconnectedWatch ==
  ASSUME EventsKeepUp, AgreementInv, StaEvent("sta_disconnected"), StaDisconnected(Tail(events)),
         UNCHANGED <<apiVars, cfgVars>>
  PROVE  WatchInv'
  <1>0. IInv /\ DoorInv /\ WatchInv /\ work \in WorkType
    BY DoorTypes DEF AgreementInv, IInv
  <1>1. /\ Tail(events) \in Seq(EventKinds)
        /\ Holds(Tail(events), "ap_enabled") <=> Queued("ap_enabled")
        /\ Holds(Tail(events), "ap_disabled") <=> Queued("ap_disabled")
    BY <1>0, StaEventQueue
  <1>2. CASE /\ UNCHANGED <<tConnect, tReconnect, tStopAp>> /\ tFallback' = tFallback
             /\ UNCHANGED <<provisioning_active, persistent_reconnect, connect_attempt, apVars,
                            blockVars>>
             /\ events' = Tail(events)
    <2>1. SureDoor' /\ LateDoor' /\ ApViewInv'
      BY <1>0, <1>1, <1>2, SoftApKept DEF WatchInv
    <2>2. Won' => Won
      BY <1>2 DEF Won, apiVars, blockVars
    <2>3. WonDoor'
      BY <1>0, <1>2, <2>2, WonKept DEF WatchInv
    <2> QED
      BY <2>1, <2>3 DEF WatchInv
  <1>3. CASE NoCallback(Tail(events))
    BY <1>2, <1>3, UnchangedWork DEF NoCallback, provVars, flagVars
  <1>4. CASE ~NoCallback(Tail(events))
    <2>1. /\ ~provisioning_active \/ sta_connect_in_progress
          /\ UNCHANGED blockVars
          /\ \/ /\ LeaveRetryToOthers \/ RetrySoon \/ ReconnectLater
                /\ events' = Tail(events)
             \/ /\ ~blocking_connect_active /\ config = NoCfg
                /\ EnterProvisioning(mode, FALSE, FALSE, work, Tail(events))
      BY <1>4 DEF StaDisconnected
    <2>2. CASE LeaveRetryToOthers /\ events' = Tail(events)
      BY <1>2, <2>1, <2>2, UnchangedWork DEF LeaveRetryToOthers
    <2>3. CASE RetrySoon /\ events' = Tail(events)
      <3>1. UNCHANGED <<provisioning_active, persistent_reconnect, connect_attempt, apVars>>
        BY <2>3 DEF RetrySoon
      <3>2. /\ tConnect' = RetryDelay /\ UNCHANGED <<tReconnect, tFallback, tStopAp>>
        BY <1>0, <2>3 DEF RetrySoon, ScheduleStaConnect, WorkType, Works, tConnect, tReconnect,
                          tFallback, tStopAp
      <3>3. SureDoor' /\ LateDoor' /\ ApViewInv'
        BY <1>0, <1>1, <2>3, <3>1, <3>2, SoftApKept DEF WatchInv
      <3>4. (Won' <=> Won) /\ UntilStop' = UntilStop
        BY <2>1, <3>2 DEF Won, UntilStop, apiVars, blockVars
      <3>5. Delayed(connect_attempt)' = Delayed(connect_attempt)
        BY <3>1 DEF Delayed
      <3>6. /\ Delayed(connect_attempt) \in Int /\ RetryDelay \in Nat /\ ApStopDelay \in Nat
            /\ tConnect \in Nat \cup {-1} /\ tStopAp \in Nat \cup {-1} /\ Off = -1
        BY <1>0, AttemptBound, DelaysShrink, Delays, WorkTypes DEF IInv
      <3>7. UntilStop \in Int
        BY <3>6 DEF UntilStop
      <3>8. WonDoor'
        BY <1>0, <3>1, <3>2, <3>4, <3>5, <3>6, <3>7 DEF WatchInv, WonDoor
      <3> QED
        BY <3>3, <3>8 DEF WatchInv
    <2>4. CASE ReconnectLater /\ events' = Tail(events)
      <3>1. persistent_reconnect' = TRUE /\ UNCHANGED <<provisioning_active, apVars>>
        BY <2>4 DEF ReconnectLater
      <3>2. UNCHANGED <<tConnect, tFallback, tStopAp>>
        BY <1>0, <2>4 DEF ReconnectLater, Arm, WorkType, Works, tConnect, tFallback, tStopAp
      <3>3. SureDoor' /\ LateDoor' /\ ApViewInv'
        BY <1>0, <1>1, <2>4, <3>1, <3>2, SoftApKept DEF WatchInv
      <3>4. (Won' <=> Won) /\ UntilStop' = UntilStop
        BY <2>1, <3>2 DEF Won, UntilStop, apiVars, blockVars
      <3>5. WonDoor'
        BY <1>0, <3>1, <3>2, <3>4 DEF WatchInv, WonDoor
      <3> QED
        BY <3>3, <3>5 DEF WatchInv
    <2>5. CASE ~blocking_connect_active /\ config = NoCfg
               /\ EnterProvisioning(mode, FALSE, FALSE, work, Tail(events))
      <3>1. Entered(FALSE, FALSE, work, Tail(events))
        BY <1>0, <2>5, DoorTypes, Entering DEF IInv
      <3>2. work["stop_ap"] = tStopAp
        BY DEF tStopAp
      <3>3. tStopAp = Off
        BY <1>0, <2>5, WonWhen
      <3>4. SureDoor' /\ LateDoor' /\ ApViewInv'
        BY <1>0, <1>1, <3>1, <3>2, <3>3, SoftApEntered DEF WatchInv
      <3>5. sta_connect_requested
        BY <1>0, StaEventFacts
      <3>6. ~drv_ap
        BY <1>0, <2>1, <2>5, <3>5 DEF DoorInv, OpenDoor, RestDoor, Trying
      <3>7. api' \in {"off", "idle"}
        BY <1>0, <2>5, <3>6 DEF DoorInv, BareDoor, apiVars
      <3>8. tStopAp' = Off
        BY <3>1, <3>2, <3>3 DEF Entered
      <3>9. ~Won'
        BY <3>7, <3>8 DEF Won
      <3> QED
        BY <3>4, <3>9 DEF WatchInv, WonDoor
    <2> QED
      BY <2>1, <2>2, <2>3, <2>4, <2>5
  <1> QED
    BY <1>3, <1>4

LEMMA ApEventWatch == AgreementInv /\ HandleApEvent => WatchInv'
  <1> SUFFICES ASSUME AgreementInv, HandleApEvent PROVE WatchInv'
    OBVIOUS
  <1>0. IInv /\ DoorInv /\ WatchInv
    BY DEF AgreementInv
  <1>1. PICK up \in {"none", "ap_started", "ap_stopped"} : ApEvent(up) /\ ApCallback(up)
    BY DEF HandleApEvent
  <1>2. /\ UNCHANGED <<flagVars, blockVars, apiVars>> /\ events' = Tail(events)
        /\ UNCHANGED <<tConnect, tTimeout, tReconnect, tFallback, tStopAp>>
    BY <1>1, UnchangedWork DEF HandleApEvent, ApCallback
  <1>3. events \in Seq(EventKinds) /\ events # << >>
    BY <1>0, <1>1, DoorTypes DEF ApEvent, ApEnabled, ApDisabled, IgnoredApEvent, Pending, IInv
  <1>4. /\ Queued("ap_enabled")' => Queued("ap_enabled")
        /\ Head(events) = "ap_enabled" => Queued("ap_enabled")
        /\ Head(events) # "ap_enabled" => (Queued("ap_enabled")' <=> Queued("ap_enabled"))
        /\ Head(events) # "ap_disabled" => (Queued("ap_disabled")' <=> Queued("ap_disabled"))
    BY <1>2, <1>3, Handled DEF Queued
  <1>5. WonDoor'
    <2>1. Won' => Won
      BY <1>2 DEF Won, apiVars, blockVars
    <2> QED
      BY <1>0, <1>2, <2>1, WonKept DEF WatchInv, flagVars
  <1>6. LateDoor'
    BY <1>0, <1>2, <1>4 DEF WatchInv, LateDoor
  <1>7. drv_ap \in BOOLEAN /\ provisioning_active = drv_ap
    BY <1>0, DoorTypes DEF IInv, WatchInv, SureDoor
  <1>8. SureDoor' /\ ApViewInv'
    <2>1. CASE ApEnabled(up)
      <3>1. /\ Head(events) = "ap_enabled" /\ up = "ap_started" /\ drv_ap' = drv_ap
            /\ ap_start_requested' = FALSE /\ ap_active' = TRUE
        BY <2>1 DEF ApEnabled, Pending
      <3>2. drv_ap = TRUE
        BY <1>0, <1>4, <1>7, <3>1 DEF WatchInv, ApViewInv
      <3>3. provisioning_active' = TRUE
        BY <1>1, <3>1 DEF ApCallback
      <3> QED
        BY <3>1, <3>2, <3>3 DEF SureDoor, ApViewInv
    <2>2. CASE ApDisabled(up)
      <3>1. /\ Head(events) = "ap_disabled" /\ up = "ap_stopped" /\ drv_ap' = drv_ap
            /\ ap_stop_requested
            /\ ap_start_requested' = FALSE /\ ap_active' = FALSE /\ ap_dhcp_running' = FALSE
        BY <2>2 DEF ApDisabled, Pending
      <3>2. drv_ap = FALSE
        BY <1>0, <1>7, <3>1 DEF DoorInv, OpenDoor
      <3>3. provisioning_active' = FALSE
        BY <1>1, <3>1 DEF ApCallback
      <3>4. ~Queued("ap_enabled")'
        BY <1>0, <1>4, <3>2 DEF WatchInv, ApViewInv
      <3> QED
        BY <3>1, <3>2, <3>3, <3>4 DEF SureDoor, ApViewInv
    <2>3. CASE IgnoredApEvent(up)
      <3>1. /\ \/ Head(events) = "ap_enabled" /\ ~ap_start_requested
               \/ Head(events) = "ap_disabled" /\ ~ap_stop_requested
            /\ up = "none" /\ UNCHANGED apVars
        BY <2>3 DEF IgnoredApEvent, Pending
      <3>2. provisioning_active' = provisioning_active
        BY <1>1, <3>1 DEF ApCallback
      <3> QED
        BY <1>0, <1>4, <3>1, <3>2 DEF WatchInv, SureDoor, ApViewInv, apVars
    <2> QED
      BY <1>1, <2>1, <2>2, <2>3 DEF ApEvent
  <1> QED
    BY <1>5, <1>6, <1>8 DEF WatchInv

LEMMA EventWatch == EventsKeepUp /\ AgreementInv /\ EventStep => WatchInv'
  <1> SUFFICES ASSUME EventsKeepUp, AgreementInv, HandleStaEvent PROVE WatchInv'
    BY ApEventWatch DEF EventStep
  <1>0. IInv /\ DoorInv /\ WatchInv
    BY DEF AgreementInv
  <1>1. PICK up \in {"none", "sta_connected", "sta_disconnected"} :
          StaEvent(up) /\ StaCallback(up, Tail(events))
    BY DEF HandleStaEvent
  <1>2. UNCHANGED <<apiVars, cfgVars>>
    BY DEF HandleStaEvent
  <1>3. CASE NoCallback(Tail(events))
    <2>1. /\ events' = Tail(events)
          /\ UNCHANGED <<apVars, provisioning_active, work, persistent_reconnect,
                         connect_attempt, blockVars>>
      BY <1>3 DEF NoCallback, provVars, flagVars
    <2>2. UNCHANGED <<tConnect, tTimeout, tReconnect, tFallback, tStopAp>>
      BY <2>1, UnchangedWork
    <2>3. /\ Holds(Tail(events), "ap_enabled") <=> Queued("ap_enabled")
          /\ Holds(Tail(events), "ap_disabled") <=> Queued("ap_disabled")
      BY <1>0, <1>1, StaEventQueue
    <2>4. SureDoor' /\ LateDoor' /\ ApViewInv'
      BY <1>0, <2>1, <2>2, <2>3, SoftApKept DEF WatchInv
    <2>5. Won' => Won
      BY <1>2, <2>1, <2>2 DEF Won, apiVars, blockVars
    <2>6. WonDoor'
      BY <1>0, <2>1, <2>2, <2>5, WonKept DEF WatchInv
    <2> QED
      BY <2>4, <2>6 DEF WatchInv
  <1> QED
    BY <1>1, <1>2, <1>3, StaConnectedWatch, StaDisconnectedWatch DEF StaCallback

\* A step after which no request is proven, and which leaves the SoftAP alone.
LEMMA NothingWon ==
  ASSUME WatchInv, ~Won', UNCHANGED <<apVars, provisioning_active>>,
         Holds(events', "ap_enabled") <=> Queued("ap_enabled"),
         Holds(events', "ap_disabled") <=> Queued("ap_disabled")
  PROVE  WatchInv'
  <1>1. tStopAp' = Off
    BY DEF Won
  <1>2. SureDoor' /\ LateDoor' /\ ApViewInv'
    BY <1>1, SoftApKept DEF WatchInv
  <1> QED
    BY <1>2 DEF WatchInv, WonDoor

\* provision_module_start.
LEMMA StartWatch == AgreementInv /\ Start => WatchInv'
  <1> SUFFICES ASSUME AgreementInv, Start PROVE WatchInv'
    OBVIOUS
  <1>0. IInv /\ DoorInv /\ WatchInv /\ work \in WorkType /\ events \in Seq(EventKinds)
    BY DoorTypes DEF AgreementInv, IInv
  <1>1. api = "off" /\ api' = "idle" /\ UNCHANGED blockVars
    BY DEF Start
  <1>2. tStopAp = Off /\ work["stop_ap"] = Off
    BY <1>0, <1>1 DEF IInv, BudgetInv, AtRest, Armed, Works, tStopAp
  <1>3. CASE config = NoCfg
    <2>1. EnterProvisioning(mode, sta_connect_in_progress, sta_ready, work, events)
      BY <1>3 DEF Start
    <2>2. Entered(sta_connect_in_progress, sta_ready, work, events)
      BY <1>0, <2>1, DoorTypes, Entering DEF IInv
    <2>3. SureDoor' /\ LateDoor' /\ ApViewInv'
      BY <1>0, <1>2, <2>2, SoftApEntered DEF WatchInv, Queued
    <2>4. ~Won'
      BY <1>1, <1>2, <2>2 DEF Entered, Won
    <2> QED
      BY <2>3, <2>4 DEF WatchInv, WonDoor
  <1>4. CASE config # NoCfg
    <2>1. /\ work' = ScheduleStaConnect(Arm(work, "boot_fallback_ap", FallbackDelay), 0)
          /\ UNCHANGED <<provisioning_active, apVars, events>>
      BY <1>4 DEF Start
    <2>2. tStopAp' = Off
      BY <1>0, <1>2, <2>1 DEF Arm, ScheduleStaConnect, WorkType, Works, tStopAp
    <2>3. ~Won'
      BY <1>1, <2>2 DEF Won
    <2> QED
      BY <1>0, <2>1, <2>3, NothingWon DEF Queued
  <1> QED
    BY <1>3, <1>4

\* A client's request takes the place of the one before: nothing is left of that
\* one, its stop of the SoftAP included.
LEMMA ClientWatch == AgreementInv /\ ClientStep => WatchInv'
  <1> SUFFICES ASSUME AgreementInv, ClientStep PROVE WatchInv'
    OBVIOUS
  <1>1. /\ api' \in {"cancelled", "reset_cancelled"} /\ work' = CancelAll(work)
        /\ UNCHANGED <<apVars, events, provisioning_active>>
    BY DEF ClientStep, PostWifi, ResetPost, wifiVars
  <1>2. tStopAp' = Off
    BY <1>1 DEF CancelAll, Cancel, Works, tStopAp
  <1>3. ~Won'
    BY <1>1, <1>2 DEF Won
  <1> QED
    BY <1>1, <1>3, NothingWon DEF AgreementInv, Queued

\* The answer schedules the stop of the SoftAP.
LEMMA PostReplyWatch == AgreementInv /\ PostReply => WatchInv'
  <1> SUFFICES ASSUME AgreementInv, PostReply PROVE WatchInv'
    OBVIOUS
  <1>0. IInv /\ DoorInv /\ WatchInv /\ work \in WorkType
    BY DoorTypes DEF AgreementInv, IInv
  <1>1. /\ api = "saved" /\ api' = "idle" /\ work' = Arm(work, "stop_ap", ApStopDelay)
        /\ UNCHANGED <<apVars, events, provisioning_active, persistent_reconnect,
                       connect_attempt>>
    BY DEF PostReply, wifiVars, flagVars
  <1>2. tStopAp = Off
    BY <1>0, <1>1 DEF DoorInv, OpenDoor
  <1>3. tStopAp' = ApStopDelay /\ UNCHANGED <<tConnect, tReconnect, tFallback>>
    BY <1>0, <1>1 DEF Arm, WorkType, Works, tConnect, tReconnect, tFallback, tStopAp
  <1>4. ApViewInv'
    BY <1>0, <1>1, ApViewKept DEF WatchInv, Queued
  <1>5. SureDoor' /\ LateDoor'
    BY <1>0, <1>1, <1>3 DEF WatchInv, SureDoor, LateDoor, apVars
  <1>6. Won /\ UntilStop' = UntilStop
    BY <1>1, <1>2, <1>3 DEF Won, UntilStop
  <1>7. Delayed(connect_attempt)' = Delayed(connect_attempt)
    BY <1>1 DEF Delayed
  <1>8. WonDoor'
    BY <1>0, <1>1, <1>3, <1>6, <1>7 DEF WatchInv, WonDoor
  <1> QED
    BY <1>4, <1>5, <1>8 DEF WatchInv

\* A reset of the credentials ends with the SoftAP.
LEMMA ResetClearWatch == AgreementInv /\ ResetClear => WatchInv'
  <1> SUFFICES ASSUME AgreementInv, ResetClear PROVE WatchInv'
    OBVIOUS
  <1>0. IInv /\ DoorInv /\ WatchInv
    BY DEF AgreementInv
  <1>1. /\ api = "reset_cleared" /\ api' = "idle"
        /\ EnterProvisioning(mode, sta_connect_in_progress, sta_ready, work, AfterDisconnect)
    BY DEF ResetClear
  <1>2. Entered(sta_connect_in_progress, sta_ready, work, AfterDisconnect)
    BY <1>0, <1>1, DoorTypes, Entering DEF IInv
  <1>3. tStopAp = Off /\ work["stop_ap"] = Off
    BY <1>0, <1>1 DEF DoorInv, OpenDoor, tStopAp
  <1>4. /\ AfterDisconnect \in Seq(EventKinds)
        /\ Holds(AfterDisconnect, "ap_enabled") <=> Queued("ap_enabled")
        /\ Holds(AfterDisconnect, "ap_disabled") <=> Queued("ap_disabled")
    BY <1>0, DisconnectKeepsApEvents
  <1>5. SureDoor' /\ LateDoor' /\ ApViewInv'
    BY <1>0, <1>2, <1>3, <1>4, SoftApEntered DEF WatchInv
  <1>6. ~Won'
    BY <1>1, <1>2, <1>3 DEF Entered, Won
  <1> QED
    BY <1>5, <1>6 DEF WatchInv, WonDoor

\* The other steps of the API thread: only a success stays one.
LEMMA ApiWatch == AgreementInv /\ ApiStep => WatchInv'
  <1> SUFFICES ASSUME AgreementInv, ApiStep PROVE WatchInv'
    OBVIOUS
  <1>0. IInv /\ DoorInv /\ WatchInv /\ work \in WorkType
    BY DoorTypes DEF AgreementInv, IInv
  <1>1. CASE PostDisconnect \/ PostGiveUp
    <2>1. /\ api \in {"cancelled", "expired"} /\ api' \in {"settling", "idle"}
          /\ events' = AfterDisconnect /\ UNCHANGED <<apVars, provisioning_active>>
          /\ work' \in {work, Cancel(work, {"sta_connect", "connect_timeout"})}
      BY <1>1 DEF PostDisconnect, PostGiveUp, provVars
    <2>2. tStopAp = Off /\ tStopAp' = tStopAp
      BY <1>0, <2>1 DEF DoorInv, OpenDoor, Cancel, WorkType, Works, tStopAp
    <2>3. ~Won'
      BY <2>1, <2>2 DEF Won
    <2>4. /\ Holds(AfterDisconnect, "ap_enabled") <=> Queued("ap_enabled")
          /\ Holds(AfterDisconnect, "ap_disabled") <=> Queued("ap_disabled")
      BY <1>0, DisconnectKeepsApEvents
    <2> QED
      BY <1>0, <2>1, <2>3, <2>4, NothingWon
  <1>2. CASE PostBegin \/ PostExpires \/ ResetFlags
    <2>1. /\ api \in {"settling", "waiting", "reset_cancelled"}
          /\ api' = "waiting" => connect_result_sem' = 0
          /\ api' \in {"waiting", "expired", "reset_cleared"}
          /\ work' \in {work, ScheduleStaConnect(work, 0)}
          /\ UNCHANGED <<apVars, events, provisioning_active>>
      BY <1>2 DEF PostBegin, PostExpires, ResetFlags, provVars, wifiVars
    <2>2. tStopAp = Off /\ tStopAp' = tStopAp
      BY <1>0, <2>1 DEF DoorInv, OpenDoor, ScheduleStaConnect, WorkType, Works, tStopAp
    <2>3. ~Won'
      BY <2>1, <2>2 DEF Won
    <2> QED
      BY <1>0, <2>1, <2>3, NothingWon DEF Queued
  <1>3. CASE PostResult \/ PostSave
    <2>1. /\ api \in {"waiting", "saving"}
          /\ api' \in {"saving", "saved"} => Won
          /\ api' \in {"saving", "saved", "idle"}
          /\ UNCHANGED <<wifiVars, provisioning_active, persistent_reconnect, connect_attempt,
                         work>>
      BY <1>3 DEF PostResult, PostSave, provVars, flagVars, Won
    <2>2. tStopAp = Off /\ UNCHANGED <<tConnect, tTimeout, tReconnect, tFallback, tStopAp>>
      BY <1>0, <2>1, UnchangedWork DEF DoorInv, OpenDoor
    <2>3. SureDoor' /\ LateDoor' /\ ApViewInv'
      BY <1>0, <2>1, <2>2, SoftApKept DEF WatchInv, wifiVars, Queued
    <2>4. Won' => Won
      BY <2>1, <2>2 DEF Won
    <2>5. WonDoor'
      BY <1>0, <2>1, <2>2, <2>4, WonKept DEF WatchInv
    <2> QED
      BY <2>3, <2>5 DEF WatchInv
  <1> QED
    BY <1>1, <1>2, <1>3, PostReplyWatch, ResetClearWatch DEF ApiStep

\* Time passes for the stop as for the attempts, once the events are handled.
LEMMA TickWatch == EventsKeepUp /\ AgreementInv /\ Tick => WatchInv'
  <1> SUFFICES ASSUME EventsKeepUp, AgreementInv, Tick PROVE WatchInv'
    OBVIOUS
  <1>0. IInv /\ DoorInv /\ WatchInv /\ events \in Seq(EventKinds)
    BY DoorTypes DEF AgreementInv, IInv
  <1>1. UNCHANGED <<wifiVars, provisioning_active, flagVars, blockVars, api>>
    BY DEF Tick
  <1>2. /\ tStopAp # 0
        /\ tConnect' = (IF tConnect # Off THEN tConnect - 1 ELSE Off)
        /\ tReconnect' = (IF tReconnect # Off THEN tReconnect - 1 ELSE Off)
        /\ tFallback' = (IF tFallback # Off THEN tFallback - 1 ELSE Off)
        /\ tStopAp' = (IF tStopAp # Off THEN tStopAp - 1 ELSE Off)
    BY <1>0, Ticked
  <1>3. /\ tConnect \in Nat \cup {-1} /\ tReconnect \in Nat \cup {-1}
        /\ tStopAp \in Nat \cup {-1} /\ Off = -1 /\ RetryDelay \in Nat /\ ApStopDelay \in Nat
    BY <1>0, WorkTypes, Delays DEF IInv
  <1>4. ~Queued("ap_enabled")' /\ UNCHANGED events
    <2>1. Len(events) <= 0 /\ Len(events) \in Nat
      BY <1>0, LenProperties DEF EventsKeepUp, Tick, Quiet
    <2> QED
      BY <1>1, <2>1 DEF Queued, Holds, wifiVars
  <1>5. SureDoor' /\ LateDoor' /\ ApViewInv'
    <2>1. ApViewInv'
      BY <1>0, <1>1, <1>4, ApViewKept DEF WatchInv, Queued, wifiVars
    <2> QED
      BY <1>0, <1>1, <1>4, <2>1 DEF WatchInv, SureDoor, LateDoor, wifiVars, apVars
  <1>6. api \notin {"saving", "saved"} /\ ~(api = "waiting" /\ connect_result_sem = 1)
    BY DEF Tick, Quiet
  <1>7. Won' => Won /\ tStopAp # Off
    BY <1>1, <1>2, <1>6 DEF Won, blockVars
  <1>8. /\ Delayed(connect_attempt)' = Delayed(connect_attempt)
        /\ Delayed(connect_attempt) \in Int
    BY <1>0, <1>1, AttemptBound, DelaysShrink DEF Delayed, flagVars
  <1>9. ASSUME Won' PROVE UntilStop' = UntilStop - 1 /\ UntilStop \in Nat
    BY <1>2, <1>3, <1>7, <1>9 DEF UntilStop
  <1>10. UNCHANGED persistent_reconnect
    BY <1>1 DEF flagVars
  <1>11. WonDoor'
    <2> SUFFICES ASSUME Won' PROVE WonDoor'
      BY DEF WonDoor
    <2>1. /\ tFallback = Off /\ UntilStop <= ApStopDelay
          /\ tReconnect # Off => persistent_reconnect
          /\ ~persistent_reconnect =>
                /\ tConnect <= RetryDelay
                /\ UntilStop < (IF tConnect = Off THEN RetryDelay ELSE tConnect)
                                  + Delayed(connect_attempt)
      BY <1>0, <1>7 DEF WatchInv, WonDoor
    <2> QED
      BY <1>2, <1>3, <1>8, <1>9, <1>10, <2>1, Ticked, <1>0 DEF WonDoor
  <1> QED
    BY <1>5, <1>11 DEF WatchInv

\* The driver raises events of the station only.
LEMMA DriverWatch == AgreementInv /\ Driver => WatchInv'
  <1> SUFFICES ASSUME AgreementInv, Driver PROVE WatchInv'
    OBVIOUS
  <1>0. IInv /\ DoorInv /\ WatchInv /\ events \in Seq(EventKinds)
    BY DoorTypes DEF AgreementInv, IInv
  <1>1. UNCHANGED <<provisioning_active, work, persistent_reconnect, connect_attempt, blockVars,
                    apiVars>>
    BY DEF Driver, provVars, flagVars
  <1>2. UNCHANGED apVars
    BY DEF Driver, DriverStep, LinkUp, JoinFails, LinkLost, DhcpBound
  <1>3. PICK e \in StaEventKinds : events' = Append(events, e)
    BY DEF Driver, DriverStep, LinkUp, JoinFails, LinkLost, DhcpBound, Raise, StaEventKinds
  <1>4. e \in EventKinds /\ e \notin {"ap_enabled", "ap_disabled"}
    BY DEF EventKinds, StaEventKinds
  <1>5. /\ Holds(events', "ap_enabled") <=> Queued("ap_enabled")
        /\ Holds(events', "ap_disabled") <=> Queued("ap_disabled")
    BY <1>0, <1>3, <1>4, Raised DEF Queued
  <1>6. UNCHANGED <<tConnect, tTimeout, tReconnect, tFallback, tStopAp>>
    BY <1>1, UnchangedWork
  <1>7. SureDoor' /\ LateDoor' /\ ApViewInv'
    BY <1>0, <1>1, <1>2, <1>5, <1>6, SoftApKept DEF WatchInv
  <1>8. Won' => Won
    BY <1>1, <1>6 DEF Won, blockVars, apiVars
  <1>9. WonDoor'
    BY <1>0, <1>1, <1>6, <1>8, WonKept DEF WatchInv
  <1> QED
    BY <1>7, <1>9 DEF WatchInv

\* Before the start, and after a power cycle.
LEMMA InitWatch == Init => WatchInv
  <1> SUFFICES ASSUME Init PROVE WatchInv
    OBVIOUS
  <1>1. tStopAp = Off
    BY DEF Init, Works, tStopAp
  <1>2. ~Won /\ ~Queued("ap_enabled") /\ ~drv_ap /\ ~provisioning_active /\ drv_ap = FALSE
        /\ ~ap_active /\ ~ap_dhcp_running /\ provisioning_active = FALSE
    BY <1>1 DEF Init, WifiInit, Won, Queued, Holds
  <1> QED
    BY <1>1, <1>2 DEF WatchInv, SureDoor, WonDoor, LateDoor, ApViewInv

LEMMA PowerCycleWatch == PowerCycle => WatchInv'
  <1> SUFFICES ASSUME PowerCycle PROVE WatchInv'
    OBVIOUS
  <1>1. tStopAp' = Off
    BY DEF PowerCycle, Works, tStopAp
  <1>2. /\ api' = "off" /\ events' = << >> /\ drv_ap' = FALSE /\ provisioning_active' = FALSE
        /\ ap_active' = FALSE /\ ap_dhcp_running' = FALSE
    BY DEF PowerCycle, WifiReset
  <1>3. ~Won' /\ ~Queued("ap_enabled")'
    BY <1>1, <1>2 DEF Won, Queued, Holds
  <1> QED
    BY <1>1, <1>2, <1>3 DEF WatchInv, SureDoor, WonDoor, LateDoor, ApViewInv

LEMMA NextWatch == EventsKeepUp /\ AgreementInv /\ [Next]_vars => WatchInv'
  <1> SUFFICES ASSUME EventsKeepUp, AgreementInv, [Next]_vars PROVE WatchInv'
    OBVIOUS
  <1>1. CASE UNCHANGED vars
    <2>1. /\ UNCHANGED <<apVars, provisioning_active, work, persistent_reconnect,
                         connect_attempt, blockVars, api, events>>
      BY <1>1 DEF vars, wifiVars, provVars, flagVars, apiVars
    <2>2. UNCHANGED <<tConnect, tTimeout, tReconnect, tFallback, tStopAp>>
      BY <2>1, UnchangedWork
    <2>3. SureDoor' /\ LateDoor' /\ ApViewInv'
      BY <2>1, <2>2, SoftApKept DEF AgreementInv, WatchInv, Queued
    <2>4. Won' => Won
      BY <2>1, <2>2 DEF Won, blockVars
    <2>5. WonDoor'
      BY <2>1, <2>2, <2>4, WonKept DEF AgreementInv, WatchInv
    <2> QED
      BY <2>3, <2>5 DEF WatchInv
  <1> QED
    BY <1>1, StartWatch, WorkWatch, EventWatch, ClientWatch, ApiWatch, DriverWatch, TickWatch,
       PowerCycleWatch DEF Next

\* While a request that succeeded still has its SoftAP, nothing asks for the
\* SoftAP again, so that its stop never overtakes the event of a start.
THEOREM AgreementInvariant ==
  ASSUME EventsKeepUp
  PROVE  Spec => []AgreementInv
  <1>1. Init => AgreementInv
    BY InitIInv, InitDoor, InitWatch DEF AgreementInv
  <1>2. AgreementInv /\ [Next]_vars => AgreementInv'
    BY NextIInv, NextDoor, NextWatch DEF AgreementInv
  <1> QED
    BY <1>1, <1>2, PTL DEF Spec

\* However starts and stops of the SoftAP and their events cross, once the
\* queue is empty wifi_manager and provision_module both have it right: for
\* clients on either network, with the delays in the order the board has them.
THEOREM ApAgreementAnywhere ==
  ASSUME EventsKeepUp
  PROVE  Spec => []ApAgreement
  <1>1. AgreementInv => ApAgreement
    <2> SUFFICES ASSUME AgreementInv, events = << >>, ~ap_start_requested
                 PROVE  /\ drv_ap = ap_active /\ drv_ap = provisioning_active
                        /\ ap_dhcp_running => drv_ap
      BY DEF ApAgreement
    <2>1. ~Queued("ap_disabled")
      BY DEF Queued, Holds
    <2>2. drv_ap \in BOOLEAN /\ ap_active \in BOOLEAN /\ ap_dhcp_running \in BOOLEAN
      BY DEF AgreementInv, IInv, TypeOK, WifiTypeOK, ApTypeOK
    <2>3. provisioning_active = drv_ap
      BY DEF AgreementInv, WatchInv, SureDoor
    <2>4. (drv_ap <=> ap_active) /\ (ap_dhcp_running => drv_ap)
      BY <2>1 DEF AgreementInv, WatchInv, ApViewInv
    <2> QED
      BY <2>2, <2>3, <2>4
  <1> QED
    BY <1>1, AgreementInvariant, PTL
=============================================================================
