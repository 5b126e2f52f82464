----------------------------- MODULE Provision -----------------------------
(***************************************************************************)
(* src/modules/provision_module.c on top of WifiManager, with its client,  *)
(* the HTTP thread of api_module.c (POST /api/v1/wifi and                  *)
(* POST /api/v1/provision/reset), and the Wi-Fi part of config_module.c.   *)
(*                                                                         *)
(* Three threads share the module's static variables without a lock: the   *)
(* system work queue (five delayable work items), the net_mgmt event       *)
(* thread (wifi_manager_event_cb) and the API thread.  The first two are   *)
(* cooperative, so each of their handlers is one step; the API thread is   *)
(* preemptible, so its two operations are cut where a handler of the       *)
(* others can get in between.                                              *)
(*                                                                         *)
(* Time is discrete.  A delayable work item is the number of ticks left    *)
(* until it is due; it is Off when it is not scheduled.                    *)
(***************************************************************************)
EXTENDS WifiManager

CONSTANTS
    MaxAttempts,    \* PROVISION_STA_MAX_ATTEMPTS
    ConnectTimeout, \* PROVISION_STA_CONNECT_TIMEOUT_MS, in ticks
    RetryDelay,     \* PROVISION_STA_RETRY_DELAY_MS
    ReconnectDelay, \* PROVISION_STA_RECONNECT_DELAY_MS
    FallbackDelay,  \* PROVISION_BOOT_FALLBACK_AP_DELAY_MS
    ApStopDelay,    \* delay of the AP stop after a successful POST
    SettleDelay,    \* sleep of provision_module_connect_blocking
    Margin,         \* what handle_wifi_post adds to the blocking budget
    MaxLag,         \* bound: events that may still be queued when time passes
    ClientVia       \* where a client may be: on the SoftAP, on the STA network

ASSUME ProvisionAssumption ==
    /\ MaxAttempts \in Nat \ {0} /\ ConnectTimeout \in Nat \ {0}
    /\ {RetryDelay, ReconnectDelay, FallbackDelay, ApStopDelay, SettleDelay,
        Margin, MaxLag} \subseteq Nat
    /\ ClientVia \subseteq {"ap", "sta"}

\* The order in which the code has the delays that race: the sleep of a POST
\* (300 ms) and the stop of the SoftAP after it (300 ms) come before a retry
\* (500 ms), the fallback SoftAP (15 s) before a reconnect (60 s).
ASSUME DelayOrder ==
    /\ 0 < SettleDelay /\ SettleDelay < RetryDelay
    /\ 0 < ApStopDelay /\ ApStopDelay < RetryDelay
    /\ RetryDelay < ReconnectDelay
    /\ 0 < FallbackDelay /\ FallbackDelay < ReconnectDelay
    /\ 0 < Margin

VARIABLES
    mode, provisioning_active, sta_ready, sta_connect_in_progress,
    sta_retry_pending, connect_attempt, persistent_reconnect,
    pending_sta_cfg, use_pending_cfg,
    blocking_connect_active, connect_result_success,
    connect_result_sem,  \* count of the semaphore
    work,                \* delayable work items
    api, api_cfg,        \* where the API thread is, and the posted configuration
    api_timer,           \* ticks until its sleep or its k_sem_take ends
    config,              \* current_config, in RAM
    nvs                  \* what settings_load would read after a reset

flagVars == <<sta_ready, sta_connect_in_progress, sta_retry_pending,
              connect_attempt, persistent_reconnect>>
requestVars == <<pending_sta_cfg, use_pending_cfg>>
blockVars == <<blocking_connect_active, connect_result_success,
               connect_result_sem>>
apiVars == <<api, api_cfg, api_timer>>
cfgVars == <<config, nvs>>
provVars == <<mode, provisioning_active, flagVars, requestVars, blockVars, work>>
vars == <<wifiVars, provVars, apiVars, cfgVars>>

Modes == {"boot", "provisioning", "connecting", "operational"}
Works == {"sta_connect", "connect_timeout", "sta_reconnect",
          "boot_fallback_ap", "stop_ap"}
ApiStates == {"off", "idle", "cancelled", "settling", "waiting", "expired",
              "saving", "saved", "reset_cancelled", "reset_cleared"}
Off == -1

\* handle_wifi_post: all attempts, each with its timeout and its retry delay.
MutBlockingBudget == MaxAttempts * ConnectTimeout + Margin
BlockingBudget == MaxAttempts * (ConnectTimeout + RetryDelay) + Margin

WorkType == [Works -> Nat \cup {Off}]

PolicyTypeOK ==
    /\ mode \in Modes
    /\ provisioning_active \in BOOLEAN /\ sta_ready \in BOOLEAN
    /\ sta_connect_in_progress \in BOOLEAN /\ sta_retry_pending \in BOOLEAN
    /\ connect_attempt \in Nat /\ persistent_reconnect \in BOOLEAN
    /\ work \in WorkType

RequestTypeOK ==
    /\ pending_sta_cfg \in Cfgs \cup {NoCfg} /\ use_pending_cfg \in BOOLEAN
    /\ blocking_connect_active \in BOOLEAN
    /\ connect_result_success \in BOOLEAN /\ connect_result_sem \in {0, 1}
    /\ api \in ApiStates /\ api_cfg \in Cfgs \cup {NoCfg} /\ api_timer \in Nat
    /\ config \in Cfgs \cup {NoCfg} /\ nvs \in Cfgs \cup {NoCfg}

TypeOK == WifiTypeOK /\ PolicyTypeOK /\ RequestTypeOK

\* main has loaded the configuration; the module's variables are as the C
\* start-up code leaves them.
Init ==
    /\ WifiInit
    /\ mode = "boot" /\ provisioning_active = FALSE
    /\ sta_ready = FALSE /\ sta_connect_in_progress = FALSE
    /\ sta_retry_pending = FALSE /\ connect_attempt = 0
    /\ persistent_reconnect = FALSE
    /\ pending_sta_cfg = NoCfg /\ use_pending_cfg = FALSE
    /\ blocking_connect_active = FALSE /\ connect_result_success = FALSE
    /\ connect_result_sem = 0
    /\ work = [w \in Works |-> Off]
    /\ api = "off" /\ api_cfg = NoCfg /\ api_timer = 0
    /\ nvs \in Cfgs \cup {NoCfg} /\ config = nvs

-----------------------------------------------------------------------------
(* Work items.                                                             *)

Armed(w) == work[w] # Off
Due(w) == work[w] = 0

Cancel(f, S) == [w \in Works |-> IF w \in S THEN Off ELSE f[w]]
Arm(f, w, delay) == [f EXCEPT ![w] = delay]

\* Both API operations begin by cancelling every work item.
MutCancelAll(f) == Cancel(f, Works \ {"stop_ap"})
CancelAll(f) == Cancel(f, Works)

\* schedule_sta_connect_after_ms: the attempt, and the timeout that watches it.
MutScheduleStaConnect(f, delay) == Arm(f, "sta_connect", delay)
ScheduleStaConnect(f, delay) ==
    [f EXCEPT !["sta_connect"] = delay,
              !["connect_timeout"] = delay + ConnectTimeout]

-----------------------------------------------------------------------------
(* enter_provisioning_mode and stop_provisioning_mode.  The arguments are  *)
(* what the calling handler has already written: the mode, the two flags,  *)
(* the work items f and the event queue q.                                 *)

MutOpenAp(m, keep, q) ==
    \E ok \in BOOLEAN :
        /\ StartAp(q, ok)
        /\ provisioning_active' = ok
        /\ mode' = IF keep THEN m ELSE "provisioning"

OpenAp(m, keep, q) ==
    \E ok \in BOOLEAN :
        /\ StartAp(q, ok)
        /\ provisioning_active' = ok
        /\ mode' = IF ok /\ ~keep THEN "provisioning" ELSE m

EnterProvisioning(m, progress, ready, f, q) ==
    \/ /\ provisioning_active
       /\ mode' = m /\ sta_connect_in_progress' = progress /\ sta_ready' = ready
       /\ work' = f /\ events' = q
       /\ UNCHANGED <<provisioning_active, apVars>>
    \/ LET keep == progress /\ ~ready IN
       /\ ~provisioning_active
       /\ sta_connect_in_progress' = keep
       /\ sta_ready' = FALSE
       /\ work' = Cancel(f, {"boot_fallback_ap"} \cup
                            IF keep THEN {} ELSE {"connect_timeout"})
       /\ OpenAp(m, keep, q)

StopProvisioning(q) ==
    \/ /\ provisioning_active
       /\ provisioning_active' = FALSE
       /\ StopAp(q)
    \/ /\ ~provisioning_active
       /\ events' = q
       /\ UNCHANGED <<provisioning_active, apVars>>

\* Both wake the API thread with the outcome of the blocking connect.
SignalFailure ==
    /\ connect_result_success' = FALSE
    /\ blocking_connect_active' = FALSE
    /\ connect_result_sem' = 1

SignalSuccess ==
    /\ connect_result_success' = TRUE
    /\ connect_result_sem' = 1
    /\ UNCHANGED blocking_connect_active

-----------------------------------------------------------------------------
(* provision_module_start, called once by main; the API thread starts after *)

Start ==
    /\ api = "off"
    /\ api' = "idle"
    /\ \/ /\ config = NoCfg
          /\ EnterProvisioning(mode, sta_connect_in_progress, sta_ready,
                               work, events)
       \/ /\ config # NoCfg
          /\ mode' = "connecting"
          /\ work' = ScheduleStaConnect(
                        Arm(work, "boot_fallback_ap", FallbackDelay), 0)
          /\ UNCHANGED <<provisioning_active, sta_ready,
                         sta_connect_in_progress, apVars, events>>
    /\ UNCHANGED <<staVars, netVars, sta_retry_pending, connect_attempt,
                   persistent_reconnect, requestVars, blockVars,
                   api_cfg, api_timer, cfgVars>>

-----------------------------------------------------------------------------
(* The work handlers.                                                      *)

\* sta_connect_work_handler.  The attempt uses the posted configuration while
\* a client is waiting for it, the stored one otherwise.
MutAttemptCfg == config
AttemptCfg == IF use_pending_cfg \/ blocking_connect_active
              THEN pending_sta_cfg ELSE config

MutBeginAttempt(retry) ==
    /\ Due("sta_connect")
    /\ sta_retry_pending' = (sta_retry_pending \/ retry)
    /\ pending_sta_cfg' = AttemptCfg
    /\ use_pending_cfg' = FALSE
    /\ UNCHANGED <<persistent_reconnect, apiVars, cfgVars>>

BeginAttempt(retry) ==
    /\ Due("sta_connect")
    /\ sta_retry_pending' = retry
    /\ pending_sta_cfg' = AttemptCfg
    /\ use_pending_cfg' = FALSE
    /\ UNCHANGED <<persistent_reconnect, apiVars, cfgVars>>

NoCredentials ==
    /\ BeginAttempt(FALSE)
    /\ AttemptCfg = NoCfg
    /\ LET f == Cancel(work, {"sta_connect"}) IN
       \/ /\ ~blocking_connect_active
          /\ EnterProvisioning(mode, sta_connect_in_progress, sta_ready,
                               f, events)
       \/ /\ blocking_connect_active
          /\ work' = f
          /\ UNCHANGED <<mode, provisioning_active, sta_ready,
                         sta_connect_in_progress, apVars, events>>
    /\ UNCHANGED <<staVars, netVars, connect_attempt, blockVars>>

AttemptAccepted ==
    /\ BeginAttempt(FALSE)
    /\ AttemptCfg # NoCfg
    /\ ConnectSta(AttemptCfg, TRUE)
    /\ connect_attempt' = connect_attempt + 1
    /\ sta_connect_in_progress' = TRUE
    /\ mode' = "connecting"
    /\ work' = Cancel(work, {"sta_connect"})
    /\ UNCHANGED <<apVars, events, provisioning_active, sta_ready, blockVars>>

\* What sta_connect_work_handler and connect_timeout_work_handler do when
\* attempt n has failed: retry, else tell the waiting client, else wait for
\* the next round of a persistent reconnect, else open the SoftAP.  m is the
\* mode (told, if a client is told), f the work items, q the event queue.
RetryAttempt(n, m, f, q) ==
    /\ connect_attempt' = n
    /\ mode' = m /\ work' = ScheduleStaConnect(f, RetryDelay) /\ events' = q
    /\ sta_connect_in_progress' = FALSE
    /\ UNCHANGED <<provisioning_active, sta_ready, blockVars, apVars>>

TellClient(n, told, f, q) ==
    /\ SignalFailure
    /\ connect_attempt' = n
    /\ mode' = told /\ work' = f /\ events' = q
    /\ sta_connect_in_progress' = FALSE
    /\ UNCHANGED <<provisioning_active, sta_ready, apVars>>

MutAwaitNextRound(m, f, q) ==
    /\ connect_attempt' = -1
    /\ mode' = m /\ work' = Arm(f, "sta_reconnect", ReconnectDelay)
    /\ events' = q
    /\ sta_connect_in_progress' = FALSE
    /\ UNCHANGED <<provisioning_active, sta_ready, blockVars, apVars>>

AwaitNextRound(m, f, q) ==
    /\ connect_attempt' = 0
    /\ mode' = m /\ work' = Arm(f, "sta_reconnect", ReconnectDelay)
    /\ events' = q
    /\ sta_connect_in_progress' = FALSE
    /\ UNCHANGED <<provisioning_active, sta_ready, blockVars, apVars>>

GiveUp(n, m, f, q) ==
    /\ connect_attempt' = n
    /\ EnterProvisioning(m, FALSE, sta_ready, f, q)
    /\ UNCHANGED blockVars

AfterLastAttempt(n, m, told, f, q) ==
    \/ blocking_connect_active /\ TellClient(n, told, f, q)
    \/ /\ ~blocking_connect_active /\ persistent_reconnect
       /\ AwaitNextRound(m, f, q)
    \/ /\ ~blocking_connect_active /\ ~persistent_reconnect
       /\ GiveUp(n, m, f, q)

MutAttemptFailed(n, m, told, f, q) ==
    \/ n <= MaxAttempts /\ RetryAttempt(n, m, f, q)
    \/ n > MaxAttempts /\ AfterLastAttempt(n, m, told, f, q)

AttemptFailed(n, m, told, f, q) ==
    \/ n < MaxAttempts /\ RetryAttempt(n, m, f, q)
    \/ n >= MaxAttempts /\ AfterLastAttempt(n, m, told, f, q)

AttemptRejected ==
    /\ BeginAttempt(connect_attempt + 1 < MaxAttempts)
    /\ AttemptCfg # NoCfg
    /\ ConnectSta(AttemptCfg, FALSE)
    /\ AttemptFailed(connect_attempt + 1, "connecting", "connecting",
                     Cancel(work, {"sta_connect", "connect_timeout"}), events)

StaConnectWork == NoCredentials \/ AttemptAccepted \/ AttemptRejected

\* connect_timeout_work_handler.
ConnectTimeoutWork ==
    /\ Due("connect_timeout")
    /\ LET f == Cancel(work, {"connect_timeout"}) IN
       \/ /\ sta_ready
          /\ work' = f
          /\ UNCHANGED <<wifiVars, mode, provisioning_active, flagVars,
                         blockVars>>
       \/ /\ ~sta_ready
          /\ DisconnectSta
          /\ sta_retry_pending' =
                (sta_retry_pending \/ connect_attempt < MaxAttempts)
          /\ AttemptFailed(connect_attempt, mode, "provisioning", f,
                           AfterDisconnect)
          /\ UNCHANGED persistent_reconnect
    /\ UNCHANGED <<requestVars, apiVars, cfgVars>>

\* sta_reconnect_work_handler.
StaReconnectWork ==
    /\ Due("sta_reconnect")
    /\ LET f == Cancel(work, {"sta_reconnect"})
           busy == sta_ready \/ provisioning_active \/ sta_connect_in_progress
       IN
       \/ /\ busy
          /\ work' = f
          /\ UNCHANGED <<mode, provisioning_active, flagVars, apVars, events>>
       \/ /\ ~busy /\ config = NoCfg
          /\ EnterProvisioning(mode, sta_connect_in_progress, sta_ready,
                               f, events)
          /\ UNCHANGED <<sta_retry_pending, connect_attempt,
                         persistent_reconnect>>
       \/ /\ ~busy /\ config # NoCfg
          /\ connect_attempt' = 0
          /\ work' = ScheduleStaConnect(f, 0)
          /\ UNCHANGED <<mode, provisioning_active, sta_ready,
                         sta_connect_in_progress, sta_retry_pending,
                         persistent_reconnect, apVars, events>>
    /\ UNCHANGED <<staVars, netVars, requestVars, blockVars, apiVars, cfgVars>>

\* boot_fallback_ap_work_handler.
BootFallbackWork ==
    /\ Due("boot_fallback_ap")
    /\ LET f == Cancel(work, {"boot_fallback_ap"})
           trying == sta_connect_in_progress \/ sta_retry_pending
       IN
       \/ /\ sta_ready \/ provisioning_active
          /\ work' = f
          /\ UNCHANGED <<mode, provisioning_active, sta_ready,
                         sta_connect_in_progress, apVars, events>>
       \/ /\ ~sta_ready /\ ~provisioning_active /\ trying
          /\ work' = Arm(f, "boot_fallback_ap", FallbackDelay)
          /\ UNCHANGED <<mode, provisioning_active, sta_ready,
                         sta_connect_in_progress, apVars, events>>
       \/ /\ ~sta_ready /\ ~provisioning_active /\ ~trying
          /\ EnterProvisioning(mode, sta_connect_in_progress, sta_ready,
                               f, events)
    /\ UNCHANGED <<staVars, netVars, sta_retry_pending, connect_attempt,
                   persistent_reconnect, requestVars, blockVars, apiVars,
                   cfgVars>>

\* stop_ap_work_handler.
StopApWork ==
    /\ Due("stop_ap")
    /\ StopProvisioning(events)
    /\ work' = Cancel(work, {"stop_ap"})
    /\ UNCHANGED <<staVars, netVars, mode, flagVars, requestVars, blockVars,
                   apiVars, cfgVars>>

WorkStep == StaConnectWork \/ ConnectTimeoutWork \/ StaReconnectWork
            \/ BootFallbackWork \/ StopApWork

-----------------------------------------------------------------------------
(* wifi_manager_event_cb.  It runs inside the event handler of             *)
(* WifiManager; q is the queue without the event being handled.            *)

NoCallback(q) ==
    /\ events' = q
    /\ UNCHANGED <<provVars, apVars>>

\* WIFI_MANAGER_EVENT_STA_CONNECTED, with on_sta_operational.
StaConnected(q) ==
    \/ ~sta_connect_in_progress /\ NoCallback(q)
    \/ /\ sta_connect_in_progress
       /\ \/ ~blocking_connect_active /\ StopProvisioning(q) /\ UNCHANGED blockVars
          \/ /\ blocking_connect_active /\ SignalSuccess
             /\ events' = q /\ UNCHANGED <<provisioning_active, apVars>>
       /\ sta_ready' = TRUE
       /\ sta_connect_in_progress' = FALSE
       /\ sta_retry_pending' = FALSE
       /\ connect_attempt' = 0
       /\ persistent_reconnect' = FALSE
       /\ work' = Cancel(work, {"connect_timeout", "boot_fallback_ap",
                                "sta_reconnect"})
       /\ mode' = "operational"
       /\ UNCHANGED requestVars

\* WIFI_MANAGER_EVENT_STA_DISCONNECTED: a handler that acts on it drops
\* sta_ready and sta_connect_in_progress, then picks one of the following.
LeaveRetryToOthers ==
    UNCHANGED <<mode, provisioning_active, sta_retry_pending, connect_attempt,
                persistent_reconnect, work, apVars>>

RetrySoon ==
    /\ sta_retry_pending' = TRUE
    /\ work' = ScheduleStaConnect(work, RetryDelay)
    /\ UNCHANGED <<mode, provisioning_active, connect_attempt,
                   persistent_reconnect, apVars>>

MutReconnectLater ==
    /\ persistent_reconnect' = TRUE
    /\ mode' = "connecting"
    /\ connect_attempt' = 0
    /\ UNCHANGED <<provisioning_active, sta_retry_pending, work, apVars>>

ReconnectLater ==
    /\ persistent_reconnect' = TRUE
    /\ mode' = "connecting"
    /\ connect_attempt' = 0
    /\ work' = Arm(work, "sta_reconnect", ReconnectDelay)
    /\ UNCHANGED <<provisioning_active, sta_retry_pending, apVars>>

StaDisconnected(q) ==
    LET ignored == provisioning_active /\ ~sta_connect_in_progress
        budget == connect_attempt < MaxAttempts
        soon == \/ blocking_connect_active /\ budget
                \/ /\ ~blocking_connect_active
                   /\ config # NoCfg /\ mode = "connecting" /\ budget
        others == sta_retry_pending \/ (blocking_connect_active /\ ~budget)
    IN
    \/ ignored /\ NoCallback(q)
    \/ /\ ~ignored
       /\ UNCHANGED <<requestVars, blockVars>>
       /\ \/ /\ \/ others /\ LeaveRetryToOthers
                \/ ~others /\ soon /\ RetrySoon
                \/ ~others /\ ~soon /\ config # NoCfg /\ ReconnectLater
             /\ sta_ready' = FALSE /\ sta_connect_in_progress' = FALSE
             /\ events' = q
          \/ /\ ~others /\ ~soon /\ config = NoCfg
             /\ EnterProvisioning(mode, FALSE, FALSE, work, q)
             /\ UNCHANGED <<sta_retry_pending, connect_attempt,
                            persistent_reconnect>>

StaCallback(up, q) ==
    \/ up = "none" /\ NoCallback(q)
    \/ up = "sta_connected" /\ StaConnected(q)
    \/ up = "sta_disconnected" /\ StaDisconnected(q)

\* WIFI_MANAGER_EVENT_AP_STARTED and WIFI_MANAGER_EVENT_AP_STOPPED.
ApCallback(up) ==
    /\ provisioning_active' = CASE up = "ap_started" -> TRUE
                                [] up = "ap_stopped" -> FALSE
                                [] OTHER -> provisioning_active
    /\ mode' = IF /\ up = "ap_started"
                  /\ ~sta_connect_in_progress /\ mode # "connecting"
               THEN "provisioning" ELSE mode
    /\ UNCHANGED <<flagVars, requestVars, blockVars, work>>

HandleStaEvent ==
    /\ \E up \in {"none", "sta_connected", "sta_disconnected"} :
          StaEvent(up) /\ StaCallback(up, Tail(events))
    /\ UNCHANGED <<apiVars, cfgVars>>

HandleApEvent ==
    /\ \E up \in {"none", "ap_started", "ap_stopped"} :
          ApEvent(up) /\ ApCallback(up)
    /\ events' = Tail(events)
    /\ UNCHANGED <<staVars, netVars, apiVars, cfgVars>>

EventStep == HandleStaEvent \/ HandleApEvent

-----------------------------------------------------------------------------
(* The API thread.                                                         *)

\* A client's packets arrive over the SoftAP or over the STA network.
ClientCanReach ==
    \/ "ap" \in ClientVia /\ drv_ap
    \/ "sta" \in ClientVia /\ drv_sta = "linked" /\ sta_ip

\* handle_wifi_post enters provision_module_connect_blocking, which cancels
\* the work items one by one, ...
PostWifi(cfg) ==
    /\ api = "idle" /\ ClientCanReach
    /\ api' = "cancelled" /\ api_cfg' = cfg
    /\ work' = CancelAll(work)
    /\ UNCHANGED <<wifiVars, mode, provisioning_active, flagVars, requestVars,
                   blockVars, api_timer, cfgVars>>

\* ... disconnects and sleeps, ...
PostDisconnect ==
    /\ api = "cancelled"
    /\ DisconnectSta /\ events' = AfterDisconnect
    /\ api' = "settling" /\ api_timer' = SettleDelay
    /\ UNCHANGED <<apVars, provVars, api_cfg, cfgVars>>

\* ... starts the attempts and waits for their outcome.
PostBegin ==
    /\ api = "settling" /\ api_timer = 0
    /\ pending_sta_cfg' = api_cfg /\ use_pending_cfg' = TRUE
    /\ connect_attempt' = 0
    /\ sta_ready' = FALSE /\ sta_connect_in_progress' = FALSE
    /\ sta_retry_pending' = FALSE /\ persistent_reconnect' = FALSE
    /\ connect_result_success' = FALSE /\ blocking_connect_active' = TRUE
    /\ connect_result_sem' = 0
    /\ work' = ScheduleStaConnect(work, 0)
    /\ api' = "waiting" /\ api_timer' = BlockingBudget
    /\ UNCHANGED <<wifiVars, mode, provisioning_active, api_cfg, cfgVars>>

\* k_sem_take succeeds; a failure is answered at once.
PostResult ==
    /\ api = "waiting" /\ connect_result_sem = 1
    /\ connect_result_sem' = 0
    /\ blocking_connect_active' = FALSE
    /\ api' = IF connect_result_success THEN "saving" ELSE "idle"
    /\ api_timer' = 0
    /\ UNCHANGED <<wifiVars, mode, provisioning_active, flagVars, requestVars,
                   connect_result_success, work, api_cfg, cfgVars>>

\* k_sem_take with K_FOREVER instead of a timeout.
MutPostExpires == FALSE

\* k_sem_take times out; the thread gets the processor back later.
PostExpires ==
    /\ api = "waiting" /\ connect_result_sem = 0 /\ api_timer = 0
    /\ api' = "expired"
    /\ UNCHANGED <<wifiVars, provVars, api_cfg, api_timer, cfgVars>>

PostGiveUp ==
    /\ api = "expired"
    /\ blocking_connect_active' = FALSE
    /\ work' = Cancel(work, {"sta_connect", "connect_timeout"})
    /\ DisconnectSta /\ events' = AfterDisconnect
    /\ api' = "idle"
    /\ UNCHANGED <<apVars, mode, provisioning_active, flagVars, requestVars,
                   connect_result_success, connect_result_sem, api_cfg,
                   api_timer, cfgVars>>

\* config_module_save_wifi_config: RAM is written before the flash, and stays
\* written when the flash fails; then an error is answered.
PostSave ==
    /\ api = "saving"
    /\ config' = api_cfg
    /\ \/ nvs' = api_cfg /\ api' = "saved"
       \/ "save_error" \in Faults /\ nvs' = nvs /\ api' = "idle"
    /\ UNCHANGED <<wifiVars, provVars, api_cfg, api_timer>>

\* The success is answered, then provision_module_schedule_ap_stop.
PostReply ==
    /\ api = "saved"
    /\ api' = "idle"
    /\ work' = Arm(work, "stop_ap", ApStopDelay)
    /\ UNCHANGED <<wifiVars, mode, provisioning_active, flagVars, requestVars,
                   blockVars, api_cfg, api_timer, cfgVars>>

\* provision_module_clear_wifi_and_reprovision: the work items are cancelled, ...
ResetPost ==
    /\ api = "idle" /\ ClientCanReach
    /\ api' = "reset_cancelled"
    /\ work' = CancelAll(work)
    /\ UNCHANGED <<wifiVars, mode, provisioning_active, flagVars, requestVars,
                   blockVars, api_cfg, api_timer, cfgVars>>

\* ... the flags are dropped, ...
ResetFlags ==
    /\ api = "reset_cancelled"
    /\ api' = "reset_cleared"
    /\ sta_ready' = FALSE /\ sta_connect_in_progress' = FALSE
    /\ sta_retry_pending' = FALSE /\ persistent_reconnect' = FALSE
    /\ UNCHANGED <<wifiVars, mode, provisioning_active, connect_attempt,
                   requestVars, blockVars, work, api_cfg, api_timer, cfgVars>>

\* ... and the credentials go, whether or not the flash takes it.
ResetClear ==
    /\ api = "reset_cleared"
    /\ api' = "idle"
    /\ DisconnectSta
    /\ config' = NoCfg
    /\ \/ nvs' = NoCfg
       \/ "save_error" \in Faults /\ nvs' = nvs
    /\ EnterProvisioning(mode, sta_connect_in_progress, sta_ready, work,
                         AfterDisconnect)
    /\ UNCHANGED <<sta_retry_pending, connect_attempt, persistent_reconnect,
                   requestVars, blockVars, api_cfg, api_timer>>

ClientStep == ResetPost \/ \E cfg \in Cfgs : PostWifi(cfg)

ApiStep == PostDisconnect \/ PostBegin \/ PostResult \/ PostExpires
           \/ PostGiveUp \/ PostSave \/ PostReply \/ ResetFlags \/ ResetClear

-----------------------------------------------------------------------------
(* The environment: the driver, time, and the power supply.                *)

Driver ==
    /\ DriverStep
    /\ UNCHANGED <<provVars, apiVars, cfgVars>>

\* Time passes when every handler that is due has run and the API thread is
\* asleep.  At most MaxLag events are still queued: with MaxLag = 0 the event
\* thread keeps up, as a cooperative thread with nothing to wait for does.
Quiet ==
    /\ \A w \in Works : ~Due(w)
    /\ Len(events) <= MaxLag
    /\ \/ api = "idle"
       \/ api = "settling" /\ api_timer > 0
       \/ api = "waiting" /\ api_timer > 0 /\ connect_result_sem = 0

Tick ==
    /\ Quiet
    /\ api_timer > 0 \/ \E w \in Works : Armed(w)
    /\ work' = [w \in Works |-> IF Armed(w) THEN work[w] - 1 ELSE Off]
    /\ api_timer' = IF api_timer > 0 THEN api_timer - 1 ELSE 0
    /\ UNCHANGED <<wifiVars, mode, provisioning_active, flagVars, requestVars,
                   blockVars, api, api_cfg, cfgVars>>

\* The power fails or the chip is reset: only the flash survives.
PowerCycle ==
    /\ "power_loss" \in Faults
    /\ api # "off"
    /\ WifiReset
    /\ mode' = "boot" /\ provisioning_active' = FALSE
    /\ sta_ready' = FALSE /\ sta_connect_in_progress' = FALSE
    /\ sta_retry_pending' = FALSE /\ connect_attempt' = 0
    /\ persistent_reconnect' = FALSE
    /\ pending_sta_cfg' = NoCfg /\ use_pending_cfg' = FALSE
    /\ blocking_connect_active' = FALSE /\ connect_result_success' = FALSE
    /\ connect_result_sem' = 0
    /\ work' = [w \in Works |-> Off]
    /\ api' = "off" /\ api_cfg' = NoCfg /\ api_timer' = 0
    /\ config' = nvs /\ UNCHANGED nvs

Next == Start \/ WorkStep \/ EventStep \/ ClientStep \/ ApiStep \/ Driver
        \/ Tick \/ PowerCycle

\* The kernel runs every handler that is due, delivers every event, wakes the
\* API thread when its wait is over, and time passes.  The client, the driver
\* and the power supply owe nothing.
Fairness ==
    /\ WF_vars(Start) /\ WF_vars(WorkStep) /\ WF_vars(EventStep)
    /\ WF_vars(ApiStep) /\ SF_vars(Tick)

Spec == Init /\ [][Next]_vars
FairSpec == Spec /\ Fairness
=============================================================================
