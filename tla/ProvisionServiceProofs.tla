----------------------- MODULE ProvisionServiceProofs -----------------------
(***************************************************************************)
(* What TLAPS proves about Provision when its clients are on the SoftAP:   *)
(* the three threads keep their agreements and implement                   *)
(* ProvisioningService, for every set of configurations, every number of   *)
(* attempts, every choice of faults, and all delays in the order of        *)
(* DelayOrder.                                                             *)
(*                                                                         *)
(* The argument.  While the SoftAP is up and no POST is at its attempts,   *)
(* the station rests: nothing is scheduled that could start an attempt or  *)
(* close the SoftAP.  So a POST finds the field empty, its attempts are    *)
(* the only ones, and the time they take is what the semaphore waits for.  *)
(***************************************************************************)
EXTENDS ProvisionProofs

\* The clients this module is about, and an event thread that keeps up but for
\* one event.
ClientsOnSoftAp == ClientVia \subseteq {"ap"} /\ MaxLag <= 1

\* The work items by name: ticks left, or Off.
tConnect   == work["sta_connect"]
tTimeout   == work["connect_timeout"]
tReconnect == work["sta_reconnect"]
tFallback  == work["boot_fallback_ap"]
tStopAp    == work["stop_ap"]

\* The API thread waits for the outcome of the attempts.
Attempting == api = "waiting" /\ connect_result_sem = 0

\* No attempt is under way or scheduled.
Resting == ~sta_connect_in_progress /\ tConnect = Off /\ tTimeout = Off

\* What may be in an event queue q: an event e; an answer after every link that
\* came up; every SoftAP event before every link.
Holds(q, e) == \E i \in 1 .. Len(q) : q[i] = e

Answered(q) ==
    \A i \in 1 .. Len(q) : q[i] = "connect_ok" =>
        \E j \in i + 1 .. Len(q) : q[j] \in {"disconnected", "connect_fail"}

ApFirst(q) ==
    \A i, j \in 1 .. Len(q) : q[i] = "connect_ok" /\ q[j] = "ap_enabled" => j < i

Queued(e) == Holds(events, e)

-----------------------------------------------------------------------------
(* The inductive invariant.                                                *)

\* Until main starts the module.
OffInv ==
    api = "off" =>
        /\ mode = "boot" /\ ~sta_connect_in_progress /\ ~sta_ready
        /\ ~sta_retry_pending /\ ~use_pending_cfg
        /\ ~drv_ap /\ ~ap_start_requested /\ ~ap_stop_requested
        /\ ~ap_active /\ ~ap_dhcp_running

\* provision_module knows whether the SoftAP is up, and it stays up as long as
\* the API thread is at a request.
ApInv ==
    /\ provisioning_active = drv_ap
    /\ drv_ap => ~ap_stop_requested
    /\ api \notin {"off", "idle"} => drv_ap /\ tStopAp = Off

\* An attempt is scheduled or under way, watched in both cases; a ready station
\* has neither.  With the SoftAP up, or nothing to connect with, only a POST
\* starts attempts.
StationInv ==
    /\ tConnect # Off => /\ ~sta_connect_in_progress /\ ~sta_ready
                         /\ tTimeout = tConnect + ConnectTimeout
    /\ sta_ready => ~sta_connect_in_progress
    /\ sta_connect_in_progress => tTimeout # Off
    /\ (drv_ap \/ config = NoCfg) /\ ~Attempting => Resting
    /\ api \notin {"off", "idle"} => tReconnect = Off
    /\ config = NoCfg => tReconnect = Off

\* While the fallback SoftAP is still to come, the device is trying, is about to,
\* or will not try before the fallback.
BootInv ==
    tFallback # Off =>
        /\ ~drv_ap /\ ~ap_start_requested /\ tFallback <= FallbackDelay
        /\ \/ sta_connect_in_progress \/ sta_retry_pending
           \/ tConnect = 0 /\ tFallback # 0
           \/ tConnect = Off /\ tReconnect # Off /\ tFallback < tReconnect

\* Only the request that waits is given a result, and the attempts are its own.
BlockInv ==
    /\ blocking_connect_active => api = "waiting" /\ pending_sta_cfg = api_cfg
    /\ Attempting => blocking_connect_active
    /\ connect_result_sem = 1 => api = "waiting"
    /\ connect_result_sem = 1 /\ ~connect_result_success => ~blocking_connect_active
    /\ api \in {"cancelled", "settling", "waiting", "saving", "saved"} => api_cfg \in Cfgs
    /\ use_pending_cfg => pending_sta_cfg \in Cfgs

\* The ticks that are left for the attempts after attempt n.
Rest(n) == (MaxAttempts - n) * (ConnectTimeout + RetryDelay)

\* The semaphore waits longer than the attempts can take.
TimeInv ==
    /\ api # "expired"
    /\ Attempting =>
        /\ ~sta_ready /\ tTimeout # Off
        /\ tConnect # Off => tTimeout + Rest(connect_attempt + 1) + Margin <= api_timer
        /\ tConnect = Off => tTimeout + Rest(connect_attempt) + Margin <= api_timer

\* "connecting" is true, or the last attempt has failed, and the SoftAP is there
\* unless its start failed too.
ModeInv ==
    /\ mode = "connecting" /\ drv_ap /\ ~Attempting => connect_attempt = MaxAttempts
    /\ mode = "connecting" /\ ~drv_ap =>
          \/ sta_connect_in_progress \/ sta_ready
          \/ tConnect # Off \/ tReconnect # Off
          \/ connect_attempt = MaxAttempts /\ ap_start_error
    /\ config = NoCfg /\ ~drv_ap => mode = "boot"
    /\ tStopAp # Off \/ api = "saved" => config # NoCfg

PolicyInv == /\ OffInv /\ ApInv /\ StationInv /\ BootInv
             /\ BlockInv /\ TimeInv /\ ModeInv

\* A link is of the last configuration given to the driver, and a notification of
\* an earlier link has its end queued behind it.  The sleep of a POST outlasts
\* both, so that what is heard during its attempts is about its own credentials.
RadioInv ==
    /\ drv_sta # "linked" => Answered(events)
    /\ drv_sta = "linked" => last_joined = drv_cfg
    /\ drv_sta # "idle" => drv_cfg \in Cfgs
    /\ api = "settling" =>
          /\ drv_sta = "idle" /\ ~sta_connect_requested /\ ~sta_ip /\ ~sta_link_connected
          /\ api_timer < SettleDelay => ~Queued("connect_ok")
    /\ api \in {"waiting", "saving"} /\ drv_sta # "idle" => drv_cfg = api_cfg
    /\ api = "waiting" /\ (sta_ip \/ Queued("connect_ok")) => last_joined = api_cfg
    /\ connect_result_sem = 1 /\ connect_result_success => last_joined = api_cfg
    /\ api = "saving" => last_joined = api_cfg

\* A proven request, until its SoftAP is closed.
Proven == \/ tStopAp # Off \/ api \in {"saving", "saved"}
          \/ connect_result_sem = 1 /\ connect_result_success

\* The mode and the SoftAP: once a request is proven no event of the SoftAP's
\* start is left that would take the mode back.
SettledInv ==
    /\ Proven => /\ mode = "operational" /\ drv_ap
                 /\ ~ap_start_requested /\ ~Queued("ap_enabled")
    /\ mode = "provisioning" => drv_ap
    /\ api = "waiting" => ApFirst(events)
    /\ api = "waiting" /\ sta_link_connected => ~Queued("ap_enabled")

\* wifi_manager's view of the SoftAP, and the events that will correct it.
ApViewInv ==
    /\ Queued("ap_enabled") => drv_ap
    /\ drv_ap /\ ap_start_requested => Queued("ap_enabled")
    /\ drv_ap /\ ~ap_start_requested => ap_active
    /\ ~drv_ap => ~ap_dhcp_running
    /\ ~drv_ap /\ ~ap_start_requested /\ ap_active =>
          ap_stop_requested /\ Queued("ap_disabled")

ViewInv == SettledInv /\ ApViewInv

ServiceInv == IInv /\ RetryInv /\ PolicyInv /\ RadioInv /\ ViewInv

-----------------------------------------------------------------------------
(* Lemmas about the work items and the time.                               *)

LEMMA WorkTypes ==
  ASSUME TypeOK
  PROVE  /\ tConnect \in Nat \cup {-1} /\ tTimeout \in Nat \cup {-1}
         /\ tReconnect \in Nat \cup {-1} /\ tFallback \in Nat \cup {-1}
         /\ tStopAp \in Nat \cup {-1} /\ Off = -1
  BY DEF TypeOK, PolicyTypeOK, WorkType, Works, Off, tConnect, tTimeout, tReconnect,
         tFallback, tStopAp

LEMMA WorkNames ==
  ASSUME NEW w \in Works
  PROVE  /\ Due(w) <=> work[w] = 0
         /\ Armed(w) <=> work[w] # Off
  BY DEF Due, Armed

LEMMA UnchangedWork ==
  UNCHANGED work => UNCHANGED <<tConnect, tTimeout, tReconnect, tFallback, tStopAp>>
  BY DEF tConnect, tTimeout, tReconnect, tFallback, tStopAp

\* The time left shrinks by one attempt and one delay.
LEMMA RestShrinks ==
  ASSUME NEW n \in Nat, n < MaxAttempts
  PROVE  /\ Rest(n) \in Nat /\ Rest(n + 1) \in Nat
         /\ Rest(n) = Rest(n + 1) + ConnectTimeout + RetryDelay
  <1>1. ConnectTimeout \in Nat /\ RetryDelay \in Nat /\ MaxAttempts \in Nat
    BY ProvisionAssumption
  <1> DEFINE d == ConnectTimeout + RetryDelay
             k == MaxAttempts - (n + 1)
  <1>2. d \in Nat /\ k \in Nat /\ MaxAttempts - n = k + 1
    BY <1>1
  <1> HIDE DEF d, k
  <1>3. k * d \in Nat /\ (k + 1) * d = k * d + d
    BY <1>2
  <1>4. Rest(n) = (k + 1) * d /\ Rest(n + 1) = k * d
    BY <1>2 DEF Rest, d, k
  <1> QED
    BY <1>1, <1>2, <1>3, <1>4 DEF d

\* enter_provisioning_mode with the SoftAP down and no attempt under way.
LEMMA OpeningAp ==
  ASSUME IInv, PolicyInv, NEW m, NEW ready, NEW f \in WorkType, NEW q, ~provisioning_active,
         EnterProvisioning(m, FALSE, ready, f, q)
  PROVE  /\ drv_ap' \in BOOLEAN /\ provisioning_active' = drv_ap'
         /\ mode' = (IF drv_ap' THEN "provisioning" ELSE m)
         /\ events' = (IF drv_ap' THEN Append(q, "ap_enabled") ELSE q)
         /\ drv_ap' \/ ap_start_error'
         /\ \/ ap_start_requested' = TRUE /\ ap_stop_requested' = FALSE
            \/ ~drv_ap' /\ UNCHANGED <<ap_start_requested, ap_stop_requested>>
         /\ UNCHANGED <<ap_active, ap_dhcp_running>>
         /\ sta_connect_in_progress' = FALSE /\ sta_ready' = FALSE
         /\ tFallback' = Off /\ tTimeout' = Off
         /\ tConnect' = f["sta_connect"] /\ tReconnect' = f["sta_reconnect"]
         /\ tStopAp' = f["stop_ap"]
  <1>1. drv_ap = FALSE
    BY DEF IInv, TypeOK, WifiTypeOK, ApTypeOK, PolicyInv, ApInv
  <1>2. /\ work' = Cancel(f, {"boot_fallback_ap"} \cup {"connect_timeout"})
        /\ sta_connect_in_progress' = FALSE /\ sta_ready' = FALSE
    BY DEF EnterProvisioning
  <1>3. PICK ok \in BOOLEAN :
           /\ StartAp(q, ok) /\ provisioning_active' = ok
           /\ mode' = IF ok THEN "provisioning" ELSE m
    BY DEF EnterProvisioning, OpenAp
  <1>4. /\ tFallback' = Off /\ tTimeout' = Off
        /\ tConnect' = f["sta_connect"] /\ tReconnect' = f["sta_reconnect"]
        /\ tStopAp' = f["stop_ap"]
    BY <1>2 DEF Cancel, Works, tConnect, tTimeout, tReconnect, tFallback, tStopAp
  <1>5. drv_ap' = ok
    BY <1>1, <1>3 DEF StartAp
  <1> QED
    BY <1>1, <1>2, <1>3, <1>4, <1>5 DEF StartAp

\* What it takes for that to keep the invariant.
LEMMA OpenedPolicy ==
  ASSUME IInv, PolicyInv, api' = "idle", ~drv_ap,
         UNCHANGED <<blockVars, api_cfg, api_timer, cfgVars>>,
         use_pending_cfg' => use_pending_cfg, pending_sta_cfg' \in Cfgs \cup {pending_sta_cfg},
         api \in {"off", "idle"},
         provisioning_active' = drv_ap', drv_ap' => ap_stop_requested' = FALSE,
         drv_ap' \/ ap_start_error',
         sta_connect_in_progress' = FALSE, sta_ready' = FALSE,
         tConnect' = Off, tTimeout' = Off, tFallback' = Off, tStopAp' = tStopAp,
         drv_ap' => mode' = "provisioning",
         ~drv_ap' /\ mode' = "connecting" =>
             tReconnect' # Off \/ connect_attempt' = MaxAttempts,
         config = NoCfg => tReconnect' = Off /\ (~drv_ap' => mode' = "boot")
  PROVE  PolicyInv'
  <1>1. OffInv' /\ ApInv' /\ StationInv' /\ BootInv' /\ TimeInv'
    BY DEF PolicyInv, OffInv, ApInv, StationInv, BootInv, TimeInv, Attempting, Resting, cfgVars
  <1>2. BlockInv'
    BY DEF PolicyInv, BlockInv, Attempting, blockVars
  <1>3. ModeInv'
    BY DEF PolicyInv, ModeInv, cfgVars
  <1> QED
    BY <1>1, <1>2, <1>3 DEF PolicyInv

-----------------------------------------------------------------------------
(* Work handlers.                                                          *)

\* When a work item can be due: an attempt and its timeout in a POST, or with
\* the SoftAP down and something to connect with; the others between requests.
LEMMA DueWhen ==
  ASSUME IInv, PolicyInv
  PROVE  /\ tConnect # Off \/ tTimeout # Off =>
               \/ Attempting /\ blocking_connect_active /\ drv_ap
               \/ api = "idle" /\ ~drv_ap /\ ~blocking_connect_active /\ config # NoCfg
         /\ tFallback # Off => api = "idle" /\ ~drv_ap
         /\ tReconnect # Off => api = "idle" /\ config # NoCfg
         /\ tStopAp # Off => api = "idle"
  <1>1. api = "off" => /\ tConnect = Off /\ tTimeout = Off /\ tFallback = Off
                       /\ tReconnect = Off /\ tStopAp = Off
    BY DEF IInv, BudgetInv, AtRest, Armed, Works, tConnect, tTimeout, tReconnect,
           tFallback, tStopAp
  <1>2. api = "waiting" => connect_result_sem \in {0, 1}
    BY DEF IInv, TypeOK, RequestTypeOK
  <1> QED
    BY <1>1, <1>2 DEF PolicyInv, ApInv, StationInv, BootInv, BlockInv, Attempting, Resting

LEMMA AttemptAcceptedPolicy == IInv /\ PolicyInv /\ AttemptAccepted => PolicyInv'
  <1> SUFFICES ASSUME IInv, PolicyInv, AttemptAccepted PROVE PolicyInv'
    OBVIOUS
  <1>1. /\ tConnect = 0 /\ tConnect' = Off
        /\ UNCHANGED <<tTimeout, tReconnect, tFallback, tStopAp>>
    BY DEF AttemptAccepted, BeginAttempt, Due, Cancel, Works, IInv, TypeOK, PolicyTypeOK,
           WorkType, tConnect, tTimeout, tReconnect, tFallback, tStopAp
  <1>2. /\ connect_attempt' = connect_attempt + 1 /\ sta_connect_in_progress' = TRUE
        /\ mode' = "connecting" /\ use_pending_cfg' = FALSE
        /\ pending_sta_cfg' = AttemptCfg
        /\ UNCHANGED <<apVars, provisioning_active, sta_ready, blockVars, apiVars, cfgVars>>
    BY DEF AttemptAccepted, BeginAttempt
  <1>3. connect_attempt \in Nat /\ connect_attempt < MaxAttempts
    BY <1>1, WorkTypes DEF IInv, BudgetInv, AttemptBudget, TypeOK, PolicyTypeOK, Armed, tConnect
  <1> QED
    BY <1>1, <1>2, <1>3, DueWhen, WorkTypes, RestShrinks, ProvisionAssumption
    DEF IInv, PolicyInv, OffInv, ApInv, StationInv, BootInv, BlockInv, TimeInv, ModeInv, Attempting,
        Resting, apVars, blockVars, apiVars, cfgVars, AttemptCfg

\* A failed attempt that does not end in enter_provisioning_mode: what is left
\* of the work items is known, and so is who waits for the next one.
LEMMA RetryAttemptPolicy ==
  ASSUME IInv, PolicyInv, NEW n \in Nat, n < MaxAttempts, NEW m \in Modes,
         NEW f \in WorkType, NEW q, RetryAttempt(n, m, f, q),
         \/ tConnect = 0 /\ n = connect_attempt + 1
         \/ tTimeout = 0 /\ n = connect_attempt,
         f["sta_reconnect"] = tReconnect, f["boot_fallback_ap"] = tFallback,
         f["stop_ap"] = tStopAp,
         sta_retry_pending' = TRUE, ~sta_ready,
         use_pending_cfg' => use_pending_cfg, pending_sta_cfg' \in {pending_sta_cfg, AttemptCfg},
         UNCHANGED <<apiVars, cfgVars>>
  PROVE  PolicyInv'
  <1>1. /\ tConnect' = RetryDelay /\ tTimeout' = RetryDelay + ConnectTimeout
        /\ UNCHANGED <<tReconnect, tFallback, tStopAp>>
    BY DEF RetryAttempt, ScheduleStaConnect, WorkType, Works, tConnect, tTimeout,
           tReconnect, tFallback, tStopAp
  <1>2. /\ connect_attempt' = n /\ mode' = m /\ sta_connect_in_progress' = FALSE
        /\ UNCHANGED <<provisioning_active, sta_ready, blockVars, apVars>>
    BY DEF RetryAttempt
  <1>3. connect_attempt \in Nat
    BY DEF IInv, TypeOK, PolicyTypeOK
  <1>4. TimeInv'
    <2>1. CASE tConnect = 0 /\ n = connect_attempt + 1
      <3>1. Attempting =>
              /\ ~sta_ready /\ tTimeout = ConnectTimeout
              /\ ConnectTimeout + Rest(n) + Margin <= api_timer
        BY <2>1, DueWhen, ProvisionAssumption DEF PolicyInv, StationInv, TimeInv, Off
      <3> QED
        BY <1>1, <1>2, <3>1, RestShrinks, ProvisionAssumption
        DEF IInv, TypeOK, RequestTypeOK, PolicyInv, TimeInv, Attempting, apiVars, blockVars, Off
    <2>2. CASE tTimeout = 0 /\ n = connect_attempt
      <3>1. tConnect = Off
        BY <2>2, WorkTypes, ProvisionAssumption DEF IInv, PolicyInv, StationInv
      <3> QED
        BY <1>1, <1>2, <2>2, <3>1, RestShrinks, ProvisionAssumption
        DEF IInv, TypeOK, RequestTypeOK, PolicyInv, TimeInv, Attempting, apiVars, blockVars, Off
    <2> QED
      BY <2>1, <2>2
  <1>5. tConnect # Off \/ tTimeout # Off
    BY DEF Off
  <1> QED
    BY <1>1, <1>2, <1>4, <1>5, DueWhen, ProvisionAssumption
    DEF PolicyInv, OffInv, ApInv, StationInv, BootInv, BlockInv, ModeInv,
        Attempting, Resting, apVars, blockVars, apiVars, cfgVars, AttemptCfg, Off

\* The client is told.
LEMMA TellClientPolicy ==
  ASSUME IInv, PolicyInv, NEW n \in Nat, n >= MaxAttempts, n <= MaxAttempts,
         NEW told \in {"connecting", "provisioning"}, NEW f \in WorkType, NEW q,
         blocking_connect_active, TellClient(n, told, f, q),
         f["sta_connect"] = Off, f["connect_timeout"] = Off,
         f["sta_reconnect"] = tReconnect, f["boot_fallback_ap"] = tFallback,
         f["stop_ap"] = tStopAp, ~sta_ready,
         use_pending_cfg' => use_pending_cfg, pending_sta_cfg' \in {pending_sta_cfg, AttemptCfg},
         UNCHANGED <<apiVars, cfgVars>>
  PROVE  PolicyInv'
  <1>1. /\ tConnect' = Off /\ tTimeout' = Off
        /\ UNCHANGED <<tReconnect, tFallback, tStopAp>>
    BY DEF TellClient, tConnect, tTimeout, tReconnect, tFallback, tStopAp
  <1>2. /\ connect_attempt' = n /\ mode' = told /\ sta_connect_in_progress' = FALSE
        /\ connect_result_sem' = 1 /\ connect_result_success' = FALSE
        /\ blocking_connect_active' = FALSE
        /\ UNCHANGED <<provisioning_active, sta_ready, apVars>>
    BY DEF TellClient, SignalFailure
  <1>3. n = MaxAttempts
    BY Delays
  <1>4. api = "waiting" /\ drv_ap
    BY DEF PolicyInv, BlockInv, ApInv
  <1> QED
    BY <1>1, <1>2, <1>3, <1>4
    DEF PolicyInv, OffInv, ApInv, StationInv, BootInv, BlockInv, TimeInv, ModeInv,
        Attempting, Resting, apVars, apiVars, cfgVars, AttemptCfg

\* Nobody waits and the SoftAP is down: the next round, or the SoftAP.
LEMMA LastAttemptPolicy ==
  ASSUME IInv, PolicyInv, NEW n \in Nat, n >= MaxAttempts, n <= MaxAttempts,
         NEW m \in Modes, NEW f \in WorkType, NEW q, api = "idle", ~drv_ap, config # NoCfg,
         ~blocking_connect_active,
         AwaitNextRound(m, f, q) \/ GiveUp(n, m, f, q),
         f["sta_connect"] = Off, f["connect_timeout"] = Off,
         f["sta_reconnect"] = tReconnect, f["boot_fallback_ap"] = tFallback,
         f["stop_ap"] = tStopAp, ~sta_ready,
         use_pending_cfg' => use_pending_cfg, pending_sta_cfg' \in {pending_sta_cfg, AttemptCfg},
         UNCHANGED <<apiVars, cfgVars>>
  PROVE  PolicyInv'
  <1>0. n = MaxAttempts
    BY Delays
  <1>1. CASE AwaitNextRound(m, f, q)
    <2>1. /\ tConnect' = Off /\ tTimeout' = Off /\ tReconnect' = ReconnectDelay
          /\ UNCHANGED <<tFallback, tStopAp>>
      BY <1>1 DEF AwaitNextRound, Arm, WorkType, Works, tConnect, tTimeout, tReconnect,
                  tFallback, tStopAp
    <2>2. /\ connect_attempt' = 0 /\ mode' = m /\ sta_connect_in_progress' = FALSE
          /\ UNCHANGED <<provisioning_active, sta_ready, blockVars, apVars>>
      BY <1>1 DEF AwaitNextRound
    <2> QED
      BY <2>1, <2>2, WorkTypes, Delays, DelayOrder
      DEF IInv, PolicyInv, OffInv, ApInv, StationInv, BootInv, BlockInv, TimeInv, ModeInv,
          Attempting, Resting, apVars, blockVars, apiVars, cfgVars, AttemptCfg
  <1>2. CASE GiveUp(n, m, f, q)
    <2>1. EnterProvisioning(m, FALSE, sta_ready, f, q) /\ connect_attempt' = n
          /\ UNCHANGED blockVars
      BY <1>2 DEF GiveUp
    <2>2. ~provisioning_active
      BY DEF PolicyInv, ApInv
    <2>3. pending_sta_cfg' \in Cfgs \cup {pending_sta_cfg}
      BY DEF AttemptCfg, IInv, TypeOK, RequestTypeOK
    <2> QED
      BY <1>0, <2>1, <2>2, <2>3, OpeningAp, OpenedPolicy DEF apiVars
  <1> QED
    BY <1>1, <1>2

\* sta_connect_work_handler.  Outside of this module's environment it may find
\* nothing to connect with; here it does not.
LEMMA StaConnectPolicy == IInv /\ PolicyInv /\ StaConnectWork => PolicyInv'
  <1> SUFFICES ASSUME IInv, PolicyInv, StaConnectWork PROVE PolicyInv'
    OBVIOUS
  <1>1. tConnect = 0 /\ tConnect # Off
    <2>1. Due("sta_connect")
      BY DEF StaConnectWork, NoCredentials, AttemptAccepted, AttemptRejected, BeginAttempt
    <2> QED
      BY <2>1 DEF Due, Off, tConnect
  <1>2. AttemptCfg # NoCfg
    BY <1>1, DueWhen, WifiAssumption DEF AttemptCfg, PolicyInv, BlockInv, Attempting
  <1>3. CASE AttemptRejected
    <2> DEFINE n == connect_attempt + 1
               f == Cancel(work, {"sta_connect", "connect_timeout"})
    <2>1. /\ n \in Nat /\ n <= MaxAttempts /\ ~sta_ready
      BY <1>1, Delays DEF IInv, BudgetInv, AttemptBudget, TypeOK, PolicyTypeOK, Armed,
                          tConnect, PolicyInv, StationInv
    <2>2. /\ f \in WorkType /\ f["sta_connect"] = Off /\ f["connect_timeout"] = Off
          /\ f["sta_reconnect"] = tReconnect /\ f["boot_fallback_ap"] = tFallback
          /\ f["stop_ap"] = tStopAp
      BY DEF Cancel, WorkType, Works, Off, IInv, TypeOK, PolicyTypeOK, tReconnect,
             tFallback, tStopAp
    <2>3. /\ pending_sta_cfg' = AttemptCfg /\ use_pending_cfg' = FALSE
          /\ UNCHANGED <<apiVars, cfgVars>>
          /\ AttemptFailed(n, "connecting", "connecting", f, events)
      BY <1>3 DEF AttemptRejected, BeginAttempt
    <2>4. "connecting" \in Modes
      BY DEF Modes
    <2>5. CASE n < MaxAttempts
      <3>1. n = connect_attempt + 1
        OBVIOUS
      <3>3. sta_retry_pending' = TRUE
        BY <1>3, <2>5, Zenon DEF AttemptRejected, BeginAttempt
      <3> HIDE DEF f, n
      <3>2. RetryAttempt(n, "connecting", f, events)
        BY <2>1, <2>3, <2>5, Delays DEF AttemptFailed
      <3> QED
        BY <1>1, <2>1, <2>2, <2>3, <2>4, <2>5, <3>1, <3>2, <3>3, RetryAttemptPolicy
    <2>6. CASE ~(n < MaxAttempts)
      <3> HIDE DEF f
      <3>1. n >= MaxAttempts /\ AfterLastAttempt(n, "connecting", "connecting", f, events)
        BY <2>1, <2>3, <2>6, Delays DEF AttemptFailed
      <3> HIDE DEF n
      <3>2. CASE blocking_connect_active
        <4>1. TellClient(n, "connecting", f, events)
          BY <3>1, <3>2 DEF AfterLastAttempt
        <4> QED
          BY <2>1, <2>2, <2>3, <3>1, <3>2, <4>1, TellClientPolicy
      <3>3. CASE ~blocking_connect_active
        <4>1. AwaitNextRound("connecting", f, events) \/ GiveUp(n, "connecting", f, events)
          BY <3>1, <3>3 DEF AfterLastAttempt
        <4>2. api = "idle" /\ ~drv_ap /\ config # NoCfg
          BY <1>1, <3>3, DueWhen
        <4> QED
          BY <2>1, <2>2, <2>3, <2>4, <3>1, <3>3, <4>1, <4>2, LastAttemptPolicy
      <3> QED
        BY <3>2, <3>3
    <2> QED
      BY <2>5, <2>6
  <1> QED
    BY <1>2, <1>3, AttemptAcceptedPolicy DEF StaConnectWork, NoCredentials

\* connect_timeout_work_handler.
LEMMA ConnectTimeoutPolicy == IInv /\ PolicyInv /\ ConnectTimeoutWork => PolicyInv'
  <1> SUFFICES ASSUME IInv, PolicyInv, ConnectTimeoutWork PROVE PolicyInv'
    OBVIOUS
  <1> DEFINE f == Cancel(work, {"connect_timeout"})
             n == connect_attempt
  <1>1. tTimeout = 0 /\ tTimeout # Off /\ tConnect = Off
    <2>1. tTimeout = 0
      BY DEF ConnectTimeoutWork, Due, tTimeout
    <2> QED
      BY <2>1, WorkTypes, ProvisionAssumption DEF IInv, PolicyInv, StationInv
  <1>2. /\ f \in WorkType /\ f["sta_connect"] = Off /\ f["connect_timeout"] = Off
        /\ f["sta_reconnect"] = tReconnect /\ f["boot_fallback_ap"] = tFallback
        /\ f["stop_ap"] = tStopAp
    BY <1>1 DEF Cancel, WorkType, Works, Off, IInv, TypeOK, PolicyTypeOK, tConnect,
                tReconnect, tFallback, tStopAp
  <1>3. n \in Nat /\ n <= MaxAttempts
    BY DEF IInv, BudgetInv, AttemptBudget, TypeOK, PolicyTypeOK
  <1>4. UNCHANGED <<requestVars, apiVars, cfgVars>>
    BY DEF ConnectTimeoutWork
  <1>5. CASE sta_ready
    <2>1. /\ work' = f /\ UNCHANGED <<wifiVars, mode, provisioning_active, flagVars, blockVars>>
      BY <1>5 DEF ConnectTimeoutWork
    <2>2. /\ tTimeout' = Off /\ UNCHANGED <<tConnect, tReconnect, tFallback, tStopAp>>
      BY <1>1, <1>2, <2>1 DEF tConnect, tTimeout, tReconnect, tFallback, tStopAp
    <2>3. ~Attempting
      BY <1>5 DEF PolicyInv, TimeInv
    <2> QED
      BY <1>1, <1>4, <1>5, <2>1, <2>2, <2>3
      DEF PolicyInv, OffInv, ApInv, StationInv, BootInv, BlockInv, TimeInv, ModeInv,
          Attempting, Resting, wifiVars, apVars, flagVars, requestVars, blockVars, apiVars,
          cfgVars
  <1>6. CASE ~sta_ready
    <2>1. /\ sta_retry_pending' = (sta_retry_pending \/ n < MaxAttempts)
          /\ AttemptFailed(n, mode, "provisioning", f, AfterDisconnect)
      BY <1>6 DEF ConnectTimeoutWork
    <2>2. mode \in Modes
      BY DEF IInv, TypeOK, PolicyTypeOK
    <2>3. use_pending_cfg' = use_pending_cfg /\ pending_sta_cfg' = pending_sta_cfg
      BY <1>4 DEF requestVars
    <2> HIDE DEF f
    <2>4. CASE n < MaxAttempts
      <3>1. RetryAttempt(n, mode, f, AfterDisconnect)
        BY <1>3, <2>1, <2>4, Delays DEF AttemptFailed
      <3> QED
        BY <1>1, <1>2, <1>3, <1>4, <1>6, <2>1, <2>2, <2>3, <2>4, <3>1, RetryAttemptPolicy
    <2>5. CASE ~(n < MaxAttempts)
      <3>1. n >= MaxAttempts /\ AfterLastAttempt(n, mode, "provisioning", f, AfterDisconnect)
        BY <1>3, <2>1, <2>5, Delays DEF AttemptFailed
      <3>2. CASE blocking_connect_active
        <4>1. TellClient(n, "provisioning", f, AfterDisconnect)
          BY <3>1, <3>2 DEF AfterLastAttempt
        <4> QED
          BY <1>2, <1>3, <1>4, <1>6, <2>3, <3>1, <3>2, <4>1, TellClientPolicy
      <3>3. CASE ~blocking_connect_active
        <4>1. AwaitNextRound(mode, f, AfterDisconnect) \/ GiveUp(n, mode, f, AfterDisconnect)
          BY <3>1, <3>3 DEF AfterLastAttempt
        <4>2. api = "idle" /\ ~drv_ap /\ config # NoCfg
          BY <1>1, <3>3, DueWhen
        <4> QED
          BY <1>2, <1>3, <1>4, <1>6, <2>2, <2>3, <3>1, <3>3, <4>1, <4>2, LastAttemptPolicy
      <3> QED
        BY <3>2, <3>3
    <2> QED
      BY <2>4, <2>5
  <1> QED
    BY <1>5, <1>6

\* sta_reconnect_work_handler: the SoftAP, if it is up, keeps it from acting.
LEMMA StaReconnectPolicy == IInv /\ PolicyInv /\ StaReconnectWork => PolicyInv'
  <1> SUFFICES ASSUME IInv, PolicyInv, StaReconnectWork PROVE PolicyInv'
    OBVIOUS
  <1> DEFINE f == Cancel(work, {"sta_reconnect"})
  <1>1. tReconnect = 0 /\ tReconnect # Off /\ Off = -1
    BY DEF StaReconnectWork, Due, Off, tReconnect
  <1>2. /\ f \in WorkType /\ f["sta_connect"] = tConnect /\ f["connect_timeout"] = tTimeout
        /\ f["sta_reconnect"] = Off /\ f["boot_fallback_ap"] = tFallback
        /\ f["stop_ap"] = tStopAp
    BY DEF Cancel, WorkType, Works, Off, IInv, TypeOK, PolicyTypeOK, tConnect, tTimeout,
           tFallback, tStopAp
  <1>3. config # NoCfg /\ api = "idle"
    BY <1>1, DueWhen
  <1>4. UNCHANGED <<staVars, netVars, requestVars, blockVars, apiVars, cfgVars>>
    BY DEF StaReconnectWork
  <1>5. CASE sta_ready \/ provisioning_active \/ sta_connect_in_progress
    <2>1. /\ work' = f
          /\ UNCHANGED <<mode, provisioning_active, flagVars, apVars>>
      BY <1>5 DEF StaReconnectWork
    <2>2. /\ tReconnect' = Off /\ UNCHANGED <<tConnect, tTimeout, tFallback, tStopAp>>
      BY <1>2, <2>1 DEF tConnect, tTimeout, tReconnect, tFallback, tStopAp
    <2>3. tFallback # Off => /\ sta_connect_in_progress \/ sta_retry_pending
                                \/ (tConnect = 0 /\ tFallback # 0)
      BY <1>1, WorkTypes DEF IInv, PolicyInv, BootInv
    <2> QED
      BY <1>1, <1>3, <1>4, <1>5, <2>1, <2>2, <2>3, WorkTypes
      DEF IInv, PolicyInv, OffInv, ApInv, StationInv, BootInv, BlockInv, TimeInv, ModeInv,
          Attempting, Resting, apVars, flagVars, requestVars, blockVars, apiVars, cfgVars
  <1>6. CASE ~sta_ready /\ ~provisioning_active /\ ~sta_connect_in_progress
    <2>1. /\ connect_attempt' = 0 /\ work' = ScheduleStaConnect(f, 0)
          /\ UNCHANGED <<mode, provisioning_active, sta_ready, sta_connect_in_progress,
                         sta_retry_pending, apVars>>
      BY <1>3, <1>6 DEF StaReconnectWork
    <2>2. /\ tConnect' = 0 /\ tTimeout' = ConnectTimeout /\ tReconnect' = Off
          /\ UNCHANGED <<tFallback, tStopAp>>
      BY <1>2, <2>1, ProvisionAssumption
      DEF ScheduleStaConnect, WorkType, Works, tConnect, tTimeout, tReconnect, tFallback, tStopAp
    <2>3. tFallback = 0 => sta_retry_pending
      BY <1>1, <1>6, WorkTypes DEF IInv, PolicyInv, BootInv
    <2>4. ~drv_ap /\ api = "idle"
      BY <1>3, <1>6 DEF PolicyInv, ApInv
    <2> QED
      BY <1>1, <1>3, <1>4, <1>6, <2>1, <2>2, <2>3, <2>4, WorkTypes, ProvisionAssumption
      DEF IInv, PolicyInv, OffInv, ApInv, StationInv, BootInv, BlockInv, TimeInv, ModeInv,
          Attempting, Resting, apVars, requestVars, blockVars, apiVars, cfgVars
  <1> QED
    BY <1>5, <1>6

\* boot_fallback_ap_work_handler: it opens the SoftAP only when nothing is
\* scheduled, because the reconnect that could be due now is still to come.
LEMMA BootFallbackPolicy == IInv /\ PolicyInv /\ BootFallbackWork => PolicyInv'
  <1> SUFFICES ASSUME IInv, PolicyInv, BootFallbackWork PROVE PolicyInv'
    OBVIOUS
  <1> DEFINE f == Cancel(work, {"boot_fallback_ap"})
  <1>1. tFallback = 0 /\ tFallback # Off /\ Off = -1
    BY DEF BootFallbackWork, Due, Off, tFallback
  <1>2. /\ f \in WorkType /\ f["sta_connect"] = tConnect /\ f["connect_timeout"] = tTimeout
        /\ f["sta_reconnect"] = tReconnect /\ f["boot_fallback_ap"] = Off
        /\ f["stop_ap"] = tStopAp
    BY DEF Cancel, WorkType, Works, Off, IInv, TypeOK, PolicyTypeOK, tConnect, tTimeout,
           tReconnect, tStopAp
  <1>3. ~drv_ap /\ ~provisioning_active /\ api = "idle"
    BY <1>1, DueWhen DEF PolicyInv, ApInv
  <1>4. /\ UNCHANGED <<staVars, netVars, requestVars, blockVars, apiVars, cfgVars>>
        /\ UNCHANGED <<sta_retry_pending, connect_attempt>>
    BY DEF BootFallbackWork
  <1>5. CASE sta_ready
    <2>1. /\ work' = f
          /\ UNCHANGED <<mode, provisioning_active, sta_ready, sta_connect_in_progress, apVars>>
      BY <1>5, <1>3 DEF BootFallbackWork
    <2>2. /\ tFallback' = Off /\ UNCHANGED <<tConnect, tTimeout, tReconnect, tStopAp>>
      BY <1>2, <2>1 DEF tConnect, tTimeout, tReconnect, tFallback, tStopAp
    <2> QED
      BY <1>1, <1>3, <1>4, <1>5, <2>1, <2>2
      DEF IInv, PolicyInv, OffInv, ApInv, StationInv, BootInv, BlockInv, TimeInv, ModeInv,
          Attempting, Resting, apVars, requestVars, blockVars, apiVars, cfgVars
  <1>6. CASE ~sta_ready /\ (sta_connect_in_progress \/ sta_retry_pending)
    <2>1. /\ work' = Arm(f, "boot_fallback_ap", FallbackDelay)
          /\ UNCHANGED <<mode, provisioning_active, sta_ready, sta_connect_in_progress, apVars>>
      BY <1>6, <1>3 DEF BootFallbackWork
    <2>2. /\ tFallback' = FallbackDelay /\ UNCHANGED <<tConnect, tTimeout, tReconnect, tStopAp>>
      BY <1>2, <2>1 DEF Arm, WorkType, Works, tConnect, tTimeout, tReconnect, tFallback, tStopAp
    <2> QED
      BY <1>1, <1>3, <1>4, <1>6, <2>1, <2>2, Delays
      DEF IInv, PolicyInv, OffInv, ApInv, StationInv, BootInv, BlockInv, TimeInv, ModeInv,
          Attempting, Resting, apVars, requestVars, blockVars, apiVars, cfgVars
  <1>7. CASE ~sta_ready /\ ~sta_connect_in_progress /\ ~sta_retry_pending
    <2>1. EnterProvisioning(mode, FALSE, sta_ready, f, events)
      <3>1. sta_connect_in_progress = FALSE
        BY <1>7 DEF IInv, TypeOK, PolicyTypeOK
      <3> QED
        BY <1>3, <1>7, <3>1 DEF BootFallbackWork
    <2>2. tConnect = Off /\ tReconnect # Off
      BY <1>1, <1>7 DEF PolicyInv, BootInv
    <2>3. config # NoCfg
      BY <2>2 DEF PolicyInv, StationInv
    <2> HIDE DEF f
    <2> QED
      BY <1>2, <1>3, <1>4, <2>1, <2>2, <2>3, OpeningAp, OpenedPolicy
      DEF requestVars, apiVars
  <1> QED
    BY <1>5, <1>6, <1>7

\* stop_ap_work_handler runs between requests, after one that succeeded.
LEMMA StopApPolicy == IInv /\ PolicyInv /\ SettledInv /\ StopApWork => PolicyInv'
  <1> SUFFICES ASSUME IInv, PolicyInv, SettledInv, StopApWork PROVE PolicyInv'
    OBVIOUS
  <1>1. tStopAp # Off /\ Off = -1 /\ api = "idle"
    BY DueWhen DEF StopApWork, Due, Off, tStopAp
  <1>2. /\ tStopAp' = Off /\ UNCHANGED <<tConnect, tTimeout, tReconnect, tFallback>>
    BY DEF StopApWork, Cancel, Works, IInv, TypeOK, PolicyTypeOK, WorkType, tConnect,
           tTimeout, tReconnect, tFallback, tStopAp
  <1>3. UNCHANGED <<mode, flagVars, requestVars, blockVars, apiVars, cfgVars>>
    BY DEF StopApWork
  <1>4. /\ provisioning_active' = FALSE /\ drv_ap' = FALSE
        /\ ap_start_requested' => ap_start_requested
    BY DEF StopApWork, StopProvisioning, StopAp, apVars, IInv, TypeOK, WifiTypeOK, ApTypeOK,
           PolicyTypeOK, PolicyInv, ApInv
  <1>5. mode' = "operational"
    BY <1>1, <1>3 DEF SettledInv, Proven
  <1> QED
    BY <1>1, <1>2, <1>3, <1>4, <1>5
    DEF IInv, PolicyInv, OffInv, ApInv, StationInv, BootInv, BlockInv, TimeInv, ModeInv,
        Attempting, Resting, flagVars, requestVars, blockVars, apiVars, cfgVars

-----------------------------------------------------------------------------
(* The start, the callbacks and the requests.                              *)

\* A step that leaves the policy alone.
LEMMA PolicyUnchanged ==
  ASSUME PolicyInv, UNCHANGED <<provVars, apiVars, cfgVars>>,
         UNCHANGED <<drv_ap, ap_start_requested, ap_stop_requested, ap_active,
                     ap_dhcp_running, ap_start_error>>
  PROVE  PolicyInv'
  <1>1. UNCHANGED work
    BY DEF provVars
  <1> QED
    BY <1>1, UnchangedWork
    DEF PolicyInv, OffInv, ApInv, StationInv, BootInv, BlockInv, TimeInv, ModeInv, Rest,
        Attempting, Resting, provVars, flagVars, requestVars, blockVars, apiVars, cfgVars

\* provision_module_start.
LEMMA StartPolicy == IInv /\ PolicyInv /\ Start => PolicyInv'
  <1> SUFFICES ASSUME IInv, PolicyInv, Start PROVE PolicyInv'
    OBVIOUS
  <1>1. /\ tConnect = Off /\ tTimeout = Off /\ tReconnect = Off /\ tFallback = Off
        /\ tStopAp = Off /\ work \in WorkType
    BY DEF Start, IInv, BudgetInv, AtRest, TypeOK, PolicyTypeOK, Armed, Works, tConnect,
           tTimeout, tReconnect, tFallback, tStopAp
  <1>2. /\ api = "off" /\ api' = "idle"
        /\ UNCHANGED <<sta_retry_pending, connect_attempt, persistent_reconnect,
                       requestVars, blockVars, api_cfg, api_timer, cfgVars>>
    BY DEF Start
  <1>3. /\ mode = "boot" /\ ~sta_connect_in_progress /\ ~sta_ready /\ ~drv_ap
        /\ ~provisioning_active /\ ~ap_start_requested
    BY <1>2 DEF PolicyInv, OffInv, ApInv
  <1>4. CASE config = NoCfg
    <2>1. EnterProvisioning(mode, FALSE, sta_ready, work, events)
      <3>1. sta_connect_in_progress = FALSE
        BY <1>3 DEF IInv, TypeOK, PolicyTypeOK
      <3> QED
        BY <1>4, <3>1 DEF Start
    <2>2. /\ work["sta_connect"] = Off /\ work["sta_reconnect"] = Off
          /\ work["stop_ap"] = Off
      BY <1>1 DEF tConnect, tReconnect, tStopAp
    <2>3. UNCHANGED <<use_pending_cfg, pending_sta_cfg>>
      BY <1>2 DEF requestVars
    <2>4. /\ provisioning_active' = drv_ap' /\ (drv_ap' => ap_stop_requested' = FALSE)
          /\ (drv_ap' \/ ap_start_error')
          /\ mode' = (IF drv_ap' THEN "provisioning" ELSE mode)
          /\ sta_connect_in_progress' = FALSE /\ sta_ready' = FALSE
          /\ tFallback' = Off /\ tTimeout' = Off
          /\ tConnect' = Off /\ tReconnect' = Off /\ tStopAp' = Off
      BY <1>1, <1>3, <2>1, <2>2, OpeningAp
    <2>5. UNCHANGED <<blockVars, api_cfg, api_timer, cfgVars>>
      BY <1>2
    <2> QED
      BY <1>1, <1>2, <1>3, <2>3, <2>4, <2>5, OpenedPolicy
  <1>5. CASE config # NoCfg
    <2>1. /\ mode' = "connecting"
          /\ work' = ScheduleStaConnect(Arm(work, "boot_fallback_ap", FallbackDelay), 0)
          /\ UNCHANGED <<provisioning_active, sta_ready, sta_connect_in_progress, apVars>>
      BY <1>5 DEF Start
    <2>2. /\ tConnect' = 0 /\ tTimeout' = ConnectTimeout /\ tFallback' = FallbackDelay
          /\ tReconnect' = Off /\ tStopAp' = Off
      BY <1>1, <2>1, ProvisionAssumption
      DEF Arm, ScheduleStaConnect, WorkType, Works, tConnect, tTimeout, tReconnect,
          tFallback, tStopAp
    <2> QED
      BY <1>1, <1>2, <1>3, <1>5, <2>1, <2>2, Delays, DelayOrder, ProvisionAssumption
      DEF PolicyInv, OffInv, ApInv, StationInv, BootInv, BlockInv, TimeInv, ModeInv,
          Attempting, Resting, Off, apVars, requestVars, blockVars, cfgVars
  <1> QED
    BY <1>4, <1>5

\* WIFI_MANAGER_EVENT_STA_CONNECTED: a success for the client that waits, or
\* the end of an attempt with the SoftAP down.
LEMMA StaConnectedPolicy ==
  ASSUME IInv, PolicyInv, NEW q, StaConnected(q), UNCHANGED <<apiVars, cfgVars>>
  PROVE  PolicyInv'
  <1>1. CASE ~sta_connect_in_progress
    BY <1>1, PolicyUnchanged DEF StaConnected, NoCallback, apVars
  <1>2. CASE sta_connect_in_progress
    <2>1. /\ sta_ready' = TRUE /\ sta_connect_in_progress' = FALSE
          /\ sta_retry_pending' = FALSE /\ connect_attempt' = 0 /\ mode' = "operational"
          /\ UNCHANGED requestVars
      BY <1>2 DEF StaConnected
    <2>2. /\ tTimeout' = Off /\ tFallback' = Off /\ tReconnect' = Off
          /\ UNCHANGED <<tConnect, tStopAp>>
      BY <1>2 DEF StaConnected, Cancel, Works, IInv, TypeOK, PolicyTypeOK, WorkType, tConnect,
                  tTimeout, tReconnect, tFallback, tStopAp
    <2>3. tConnect = Off /\ (api = "off" => FALSE) /\ (tTimeout # Off)
      BY <1>2 DEF PolicyInv, OffInv, StationInv
    <2>4. CASE blocking_connect_active
      <3>1. /\ connect_result_success' = TRUE /\ connect_result_sem' = 1
            /\ UNCHANGED <<blocking_connect_active, provisioning_active, apVars>>
        BY <1>2, <2>4 DEF StaConnected, SignalSuccess
      <3> QED
        BY <2>1, <2>2, <2>3, <2>4, <3>1
        DEF PolicyInv, OffInv, ApInv, StationInv, BootInv, BlockInv, TimeInv, ModeInv,
            Attempting, Resting, apVars, requestVars, apiVars, cfgVars
    <2>5. CASE ~blocking_connect_active
      <3>1. StopProvisioning(q) /\ UNCHANGED blockVars
        BY <1>2, <2>5 DEF StaConnected
      <3>2. ~drv_ap /\ api = "idle" /\ ~provisioning_active /\ config # NoCfg
        BY <2>3, <2>5, DueWhen DEF PolicyInv, ApInv
      <3>3. UNCHANGED <<provisioning_active, apVars>>
        BY <3>1, <3>2 DEF StopProvisioning
      <3> QED
        BY <2>1, <2>2, <2>3, <3>1, <3>2, <3>3
        DEF PolicyInv, OffInv, ApInv, StationInv, BootInv, BlockInv, TimeInv, ModeInv,
            Attempting, Resting, apVars, requestVars, blockVars, apiVars, cfgVars
    <2> QED
      BY <2>4, <2>5
  <1> QED
    BY <1>1, <1>2

\* WIFI_MANAGER_EVENT_STA_DISCONNECTED: with the SoftAP up it matters to an
\* attempt of a POST alone, which has a retry or its timeout to go on.
LEMMA StaDisconnectedPolicy ==
  ASSUME IInv, PolicyInv, RetryInv, NEW q \in Seq(EventKinds), StaDisconnected(q),
         events # << >>, UNCHANGED <<apiVars, cfgVars>>
  PROVE  PolicyInv'
  <1> DEFINE ignored == provisioning_active /\ ~sta_connect_in_progress
             budget == connect_attempt < MaxAttempts
             soon == \/ blocking_connect_active /\ budget
                     \/ /\ ~blocking_connect_active
                        /\ config # NoCfg /\ mode = "connecting" /\ budget
             others == sta_retry_pending \/ (blocking_connect_active /\ ~budget)
  <1>1. CASE ignored
    <2>1. NoCallback(q)
      BY <1>1 DEF StaDisconnected
    <2> QED
      BY <2>1, PolicyUnchanged DEF NoCallback, apVars
  <1>2. CASE ~ignored
    <2>0. UNCHANGED <<requestVars, blockVars>> /\ Off = -1 /\ api # "off"
      BY <1>2, Running DEF StaDisconnected, Off
    <2>1. /\ sta_connect_in_progress /\ ~Attempting => ~drv_ap
          /\ ~sta_connect_in_progress => ~drv_ap
          /\ ~drv_ap => api = "idle" /\ ~blocking_connect_active
          /\ drv_ap => Attempting
          /\ ~drv_ap /\ sta_retry_pending => tConnect # Off
          /\ connect_attempt \in Nat /\ connect_attempt <= MaxAttempts
      BY <1>2, <2>0
      DEF PolicyInv, ApInv, StationInv, BlockInv, Resting, RetryInv, Armed, tConnect, IInv,
          BudgetInv, AttemptBudget, TypeOK, PolicyTypeOK
    <2>2. CASE others
      <3>1. /\ LeaveRetryToOthers
            /\ sta_ready' = FALSE /\ sta_connect_in_progress' = FALSE
        BY <1>2, <2>2 DEF StaDisconnected
      <3>2. UNCHANGED <<tConnect, tTimeout, tReconnect, tFallback, tStopAp>>
        BY <3>1, UnchangedWork DEF LeaveRetryToOthers
      <3> QED
        BY <2>0, <2>1, <2>2, <3>1, <3>2
        DEF LeaveRetryToOthers, PolicyInv, OffInv, ApInv, StationInv, BootInv, BlockInv,
            TimeInv, ModeInv, Attempting, Resting, apVars, requestVars, blockVars, apiVars,
            cfgVars
    <2>3. CASE ~others /\ soon
      <3>1. /\ RetrySoon
            /\ sta_ready' = FALSE /\ sta_connect_in_progress' = FALSE
        BY <1>2, <2>3 DEF StaDisconnected
      <3>2. /\ tConnect' = RetryDelay /\ tTimeout' = RetryDelay + ConnectTimeout
            /\ UNCHANGED <<tReconnect, tFallback, tStopAp>>
        BY <3>1 DEF RetrySoon, ScheduleStaConnect, WorkType, Works, IInv, TypeOK, PolicyTypeOK,
                    tConnect, tTimeout, tReconnect, tFallback, tStopAp
      <3>3. TimeInv'
        <4>1. Attempting => tConnect = Off /\ tTimeout \in Nat
          BY <1>2, WorkTypes DEF IInv, PolicyInv, StationInv, ApInv, TimeInv, Attempting
        <4>2. /\ UNCHANGED <<api, api_timer, connect_result_sem>> /\ api_timer \in Nat
              /\ connect_attempt' = connect_attempt
          BY <2>0, <3>1 DEF RetrySoon, apiVars, blockVars, IInv, TypeOK, RequestTypeOK
        <4>3. /\ Rest(connect_attempt) \in Nat /\ Rest(connect_attempt + 1) \in Nat
              /\ Rest(connect_attempt)
                    = Rest(connect_attempt + 1) + ConnectTimeout + RetryDelay
          BY <2>1, <2>3, RestShrinks
        <4>4. /\ (Rest(connect_attempt + 1))' = Rest(connect_attempt + 1)
              /\ (Rest(connect_attempt))' = Rest(connect_attempt)
          BY <4>2 DEF Rest
        <4>5. Attempting => tTimeout + Rest(connect_attempt) + Margin <= api_timer
          BY <4>1 DEF PolicyInv, TimeInv
        <4> HIDE DEF ignored, budget, soon, others
        <4>6. ConnectTimeout \in Nat /\ RetryDelay \in Nat /\ Margin \in Nat
          BY ProvisionAssumption
        <4>7. Attempting => RetryDelay + ConnectTimeout + Rest(connect_attempt + 1) + Margin
                              <= api_timer
          BY <4>1, <4>2, <4>3, <4>5, <4>6
        <4>8. ~sta_ready' /\ (Attempting' <=> Attempting) /\ api' # "expired"
          BY <3>1, <4>2 DEF Attempting, PolicyInv, TimeInv
        <4>9. tTimeout' # Off /\ tConnect' # Off
          BY <2>0, <3>2, <4>6
        <4> QED
          BY <3>2, <4>2, <4>4, <4>7, <4>8, <4>9 DEF TimeInv
      <3> QED
        BY <2>0, <2>1, <2>3, <3>1, <3>2, <3>3, ProvisionAssumption
        DEF RetrySoon, PolicyInv, OffInv, ApInv, StationInv, BootInv, BlockInv,
            ModeInv, Attempting, Resting, apVars, requestVars, blockVars, apiVars, cfgVars
    <2>4. CASE ~others /\ ~soon /\ config # NoCfg
      <3>1. /\ ReconnectLater
            /\ sta_ready' = FALSE /\ sta_connect_in_progress' = FALSE
        BY <1>2, <2>4 DEF StaDisconnected
      <3>2. /\ tReconnect' = ReconnectDelay
            /\ UNCHANGED <<tConnect, tTimeout, tFallback, tStopAp>>
        BY <3>1 DEF ReconnectLater, Arm, WorkType, Works, IInv, TypeOK, PolicyTypeOK,
                    tConnect, tTimeout, tReconnect, tFallback, tStopAp
      <3>3. ~drv_ap /\ api = "idle" /\ ~sta_retry_pending
        BY <2>1, <2>4 DEF PolicyInv, BlockInv
      <3>4. tFallback # Off => tConnect \in {0, Off} /\ (tConnect = 0 => tFallback # 0)
        BY <2>0, <3>3 DEF PolicyInv, BootInv, StationInv
      <3> QED
        BY <2>0, <2>1, <2>4, <3>1, <3>2, <3>3, <3>4, Delays, DelayOrder, WorkTypes
        DEF IInv, ReconnectLater, PolicyInv, OffInv, ApInv, StationInv, BootInv, BlockInv,
            TimeInv, ModeInv, Attempting, Resting, apVars, requestVars, blockVars, apiVars,
            cfgVars
    <2>5. CASE ~others /\ ~soon /\ config = NoCfg
      <3>1. EnterProvisioning(mode, FALSE, FALSE, work, q)
        BY <1>2, <2>5 DEF StaDisconnected
      <3>2. ~drv_ap /\ api = "idle" /\ ~provisioning_active /\ ~Attempting
        BY <2>1, <2>5 DEF PolicyInv, BlockInv, ApInv, Attempting
      <3>3. /\ tConnect = Off /\ tReconnect = Off /\ mode = "boot"
        BY <2>5, <3>2 DEF PolicyInv, StationInv, Resting, ModeInv
      <3>4. work["sta_connect"] = tConnect /\ work["sta_reconnect"] = tReconnect
            /\ work["stop_ap"] = tStopAp /\ work \in WorkType
        BY DEF tConnect, tReconnect, tStopAp, IInv, TypeOK, PolicyTypeOK
      <3>5. /\ provisioning_active' = drv_ap' /\ (drv_ap' => ap_stop_requested' = FALSE)
            /\ (drv_ap' \/ ap_start_error')
            /\ mode' = (IF drv_ap' THEN "provisioning" ELSE mode)
            /\ sta_connect_in_progress' = FALSE /\ sta_ready' = FALSE
            /\ tFallback' = Off /\ tTimeout' = Off
            /\ tConnect' = Off /\ tReconnect' = Off /\ tStopAp' = tStopAp
        BY <3>1, <3>2, <3>3, <3>4, OpeningAp
      <3>6. /\ UNCHANGED <<blockVars, api_cfg, api_timer, cfgVars>>
            /\ UNCHANGED <<use_pending_cfg, pending_sta_cfg>> /\ api' = "idle"
        BY <2>0, <3>2 DEF requestVars, apiVars
      <3> QED
        BY <3>2, <3>3, <3>5, <3>6, OpenedPolicy
    <2> QED
      BY <2>2, <2>3, <2>4, <2>5
  <1> QED
    BY <1>1, <1>2

-----------------------------------------------------------------------------
(* The event queue.                                                        *)

\* Raising an event.
LEMMA Raised ==
  ASSUME NEW q \in Seq(EventKinds), NEW e \in EventKinds
  PROVE  /\ Append(q, e) \in Seq(EventKinds)
         /\ \A x : Holds(Append(q, e), x) <=> Holds(q, x) \/ x = e
         /\ e \in {"disconnected", "connect_fail"} => Answered(Append(q, e))
         /\ e # "connect_ok" /\ Answered(q) => Answered(Append(q, e))
         /\ e # "ap_enabled" /\ ApFirst(q) => ApFirst(Append(q, e))
  <1> DEFINE a == Append(q, e)
  <1>1. /\ a \in Seq(EventKinds) /\ Len(a) = Len(q) + 1 /\ Len(q) \in Nat
        /\ a[Len(q) + 1] = e /\ \A i \in 1 .. Len(q) : a[i] = q[i]
    BY AppendProperties
  <1> HIDE DEF a
  <1>2. \A i \in 1 .. Len(a) : i \in 1 .. Len(q) \/ i = Len(q) + 1
    BY <1>1
  <1>3. \A x : Holds(a, x) <=> Holds(q, x) \/ x = e
    BY <1>1, <1>2 DEF Holds
  <1>4. e \in {"disconnected", "connect_fail"} => Answered(a)
    BY <1>1, <1>2 DEF Answered
  <1>5. e # "connect_ok" /\ Answered(q) => Answered(a)
    BY <1>1, <1>2 DEF Answered
  <1>6. e # "ap_enabled" /\ ApFirst(q) => ApFirst(a)
    BY <1>1, <1>2 DEF ApFirst
  <1> QED
    BY <1>1, <1>3, <1>4, <1>5, <1>6 DEF a

\* Handling one.
LEMMA Handled ==
  ASSUME NEW q \in Seq(EventKinds), q # << >>
  PROVE  /\ Tail(q) \in Seq(EventKinds)
         /\ \A x : Holds(q, x) <=> Holds(Tail(q), x) \/ x = Head(q)
         /\ Answered(q) => Answered(Tail(q))
         /\ ApFirst(q) => ApFirst(Tail(q))
         /\ ApFirst(q) /\ Head(q) = "connect_ok" => ~Holds(q, "ap_enabled")
  <1> DEFINE t == Tail(q)
  <1>1. /\ t \in Seq(EventKinds) /\ Len(t) = Len(q) - 1 /\ Len(q) \in Nat /\ Len(q) # 0
        /\ Head(q) = q[1] /\ \A i \in 1 .. Len(t) : t[i] = q[i + 1]
    BY HeadTailProperties, EmptySeq
  <1> HIDE DEF t
  <1>2. \A i \in 1 .. Len(q) : i = 1 \/ (i - 1 \in 1 .. Len(t) /\ q[i] = t[i - 1])
    BY <1>1
  <1>3. \A i \in 1 .. Len(t) : i + 1 \in 1 .. Len(q)
    BY <1>1
  <1>4. \A x : Holds(q, x) <=> Holds(t, x) \/ x = Head(q)
    <2> TAKE x
    <2>1. Holds(t, x) => Holds(q, x)
      BY <1>1, <1>3 DEF Holds
    <2>2. x = Head(q) => Holds(q, x)
      <3>1. 1 \in 1 .. Len(q)
        BY <1>1
      <3> QED
        BY <1>1, <3>1 DEF Holds
    <2>3. Holds(q, x) => Holds(t, x) \/ x = Head(q)
      BY <1>1, <1>2 DEF Holds
    <2> QED
      BY <2>1, <2>2, <2>3
  <1>5. Answered(q) => Answered(t)
    <2> SUFFICES ASSUME Answered(q), NEW i \in 1 .. Len(t), t[i] = "connect_ok"
                 PROVE  \E j \in i + 1 .. Len(t) : t[j] \in {"disconnected", "connect_fail"}
      BY DEF Answered
    <2>1. PICK k \in i + 2 .. Len(q) : q[k] \in {"disconnected", "connect_fail"}
      BY <1>1, <1>3 DEF Answered
    <2>2. k - 1 \in i + 1 .. Len(t) /\ t[k - 1] = q[k]
      BY <1>1, <2>1
    <2> QED
      BY <2>1, <2>2
  <1>6. ApFirst(q) => ApFirst(t)
    BY <1>1, <1>3 DEF ApFirst
  <1>7. ApFirst(q) /\ Head(q) = "connect_ok" => ~Holds(q, "ap_enabled")
    BY <1>1 DEF ApFirst, Holds
  <1> QED
    BY <1>1, <1>4, <1>5, <1>6, <1>7 DEF t

\* No link without its end fits into a queue of one event.
LEMMA Short ==
  ASSUME NEW q \in Seq(EventKinds), Answered(q), Len(q) <= 1
  PROVE  ~Holds(q, "connect_ok")
  <1>1. Len(q) \in Nat
    BY LenProperties
  <1> QED
    BY <1>1 DEF Answered, Holds

\* The queue that wifi_manager_disconnect_sta leaves.
LEMMA DisconnectRaised ==
  ASSUME IInv, RadioInv
  PROVE  /\ AfterDisconnect \in Seq(EventKinds) /\ Answered(AfterDisconnect)
         /\ \A x : x # "disconnected" => (Holds(AfterDisconnect, x) <=> Queued(x))
         /\ ApFirst(events) => ApFirst(AfterDisconnect)
  <1>1. events \in Seq(EventKinds) /\ "disconnected" \in EventKinds
    BY DEF IInv, TypeOK, WifiTypeOK, EventKinds, StaEventKinds
  <1> QED
    BY <1>1, Raised DEF AfterDisconnect, RadioInv, Queued

\* The queue after enter_provisioning_mode and stop_provisioning_mode.
Extends(q) == events' \in {q, Append(q, "ap_enabled"), Append(q, "ap_disabled")}

LEMMA SoftApEvents ==
  ASSUME NEW q
  PROVE  /\ \A m, p, r, f : EnterProvisioning(m, p, r, f, q) => Extends(q)
         /\ StopProvisioning(q) => Extends(q)
  BY DEF EnterProvisioning, OpenAp, StartAp, StopProvisioning, StopAp, Extends

LEMMA ExtendedQueue ==
  ASSUME NEW q \in Seq(EventKinds), Extends(q)
  PROVE  /\ Answered(q) => Answered(events')
         /\ Holds(events', "connect_ok") => Holds(q, "connect_ok")
  <1>1. "ap_enabled" \in EventKinds /\ "ap_disabled" \in EventKinds
    BY DEF EventKinds, ApEventKinds
  <1>2. CASE events' = q
    BY <1>2
  <1>3. ASSUME NEW e \in EventKinds, e # "connect_ok", events' = Append(q, e)
        PROVE  /\ Answered(q) => Answered(events')
               /\ Holds(events', "connect_ok") => Holds(q, "connect_ok")
    BY <1>3, Raised
  <1> QED
    BY <1>1, <1>2, <1>3 DEF Extends

-----------------------------------------------------------------------------
(* The events.                                                             *)

\* An event of the SoftAP leaves provision_module with what is on the air.
LEMMA ApEventPolicy ==
  IInv /\ PolicyInv /\ ApViewInv /\ HandleApEvent => PolicyInv'
  <1> SUFFICES ASSUME IInv, PolicyInv, ApViewInv, HandleApEvent PROVE PolicyInv'
    OBVIOUS
  <1>1. PICK up \in {"none", "ap_started", "ap_stopped"} : ApEvent(up) /\ ApCallback(up)
    BY DEF HandleApEvent
  <1>2. /\ UNCHANGED <<flagVars, requestVars, blockVars, apiVars, cfgVars>>
        /\ UNCHANGED <<tConnect, tTimeout, tReconnect, tFallback, tStopAp>>
    BY <1>1, UnchangedWork DEF HandleApEvent, ApCallback
  <1>3. events \in Seq(EventKinds) /\ events # << >> /\ api # "off"
    BY <1>1, Running DEF ApEvent, ApEnabled, ApDisabled, IgnoredApEvent, Pending, IInv, TypeOK,
                         WifiTypeOK
  <1>4. CASE ApEnabled(up)
    <2>1. Queued("ap_enabled")
      BY <1>3, <1>4, Handled DEF ApEnabled, Pending, Queued
    <2>2. /\ drv_ap /\ drv_ap' = drv_ap /\ ap_stop_requested' = FALSE
          /\ ap_start_requested' = FALSE /\ up = "ap_started"
      BY <1>4, <2>1 DEF ApEnabled, ApViewInv
    <2>3. provisioning_active' = TRUE /\ mode' \in {mode, "provisioning"}
      BY <1>1, <2>2 DEF ApCallback
    <2>4. drv_ap = TRUE /\ provisioning_active = TRUE
      BY <2>2 DEF PolicyInv, ApInv, IInv, TypeOK, WifiTypeOK, ApTypeOK, PolicyTypeOK
    <2> QED
      BY <1>2, <1>3, <2>2, <2>3, <2>4
      DEF PolicyInv, OffInv, ApInv, StationInv, BootInv, BlockInv, TimeInv, ModeInv, Rest,
          Attempting, Resting, flagVars, requestVars, blockVars, apiVars, cfgVars
  <1>5. CASE ApDisabled(up)
    <2>1. /\ drv_ap' = drv_ap /\ ap_stop_requested /\ ap_stop_requested' = FALSE
          /\ ap_start_requested' = FALSE /\ up = "ap_stopped"
          /\ ap_start_error' = ap_start_error
      BY <1>5 DEF ApDisabled
    <2>2. provisioning_active' = FALSE /\ mode' = mode
      BY <1>1, <2>1 DEF ApCallback
    <2>3. drv_ap = FALSE /\ provisioning_active = FALSE
      BY <2>1 DEF PolicyInv, ApInv, IInv, TypeOK, WifiTypeOK, ApTypeOK, PolicyTypeOK
    <2> QED
      BY <1>2, <1>3, <2>1, <2>2, <2>3
      DEF PolicyInv, OffInv, ApInv, StationInv, BootInv, BlockInv, TimeInv, ModeInv, Rest,
          Attempting, Resting, flagVars, requestVars, blockVars, apiVars, cfgVars
  <1>6. CASE IgnoredApEvent(up)
    <2>1. UNCHANGED apVars /\ up = "none"
      BY <1>6 DEF IgnoredApEvent
    <2>2. provisioning_active' = provisioning_active /\ mode' = mode
      BY <1>1, <2>1 DEF ApCallback
    <2>3. UNCHANGED <<provVars, apiVars, cfgVars>>
      BY <1>1, <1>2, <2>2 DEF provVars, ApCallback
    <2> QED
      BY <2>1, <2>3, PolicyUnchanged DEF apVars
  <1> QED
    BY <1>1, <1>4, <1>5, <1>6 DEF ApEvent

\* An event of the station.
LEMMA StaEventPolicy ==
  IInv /\ RetryInv /\ PolicyInv /\ HandleStaEvent => PolicyInv'
  <1> SUFFICES ASSUME IInv, RetryInv, PolicyInv, HandleStaEvent PROVE PolicyInv'
    OBVIOUS
  <1>1. PICK up \in {"none", "sta_connected", "sta_disconnected"} :
          StaEvent(up) /\ StaCallback(up, Tail(events))
    BY DEF HandleStaEvent
  <1>2. UNCHANGED <<apiVars, cfgVars>>
    BY DEF HandleStaEvent
  <1>3. events # << >> /\ Tail(events) \in Seq(EventKinds)
    BY <1>1, Handled
    DEF StaEvent, ConnectOk, ConnectFailed, Disconnected, Ipv4Event, IgnoredStaEvent, Pending,
        IInv, TypeOK, WifiTypeOK
  <1>4. CASE NoCallback(Tail(events))
    BY <1>2, <1>4, PolicyUnchanged DEF NoCallback, apVars
  <1>5. CASE StaConnected(Tail(events))
    BY <1>2, <1>5, StaConnectedPolicy
  <1>6. CASE StaDisconnected(Tail(events))
    BY <1>2, <1>3, <1>6, StaDisconnectedPolicy
  <1> QED
    BY <1>1, <1>4, <1>5, <1>6 DEF StaCallback

-----------------------------------------------------------------------------
(* The API thread.                                                         *)

\* The two operations begin with the station at rest, and let nothing stay
\* scheduled.
LEMMA ClientPolicy ==
  ClientsOnSoftAp /\ IInv /\ PolicyInv /\ ClientStep => PolicyInv'
  <1> SUFFICES ASSUME ClientsOnSoftAp, IInv, PolicyInv, ClientStep PROVE PolicyInv'
    OBVIOUS
  <1>1. /\ api = "idle" /\ ClientCanReach /\ work' = CancelAll(work)
        /\ UNCHANGED <<wifiVars, mode, provisioning_active, flagVars, requestVars, blockVars,
                       api_timer, cfgVars>>
        /\ \/ api' = "cancelled" /\ api_cfg' \in Cfgs
           \/ api' = "reset_cancelled"
    BY DEF ClientStep, PostWifi, ResetPost
  <1>2. drv_ap
    BY <1>1 DEF ClientsOnSoftAp, ClientCanReach
  <1>3. /\ tConnect' = Off /\ tTimeout' = Off /\ tReconnect' = Off /\ tFallback' = Off
        /\ tStopAp' = Off
    BY <1>1 DEF CancelAll, Cancel, Works, tConnect, tTimeout, tReconnect, tFallback, tStopAp
  <1> QED
    BY <1>1, <1>2, <1>3
    DEF PolicyInv, OffInv, ApInv, StationInv, BootInv, BlockInv, TimeInv, ModeInv, Rest,
        Attempting, Resting, wifiVars, apVars, flagVars, requestVars, blockVars, cfgVars

\* The sleep.
LEMMA PostDisconnectPolicy == IInv /\ PolicyInv /\ PostDisconnect => PolicyInv'
  <1> SUFFICES ASSUME IInv, PolicyInv, PostDisconnect PROVE PolicyInv'
    OBVIOUS
  <1>1. /\ api = "cancelled" /\ api' = "settling"
        /\ UNCHANGED <<apVars, provVars, api_cfg, cfgVars>>
    BY DEF PostDisconnect
  <1>2. UNCHANGED <<tConnect, tTimeout, tReconnect, tFallback, tStopAp>>
    BY <1>1, UnchangedWork DEF provVars
  <1> QED
    BY <1>1, <1>2
    DEF PolicyInv, OffInv, ApInv, StationInv, BootInv, BlockInv, TimeInv, ModeInv, Rest,
        Attempting, Resting, apVars, provVars, flagVars, requestVars, blockVars, cfgVars

\* The attempts begin, and the wait that is long enough for them.
LEMMA PostBeginPolicy == IInv /\ PolicyInv /\ PostBegin => PolicyInv'
  <1> SUFFICES ASSUME IInv, PolicyInv, PostBegin PROVE PolicyInv'
    OBVIOUS
  <1>1. /\ api = "settling" /\ api' = "waiting" /\ api_timer' = BlockingBudget
        /\ pending_sta_cfg' = api_cfg /\ use_pending_cfg' = TRUE /\ connect_attempt' = 0
        /\ sta_ready' = FALSE /\ sta_connect_in_progress' = FALSE
        /\ sta_retry_pending' = FALSE /\ connect_result_success' = FALSE
        /\ blocking_connect_active' = TRUE /\ connect_result_sem' = 0
        /\ UNCHANGED <<wifiVars, mode, provisioning_active, api_cfg, cfgVars>>
    BY DEF PostBegin
  <1>2. /\ tConnect' = 0 /\ tTimeout' = ConnectTimeout
        /\ UNCHANGED <<tReconnect, tFallback, tStopAp>>
    BY ProvisionAssumption
    DEF PostBegin, ScheduleStaConnect, WorkType, Works, IInv, TypeOK, PolicyTypeOK, tConnect,
        tTimeout, tReconnect, tFallback, tStopAp
  <1>3. TimeInv'
    <2>1. /\ Rest(0) \in Nat /\ Rest(0 + 1) \in Nat
          /\ Rest(0) = Rest(0 + 1) + ConnectTimeout + RetryDelay
          /\ BlockingBudget = Rest(0) + Margin
      BY Delays, ProvisionAssumption, RestShrinks DEF BlockingBudget, Rest
    <2>2. ConnectTimeout \in Nat /\ RetryDelay \in Nat /\ Margin \in Nat /\ Off = -1
      BY ProvisionAssumption DEF Off
    <2>3. ConnectTimeout + Rest(0 + 1) + Margin <= BlockingBudget
      BY <2>1, <2>2
    <2>4. (Rest(connect_attempt + 1))' = Rest(0 + 1)
      BY <1>1 DEF Rest
    <2>5. tTimeout' # Off /\ tConnect' # Off /\ ~sta_ready' /\ api' # "expired"
      BY <1>1, <1>2, <2>2
    <2> QED
      BY <1>1, <1>2, <2>3, <2>4, <2>5 DEF TimeInv
  <1>4. tConnect' # Off /\ tTimeout' = tConnect' + ConnectTimeout /\ tTimeout' # Off
    BY <1>2, ProvisionAssumption DEF Off
  <1>5. api_cfg \in Cfgs /\ drv_ap /\ tStopAp = Off /\ tFallback = Off
    BY <1>1 DEF PolicyInv, BlockInv, ApInv, BootInv
  <1> QED
    BY <1>1, <1>2, <1>3, <1>4, <1>5
    DEF PolicyInv, OffInv, ApInv, StationInv, BootInv, BlockInv, ModeInv,
        Attempting, Resting, wifiVars, apVars, cfgVars

\* The wait ends with a result: it never expires.
LEMMA PostResultPolicy == IInv /\ PolicyInv /\ PostResult => PolicyInv'
  <1> SUFFICES ASSUME IInv, PolicyInv, PostResult PROVE PolicyInv'
    OBVIOUS
  <1>1. /\ api = "waiting" /\ connect_result_sem = 1 /\ connect_result_sem' = 0
        /\ blocking_connect_active' = FALSE /\ api' \in {"saving", "idle"}
        /\ UNCHANGED <<wifiVars, mode, provisioning_active, flagVars, requestVars,
                       connect_result_success, work, api_cfg, cfgVars>>
        /\ (api' = "saving" => connect_result_success)
    BY DEF PostResult
  <1>2. UNCHANGED <<tConnect, tTimeout, tReconnect, tFallback, tStopAp>>
    BY <1>1, UnchangedWork
  <1>3. drv_ap /\ ~Attempting /\ Resting
    BY <1>1 DEF PolicyInv, ApInv, StationInv, Attempting
  <1> QED
    BY <1>1, <1>2, <1>3
    DEF PolicyInv, OffInv, ApInv, StationInv, BootInv, BlockInv, TimeInv, ModeInv,
        Attempting, Resting, wifiVars, apVars, flagVars, requestVars, cfgVars

LEMMA NeverExpires == IInv /\ PolicyInv => ~PostExpires /\ ~PostGiveUp
  <1> SUFFICES ASSUME IInv, PolicyInv PROVE ~PostExpires /\ ~PostGiveUp
    OBVIOUS
  <1>1. ~PostGiveUp
    BY DEF PostGiveUp, PolicyInv, TimeInv
  <1>2. ASSUME PostExpires PROVE FALSE
    <2>1. Attempting /\ api_timer = 0
      BY <1>2 DEF PostExpires, Attempting
    <2>2. connect_attempt \in Nat /\ connect_attempt <= MaxAttempts
      BY DEF IInv, BudgetInv, AttemptBudget, TypeOK, PolicyTypeOK
    <2>3. tConnect # Off => connect_attempt < MaxAttempts
      BY DEF IInv, BudgetInv, AttemptBudget, Armed, tConnect
    <2>4. \A n \in Nat : n <= MaxAttempts => Rest(n) \in Nat
      BY ProvisionAssumption DEF Rest
    <2>5. MaxAttempts \in Nat /\ Margin \in Nat /\ 0 < Margin
      BY ProvisionAssumption, DelayOrder
    <2>6. tTimeout \in Nat
      BY <2>1, WorkTypes DEF IInv, PolicyInv, TimeInv
    <2>7. CASE tConnect # Off
      <3>1. connect_attempt + 1 \in Nat /\ connect_attempt + 1 <= MaxAttempts
        BY <2>2, <2>3, <2>5, <2>7
      <3>2. tTimeout + Rest(connect_attempt + 1) + Margin <= api_timer
        BY <2>1, <2>7 DEF PolicyInv, TimeInv
      <3>3. Rest(connect_attempt + 1) \in Nat
        BY <2>4, <3>1
      <3> QED
        BY <2>1, <2>5, <2>6, <3>2, <3>3
    <2>8. CASE tConnect = Off
      <3>2. tTimeout + Rest(connect_attempt) + Margin <= api_timer
        BY <2>1, <2>8 DEF PolicyInv, TimeInv
      <3>3. Rest(connect_attempt) \in Nat
        BY <2>2, <2>4
      <3> QED
        BY <2>1, <2>5, <2>6, <3>2, <3>3
    <2> QED
      BY <2>7, <2>8
  <1> QED
    BY <1>1, <1>2

\* What is proven is saved and answered; then the SoftAP may be stopped.
LEMMA PostSavePolicy == IInv /\ PolicyInv /\ PostSave => PolicyInv'
  <1> SUFFICES ASSUME IInv, PolicyInv, PostSave PROVE PolicyInv'
    OBVIOUS
  <1>1. /\ api = "saving" /\ api' \in {"saved", "idle"} /\ config' = api_cfg
        /\ UNCHANGED <<wifiVars, provVars, api_cfg, api_timer>>
    BY DEF PostSave
  <1>2. UNCHANGED <<tConnect, tTimeout, tReconnect, tFallback, tStopAp>>
    BY <1>1, UnchangedWork DEF provVars
  <1>3. api_cfg \in Cfgs /\ api_cfg # NoCfg
    BY <1>1, WifiAssumption DEF PolicyInv, BlockInv
  <1> QED
    BY <1>1, <1>2, <1>3
    DEF PolicyInv, OffInv, ApInv, StationInv, BootInv, BlockInv, TimeInv, ModeInv, Rest,
        Attempting, Resting, wifiVars, apVars, provVars, flagVars, requestVars, blockVars

LEMMA PostReplyPolicy == IInv /\ PolicyInv /\ PostReply => PolicyInv'
  <1> SUFFICES ASSUME IInv, PolicyInv, PostReply PROVE PolicyInv'
    OBVIOUS
  <1>1. /\ api = "saved" /\ api' = "idle"
        /\ UNCHANGED <<wifiVars, mode, provisioning_active, flagVars, requestVars, blockVars,
                       api_cfg, api_timer, cfgVars>>
    BY DEF PostReply
  <1>2. UNCHANGED <<tConnect, tTimeout, tReconnect, tFallback>>
    BY DEF PostReply, Arm, IInv, TypeOK, PolicyTypeOK, WorkType, Works, tConnect, tTimeout,
           tReconnect, tFallback
  <1> QED
    BY <1>1, <1>2
    DEF PolicyInv, OffInv, ApInv, StationInv, BootInv, BlockInv, TimeInv, ModeInv, Rest,
        Attempting, Resting, wifiVars, apVars, flagVars, requestVars, blockVars, cfgVars

\* A reset leaves the SoftAP as it is, since it is up.
LEMMA ResetFlagsPolicy == IInv /\ PolicyInv /\ ResetFlags => PolicyInv'
  <1> SUFFICES ASSUME IInv, PolicyInv, ResetFlags PROVE PolicyInv'
    OBVIOUS
  <1>1. /\ api = "reset_cancelled" /\ api' = "reset_cleared"
        /\ sta_ready' = FALSE /\ sta_connect_in_progress' = FALSE
        /\ UNCHANGED <<wifiVars, mode, provisioning_active, connect_attempt, requestVars,
                       blockVars, work, api_cfg, api_timer, cfgVars>>
    BY DEF ResetFlags
  <1>2. UNCHANGED <<tConnect, tTimeout, tReconnect, tFallback, tStopAp>>
    BY <1>1, UnchangedWork
  <1> QED
    BY <1>1, <1>2
    DEF PolicyInv, OffInv, ApInv, StationInv, BootInv, BlockInv, TimeInv, ModeInv, Rest,
        Attempting, Resting, wifiVars, apVars, requestVars, blockVars, cfgVars

\* enter_provisioning_mode finds the SoftAP up and returns.
LEMMA ResetKeepsAp ==
  ASSUME IInv, PolicyInv, ResetClear
  PROVE  /\ api = "reset_cleared" /\ api' = "idle" /\ config' = NoCfg /\ DisconnectSta
         /\ events' = AfterDisconnect
         /\ UNCHANGED <<apVars, provVars, api_cfg, api_timer>>
         /\ nvs' \in {NoCfg, nvs}
  <1>1. /\ api = "reset_cleared" /\ api' = "idle" /\ config' = NoCfg /\ DisconnectSta
        /\ EnterProvisioning(mode, sta_connect_in_progress, sta_ready, work,
                             AfterDisconnect)
        /\ UNCHANGED <<sta_retry_pending, connect_attempt, persistent_reconnect,
                       requestVars, blockVars, api_cfg, api_timer>>
        /\ nvs' \in {NoCfg, nvs}
    BY DEF ResetClear
  <1>2. provisioning_active
    BY <1>1 DEF PolicyInv, ApInv
  <1> QED
    BY <1>1, <1>2 DEF EnterProvisioning, provVars, flagVars

LEMMA ResetClearPolicy == IInv /\ PolicyInv /\ ResetClear => PolicyInv'
  <1> SUFFICES ASSUME IInv, PolicyInv, ResetClear PROVE PolicyInv'
    OBVIOUS
  <1>1. /\ api = "reset_cleared" /\ api' = "idle" /\ config' = NoCfg
        /\ UNCHANGED <<apVars, provVars, api_cfg, api_timer>>
    BY ResetKeepsAp
  <1>2. UNCHANGED <<tConnect, tTimeout, tReconnect, tFallback, tStopAp>>
    BY <1>1, UnchangedWork DEF provVars
  <1> QED
    BY <1>1, <1>2
    DEF PolicyInv, OffInv, ApInv, StationInv, BootInv, BlockInv, TimeInv, ModeInv, Rest,
        Attempting, Resting, apVars, provVars, flagVars, requestVars, blockVars

LEMMA ApiPolicy == IInv /\ PolicyInv /\ ApiStep => PolicyInv'
  BY PostDisconnectPolicy, PostBeginPolicy, PostResultPolicy, NeverExpires, PostSavePolicy,
     PostReplyPolicy, ResetFlagsPolicy, ResetClearPolicy
  DEF ApiStep

-----------------------------------------------------------------------------
(* The environment.                                                        *)

\* A tick takes one from every work item that is scheduled.
LEMMA Ticked ==
  ASSUME IInv, Tick
  PROVE  /\ tConnect # 0 /\ tTimeout # 0 /\ tReconnect # 0 /\ tFallback # 0 /\ tStopAp # 0
         /\ tConnect' = (IF tConnect # Off THEN tConnect - 1 ELSE Off)
         /\ tTimeout' = (IF tTimeout # Off THEN tTimeout - 1 ELSE Off)
         /\ tReconnect' = (IF tReconnect # Off THEN tReconnect - 1 ELSE Off)
         /\ tFallback' = (IF tFallback # Off THEN tFallback - 1 ELSE Off)
         /\ tStopAp' = (IF tStopAp # Off THEN tStopAp - 1 ELSE Off)
  BY DEF Tick, Quiet, Due, Armed, Works, tConnect, tTimeout, tReconnect, tFallback, tStopAp

LEMMA TickPolicy == IInv /\ PolicyInv /\ Tick => PolicyInv'
  <1> SUFFICES ASSUME IInv, PolicyInv, Tick PROVE PolicyInv'
    OBVIOUS
  <1>1. UNCHANGED <<wifiVars, mode, provisioning_active, flagVars, requestVars, blockVars, api,
                    api_cfg, cfgVars>>
    BY DEF Tick
  <1>2. /\ Attempting => api_timer > 0 /\ api_timer' = api_timer - 1
        /\ api_timer \in Nat
    BY DEF Tick, Quiet, Attempting, IInv, TypeOK, RequestTypeOK
  <1>3. /\ tConnect' = Off <=> tConnect = Off
        /\ tTimeout' = Off <=> tTimeout = Off
        /\ tReconnect' = Off <=> tReconnect = Off
        /\ tFallback' = Off <=> tFallback = Off
        /\ tStopAp' = Off <=> tStopAp = Off
    BY Ticked, WorkTypes DEF IInv
  <1>4. TimeInv'
    <2>1. UNCHANGED <<Rest(connect_attempt), Rest(connect_attempt + 1), Attempting, sta_ready,
                      api>>
      BY <1>1 DEF Rest, Attempting, flagVars, blockVars
    <2>2. Attempting => tTimeout \in Nat /\ tTimeout' = tTimeout - 1
      BY Ticked, WorkTypes DEF IInv, PolicyInv, TimeInv
    <2>3. /\ connect_attempt \in Nat /\ MaxAttempts \in Nat /\ Margin \in Nat
          /\ Rest(connect_attempt) \in Int /\ Rest(connect_attempt + 1) \in Int
      BY ProvisionAssumption DEF IInv, TypeOK, PolicyTypeOK, Rest
    <2> QED
      BY <1>2, <1>3, <2>1, <2>2, <2>3 DEF PolicyInv, TimeInv
  <1>5. StationInv'
    <2>1. ConnectTimeout \in Nat /\ Off = -1
      BY ProvisionAssumption DEF Off
    <2> QED
      BY <1>1, <1>3, <2>1, Ticked, WorkTypes
      DEF IInv, PolicyInv, StationInv, Attempting, Resting, wifiVars, apVars, flagVars,
          requestVars, blockVars, cfgVars
  <1>6. BootInv'
    <2>1. FallbackDelay \in Nat /\ Off = -1
      BY ProvisionAssumption DEF Off
    <2> QED
      BY <1>1, <1>3, <2>1, Ticked, WorkTypes
      DEF IInv, PolicyInv, BootInv, wifiVars, apVars, flagVars
  <1> QED
    BY <1>1, <1>3, <1>4, <1>5, <1>6
    DEF PolicyInv, OffInv, ApInv, BlockInv, ModeInv, Attempting, Resting, wifiVars,
        apVars, flagVars, requestVars, blockVars, cfgVars

\* Before the start, and after a power cycle.
LEMMA InitPolicy == Init => PolicyInv
  <1> SUFFICES ASSUME Init PROVE PolicyInv
    OBVIOUS
  <1>1. /\ tConnect = Off /\ tTimeout = Off /\ tReconnect = Off /\ tFallback = Off
        /\ tStopAp = Off
    BY DEF Init, Works, tConnect, tTimeout, tReconnect, tFallback, tStopAp
  <1>2. /\ mode = "boot" /\ provisioning_active = FALSE /\ drv_ap = FALSE
        /\ sta_ready = FALSE /\ sta_connect_in_progress = FALSE /\ sta_retry_pending = FALSE
        /\ use_pending_cfg = FALSE /\ blocking_connect_active = FALSE
        /\ connect_result_sem = 0 /\ api = "off"
        /\ ap_start_requested = FALSE /\ ap_stop_requested = FALSE
        /\ ap_active = FALSE /\ ap_dhcp_running = FALSE
    BY DEF Init, WifiInit
  <1>3. OffInv /\ ApInv /\ BootInv
    BY <1>1, <1>2 DEF OffInv, ApInv, BootInv
  <1>4. StationInv
    BY <1>1, <1>2 DEF StationInv, Attempting, Resting
  <1>5. BlockInv
    BY <1>1, <1>2 DEF BlockInv, Attempting
  <1>6. TimeInv /\ ModeInv
    BY <1>1, <1>2 DEF TimeInv, ModeInv, Attempting
  <1> QED
    BY <1>3, <1>4, <1>5, <1>6 DEF PolicyInv

LEMMA PowerCyclePolicy == PowerCycle => PolicyInv'
  <1> SUFFICES ASSUME PowerCycle PROVE PolicyInv'
    OBVIOUS
  <1>1. /\ tConnect' = Off /\ tTimeout' = Off /\ tReconnect' = Off /\ tFallback' = Off
        /\ tStopAp' = Off
    BY DEF PowerCycle, Works, tConnect, tTimeout, tReconnect, tFallback, tStopAp
  <1>2. /\ mode' = "boot" /\ provisioning_active' = FALSE /\ drv_ap' = FALSE
        /\ sta_ready' = FALSE /\ sta_connect_in_progress' = FALSE
        /\ sta_retry_pending' = FALSE
        /\ use_pending_cfg' = FALSE /\ blocking_connect_active' = FALSE
        /\ connect_result_sem' = 0 /\ api' = "off"
        /\ ap_start_requested' = FALSE /\ ap_stop_requested' = FALSE
        /\ ap_active' = FALSE /\ ap_dhcp_running' = FALSE
    BY DEF PowerCycle, WifiReset
  <1>3. OffInv' /\ ApInv' /\ BootInv'
    BY <1>1, <1>2 DEF OffInv, ApInv, BootInv
  <1>4. StationInv'
    BY <1>1, <1>2 DEF StationInv, Attempting, Resting
  <1>5. BlockInv'
    BY <1>1, <1>2 DEF BlockInv, Attempting
  <1>6. TimeInv' /\ ModeInv'
    BY <1>1, <1>2 DEF TimeInv, ModeInv, Attempting
  <1> QED
    BY <1>3, <1>4, <1>5, <1>6 DEF PolicyInv

LEMMA DriverPolicy == PolicyInv /\ Driver => PolicyInv'
  <1> SUFFICES ASSUME PolicyInv, Driver PROVE PolicyInv'
    OBVIOUS
  <1>1. UNCHANGED <<provVars, apiVars, cfgVars>> /\ UNCHANGED apVars
    BY DEF Driver, DriverStep, LinkUp, JoinFails, LinkLost, DhcpBound
  <1> QED
    BY <1>1, PolicyUnchanged DEF apVars

LEMMA NextPolicy ==
  ClientsOnSoftAp /\ IInv /\ RetryInv /\ PolicyInv /\ ViewInv /\ [Next]_vars => PolicyInv'
  <1> SUFFICES ASSUME ClientsOnSoftAp, IInv, RetryInv, PolicyInv, ViewInv, [Next]_vars
               PROVE  PolicyInv'
    OBVIOUS
  <1>1. CASE WorkStep
    BY <1>1, StaConnectPolicy, ConnectTimeoutPolicy, StaReconnectPolicy, BootFallbackPolicy,
       StopApPolicy DEF WorkStep, ViewInv
  <1>2. CASE EventStep
    BY <1>2, StaEventPolicy, ApEventPolicy DEF EventStep, ViewInv
  <1>3. CASE UNCHANGED vars
    BY <1>3, PolicyUnchanged DEF vars, wifiVars, apVars
  <1> QED
    BY <1>1, <1>2, <1>3, StartPolicy, ClientPolicy, ApiPolicy, DriverPolicy, TickPolicy,
       PowerCyclePolicy DEF Next

-----------------------------------------------------------------------------
(* The radio.                                                              *)

\* A step that gives the driver nothing to connect to.
LEMMA RadioKept ==
  ASSUME RadioInv, UNCHANGED <<drv_cfg, last_joined>>,
         drv_sta' \in {drv_sta, "idle"},
         drv_sta' # "linked" => Answered(events'),
         Holds(events', "connect_ok") => Queued("connect_ok"),
         api' \in {"settling", "waiting", "saving"} => UNCHANGED <<api, api_cfg, api_timer>>,
         api' = "settling" => ~sta_connect_requested' /\ ~sta_ip' /\ ~sta_link_connected',
         api' = "waiting" /\ sta_ip' => sta_ip \/ Queued("connect_ok"),
         connect_result_sem' = 1 /\ connect_result_success' => last_joined = api_cfg'
  PROVE  RadioInv'
  BY DEF RadioInv, Queued

\* A step of provision_module or of the API thread that leaves the radio alone.
LEMMA RadioUntouched ==
  ASSUME IInv, RadioInv, UNCHANGED <<staVars, netVars>>, Extends(events),
         api' \in {"settling", "waiting", "saving"} => UNCHANGED <<api, api_cfg, api_timer>>,
         connect_result_sem' = 1 /\ connect_result_success' => last_joined = api_cfg'
  PROVE  RadioInv'
  <1>1. events \in Seq(EventKinds)
    BY DEF IInv, TypeOK, WifiTypeOK
  <1>2. /\ drv_sta' # "linked" => Answered(events')
        /\ Holds(events', "connect_ok") => Queued("connect_ok")
    BY <1>1, ExtendedQueue DEF RadioInv, Queued, netVars
  <1> QED
    BY <1>2, RadioKept DEF RadioInv, staVars, netVars

\* A step that disconnects the station.
LEMMA RadioDropped ==
  ASSUME IInv, RadioInv, DisconnectSta, Extends(AfterDisconnect),
         api' \in {"settling", "waiting", "saving"} => UNCHANGED <<api, api_cfg, api_timer>>,
         connect_result_sem' = 1 /\ connect_result_success' => last_joined = api_cfg'
  PROVE  RadioInv'
  <1>1. /\ Answered(events')
        /\ Holds(events', "connect_ok") => Queued("connect_ok")
    BY DisconnectRaised, ExtendedQueue
  <1> QED
    BY <1>1, RadioKept DEF DisconnectSta, ClearStaIpv4

\* A failed attempt never reports a success.
LEMMA FailedRadio ==
  ASSUME NEW n, NEW m, NEW told, NEW f, NEW q, AttemptFailed(n, m, told, f, q)
  PROVE  /\ Extends(q)
         /\ connect_result_sem' = 1 /\ connect_result_success' =>
               connect_result_sem = 1 /\ connect_result_success
  <1>1. CASE RetryAttempt(n, m, f, q) \/ AwaitNextRound(m, f, q)
    BY <1>1 DEF RetryAttempt, AwaitNextRound, Extends, blockVars
  <1>2. CASE TellClient(n, told, f, q)
    BY <1>2 DEF TellClient, SignalFailure, Extends
  <1>3. CASE GiveUp(n, m, f, q)
    BY <1>3, SoftApEvents DEF GiveUp, blockVars
  <1> QED
    BY <1>1, <1>2, <1>3 DEF AttemptFailed, AfterLastAttempt

\* sta_connect_work_handler: in a POST the attempt is made with its credentials.
LEMMA StaConnectRadio ==
  IInv /\ PolicyInv /\ RadioInv /\ StaConnectWork => RadioInv'
  <1> SUFFICES ASSUME IInv, PolicyInv, RadioInv, StaConnectWork PROVE RadioInv'
    OBVIOUS
  <1>1. /\ tConnect # Off /\ UNCHANGED apiVars
        /\ \/ Attempting /\ blocking_connect_active
           \/ api = "idle" /\ ~drv_ap /\ ~blocking_connect_active /\ config # NoCfg
    <2>1. Due("sta_connect")
      BY DEF StaConnectWork, NoCredentials, AttemptAccepted, AttemptRejected, BeginAttempt
    <2>2. tConnect # Off
      BY <2>1 DEF Due, Off, tConnect
    <2> QED
      BY <2>2, DueWhen
      DEF StaConnectWork, NoCredentials, AttemptAccepted, AttemptRejected, BeginAttempt
  <1>2. AttemptCfg \in Cfgs /\ (api = "waiting" => AttemptCfg = api_cfg)
    BY <1>1
    DEF AttemptCfg, PolicyInv, BlockInv, Attempting, IInv, TypeOK, RequestTypeOK
  <1>3. connect_result_sem = 1 => api = "waiting"
    BY DEF PolicyInv, BlockInv
  <1>4. AttemptCfg # NoCfg
    BY <1>2, WifiAssumption
  <1>5. CASE AttemptAccepted
    <2>1. /\ drv_sta = "idle" /\ drv_sta' = "connecting" /\ drv_cfg' = AttemptCfg
          /\ sta_ip' = FALSE /\ UNCHANGED <<last_joined, events, blockVars>>
      BY <1>5 DEF AttemptAccepted, ConnectSta, ClearStaIpv4
    <2> QED
      BY <1>1, <1>2, <1>3, <2>1
      DEF RadioInv, Queued, apiVars, blockVars, Attempting
  <1>6. CASE AttemptRejected
    <2>1. ConnectSta(AttemptCfg, FALSE) /\ Extends(events)
          /\ (connect_result_sem' = 1 /\ connect_result_success' =>
                 connect_result_sem = 1 /\ connect_result_success)
      BY <1>6, FailedRadio DEF AttemptRejected
    <2>2. events \in Seq(EventKinds)
      BY DEF IInv, TypeOK, WifiTypeOK
    <2>3. /\ UNCHANGED <<drv_sta, drv_cfg, last_joined>> /\ sta_ip' = FALSE
      BY <2>1 DEF ConnectSta, ClearStaIpv4
    <2>4. /\ drv_sta' # "linked" => Answered(events')
          /\ Holds(events', "connect_ok") => Queued("connect_ok")
      BY <2>1, <2>2, <2>3, ExtendedQueue DEF RadioInv, Queued
    <2>5. api # "settling"
      BY <1>1 DEF Attempting
    <2> QED
      BY <1>1, <2>1, <2>3, <2>4, <2>5, RadioKept DEF RadioInv, apiVars
  <1> QED
    BY <1>4, <1>5, <1>6 DEF StaConnectWork, NoCredentials

LEMMA WorkRadio == IInv /\ PolicyInv /\ RadioInv /\ WorkStep => RadioInv'
  <1> SUFFICES ASSUME IInv, PolicyInv, RadioInv, WorkStep PROVE RadioInv'
    OBVIOUS
  <1>1. CASE StaConnectWork
    BY <1>1, StaConnectRadio
  <1>2. CASE ConnectTimeoutWork
    <2>1. UNCHANGED apiVars
      BY <1>2 DEF ConnectTimeoutWork
    <2>2. CASE sta_ready
      BY <1>2, <2>1, <2>2, RadioUntouched
      DEF ConnectTimeoutWork, RadioInv, wifiVars, blockVars, apiVars, Extends
    <2>3. CASE ~sta_ready
      <3> DEFINE f == Cancel(work, {"connect_timeout"})
      <3>1. /\ DisconnectSta
            /\ AttemptFailed(connect_attempt, mode, "provisioning", f, AfterDisconnect)
        BY <1>2, <2>3 DEF ConnectTimeoutWork
      <3> HIDE DEF f
      <3>2. /\ Extends(AfterDisconnect)
            /\ connect_result_sem' = 1 /\ connect_result_success' =>
                  connect_result_sem = 1 /\ connect_result_success
        BY <3>1, FailedRadio
      <3> QED
        BY <2>1, <3>1, <3>2, RadioDropped DEF RadioInv, apiVars
    <2> QED
      BY <2>2, <2>3
  <1>3. CASE StaReconnectWork \/ BootFallbackWork \/ StopApWork
    <2>1. Extends(events)
      BY <1>3, SoftApEvents DEF StaReconnectWork, BootFallbackWork, StopApWork, Extends
    <2>2. UNCHANGED <<staVars, netVars, blockVars, apiVars>>
      BY <1>3 DEF StaReconnectWork, BootFallbackWork, StopApWork
    <2> QED
      BY <2>1, <2>2, RadioUntouched DEF RadioInv, blockVars, apiVars
  <1> QED
    BY <1>1, <1>2, <1>3 DEF WorkStep

\* A notification that the station is ready is backed by an address or a link.
LEMMA ReadyIsBacked ==
  ASSUME NEW up, StaEvent(up)
  PROVE  /\ up = "sta_connected" => sta_ip \/ Pending("connect_ok")
         /\ sta_ip' => sta_ip \/ Pending("connect_ok")
         /\ UNCHANGED <<drv_sta, drv_cfg, last_joined>>
         /\ ~sta_connect_requested /\ ~sta_link_connected /\ ~sta_ip =>
               ~sta_connect_requested' /\ ~sta_link_connected' /\ ~sta_ip'
         /\ events # << >>
  <1>1. CASE ConnectOk(up)
    BY <1>1 DEF ConnectOk, StaticLinkUp, DhcpLinkUp, Notify, MayNotify, Pending
  <1>2. CASE ConnectFailed(up)
    BY <1>2 DEF ConnectFailed, Pending, netVars
  <1>3. CASE Disconnected(up)
    BY <1>3 DEF Disconnected, Pending, ClearStaIpv4
  <1>4. CASE Ipv4Event(up)
    BY <1>4 DEF Ipv4Event, Pending, Notify, MayNotify, netVars
  <1>5. CASE IgnoredStaEvent(up)
    BY <1>5 DEF IgnoredStaEvent, Pending, staVars, netVars
  <1> QED
    BY <1>1, <1>2, <1>3, <1>4, <1>5 DEF StaEvent

LEMMA EventRadio == IInv /\ PolicyInv /\ RadioInv /\ EventStep => RadioInv'
  <1> SUFFICES ASSUME IInv, PolicyInv, RadioInv, EventStep PROVE RadioInv'
    OBVIOUS
  <1> DEFINE q == Tail(events)
  <1>0. events \in Seq(EventKinds) /\ UNCHANGED apiVars
    BY DEF IInv, TypeOK, WifiTypeOK, EventStep, HandleStaEvent, HandleApEvent
  <1>1. ASSUME events # << >>
        PROVE  /\ q \in Seq(EventKinds)
               /\ Holds(q, "connect_ok") => Queued("connect_ok")
               /\ Pending("connect_ok") => Queued("connect_ok")
               /\ Answered(events) => Answered(q)
    BY <1>0, <1>1, Handled DEF Queued, Pending
  <1> HIDE DEF q
  <1>2. CASE HandleApEvent
    <2>1. /\ events' = q /\ UNCHANGED <<staVars, netVars>> /\ events # << >>
          /\ UNCHANGED blockVars
      BY <1>2 DEF HandleApEvent, ApEvent, ApEnabled, ApDisabled, IgnoredApEvent, Pending,
                  ApCallback, q
    <2> QED
      BY <1>0, <1>1, <2>1, RadioKept
      DEF RadioInv, staVars, netVars, blockVars, apiVars, Queued
  <1>3. CASE HandleStaEvent
    <2>1. PICK up \in {"none", "sta_connected", "sta_disconnected"} :
            StaEvent(up) /\ StaCallback(up, q)
      BY <1>3 DEF HandleStaEvent, q
    <2>2. Extends(q)
      BY <2>1, SoftApEvents
      DEF StaCallback, NoCallback, StaConnected, StaDisconnected, Extends
    <2>3. /\ connect_result_sem' = 1 /\ connect_result_success' =>
               \/ connect_result_sem = 1 /\ connect_result_success
               \/ up = "sta_connected" /\ blocking_connect_active
      BY <2>1
      DEF StaCallback, NoCallback, StaConnected, StaDisconnected, SignalSuccess, provVars,
          blockVars
    <2>4. /\ drv_sta' # "linked" => Answered(events')
          /\ Holds(events', "connect_ok") => Queued("connect_ok")
      BY <1>1, <2>1, <2>2, ReadyIsBacked, ExtendedQueue DEF RadioInv
    <2>5. connect_result_sem' = 1 /\ connect_result_success' => last_joined = api_cfg'
      BY <1>0, <1>1, <2>1, <2>3, ReadyIsBacked DEF RadioInv, PolicyInv, BlockInv, apiVars
    <2>6. api' = "waiting" /\ sta_ip' => sta_ip \/ Queued("connect_ok")
      BY <1>1, <2>1, ReadyIsBacked
    <2>7. api' = "settling" =>
            ~sta_connect_requested' /\ ~sta_ip' /\ ~sta_link_connected'
      BY <1>0, <2>1, ReadyIsBacked DEF RadioInv, apiVars
    <2> QED
      BY <1>0, <2>1, <2>4, <2>5, <2>6, <2>7, ReadyIsBacked, RadioKept DEF apiVars
  <1> QED
    BY <1>2, <1>3 DEF EventStep

\* PostDisconnect leaves nothing but ends in the queue; the sleep is not over
\* before the event thread has come to them; then the attempts begin afresh.
LEMMA ApiRadio == IInv /\ PolicyInv /\ RadioInv /\ ApiStep => RadioInv'
  <1> SUFFICES ASSUME IInv, PolicyInv, RadioInv, ApiStep PROVE RadioInv'
    OBVIOUS
  <1>1. CASE PostDisconnect
    <2>1. /\ DisconnectSta /\ events' = AfterDisconnect /\ UNCHANGED <<blockVars, api_cfg>>
          /\ api = "cancelled" /\ api' = "settling" /\ api_timer' = SettleDelay
      BY <1>1 DEF PostDisconnect, provVars
    <2>2. SettleDelay \in Nat
      BY ProvisionAssumption
    <2>3. Answered(events')
      BY <2>1, DisconnectRaised
    <2>4. connect_result_sem = 1 => api = "waiting"
      BY DEF PolicyInv, BlockInv
    <2> QED
      BY <2>1, <2>2, <2>3, <2>4
      DEF RadioInv, DisconnectSta, ClearStaIpv4, Queued, blockVars
  <1>2. CASE PostBegin
    <2>1. /\ api = "settling" /\ api_timer = 0 /\ api' = "waiting" /\ connect_result_sem' = 0
          /\ UNCHANGED <<wifiVars, api_cfg>>
      BY <1>2 DEF PostBegin
    <2> QED
      BY <2>1, DelayOrder DEF RadioInv, Queued, wifiVars, staVars, netVars
  <1>3. CASE PostResult
    <2>1. /\ connect_result_sem = 1 /\ connect_result_sem' = 0
          /\ api = "waiting" /\ api' = IF connect_result_success THEN "saving" ELSE "idle"
          /\ UNCHANGED <<wifiVars, api_cfg>>
      BY <1>3 DEF PostResult
    <2> QED
      BY <2>1 DEF RadioInv, Queued, wifiVars, staVars, netVars
  <1>4. CASE PostSave \/ PostReply \/ ResetFlags
    <2>1. /\ UNCHANGED <<staVars, netVars, events, connect_result_sem, connect_result_success,
                         api_cfg>>
          /\ api' \notin {"settling", "waiting", "saving"}
      BY <1>4 DEF PostSave, PostReply, ResetFlags, wifiVars, provVars, blockVars
    <2> QED
      BY <2>1, RadioUntouched DEF RadioInv, Extends
  <1>5. CASE ResetClear
    <2>1. /\ DisconnectSta /\ events' = AfterDisconnect /\ UNCHANGED <<blockVars, api_cfg>>
          /\ api' = "idle"
      BY <1>5, ResetKeepsAp DEF provVars
    <2> QED
      BY <2>1, RadioDropped DEF RadioInv, Extends, blockVars
  <1> QED
    BY <1>1, <1>2, <1>3, <1>4, <1>5, NeverExpires DEF ApiStep

\* The driver.
LEMMA DriverRadio == IInv /\ PolicyInv /\ RadioInv /\ Driver => RadioInv'
  <1> SUFFICES ASSUME IInv, PolicyInv, RadioInv, Driver PROVE RadioInv'
    OBVIOUS
  <1>1. UNCHANGED <<provVars, apiVars>> /\ events \in Seq(EventKinds)
    BY DEF Driver, IInv, TypeOK, WifiTypeOK
  <1>2. /\ "connect_ok" \in EventKinds /\ "connect_fail" \in EventKinds
        /\ "disconnected" \in EventKinds /\ "ipv4" \in EventKinds
    BY DEF EventKinds, StaEventKinds
  <1>3. CASE LinkUp
    <2>1. /\ drv_sta = "connecting" /\ drv_sta' = "linked" /\ last_joined' = drv_cfg
          /\ UNCHANGED <<drv_cfg, sta_ip, staVars>>
      BY <1>3 DEF LinkUp
    <2>2. connect_result_sem = 1 => api = "waiting"
      BY DEF PolicyInv, BlockInv
    <2> QED
      BY <1>1, <2>1, <2>2 DEF RadioInv, provVars, blockVars, apiVars, staVars
  <1>4. CASE JoinFails \/ LinkLost
    <2>1. /\ drv_sta' = "idle" /\ UNCHANGED <<drv_cfg, last_joined, sta_ip, staVars>>
          /\ events' \in {Append(events, "disconnected"), Append(events, "connect_fail")}
      BY <1>4 DEF JoinFails, LinkLost, Raise
    <2>2. /\ Answered(events')
          /\ Holds(events', "connect_ok") => Queued("connect_ok")
      <3>1. ASSUME NEW e \in {"disconnected", "connect_fail"}
            PROVE  /\ Answered(Append(events, e))
                   /\ Holds(Append(events, e), "connect_ok") => Queued("connect_ok")
        BY <1>1, <1>2, Raised DEF Queued
      <3> QED
        BY <2>1, <3>1
    <2> QED
      BY <1>1, <2>1, <2>2, RadioKept
      DEF RadioInv, provVars, blockVars, apiVars, staVars
  <1>5. CASE DhcpBound
    <2>1. /\ drv_sta = "linked" /\ UNCHANGED <<drv_sta, drv_cfg, last_joined, staVars>>
      BY <1>5 DEF DhcpBound
    <2> QED
      BY <1>1, <2>1 DEF RadioInv, provVars, blockVars, apiVars, staVars
  <1> QED
    BY <1>3, <1>4, <1>5 DEF Driver, DriverStep

LEMMA NextRadio ==
  ClientsOnSoftAp /\ IInv /\ PolicyInv /\ RadioInv /\ [Next]_vars => RadioInv'
  <1> SUFFICES ASSUME ClientsOnSoftAp, IInv, PolicyInv, RadioInv, [Next]_vars
               PROVE  RadioInv'
    OBVIOUS
  <1>1. connect_result_sem = 1 => api = "waiting"
    BY DEF PolicyInv, BlockInv
  <1>2. CASE Start
    <2>1. /\ Extends(events) /\ api' = "idle" /\ api = "off"
          /\ UNCHANGED <<staVars, netVars, blockVars>>
      BY <1>2, SoftApEvents DEF Start, Extends
    <2> QED
      BY <1>1, <2>1, RadioUntouched DEF blockVars
  <1>3. CASE ClientStep
    <2>1. /\ api = "idle" /\ api' \in {"cancelled", "reset_cancelled"}
          /\ UNCHANGED <<wifiVars, blockVars>>
      BY <1>3 DEF ClientStep, PostWifi, ResetPost
    <2> QED
      BY <1>1, <2>1, RadioUntouched DEF blockVars, wifiVars, Extends
  <1>4. CASE Tick
    <2>1. /\ UNCHANGED <<wifiVars, blockVars, api, api_cfg>> /\ Len(events) <= MaxLag
          /\ api_timer \in Nat
          /\ api_timer' = (IF api_timer > 0 THEN api_timer - 1 ELSE 0)
      BY <1>4 DEF Tick, Quiet, IInv, TypeOK, RequestTypeOK
    <2>2. events \in Seq(EventKinds) /\ MaxLag \in Nat /\ MaxLag <= 1
      BY ProvisionAssumption DEF ClientsOnSoftAp, IInv, TypeOK, WifiTypeOK
    <2>3. Len(events) <= 1
      <3>1. Len(events) \in Nat
        BY <2>2, LenProperties
      <3> QED
        BY <2>1, <2>2, <3>1
    <2>4. drv_sta # "linked" => ~Queued("connect_ok")
      BY <2>2, <2>3, Short DEF RadioInv, Queued
    <2> QED
      BY <2>1, <2>4 DEF RadioInv, Queued, wifiVars, staVars, netVars, blockVars
  <1>5. CASE PowerCycle
    <2>1. /\ api' = "off" /\ drv_sta' = "idle" /\ events' = << >>
          /\ connect_result_sem' = 0
      BY <1>5 DEF PowerCycle, WifiReset
    <2> QED
      BY <2>1 DEF RadioInv, Answered
  <1>6. CASE UNCHANGED vars
    BY <1>6
    DEF RadioInv, Queued, vars, wifiVars, staVars, netVars, provVars, blockVars, apiVars
  <1> QED
    BY <1>2, <1>3, <1>4, <1>5, <1>6, WorkRadio, EventRadio, ApiRadio, DriverRadio DEF Next

-----------------------------------------------------------------------------
(* The SoftAP as the two modules see it.                                   *)

\* A step that leaves the SoftAP and its events alone.
LEMMA ApViewKept ==
  ASSUME ApViewInv, UNCHANGED apVars,
         Holds(events', "ap_enabled") <=> Queued("ap_enabled"),
         Holds(events', "ap_disabled") <=> Queued("ap_disabled")
  PROVE  ApViewInv'
  BY DEF ApViewInv, Queued, apVars

\* So does a step after which nothing is waited for and the mode is as good.
LEMMA SettledKept ==
  ASSUME SettledInv, UNCHANGED apVars,
         Holds(events', "ap_enabled") => Queued("ap_enabled"),
         Proven' => Proven /\ mode' = mode,
         mode' = "provisioning" => drv_ap,
         api' = "waiting" => ApFirst(events'),
         api' = "waiting" /\ sta_link_connected' =>
             api = "waiting" /\ (sta_link_connected \/ ~Holds(events', "ap_enabled"))
  PROVE  SettledInv'
  BY DEF SettledInv, Queued, apVars

\* enter_provisioning_mode with the SoftAP down.
LEMMA OpenedView ==
  ASSUME IInv, PolicyInv, RadioInv, ViewInv, ~drv_ap, api' \in {"off", "idle"},
         NEW m, NEW ready, NEW f \in WorkType, NEW q \in Seq(EventKinds),
         Holds(q, "ap_enabled") => Queued("ap_enabled"),
         Queued("ap_disabled") => Holds(q, "ap_disabled"),
         EnterProvisioning(m, FALSE, ready, f, q), m # "provisioning",
         f["stop_ap"] = tStopAp, UNCHANGED blockVars
  PROVE  ViewInv'
  <1>1. ~provisioning_active /\ ~Proven
    BY DEF PolicyInv, ApInv, ViewInv, SettledInv
  <1>2. /\ mode' = (IF drv_ap' THEN "provisioning" ELSE m)
        /\ events' = (IF drv_ap' THEN Append(q, "ap_enabled") ELSE q)
        /\ \/ ap_start_requested' = TRUE
           \/ ~drv_ap' /\ UNCHANGED <<ap_start_requested, ap_stop_requested>>
        /\ UNCHANGED <<ap_active, ap_dhcp_running>>
        /\ tStopAp' = tStopAp
    BY <1>1, OpeningAp
  <1>3. "ap_enabled" \in EventKinds
    BY DEF EventKinds, ApEventKinds
  <1>5. drv_ap' => Holds(events', "ap_enabled")
    BY <1>2, <1>3, Raised
  <1>6. ~drv_ap' => ~Holds(events', "ap_enabled")
    BY <1>2 DEF ViewInv, ApViewInv
  <1>4. ~Proven'
    BY <1>1, <1>2 DEF Proven, blockVars
  <1> QED
    BY <1>2, <1>4, <1>5, <1>6 DEF ViewInv, SettledInv, ApViewInv, Queued

\* A step that changes none of it.
LEMMA ViewUntouched ==
  ASSUME ViewInv, UNCHANGED <<apVars, mode, events, sta_link_connected>>,
         Proven' => Proven, api' = "waiting" => api = "waiting"
  PROVE  ViewInv'
  BY ApViewKept, SettledKept DEF ViewInv, SettledInv, Queued

\* A failed attempt: of a POST, or with the SoftAP down.
LEMMA FailedView ==
  ASSUME IInv, PolicyInv, RadioInv, ViewInv, NEW n, NEW m, NEW told, NEW f \in WorkType,
         NEW q \in {events, AfterDisconnect}, AttemptFailed(n, m, told, f, q),
         m = "provisioning" => drv_ap, f["stop_ap"] = tStopAp,
         UNCHANGED apiVars, sta_link_connected' = FALSE,
         \/ Attempting /\ blocking_connect_active /\ drv_ap
         \/ api = "idle" /\ ~drv_ap /\ ~blocking_connect_active
  PROVE  ViewInv'
  <1>1. ~Proven
    BY DEF Proven, Attempting, ViewInv, SettledInv, PolicyInv, ApInv
  <1>2. events \in Seq(EventKinds) /\ AfterDisconnect \in Seq(EventKinds)
    BY DisconnectRaised DEF IInv, TypeOK, WifiTypeOK
  <1>3. /\ q \in Seq(EventKinds)
        /\ Holds(q, "ap_enabled") <=> Queued("ap_enabled")
        /\ Holds(q, "ap_disabled") <=> Queued("ap_disabled")
        /\ ApFirst(events) => ApFirst(q)
    BY <1>2, DisconnectRaised DEF Queued
  <1>4. CASE ~drv_ap /\ GiveUp(n, m, f, q)
    <2>1. EnterProvisioning(m, FALSE, sta_ready, f, q) /\ UNCHANGED blockVars
      BY <1>4 DEF GiveUp
    <2>2. api' \in {"off", "idle"}
      BY <1>4 DEF apiVars, Attempting
    <2> QED
      BY <1>3, <1>4, <2>1, <2>2, OpenedView
  <1>5. ASSUME events' = q, UNCHANGED apVars, mode' = "provisioning" => drv_ap,
               tStopAp' = tStopAp,
               connect_result_sem' = 1 /\ connect_result_success' =>
                   connect_result_sem = 1 /\ connect_result_success
        PROVE  ViewInv'
    <2>1. ~Proven'
      BY <1>1, <1>5 DEF Proven, apiVars
    <2> QED
      BY <1>3, <1>5, <2>1, ApViewKept, SettledKept DEF ViewInv, SettledInv, apiVars
  <1>6. CASE RetryAttempt(n, m, f, q)
    <2>1. /\ events' = q /\ UNCHANGED <<apVars, blockVars>> /\ mode' = m
          /\ work' = ScheduleStaConnect(f, RetryDelay)
      BY <1>6 DEF RetryAttempt
    <2>2. tStopAp' = tStopAp
      BY <2>1 DEF ScheduleStaConnect, WorkType, Works, tStopAp
    <2> QED
      BY <1>5, <2>1, <2>2 DEF blockVars
  <1>7. CASE AwaitNextRound(m, f, q)
    <2>1. /\ events' = q /\ UNCHANGED <<apVars, blockVars>> /\ mode' = m
          /\ work' = Arm(f, "sta_reconnect", ReconnectDelay)
      BY <1>7 DEF AwaitNextRound
    <2>2. tStopAp' = tStopAp
      BY <2>1 DEF Arm, WorkType, Works, tStopAp
    <2> QED
      BY <1>5, <2>1, <2>2 DEF blockVars
  <1>8. CASE blocking_connect_active /\ TellClient(n, told, f, q)
    <2>1. /\ events' = q /\ UNCHANGED apVars /\ work' = f /\ connect_result_success' = FALSE
      BY <1>8 DEF TellClient, SignalFailure
    <2>2. tStopAp' = tStopAp
      BY <2>1 DEF tStopAp
    <2> QED
      BY <1>5, <1>8, <2>1, <2>2
  <1> QED
    BY <1>4, <1>6, <1>7, <1>8 DEF AttemptFailed, AfterLastAttempt

LEMMA WorkView ==
  IInv /\ PolicyInv /\ RadioInv /\ ViewInv /\ WorkStep => ViewInv'
  <1> SUFFICES ASSUME IInv, PolicyInv, RadioInv, ViewInv, WorkStep PROVE ViewInv'
    OBVIOUS
  <1>0. work \in WorkType /\ events \in Seq(EventKinds)
    BY DEF IInv, TypeOK, PolicyTypeOK, WifiTypeOK
  <1>1. CASE StaConnectWork
    <2>1. Due("sta_connect") /\ UNCHANGED apiVars
      BY <1>1 DEF StaConnectWork, NoCredentials, AttemptAccepted, AttemptRejected, BeginAttempt
    <2>2. \/ Attempting /\ blocking_connect_active /\ drv_ap
          \/ api = "idle" /\ ~drv_ap /\ ~blocking_connect_active /\ config # NoCfg
      <3>1. tConnect # Off
        BY <2>1 DEF Due, Off, tConnect
      <3> QED
        BY <3>1, DueWhen
    <2>3. AttemptCfg # NoCfg
      BY <2>2, WifiAssumption DEF AttemptCfg, PolicyInv, BlockInv, Attempting
    <2>4. CASE AttemptAccepted
      <3>1. /\ mode' = "connecting" /\ UNCHANGED <<apVars, events, blockVars>>
            /\ sta_link_connected' = FALSE /\ work' = Cancel(work, {"sta_connect"})
        BY <2>4 DEF AttemptAccepted, ConnectSta
      <3>2. tStopAp' = tStopAp
        BY <1>0, <3>1 DEF Cancel, WorkType, Works, tStopAp
      <3>3. ~Proven'
        BY <2>1, <2>2, <3>1, <3>2
        DEF Proven, Attempting, ViewInv, SettledInv, PolicyInv, ApInv, apiVars, blockVars
      <3> QED
        BY <2>1, <3>1, <3>3, ApViewKept, SettledKept
        DEF ViewInv, SettledInv, Queued, apiVars
    <2>5. CASE AttemptRejected
      <3> DEFINE f == Cancel(work, {"sta_connect", "connect_timeout"})
                 n == connect_attempt + 1
                 m == "connecting"
      <3>1. f \in WorkType /\ f["stop_ap"] = tStopAp
        BY <1>0 DEF Cancel, WorkType, Works, Off, tStopAp
      <3>2. /\ AttemptFailed(n, m, m, f, events) /\ sta_link_connected' = FALSE
            /\ m # "provisioning" /\ events \in {events, AfterDisconnect}
        BY <2>5 DEF AttemptRejected, ConnectSta
      <3> HIDE DEF f, n, m
      <3> QED
        BY <2>1, <2>2, <3>1, <3>2, FailedView
    <2> QED
      BY <1>1, <2>3, <2>4, <2>5 DEF StaConnectWork, NoCredentials
  <1>2. CASE ConnectTimeoutWork
    <2> DEFINE f == Cancel(work, {"connect_timeout"})
    <2>1. UNCHANGED apiVars /\ tTimeout # Off
      BY <1>2 DEF ConnectTimeoutWork, Due, Off, tTimeout
    <2>2. f \in WorkType /\ f["stop_ap"] = tStopAp
      BY <1>0 DEF Cancel, WorkType, Works, Off, tStopAp
    <2> HIDE DEF f
    <2>3. CASE sta_ready
      <3>1. work' = f /\ UNCHANGED <<wifiVars, mode, blockVars>>
        BY <1>2, <2>3 DEF ConnectTimeoutWork, f
      <3>2. tStopAp' = tStopAp
        BY <2>2, <3>1 DEF tStopAp
      <3> QED
        BY <2>1, <3>1, <3>2, ViewUntouched
        DEF Proven, wifiVars, staVars, blockVars, apiVars
    <2>4. CASE ~sta_ready
      <3>1. /\ AttemptFailed(connect_attempt, mode, "provisioning", f, AfterDisconnect)
            /\ sta_link_connected' = FALSE
        BY <1>2, <2>4 DEF ConnectTimeoutWork, DisconnectSta, f
      <3>2. mode = "provisioning" => drv_ap
        BY DEF ViewInv, SettledInv
      <3> QED
        BY <2>1, <2>2, <3>1, <3>2, DueWhen, FailedView
    <2> QED
      BY <2>3, <2>4
  <1>3. CASE StaReconnectWork
    <2> DEFINE f == Cancel(work, {"sta_reconnect"})
    <2>1. tReconnect # Off
      BY <1>3 DEF StaReconnectWork, Due, Off, tReconnect
    <2>2. config # NoCfg
      BY <2>1, DueWhen
    <2>3. /\ UNCHANGED <<apVars, mode, events, staVars, blockVars, apiVars>>
          /\ work' \in {f, ScheduleStaConnect(f, 0)}
      BY <1>3, <2>2 DEF StaReconnectWork
    <2>4. tStopAp' = tStopAp
      BY <1>0, <2>3 DEF ScheduleStaConnect, Cancel, WorkType, Works, tStopAp
    <2> QED
      BY <2>3, <2>4, ViewUntouched DEF Proven, staVars, blockVars, apiVars
  <1>4. CASE BootFallbackWork
    <2> DEFINE f == Cancel(work, {"boot_fallback_ap"})
    <2>1. tFallback # Off
      BY <1>4 DEF BootFallbackWork, Due, Off, tFallback
    <2>2. ~drv_ap /\ ~provisioning_active /\ api = "idle"
      BY <2>1, DueWhen DEF PolicyInv, ApInv
    <2>3. f \in WorkType /\ f["stop_ap"] = tStopAp
      BY <1>0 DEF Cancel, WorkType, Works, Off, tStopAp
    <2>4. UNCHANGED <<staVars, blockVars, apiVars>>
      BY <1>4 DEF BootFallbackWork
    <2> HIDE DEF f
    <2>5. CASE sta_ready \/ sta_connect_in_progress \/ sta_retry_pending
      <3>1. /\ UNCHANGED <<apVars, mode, events>>
            /\ work' \in {f, Arm(f, "boot_fallback_ap", FallbackDelay)}
        BY <1>4, <2>2, <2>5 DEF BootFallbackWork, f
      <3>2. tStopAp' = tStopAp
        BY <2>3, <3>1 DEF Arm, WorkType, Works, tStopAp
      <3> QED
        BY <2>4, <3>1, <3>2, ViewUntouched DEF Proven, staVars, blockVars, apiVars
    <2>6. CASE ~sta_ready /\ ~sta_connect_in_progress /\ ~sta_retry_pending
      <3>1. sta_connect_in_progress = FALSE
        BY <2>6 DEF IInv, TypeOK, PolicyTypeOK
      <3>2. EnterProvisioning(mode, FALSE, sta_ready, f, events)
        BY <1>4, <2>2, <2>6, <3>1 DEF BootFallbackWork, f
      <3>3. mode # "provisioning"
        BY <2>2 DEF ViewInv, SettledInv
      <3> QED
        BY <1>0, <2>2, <2>3, <2>4, <3>2, <3>3, OpenedView DEF Queued, apiVars
    <2> QED
      BY <2>5, <2>6
  <1>5. CASE StopApWork
    <2>1. tStopAp # Off
      BY <1>5 DEF StopApWork, Due, Off, tStopAp
    <2>2. /\ api = "idle" /\ mode = "operational" /\ drv_ap = TRUE
          /\ provisioning_active /\ ~ap_start_requested /\ ~Queued("ap_enabled")
      BY <2>1, DueWhen
      DEF ViewInv, SettledInv, Proven, PolicyInv, ApInv, IInv, TypeOK, WifiTypeOK, ApTypeOK
    <2>3. /\ StopAp(events) /\ work' = Cancel(work, {"stop_ap"})
          /\ UNCHANGED <<staVars, mode, blockVars, apiVars>>
      BY <1>5, <2>2 DEF StopApWork, StopProvisioning
    <2>4. tStopAp' = Off
      BY <2>3 DEF Cancel, Works, tStopAp
    <2>5. /\ ap_dhcp_running' = FALSE /\ ap_stop_requested' = TRUE
          /\ ap_start_requested' = FALSE /\ drv_ap' = FALSE
          /\ events' = Append(events, "ap_disabled")
      BY <2>2, <2>3 DEF StopAp
    <2>6. Holds(events', "ap_disabled") /\ ~Holds(events', "ap_enabled")
      <3>1. "ap_disabled" \in EventKinds
        BY DEF EventKinds, ApEventKinds
      <3> QED
        BY <1>0, <2>2, <2>5, <3>1, Raised DEF Queued
    <2>7. ~Proven'
      <3>1. connect_result_sem # 1
        BY <2>2 DEF PolicyInv, BlockInv
      <3> QED
        BY <2>2, <2>3, <2>4, <3>1 DEF Proven, apiVars, blockVars
    <2> QED
      BY <2>2, <2>3, <2>5, <2>6, <2>7 DEF ViewInv, SettledInv, ApViewInv, Queued, apiVars
  <1> QED
    BY <1>1, <1>2, <1>3, <1>4, <1>5 DEF WorkStep

\* A station event is not one of the SoftAP's; those of its start are handled
\* before a link is known, in a POST.
LEMMA StaEventView ==
  ASSUME IInv, ViewInv, NEW up, StaEvent(up)
  PROVE  /\ Tail(events) \in Seq(EventKinds)
         /\ Holds(Tail(events), "ap_enabled") <=> Queued("ap_enabled")
         /\ Holds(Tail(events), "ap_disabled") <=> Queued("ap_disabled")
         /\ ApFirst(events) => ApFirst(Tail(events))
         /\ api = "waiting" /\ sta_link_connected' =>
               sta_link_connected \/ ~Queued("ap_enabled")
         /\ api = "waiting" /\ up = "sta_connected" => ~Queued("ap_enabled")
  <1>1. events # << >> /\ Head(events) \in {"connect_ok", "connect_fail", "disconnected", "ipv4"}
    BY DEF StaEvent, ConnectOk, ConnectFailed, Disconnected, Ipv4Event, IgnoredStaEvent, Pending
  <1>2. events \in Seq(EventKinds)
    BY DEF IInv, TypeOK, WifiTypeOK
  <1>3. api = "waiting" /\ Pending("connect_ok") => ~Queued("ap_enabled")
    BY <1>1, <1>2, Handled DEF ViewInv, SettledInv, Pending, Queued
  <1>4. sta_link_connected' => sta_link_connected \/ Pending("connect_ok")
    BY DEF StaEvent, ConnectOk, ConnectFailed, Disconnected, Ipv4Event, IgnoredStaEvent, staVars
  <1>5. up = "sta_connected" => sta_link_connected \/ Pending("connect_ok")
    BY DEF StaEvent, ConnectOk, ConnectFailed, Disconnected, Ipv4Event, IgnoredStaEvent,
           Notify, MayNotify
  <1>6. /\ Tail(events) \in Seq(EventKinds)
        /\ Holds(Tail(events), "ap_enabled") <=> Queued("ap_enabled")
        /\ Holds(Tail(events), "ap_disabled") <=> Queued("ap_disabled")
        /\ ApFirst(events) => ApFirst(Tail(events))
    BY <1>1, <1>2, Handled DEF Queued
  <1> QED
    BY <1>3, <1>4, <1>5, <1>6 DEF ViewInv, SettledInv

LEMMA HandleStaView ==
  IInv /\ PolicyInv /\ RadioInv /\ ViewInv /\ HandleStaEvent => ViewInv'
  <1> SUFFICES ASSUME IInv, PolicyInv, RadioInv, ViewInv, HandleStaEvent PROVE ViewInv'
    OBVIOUS
  <1> DEFINE q == Tail(events)
  <1>1. PICK up \in {"none", "sta_connected", "sta_disconnected"} :
          StaEvent(up) /\ StaCallback(up, q)
    BY DEF HandleStaEvent
  <1>2. UNCHANGED apiVars
    BY DEF HandleStaEvent
  <1>3. /\ q \in Seq(EventKinds)
        /\ Holds(q, "ap_enabled") <=> Queued("ap_enabled")
        /\ Holds(q, "ap_disabled") <=> Queued("ap_disabled")
        /\ ApFirst(events) => ApFirst(q)
        /\ api = "waiting" /\ sta_link_connected' =>
              sta_link_connected \/ ~Queued("ap_enabled")
        /\ api = "waiting" /\ up = "sta_connected" => ~Queued("ap_enabled")
    BY <1>1, StaEventView
  <1> HIDE DEF q
  <1>4. ASSUME events' = q, UNCHANGED apVars, Proven' => Proven /\ mode' = mode,
               mode' = "provisioning" => drv_ap
        PROVE  ViewInv'
    BY <1>2, <1>3, <1>4, ApViewKept, SettledKept DEF ViewInv, SettledInv, apiVars
  <1>5. CASE NoCallback(q)
    <2>1. events' = q /\ UNCHANGED <<apVars, mode, work, blockVars>>
      BY <1>5 DEF NoCallback, provVars
    <2>2. Proven' => Proven
      BY <1>2, <2>1 DEF Proven, tStopAp, apiVars, blockVars
    <2> QED
      BY <1>4, <2>1, <2>2 DEF ViewInv, SettledInv
  <1>6. CASE up = "sta_connected" /\ StaConnected(q) /\ sta_connect_in_progress
    <2>1. tTimeout # Off
      BY <1>6 DEF PolicyInv, StationInv
    <2>2. mode' = "operational"
      BY <1>6 DEF StaConnected
    <2>3. CASE blocking_connect_active
      <3>1. events' = q /\ UNCHANGED apVars
        BY <1>6, <2>3 DEF StaConnected
      <3>2. api = "waiting" /\ drv_ap
        BY <2>1, <2>3, DueWhen DEF PolicyInv, ApInv, Attempting
      <3>3. ~Queued("ap_enabled") /\ ~ap_start_requested
        BY <1>3, <1>6, <3>2 DEF ViewInv, ApViewInv
      <3> QED
        BY <1>2, <1>3, <2>2, <3>1, <3>2, <3>3, ApViewKept
        DEF ViewInv, SettledInv, Queued, apVars, apiVars
    <2>4. CASE ~blocking_connect_active
      <3>1. api = "idle" /\ ~drv_ap /\ ~provisioning_active /\ ~Proven
        BY <2>1, <2>4, DueWhen
        DEF PolicyInv, ApInv, Attempting, ViewInv, SettledInv
      <3>2. events' = q /\ UNCHANGED <<apVars, blockVars>>
        BY <1>6, <2>4, <3>1 DEF StaConnected, StopProvisioning
      <3>3. tStopAp' = tStopAp
        BY <1>6 DEF StaConnected, Cancel, Works, IInv, TypeOK, PolicyTypeOK, WorkType, tStopAp
      <3>4. ~Proven'
        BY <1>2, <3>1, <3>2, <3>3 DEF Proven, apiVars, blockVars
      <3> QED
        BY <1>4, <2>2, <3>2, <3>4
    <2> QED
      BY <2>3, <2>4
  <1>7. CASE /\ StaDisconnected(q)
             /\ ~(provisioning_active /\ ~sta_connect_in_progress)
    <2>1. UNCHANGED blockVars
      BY <1>7 DEF StaDisconnected
    <2>2. drv_ap => Attempting
      BY <1>7 DEF PolicyInv, ApInv, StationInv, Resting
    <2>3. ~Proven
      BY <2>2 DEF Proven, Attempting, ViewInv, SettledInv, PolicyInv, ApInv
    <2>4. ~drv_ap => api \in {"off", "idle"} /\ ~blocking_connect_active
      BY DEF PolicyInv, ApInv, BlockInv
    <2>5. CASE EnterProvisioning(mode, FALSE, FALSE, work, q) /\ ~drv_ap
      <3>1. mode # "provisioning"
        BY <2>5 DEF ViewInv, SettledInv
      <3>2. work \in WorkType /\ work["stop_ap"] = tStopAp /\ api' \in {"off", "idle"}
        BY <1>2, <2>4, <2>5 DEF IInv, TypeOK, PolicyTypeOK, tStopAp, apiVars
      <3> QED
        BY <1>3, <2>1, <2>5, <3>1, <3>2, OpenedView
    <2>6. CASE LeaveRetryToOthers /\ events' = q
      <3>1. UNCHANGED <<apVars, mode, work>>
        BY <2>6 DEF LeaveRetryToOthers
      <3>2. ~Proven'
        BY <1>2, <2>1, <2>3, <3>1 DEF Proven, tStopAp, apiVars, blockVars
      <3> QED
        BY <1>4, <2>6, <3>1, <3>2 DEF ViewInv, SettledInv
    <2>7. CASE RetrySoon /\ events' = q
      <3>1. UNCHANGED <<apVars, mode>> /\ work' = ScheduleStaConnect(work, RetryDelay)
        BY <2>7 DEF RetrySoon
      <3>2. tStopAp' = tStopAp
        BY <3>1 DEF ScheduleStaConnect, IInv, TypeOK, PolicyTypeOK, WorkType, Works, tStopAp
      <3>3. ~Proven'
        BY <1>2, <2>1, <2>3, <3>2 DEF Proven, apiVars, blockVars
      <3> QED
        BY <1>4, <2>7, <3>1, <3>3 DEF ViewInv, SettledInv
    <2>8. CASE ReconnectLater /\ events' = q
      <3>1. UNCHANGED apVars /\ mode' = "connecting"
            /\ work' = Arm(work, "sta_reconnect", ReconnectDelay)
        BY <2>8 DEF ReconnectLater
      <3>2. tStopAp' = tStopAp
        BY <3>1 DEF Arm, IInv, TypeOK, PolicyTypeOK, WorkType, Works, tStopAp
      <3>3. ~Proven'
        BY <1>2, <2>1, <2>3, <3>2 DEF Proven, apiVars, blockVars
      <3> QED
        BY <1>4, <2>8, <3>1, <3>3
    <2>9. CASE drv_ap /\ EnterProvisioning(mode, FALSE, FALSE, work, q)
      <3>1. /\ events' = q /\ UNCHANGED apVars /\ mode' = mode /\ work' = work
        BY <2>9 DEF EnterProvisioning, PolicyInv, ApInv
      <3>2. ~Proven'
        BY <1>2, <2>1, <2>3, <3>1 DEF Proven, tStopAp, apiVars, blockVars
      <3> QED
        BY <1>4, <3>1, <3>2 DEF ViewInv, SettledInv
    <2> QED
      BY <1>7, <2>5, <2>6, <2>7, <2>8, <2>9 DEF StaDisconnected
  <1>8. CASE up = "sta_connected" /\ StaConnected(q) /\ ~sta_connect_in_progress
    BY <1>5, <1>8 DEF StaConnected
  <1>9. CASE /\ StaDisconnected(q)
             /\ provisioning_active /\ ~sta_connect_in_progress
    BY <1>5, <1>9 DEF StaDisconnected
  <1> QED
    BY <1>1, <1>5, <1>6, <1>7, <1>8, <1>9 DEF StaCallback

\* The events of the SoftAP.
LEMMA HandleApView ==
  IInv /\ PolicyInv /\ ViewInv /\ HandleApEvent => ViewInv'
  <1> SUFFICES ASSUME IInv, PolicyInv, ViewInv, HandleApEvent PROVE ViewInv'
    OBVIOUS
  <1> DEFINE q == Tail(events)
  <1>1. PICK up \in {"none", "ap_started", "ap_stopped"} : ApEvent(up) /\ ApCallback(up)
    BY DEF HandleApEvent
  <1>2. /\ events' = q /\ UNCHANGED <<staVars, apiVars, blockVars, work>>
    BY <1>1 DEF HandleApEvent, ApCallback
  <1>3. /\ \A e : Queued(e) <=> Holds(q, e) \/ Pending(e)
        /\ ApFirst(events) => ApFirst(q)
        /\ events # << >>
    <2>1. events \in Seq(EventKinds) /\ events # << >>
      BY <1>1 DEF ApEvent, ApEnabled, ApDisabled, IgnoredApEvent, Pending, IInv, TypeOK,
                  WifiTypeOK
    <2> QED
      BY <2>1, Handled DEF Queued, Pending
  <1> HIDE DEF q
  <1>4. Proven' <=> Proven
    BY <1>2 DEF Proven, tStopAp, apiVars, blockVars
  <1>5. UNCHANGED <<api, sta_link_connected>>
    BY <1>2 DEF staVars, apiVars
  <1>6. CASE ApEnabled(up)
    <2>1. /\ Pending("ap_enabled") /\ ap_start_requested /\ up = "ap_started"
          /\ ap_start_requested' = FALSE /\ ap_active' = TRUE
          /\ drv_ap' = drv_ap
      BY <1>6 DEF ApEnabled
    <2>2. drv_ap
      BY <1>3, <2>1 DEF ViewInv, ApViewInv
    <2>3. ~Proven
      BY <2>1 DEF ViewInv, SettledInv
    <2> QED
      BY <1>2, <1>3, <1>4, <1>5, <2>1, <2>2, <2>3 DEF ViewInv, SettledInv, ApViewInv, Queued
  <1>7. CASE ApDisabled(up)
    <2>1. /\ ap_stop_requested /\ up = "ap_stopped"
          /\ ap_start_requested' = FALSE /\ ap_active' = FALSE /\ ap_dhcp_running' = FALSE
          /\ drv_ap' = drv_ap
      BY <1>7 DEF ApDisabled
    <2>2. ~drv_ap
      BY <2>1 DEF PolicyInv, ApInv
    <2>3. ~Proven
      BY <2>2 DEF ViewInv, SettledInv
    <2>4. mode' = mode
      BY <1>1, <2>1 DEF ApCallback
    <2> QED
      BY <1>2, <1>3, <1>4, <1>5, <2>1, <2>2, <2>3, <2>4
      DEF ViewInv, SettledInv, ApViewInv, Queued
  <1>8. CASE IgnoredApEvent(up)
    <2>1. /\ UNCHANGED apVars /\ up = "none"
          /\ \/ Pending("ap_enabled") /\ ~ap_start_requested
             \/ Pending("ap_disabled") /\ ~ap_stop_requested
      BY <1>8 DEF IgnoredApEvent
    <2>2. mode' = mode
      BY <1>1, <2>1 DEF ApCallback
    <2>3. /\ Pending("ap_enabled") => ~Pending("ap_disabled")
      BY DEF Pending
    <2> QED
      BY <1>2, <1>3, <1>4, <1>5, <2>1, <2>2, <2>3
      DEF ViewInv, SettledInv, ApViewInv, Queued, apVars
  <1> QED
    BY <1>1, <1>6, <1>7, <1>8 DEF ApEvent

LEMMA StartView ==
  IInv /\ PolicyInv /\ RadioInv /\ ViewInv /\ Start => ViewInv'
  <1> SUFFICES ASSUME IInv, PolicyInv, RadioInv, ViewInv, Start PROVE ViewInv'
    OBVIOUS
  <1>1. /\ api = "off" /\ api' = "idle" /\ UNCHANGED <<staVars, blockVars>>
        /\ mode = "boot" /\ ~drv_ap /\ ~provisioning_active
        /\ sta_connect_in_progress = FALSE
    BY DEF Start, PolicyInv, OffInv, ApInv, IInv, TypeOK, PolicyTypeOK
  <1>2. work \in WorkType /\ work["stop_ap"] = tStopAp /\ events \in Seq(EventKinds)
    BY DEF IInv, TypeOK, WifiTypeOK, PolicyTypeOK, tStopAp
  <1>3. CASE config = NoCfg
    <2>1. EnterProvisioning(mode, FALSE, sta_ready, work, events)
      BY <1>1, <1>3 DEF Start
    <2> QED
      BY <1>1, <1>2, <2>1, OpenedView DEF Queued
  <1>4. CASE config # NoCfg
    <2>1. /\ mode' = "connecting" /\ UNCHANGED <<apVars, events>>
          /\ work' = ScheduleStaConnect(Arm(work, "boot_fallback_ap", FallbackDelay), 0)
      BY <1>4 DEF Start
    <2>2. tStopAp' = tStopAp
      BY <1>2, <2>1 DEF ScheduleStaConnect, Arm, WorkType, Works, tStopAp
    <2>3. ~Proven /\ connect_result_sem # 1
      BY <1>1 DEF ViewInv, SettledInv, PolicyInv, BlockInv
    <2>4. ~Proven'
      BY <1>1, <2>2, <2>3 DEF Proven, blockVars
    <2> QED
      BY <1>1, <2>1, <2>4, ApViewKept, SettledKept DEF ViewInv, SettledInv, Queued
  <1> QED
    BY <1>3, <1>4

LEMMA ApiView ==
  IInv /\ PolicyInv /\ RadioInv /\ ViewInv /\ (ClientStep \/ ApiStep) => ViewInv'
  <1> SUFFICES ASSUME IInv, PolicyInv, RadioInv, ViewInv, ClientStep \/ ApiStep PROVE ViewInv'
    OBVIOUS
  <1>1. CASE ClientStep
    <2>1. /\ api = "idle" /\ api' \in {"cancelled", "reset_cancelled"}
          /\ UNCHANGED <<wifiVars, mode, blockVars>> /\ work' = CancelAll(work)
      BY <1>1 DEF ClientStep, PostWifi, ResetPost
    <2>2. tStopAp' = Off
      BY <2>1 DEF CancelAll, Cancel, Works, tStopAp
    <2>3. Proven' => Proven
      BY <2>1, <2>2 DEF Proven, blockVars
    <2> QED
      BY <2>1, <2>3, ViewUntouched DEF wifiVars, staVars
  <1>2. CASE PostDisconnect \/ ResetClear
    <2>1. /\ DisconnectSta /\ events' = AfterDisconnect /\ UNCHANGED <<apVars, provVars>>
          /\ api' \notin {"waiting", "saving", "saved"}
      BY <1>2, ResetKeepsAp DEF PostDisconnect
    <2>2. Proven' => Proven
      BY <2>1 DEF Proven, tStopAp, provVars, blockVars
    <2> QED
      BY <2>1, <2>2, DisconnectRaised, ApViewKept, SettledKept
      DEF ViewInv, SettledInv, provVars
  <1>3. CASE PostBegin
    <2>1. /\ api = "settling" /\ api_timer = 0 /\ api' = "waiting" /\ connect_result_sem' = 0
          /\ UNCHANGED <<wifiVars, mode>> /\ work' = ScheduleStaConnect(work, 0)
      BY <1>3 DEF PostBegin
    <2>2. tStopAp' = tStopAp
      BY <2>1 DEF ScheduleStaConnect, IInv, TypeOK, PolicyTypeOK, WorkType, Works, tStopAp
    <2>3. Proven' => Proven
      BY <2>1, <2>2 DEF Proven
    <2>4. ~Queued("connect_ok") /\ ~sta_link_connected
      BY <2>1, DelayOrder DEF RadioInv
    <2>5. ApFirst(events)
      BY <2>4 DEF ApFirst, Queued, Holds
    <2> QED
      BY <2>1, <2>3, <2>4, <2>5, ApViewKept, SettledKept
      DEF ViewInv, SettledInv, Queued, wifiVars, staVars
  <1>4. CASE PostResult \/ PostSave \/ PostReply \/ ResetFlags
    <2>1. UNCHANGED <<wifiVars, mode>> /\ api' # "waiting"
      BY <1>4 DEF PostResult, PostSave, PostReply, ResetFlags, provVars
    <2>2. Proven' => Proven
      <3>1. CASE PostResult
        BY <3>1 DEF PostResult, Proven, tStopAp
      <3>2. CASE PostSave \/ PostReply
        BY <3>2 DEF PostSave, PostReply, Proven
      <3>3. CASE ResetFlags
        BY <3>3 DEF ResetFlags, Proven, tStopAp, blockVars
      <3> QED
        BY <1>4, <3>1, <3>2, <3>3
    <2> QED
      BY <2>1, <2>2, ViewUntouched DEF wifiVars, staVars
  <1> QED
    BY <1>1, <1>2, <1>3, <1>4, NeverExpires DEF ApiStep

LEMMA DriverView == IInv /\ ViewInv /\ Driver => ViewInv'
  <1> SUFFICES ASSUME IInv, ViewInv, Driver PROVE ViewInv'
    OBVIOUS
  <1>1. UNCHANGED <<provVars, apiVars>> /\ events \in Seq(EventKinds)
    BY DEF Driver, IInv, TypeOK, WifiTypeOK
  <1>2. UNCHANGED <<apVars, staVars>>
    BY DEF Driver, DriverStep, LinkUp, JoinFails, LinkLost, DhcpBound
  <1>3. PICK e \in StaEventKinds : events' = Append(events, e)
    BY DEF Driver, DriverStep, LinkUp, JoinFails, LinkLost, DhcpBound, Raise, StaEventKinds
  <1>4. e \in EventKinds /\ e \notin {"ap_enabled", "ap_disabled"}
    BY DEF EventKinds, StaEventKinds
  <1>5. /\ Holds(events', "ap_enabled") <=> Queued("ap_enabled")
        /\ Holds(events', "ap_disabled") <=> Queued("ap_disabled")
        /\ ApFirst(events) => ApFirst(events')
    BY <1>1, <1>3, <1>4, Raised DEF Queued
  <1>6. Proven' => Proven
    BY <1>1 DEF Proven, tStopAp, provVars, blockVars, apiVars
  <1> QED
    BY <1>1, <1>2, <1>5, <1>6, ApViewKept, SettledKept
    DEF ViewInv, SettledInv, provVars, apiVars, staVars

LEMMA NextView ==
  IInv /\ PolicyInv /\ RadioInv /\ ViewInv /\ [Next]_vars => ViewInv'
  <1> SUFFICES ASSUME IInv, PolicyInv, RadioInv, ViewInv, [Next]_vars PROVE ViewInv'
    OBVIOUS
  <1>1. CASE Tick
    <2>1. UNCHANGED <<wifiVars, mode, blockVars, api>>
      BY <1>1 DEF Tick
    <2>2. tStopAp' # Off => tStopAp # Off
      BY <1>1, Ticked
    <2>3. Proven' => Proven
      BY <2>1, <2>2 DEF Proven, blockVars
    <2> QED
      BY <2>1, <2>3, ViewUntouched DEF wifiVars, staVars
  <1>2. CASE PowerCycle
    <2>1. tStopAp' = Off
      BY <1>2 DEF PowerCycle, Works, tStopAp
    <2>2. /\ api' = "off" /\ connect_result_sem' = 0 /\ mode' = "boot" /\ events' = << >>
          /\ drv_ap' = FALSE /\ ap_dhcp_running' = FALSE /\ ap_active' = FALSE
      BY <1>2 DEF PowerCycle, WifiReset
    <2>3. ~Proven' /\ ~Holds(events', "ap_enabled")
      BY <2>1, <2>2 DEF Proven, Holds
    <2> QED
      BY <2>2, <2>3 DEF ViewInv, SettledInv, ApViewInv, Queued
  <1>3. CASE UNCHANGED vars
    <2>1. UNCHANGED <<wifiVars, mode, work, blockVars, api>>
      BY <1>3 DEF vars, provVars, apiVars
    <2> QED
      BY <2>1, ViewUntouched DEF Proven, tStopAp, wifiVars, staVars, blockVars
  <1> QED
    BY <1>1, <1>2, <1>3, StartView, WorkView, HandleStaView, HandleApView, ApiView, DriverView
    DEF Next, EventStep

-----------------------------------------------------------------------------
(* The results.                                                            *)

LEMMA InitService == Init => ServiceInv
  <1> SUFFICES ASSUME Init PROVE ServiceInv
    OBVIOUS
  <1>1. IInv /\ PolicyInv
    BY InitIInv, InitPolicy
  <1>2. RetryInv
    BY DEF Init, RetryInv
  <1>3. events = << >> /\ Len(events) = 0 /\ connect_result_sem = 0 /\ api = "off"
        /\ drv_sta = "idle" /\ mode = "boot"
        /\ drv_ap = FALSE /\ ap_active = FALSE /\ ap_dhcp_running = FALSE
    BY DEF Init, WifiInit
  <1>4. RadioInv
    BY <1>3 DEF RadioInv, Answered
  <1>5. tStopAp = Off
    BY DEF Init, Works, tStopAp
  <1>6. ~Proven /\ ~Queued("ap_enabled")
    BY <1>3, <1>5 DEF Proven, Queued, Holds
  <1>7. ViewInv
    BY <1>3, <1>6 DEF ViewInv, SettledInv, ApViewInv
  <1> QED
    BY <1>1, <1>2, <1>4, <1>7 DEF ServiceInv

LEMMA NextService == ClientsOnSoftAp /\ ServiceInv /\ [Next]_vars => ServiceInv'
  <1> SUFFICES ASSUME ClientsOnSoftAp, ServiceInv, [Next]_vars PROVE ServiceInv'
    OBVIOUS
  <1>1. IInv /\ RetryInv /\ PolicyInv /\ RadioInv /\ ViewInv /\ BudgetSuffices
    BY DEF ServiceInv, PolicyInv, TimeInv, BudgetSuffices
  <1> QED
    BY <1>1, NextIInv, NextRetry, NextPolicy, NextRadio, NextView DEF ServiceInv

\* The agreements of the three threads hold in every reachable state.
THEOREM ServiceInvariant ==
  ASSUME ClientsOnSoftAp
  PROVE  Spec => []ServiceInv
  <1>1. ServiceInv /\ [Next]_vars => ServiceInv'
    BY NextService
  <1> QED
    BY <1>1, InitService, PTL DEF Spec

\* handle_wifi_post's k_sem_take never times out: the budget it computes covers
\* every attempt with its timeout and its retry delay, however attempts are
\* refused, lost or left unanswered, and no timer of an earlier request or
\* reconnect takes any of it.
THEOREM BudgetSufficesHolds ==
  ASSUME ClientsOnSoftAp
  PROVE  Spec => []BudgetSuffices
  <1>1. ServiceInv => BudgetSuffices
    BY DEF ServiceInv, PolicyInv, TimeInv, BudgetSuffices
  <1> QED
    BY <1>1, ServiceInvariant, PTL

\* So sta_retry_pending never outlives the retry it stands for.
THEOREM RetryAlwaysScheduled ==
  ASSUME ClientsOnSoftAp
  PROVE  Spec => []RetryScheduled
  BY BudgetSufficesHolds, RetryScheduledHolds, PTL

\* No attempt is left without the timeout that ends it.
THEOREM AttemptSupervisedHolds ==
  ASSUME ClientsOnSoftAp
  PROVE  Spec => []AttemptSupervised
  <1>1. ServiceInv => AttemptSupervised
    BY DEF ServiceInv, PolicyInv, StationInv, AttemptSupervised, Armed, tTimeout
  <1> QED
    BY <1>1, ServiceInvariant, PTL

\* The semaphore is given only to the request that waits, a success only after
\* the radio has joined the network posted with this request: neither a link of
\* an earlier attempt nor an event left in the queue is taken for one.
THEOREM ResultIsFreshHolds ==
  ASSUME ClientsOnSoftAp
  PROVE  Spec => []ResultIsFresh
  <1>1. ServiceInv => ResultIsFresh
    <2> SUFFICES ASSUME ServiceInv, connect_result_sem = 1
                 PROVE  /\ api = "waiting"
                        /\ connect_result_success => last_joined = api_cfg
                        /\ ~connect_result_success =>
                              ~blocking_connect_active /\ ~Armed("connect_timeout")
      BY DEF ResultIsFresh
    <2>1. api = "waiting" /\ (~connect_result_success => ~blocking_connect_active)
      BY DEF ServiceInv, PolicyInv, BlockInv
    <2>2. drv_ap /\ ~Attempting
      BY <2>1 DEF ServiceInv, PolicyInv, ApInv, Attempting
    <2>3. tTimeout = Off
      BY <2>2 DEF ServiceInv, PolicyInv, StationInv, Resting
    <2> QED
      BY <2>1, <2>3 DEF ServiceInv, RadioInv, Armed, tTimeout
  <1> QED
    BY <1>1, ServiceInvariant, PTL

\* A client that polls the status and reads "connecting" is not waiting for
\* nothing: an attempt is under way or due, the link is up, or the attempts are
\* used up and the SoftAP is there to come back to, unless its start failed.
THEOREM ConnectingMeansTryingHolds ==
  ASSUME ClientsOnSoftAp
  PROVE  Spec => []ConnectingMeansTrying
  <1>1. ServiceInv => ConnectingMeansTrying
    <2> SUFFICES ASSUME ServiceInv, mode = "connecting", api = "idle"
                 PROVE  \/ sta_connect_in_progress \/ sta_ready
                        \/ Armed("sta_connect") \/ Armed("sta_reconnect")
                        \/ connect_attempt = MaxAttempts /\ (drv_ap \/ ap_start_error)
      BY DEF ConnectingMeansTrying
    <2> QED
      BY DEF ServiceInv, PolicyInv, ModeInv, Attempting, Armed, tConnect, tReconnect
  <1> QED
    BY <1>1, ServiceInvariant, PTL

\* A device in provisioning mode has its SoftAP on the air.
THEOREM ProvisioningModeHasApHolds ==
  ASSUME ClientsOnSoftAp
  PROVE  Spec => []ProvisioningModeHasAp
  <1>1. ServiceInv => ProvisioningModeHasAp
    BY DEF ServiceInv, ViewInv, SettledInv, ProvisioningModeHasAp
  <1> QED
    BY <1>1, ServiceInvariant, PTL

\* However starts and stops of the SoftAP and their events cross, once the
\* queue is empty wifi_manager and provision_module both have it right.
THEOREM ApAgreementHolds ==
  ASSUME ClientsOnSoftAp
  PROVE  Spec => []ApAgreement
  <1>1. ServiceInv => ApAgreement
    <2> SUFFICES ASSUME ServiceInv, events = << >>, ~ap_start_requested
                 PROVE  /\ drv_ap = ap_active /\ drv_ap = provisioning_active
                        /\ ap_dhcp_running => drv_ap
      BY DEF ApAgreement
    <2>1. ~Queued("ap_disabled")
      BY DEF Queued, Holds
    <2>2. drv_ap \in BOOLEAN /\ ap_active \in BOOLEAN /\ ap_dhcp_running \in BOOLEAN
      BY DEF ServiceInv, IInv, TypeOK, WifiTypeOK, ApTypeOK
    <2>3. provisioning_active = drv_ap
      BY DEF ServiceInv, PolicyInv, ApInv
    <2>4. (drv_ap <=> ap_active) /\ (ap_dhcp_running => drv_ap)
      BY <2>1 DEF ServiceInv, ViewInv, ApViewInv
    <2> QED
      BY <2>2, <2>3, <2>4
  <1> QED
    BY <1>1, ServiceInvariant, PTL

-----------------------------------------------------------------------------
(* What the steps do to the service.                                       *)

\* What the client sees of a step of the work queue or of the event thread.
DoorStep ==
    /\ UNCHANGED <<api, api_cfg, config, nvs, last_joined>>
    /\ \/ drv_ap' = drv_ap
       \/ drv_ap' = TRUE /\ api # "off"
       \/ drv_ap = TRUE /\ drv_ap' = FALSE /\ api = "idle"

LEMMA EnterDoor ==
  ASSUME NEW m, NEW p, NEW r, NEW f, NEW q, EnterProvisioning(m, p, r, f, q)
  PROVE  drv_ap' = drv_ap \/ drv_ap' = TRUE
  BY DEF EnterProvisioning, OpenAp, StartAp, apVars

LEMMA FailedDoor ==
  ASSUME NEW n, NEW m, NEW told, NEW f, NEW q, AttemptFailed(n, m, told, f, q)
  PROVE  drv_ap' = drv_ap \/ drv_ap' = TRUE
  BY EnterDoor
  DEF AttemptFailed, AfterLastAttempt, RetryAttempt, TellClient, AwaitNextRound, GiveUp, apVars

\* stop_ap_work_handler closes the SoftAP between requests; no other handler of
\* the work queue closes it.
LEMMA WorkDoor == ServiceInv /\ WorkStep => DoorStep
  <1> SUFFICES ASSUME ServiceInv, WorkStep PROVE DoorStep
    OBVIOUS
  <1>0. IInv /\ PolicyInv
    BY DEF ServiceInv
  <1>1. api # "off"
    <2>1. \E w \in Works : Due(w)
      BY DEF WorkStep, StaConnectWork, NoCredentials, AttemptAccepted, AttemptRejected,
             BeginAttempt, ConnectTimeoutWork, StaReconnectWork, BootFallbackWork, StopApWork,
             Works
    <2> QED
      BY <1>0, <2>1, Running
  <1>2. UNCHANGED <<apiVars, cfgVars>>
    BY DEF WorkStep, StaConnectWork, NoCredentials, AttemptAccepted, AttemptRejected,
           BeginAttempt, ConnectTimeoutWork, StaReconnectWork, BootFallbackWork, StopApWork
  <1>3. CASE StaConnectWork
    <2>1. CASE NoCredentials
      BY <1>1, <1>2, <2>1, EnterDoor
      DEF NoCredentials, DoorStep, apVars, netVars, apiVars, cfgVars
    <2>2. CASE AttemptAccepted
      BY <1>2, <2>2 DEF AttemptAccepted, ConnectSta, DoorStep, apVars, apiVars, cfgVars
    <2>3. CASE AttemptRejected
      <3>1. last_joined' = last_joined
        BY <2>3 DEF AttemptRejected, ConnectSta
      <3>2. drv_ap' = drv_ap \/ drv_ap' = TRUE
        BY <2>3, FailedDoor DEF AttemptRejected
      <3> QED
        BY <1>1, <1>2, <3>1, <3>2 DEF DoorStep, apiVars, cfgVars
    <2> QED
      BY <1>3, <2>1, <2>2, <2>3 DEF StaConnectWork
  <1>4. CASE ConnectTimeoutWork
    <2>1. CASE sta_ready
      BY <1>2, <1>4, <2>1
      DEF ConnectTimeoutWork, DoorStep, wifiVars, apVars, netVars, apiVars, cfgVars
    <2>2. CASE ~sta_ready
      <3>1. last_joined' = last_joined
        BY <1>4, <2>2 DEF ConnectTimeoutWork, DisconnectSta
      <3>2. drv_ap' = drv_ap \/ drv_ap' = TRUE
        BY <1>4, <2>2, FailedDoor DEF ConnectTimeoutWork
      <3> QED
        BY <1>1, <1>2, <3>1, <3>2 DEF DoorStep, apiVars, cfgVars
    <2> QED
      BY <2>1, <2>2
  <1>5. CASE StaReconnectWork \/ BootFallbackWork
    <2>1. last_joined' = last_joined
      BY <1>5 DEF StaReconnectWork, BootFallbackWork, netVars
    <2>2. drv_ap' = drv_ap \/ drv_ap' = TRUE
      BY <1>5, EnterDoor DEF StaReconnectWork, BootFallbackWork, apVars
    <2> QED
      BY <1>1, <1>2, <2>1, <2>2 DEF DoorStep, apiVars, cfgVars
  <1>6. CASE StopApWork
    <2>1. tStopAp # Off
      BY <1>6 DEF StopApWork, Due, Off, tStopAp
    <2>2. api = "idle" /\ drv_ap = TRUE
      BY <1>0, <2>1, DueWhen
      DEF ServiceInv, ViewInv, SettledInv, Proven, IInv, TypeOK, WifiTypeOK, ApTypeOK
    <2>3. last_joined' = last_joined /\ drv_ap' \in {drv_ap, FALSE}
      BY <1>6 DEF StopApWork, StopProvisioning, StopAp, apVars, netVars
    <2> QED
      BY <1>2, <2>2, <2>3 DEF DoorStep, apiVars, cfgVars
  <1> QED
    BY <1>3, <1>4, <1>5, <1>6 DEF WorkStep

\* A connection that succeeds leaves the SoftAP up while a POST waits for it.
LEMMA EventDoor == ServiceInv /\ EventStep => DoorStep
  <1> SUFFICES ASSUME ServiceInv, EventStep PROVE DoorStep
    OBVIOUS
  <1>0. IInv /\ PolicyInv
    BY DEF ServiceInv
  <1>1. UNCHANGED <<apiVars, cfgVars>>
    BY DEF EventStep, HandleStaEvent, HandleApEvent
  <1>2. CASE HandleApEvent
    <2>1. drv_ap' = drv_ap /\ last_joined' = last_joined
      BY <1>2 DEF HandleApEvent, ApEvent, ApEnabled, ApDisabled, IgnoredApEvent, apVars, netVars
    <2> QED
      BY <1>1, <2>1 DEF DoorStep, apiVars, cfgVars
  <1>3. CASE HandleStaEvent
    <2>1. PICK up \in {"none", "sta_connected", "sta_disconnected"} :
            StaEvent(up) /\ StaCallback(up, Tail(events))
      BY <1>3 DEF HandleStaEvent
    <2>2. last_joined' = last_joined /\ api # "off"
      BY <1>0, <2>1, ReadyIsBacked, Running
    <2>3. drv_ap' = drv_ap \/ drv_ap' = TRUE
      <3>1. CASE NoCallback(Tail(events))
        BY <3>1 DEF NoCallback, apVars
      <3>2. CASE StaConnected(Tail(events))
        <4>1. sta_connect_in_progress /\ ~blocking_connect_active => ~provisioning_active
          BY <1>0, DueWhen DEF PolicyInv, StationInv, ApInv
        <4> QED
          BY <3>2, <4>1 DEF StaConnected, StopProvisioning, NoCallback, apVars
      <3>3. CASE StaDisconnected(Tail(events))
        BY <3>3, EnterDoor
        DEF StaDisconnected, NoCallback, LeaveRetryToOthers, RetrySoon, ReconnectLater, apVars
      <3> QED
        BY <2>1, <3>1, <3>2, <3>3 DEF StaCallback
    <2> QED
      BY <1>1, <2>2, <2>3 DEF DoorStep, apiVars, cfgVars
  <1> QED
    BY <1>2, <1>3 DEF EventStep

\* What PostSave writes is what the radio has joined, and nothing else writes.
THEOREM CredentialsProvenHolds ==
  ASSUME ClientsOnSoftAp
  PROVE  Spec => CredentialsProven
  <1>1. ServiceInv /\ [Next]_vars => [nvs' # nvs => nvs' \in {NoCfg, last_joined}]_vars
    <2> SUFFICES ASSUME ServiceInv, Next, nvs' # nvs
                 PROVE  nvs' \in {NoCfg, last_joined}
      OBVIOUS
    <2>1. CASE PostSave
      <3>1. api = "saving" /\ nvs' = api_cfg
        BY <2>1 DEF PostSave
      <3> QED
        BY <3>1 DEF ServiceInv, RadioInv
    <2>2. CASE ResetClear
      BY <2>2 DEF ResetClear
    <2>3. ~(WorkStep \/ EventStep)
      BY WorkDoor, EventDoor DEF DoorStep
    <2>4. ~(Start \/ ClientStep \/ Driver \/ Tick \/ PowerCycle)
      BY DEF Start, ClientStep, PostWifi, ResetPost, Driver, Tick, PowerCycle, cfgVars
    <2>5. ApiStep => PostSave \/ ResetClear
      BY DEF ApiStep, PostDisconnect, PostBegin, PostResult, PostExpires, PostGiveUp, PostReply,
             ResetFlags, cfgVars
    <2> QED
      BY <2>1, <2>2, <2>3, <2>4, <2>5 DEF Next
  <1> QED
    BY <1>1, ServiceInvariant, PTL DEF Spec, CredentialsProven

-----------------------------------------------------------------------------
(* The refinement.                                                         *)

\* Where a request is, for each place the API thread may be at.
LEMMA RequestPlaces ==
  /\ RequestOf("off") = "off" /\ RequestOf("idle") = "none"
  /\ RequestOf("cancelled") = "trying" /\ RequestOf("settling") = "trying"
  /\ RequestOf("waiting") = "trying"
  /\ RequestOf("saving") = "proven" /\ RequestOf("saved") = "kept"
  /\ RequestOf("reset_cancelled") = "resetting"
  /\ RequestOf("reset_cleared") = "resetting"
  BY DEF RequestOf

LEMMA RequestIsUp ==
  ASSUME NEW a \in ApiStates, a # "off"
  PROVE  RequestOf(a) # "off"
  BY DEF RequestOf, ApiStates

\* What the refinement maps the state to.
ServiceStutter == UNCHANGED <<RequestOf(api), api_cfg, config, nvs, last_joined, drv_ap>>

LEMMA InitRefines == Init => Provided!ServiceInit
  BY RequestPlaces DEF Init, WifiInit, Provided!ServiceInit

LEMMA StartRefines == ServiceInv /\ Start => Provided!Boot
  <1> SUFFICES ASSUME ServiceInv, Start PROVE Provided!Boot
    OBVIOUS
  <1>1. /\ api = "off" /\ api' = "idle"
        /\ UNCHANGED <<api_cfg, config, nvs, last_joined>>
    BY DEF Start, cfgVars, netVars
  <1>2. drv_ap' \in BOOLEAN
    <2>1. drv_ap \in BOOLEAN
      BY DEF ServiceInv, IInv, TypeOK, WifiTypeOK, ApTypeOK
    <2>2. drv_ap' = drv_ap \/ drv_ap' = TRUE
      BY EnterDoor DEF Start, apVars
    <2> QED
      BY <2>1, <2>2
  <1> QED
    BY <1>1, <1>2, RequestPlaces DEF Provided!Boot

LEMMA DoorRefines ==
  ServiceInv /\ DoorStep => \/ Provided!OpenDoor \/ Provided!CloseDoor \/ ServiceStutter
  <1> SUFFICES ASSUME ServiceInv, DoorStep
               PROVE  \/ Provided!OpenDoor \/ Provided!CloseDoor \/ ServiceStutter
    OBVIOUS
  <1>1. api \in ApiStates
    BY DEF ServiceInv, IInv, TypeOK, RequestTypeOK
  <1>2. UNCHANGED <<api, api_cfg, config, nvs, last_joined>>
    BY DEF DoorStep
  <1>3. CASE drv_ap' = drv_ap
    BY <1>2, <1>3 DEF ServiceStutter
  <1>4. CASE drv_ap' = TRUE /\ api # "off"
    BY <1>1, <1>2, <1>4, RequestIsUp DEF Provided!OpenDoor
  <1>5. CASE drv_ap = TRUE /\ drv_ap' = FALSE /\ api = "idle"
    BY <1>2, <1>5, RequestPlaces DEF Provided!CloseDoor
  <1> QED
    BY <1>3, <1>4, <1>5 DEF DoorStep

\* The steps of a POST /wifi.
LEMMA PostRefines ==
  ServiceInv /\ (PostDisconnect \/ PostBegin \/ PostResult \/ PostSave \/ PostReply)
    => \/ Provided!Prove \/ Provided!Refuse \/ Provided!Keep \/ Provided!Answer
       \/ ServiceStutter
  <1>1. PostDisconnect \/ PostBegin => ServiceStutter
    BY RequestPlaces
    DEF PostDisconnect, PostBegin, ServiceStutter, DisconnectSta, wifiVars, apVars, netVars,
        cfgVars
  <1>2. ServiceInv /\ PostResult => Provided!Prove \/ Provided!Refuse
    <2> SUFFICES ASSUME ServiceInv, PostResult PROVE Provided!Prove \/ Provided!Refuse
      OBVIOUS
    <2>1. /\ api = "waiting" /\ connect_result_sem = 1
          /\ UNCHANGED <<api_cfg, config, nvs, last_joined, drv_ap>>
      BY DEF PostResult, wifiVars, apVars, netVars, cfgVars
    <2>2. CASE connect_result_success
      <3>1. api' = "saving" /\ last_joined = api_cfg
        BY <2>1, <2>2 DEF PostResult, ServiceInv, RadioInv
      <3> QED
        BY <2>1, <3>1, RequestPlaces DEF Provided!Prove
    <2>3. CASE ~connect_result_success
      <3>1. api' = "idle"
        BY <2>3 DEF PostResult
      <3> QED
        BY <2>1, <3>1, RequestPlaces DEF Provided!Refuse
    <2> QED
      BY <2>2, <2>3
  <1>3. PostSave => Provided!Keep
    <2> SUFFICES ASSUME PostSave PROVE Provided!Keep
      OBVIOUS
    <2>1. /\ api = "saving" /\ config' = api_cfg
          /\ UNCHANGED <<api_cfg, last_joined, drv_ap>>
          /\ \/ api' = "saved" /\ nvs' = api_cfg
             \/ api' = "idle" /\ nvs' = nvs
      BY DEF PostSave, wifiVars, apVars, netVars
    <2> QED
      BY <2>1, RequestPlaces DEF Provided!Keep
  <1>4. PostReply => Provided!Answer
    BY RequestPlaces DEF PostReply, Provided!Answer, wifiVars, apVars, netVars, cfgVars
  <1> QED
    BY <1>1, <1>2, <1>3, <1>4

\* The steps of a reset.
LEMMA ResetRefines ==
  ServiceInv /\ (ResetFlags \/ ResetClear) => Provided!Forget \/ ServiceStutter
  <1>1. ResetFlags => ServiceStutter
    BY RequestPlaces DEF ResetFlags, ServiceStutter, wifiVars, apVars, netVars, cfgVars
  <1>2. ServiceInv /\ ResetClear => Provided!Forget
    <2> SUFFICES ASSUME ServiceInv, ResetClear PROVE Provided!Forget
      OBVIOUS
    <2>1. /\ api = "reset_cleared" /\ api' = "idle" /\ config' = NoCfg
          /\ nvs' \in {NoCfg, nvs}
          /\ UNCHANGED <<api_cfg, last_joined, drv_ap>>
      BY ResetKeepsAp DEF ServiceInv, DisconnectSta, apVars, netVars
    <2> QED
      BY <2>1, RequestPlaces DEF Provided!Forget
  <1> QED
    BY <1>1, <1>2

LEMMA ClientRefines ==
  ClientStep => Provided!Reset \/ \E cfg \in Cfgs : Provided!Submit(cfg)
  <1>1. ResetPost => Provided!Reset
    BY RequestPlaces DEF ResetPost, Provided!Reset, wifiVars, apVars, netVars, cfgVars
  <1>2. ASSUME NEW cfg \in Cfgs, PostWifi(cfg) PROVE Provided!Submit(cfg)
    BY <1>2, RequestPlaces DEF PostWifi, Provided!Submit, wifiVars, apVars, netVars, cfgVars
  <1> QED
    BY <1>1, <1>2 DEF ClientStep

LEMMA DriverRefines == ServiceInv /\ Driver => Provided!Join \/ ServiceStutter
  <1> SUFFICES ASSUME ServiceInv, Driver PROVE Provided!Join \/ ServiceStutter
    OBVIOUS
  <1>1. UNCHANGED <<api, api_cfg, config, nvs, drv_ap>>
    BY DEF Driver, DriverStep, LinkUp, JoinFails, LinkLost, DhcpBound, apVars, apiVars, cfgVars
  <1>2. CASE LinkUp
    <2>1. last_joined' \in Cfgs
      BY <1>2 DEF LinkUp, ServiceInv, RadioInv
    <2> QED
      BY <1>1, <2>1 DEF Provided!Join
  <1>3. CASE JoinFails \/ LinkLost \/ DhcpBound
    BY <1>1, <1>3 DEF JoinFails, LinkLost, DhcpBound, ServiceStutter, netVars
  <1> QED
    BY <1>2, <1>3 DEF Driver, DriverStep

\* Every step of the three threads is a step of the service or leaves it as
\* it is.
LEMMA NextRefines == ServiceInv /\ [Next]_vars => [Provided!ServiceNext]_(Provided!service)
  <1> SUFFICES ASSUME ServiceInv, [Next]_vars
               PROVE  Provided!ServiceNext \/ ServiceStutter
    BY DEF ServiceStutter, Provided!service
  <1> USE DEF Provided!ServiceNext
  <1>1. CASE Start
    BY <1>1, StartRefines
  <1>2. CASE WorkStep \/ EventStep
    BY <1>2, WorkDoor, EventDoor, DoorRefines
  <1>3. CASE ClientStep
    BY <1>3, ClientRefines
  <1>4. CASE ApiStep
    <2>1. ~PostExpires /\ ~PostGiveUp
      BY NeverExpires DEF ServiceInv
    <2> QED
      BY <1>4, <2>1, PostRefines, ResetRefines DEF ApiStep
  <1>5. CASE Driver
    BY <1>5, DriverRefines
  <1>6. CASE Tick \/ UNCHANGED vars
    BY <1>6
    DEF Tick, ServiceStutter, vars, wifiVars, apVars, netVars, apiVars, cfgVars
  <1>7. CASE PowerCycle
    BY <1>7, RequestPlaces DEF PowerCycle, WifiReset, Provided!Fall
  <1> QED
    BY <1>1, <1>2, <1>3, <1>4, <1>5, <1>6, <1>7 DEF Next

\* For clients on the SoftAP the work queue, the event thread and the API
\* thread together are the service a client was promised: whatever comes
\* between their steps, a request is taken up, tried, proven by a join with its
\* own credentials, kept and answered with the SoftAP open all the while.
THEOREM ImplementsServiceHolds ==
  ASSUME ClientsOnSoftAp
  PROVE  Spec => ImplementsService
  <1> QED
    BY ServiceInvariant, InitRefines, NextRefines, PTL
    DEF Spec, ImplementsService, Provided!Service
=============================================================================
