-------------------------- MODULE ProvisionProofs --------------------------
(***************************************************************************)
(* What TLAPS proves about Provision for every set of configurations,      *)
(* every delay, every number of attempts and every choice of faults: the   *)
(* type invariant and the attempt budget.                                  *)
(***************************************************************************)
EXTENDS ProvisionProperties, SequenceTheorems, TLAPS

-----------------------------------------------------------------------------
(* The link layer: each request and each event handler of WifiManager      *)
(* keeps the part of the type invariant that it can disturb.               *)

\* The net_mgmt queue stays a queue of events when one is raised or handled.
LEMMA QueueType ==
  ASSUME NEW q \in Seq(EventKinds)
  PROVE  /\ \A e \in EventKinds : Append(q, e) \in Seq(EventKinds)
         /\ q # << >> => Tail(q) \in Seq(EventKinds)
  OBVIOUS

\* wifi_manager_init leaves well-typed flags.
LEMMA WifiInitType == WifiInit => WifiTypeOK
  <1>1. << >> \in Seq(EventKinds) BY EmptySeq
  <1> QED BY <1>1 DEF WifiInit, WifiTypeOK, StaTypeOK, ApTypeOK, LinkStates

\* So does a reset of the chip.
LEMMA WifiResetType == WifiReset => WifiTypeOK'
  <1>1. << >> \in Seq(EventKinds) BY EmptySeq
  <1> QED BY <1>1 DEF WifiReset, WifiTypeOK, StaTypeOK, ApTypeOK, LinkStates

\* The types survive a step that leaves the flags alone.
LEMMA StaUnchangedType ==
  StaTypeOK /\ UNCHANGED <<staVars, netVars>> => StaTypeOK'
  BY DEF StaTypeOK, staVars, netVars

\* The same of the SoftAP flags.
LEMMA ApUnchangedType == ApTypeOK /\ UNCHANGED apVars => ApTypeOK'
  BY DEF ApTypeOK, apVars

\* wifi_manager_connect_sta, accepted or refused.
LEMMA ConnectStaType ==
  ASSUME StaTypeOK, NEW cfg \in Cfgs, NEW accepted, ConnectSta(cfg, accepted)
  PROVE  StaTypeOK'
  BY DEF StaTypeOK, ConnectSta, ClearStaIpv4, LinkStates

\* wifi_manager_disconnect_sta and the queue it leaves.
LEMMA DisconnectStaType ==
  ASSUME StaTypeOK, events \in Seq(EventKinds), DisconnectSta
  PROVE  StaTypeOK' /\ AfterDisconnect \in Seq(EventKinds)
  <1>1. StaTypeOK' BY DEF StaTypeOK, DisconnectSta, ClearStaIpv4
  <1>2. AfterDisconnect \in Seq(EventKinds)
    BY QueueType DEF AfterDisconnect, EventKinds, StaEventKinds
  <1> QED BY <1>1, <1>2

\* wifi_manager_start_ap.
LEMMA StartApType ==
  ASSUME ApTypeOK, NEW q \in Seq(EventKinds), NEW ok, StartAp(q, ok)
  PROVE  ApTypeOK' /\ events' \in Seq(EventKinds)
  <1>1. Append(q, "ap_enabled") \in Seq(EventKinds)
    BY QueueType DEF EventKinds, ApEventKinds
  <1> QED BY <1>1 DEF ApTypeOK, StartAp

\* wifi_manager_stop_ap.
LEMMA StopApType ==
  ASSUME ApTypeOK, NEW q \in Seq(EventKinds), StopAp(q)
  PROVE  ApTypeOK' /\ events' \in Seq(EventKinds)
  <1>1. Append(q, "ap_disabled") \in Seq(EventKinds)
    BY QueueType DEF EventKinds, ApEventKinds
  <1> QED BY <1>1 DEF ApTypeOK, StopAp

\* wifi_manager_notify_sta_ready.
LEMMA NotifyType ==
  ASSUME StaTypeOK, NEW ip \in BOOLEAN, NEW other \in LinkStates, NEW up,
         Notify(ip, other, up)
  PROVE  sta_ready_notified' \in BOOLEAN /\ link_state' \in LinkStates
  <1>1. sta_ready_notified' \in BOOLEAN
    BY Zenon DEF StaTypeOK, Notify, MayNotify
  <1>2. link_state' \in LinkStates BY DEF StaTypeOK, Notify, LinkStates
  <1> QED BY <1>1, <1>2

\* The two ways a link comes up, with a static address or with DHCP.
LEMMA LinkUpType ==
  ASSUME StaTypeOK, NEW up, StaticLinkUp(up) \/ DhcpLinkUp(up)
  PROVE  /\ sta_ready_notified' \in BOOLEAN /\ link_state' \in LinkStates
         /\ sta_ip' \in BOOLEAN /\ dhcp_on' \in BOOLEAN
  <1>1. CASE StaticLinkUp(up)
    <2>1. CASE sta_ip' = TRUE /\ Notify(TRUE, link_state, up)
      BY <1>1, <2>1, NotifyType DEF StaTypeOK, StaticLinkUp
    <2>2. CASE /\ sta_ip' \in {sta_ip, TRUE}
               /\ link_state' = "connected_no_ip"
               /\ UNCHANGED sta_ready_notified
      BY <1>1, <2>2 DEF StaTypeOK, StaticLinkUp, LinkStates
    <2> QED BY <1>1, <2>1, <2>2 DEF StaticLinkUp
  <1>2. CASE DhcpLinkUp(up)
    <2>1. CASE Notify(sta_ip, "connected_no_ip", up) /\ UNCHANGED dhcp_on
      BY <1>2, <2>1, NotifyType DEF StaTypeOK, DhcpLinkUp, LinkStates
    <2>2. CASE /\ dhcp_on' = TRUE
               /\ link_state' = "connected_no_ip"
               /\ UNCHANGED sta_ready_notified
      BY <1>2, <2>2 DEF StaTypeOK, DhcpLinkUp, LinkStates
    <2> QED BY <1>2, <2>1, <2>2 DEF DhcpLinkUp
  <1> QED BY <1>1, <1>2

\* Every handler of a station event.
LEMMA StaEventType ==
  ASSUME StaTypeOK, NEW up, StaEvent(up)
  PROVE  StaTypeOK'
  <1>1. CASE ConnectOk(up)
    BY <1>1, LinkUpType DEF ConnectOk, StaTypeOK
  <1>2. CASE ConnectFailed(up)
    BY <1>2 DEF ConnectFailed, StaTypeOK, netVars, LinkStates
  <1>3. CASE Disconnected(up)
    BY <1>3 DEF Disconnected, ClearStaIpv4, StaTypeOK, LinkStates
  <1>4. CASE Ipv4Event(up)
    <2>1. sta_ready_notified' \in BOOLEAN /\ link_state' \in LinkStates
      <3>1. (sta_ip /\ sta_link_connected) \in BOOLEAN OBVIOUS
      <3> QED BY <1>4, <3>1, NotifyType DEF Ipv4Event, StaTypeOK
    <2>2. sta_ipv4_seen_before_link' \in BOOLEAN
      BY <1>4, Zenon DEF Ipv4Event, StaTypeOK
    <2> QED BY <1>4, <2>1, <2>2 DEF Ipv4Event, StaTypeOK, netVars
  <1>5. CASE IgnoredStaEvent(up)
    BY <1>5, StaUnchangedType DEF IgnoredStaEvent
  <1> QED BY <1>1, <1>2, <1>3, <1>4, <1>5 DEF StaEvent

\* Every handler of a SoftAP event.
LEMMA ApEventType ==
  ASSUME ApTypeOK, NEW up, ApEvent(up)
  PROVE  ApTypeOK'
  BY DEF ApTypeOK, ApEvent, ApEnabled, ApDisabled, IgnoredApEvent, apVars

\* An event is only handled when one is queued.
LEMMA EventQueued ==
  ASSUME NEW up, StaEvent(up) \/ ApEvent(up)
  PROVE  events # << >>
  BY DEF StaEvent, ApEvent, ConnectOk, ConnectFailed, Disconnected, Ipv4Event,
         IgnoredStaEvent, ApEnabled, ApDisabled, IgnoredApEvent, Pending

\* The steps of the driver and of the DHCP client.
LEMMA DriverStepType ==
  ASSUME WifiTypeOK, DriverStep
  PROVE  WifiTypeOK'
  <1> USE DEF WifiTypeOK, Raise, EventKinds, StaEventKinds
  <1>1. CASE LinkUp
    BY <1>1, QueueType, ApUnchangedType DEF LinkUp, StaTypeOK, staVars
  <1>2. CASE JoinFails
    BY <1>2, QueueType, ApUnchangedType DEF JoinFails, StaTypeOK, staVars
  <1>3. CASE LinkLost
    BY <1>3, QueueType, ApUnchangedType DEF LinkLost, StaTypeOK, staVars
  <1>4. CASE DhcpBound
    BY <1>4, QueueType, ApUnchangedType DEF DhcpBound, StaTypeOK, staVars
  <1> QED BY <1>1, <1>2, <1>3, <1>4 DEF DriverStep

-----------------------------------------------------------------------------
(* The policy.                                                             *)

\* The inductive form of AttemptBudget: until main starts the module, which
\* schedules the first attempt without looking at the counter, the counter is
\* zero and nothing is scheduled, queued or under way that could raise it.
AtRest ==
    /\ connect_attempt = 0 /\ \A w \in Works : ~Armed(w)
    /\ events = << >> /\ drv_sta = "idle"

BudgetInv == AttemptBudget /\ (api = "off" => AtRest)

IInv == TypeOK /\ BudgetInv

-----------------------------------------------------------------------------
(* Work items.                                                             *)

\* Cancelling and arming give work items again, and say what becomes of
\* sta_connect_work.
LEMMA CancelType ==
  ASSUME NEW f \in WorkType, NEW S
  PROVE  /\ Cancel(f, S) \in WorkType
         /\ Cancel(f, S)["sta_connect"] # Off => f["sta_connect"] # Off
         /\ "sta_connect" \in S => Cancel(f, S)["sta_connect"] = Off
         /\ "sta_connect" \notin S => Cancel(f, S)["sta_connect"] = f["sta_connect"]
  BY DEF Cancel, WorkType, Works, Off

\* k_work_reschedule of one item leaves the others alone.
LEMMA ArmType ==
  ASSUME NEW f \in WorkType, NEW w \in Works, NEW d \in Nat
  PROVE  /\ Arm(f, w, d) \in WorkType
         /\ w # "sta_connect" => Arm(f, w, d)["sta_connect"] = f["sta_connect"]
  BY DEF Arm, WorkType, Works, Off

\* So does schedule_sta_connect, which also arms the timeout of the attempt.
LEMMA ScheduleType ==
  ASSUME NEW f \in WorkType, NEW d \in Nat
  PROVE  ScheduleStaConnect(f, d) \in WorkType
  BY ProvisionAssumption DEF ScheduleStaConnect, WorkType, Works, Off

\* The constants are natural numbers, and one attempt is always allowed.
LEMMA Delays ==
  /\ MaxAttempts \in Nat /\ 0 < MaxAttempts
  /\ RetryDelay \in Nat /\ ReconnectDelay \in Nat /\ FallbackDelay \in Nat
  /\ ApStopDelay \in Nat /\ SettleDelay \in Nat /\ Margin \in Nat
  /\ BlockingBudget \in Nat
  <1>1. /\ MaxAttempts \in Nat /\ 0 < MaxAttempts /\ ConnectTimeout \in Nat
        /\ RetryDelay \in Nat /\ ReconnectDelay \in Nat /\ FallbackDelay \in Nat
        /\ ApStopDelay \in Nat /\ SettleDelay \in Nat /\ Margin \in Nat
    BY ProvisionAssumption
  <1>2. MaxAttempts * (ConnectTimeout + RetryDelay) \in Nat
    BY <1>1
  <1> QED BY <1>1, <1>2 DEF BlockingBudget

\* The three ways in which a step keeps the budget.
LEMMA BudgetKept ==
  ASSUME AttemptBudget, UNCHANGED connect_attempt,
         work'["sta_connect"] # Off => work["sta_connect"] # Off
  PROVE  AttemptBudget'
  BY DEF AttemptBudget, Armed

\* A handler that zeroes the counter may schedule what it likes.
LEMMA BudgetReset == connect_attempt' = 0 => AttemptBudget'
  BY Delays DEF AttemptBudget

\* So may one that leaves nothing scheduled.
LEMMA BudgetSpent ==
  ASSUME connect_attempt' \in Nat, connect_attempt' <= MaxAttempts,
         work'["sta_connect"] # Off => connect_attempt' < MaxAttempts
  PROVE  AttemptBudget'
  BY DEF AttemptBudget, Armed

\* Before main has started the module there is nothing to handle.
LEMMA Running ==
  ASSUME IInv, \/ \E w \in Works : Due(w)
               \/ events # << >>
               \/ drv_sta # "idle"
  PROVE  api # "off"
  BY DEF IInv, BudgetInv, AtRest, Due, Armed, Off

-----------------------------------------------------------------------------
(* The shared operators.                                                   *)

\* enter_provisioning_mode keeps the types and never schedules an attempt.
LEMMA EnterProvisioningType ==
  ASSUME ApTypeOK, provisioning_active \in BOOLEAN,
         NEW m \in Modes, NEW progress \in BOOLEAN, NEW ready \in BOOLEAN,
         NEW f \in WorkType, NEW q \in Seq(EventKinds),
         EnterProvisioning(m, progress, ready, f, q)
  PROVE  /\ ApTypeOK' /\ events' \in Seq(EventKinds)
         /\ mode' \in Modes /\ provisioning_active' \in BOOLEAN
         /\ sta_connect_in_progress' \in BOOLEAN /\ sta_ready' \in BOOLEAN
         /\ work' \in WorkType
         /\ work'["sta_connect"] = f["sta_connect"]
  <1>1. CASE provisioning_active
    BY <1>1, ApUnchangedType DEF EnterProvisioning
  <1>2. CASE ~provisioning_active
    <2> DEFINE keep == progress /\ ~ready
               S == {"boot_fallback_ap"} \cup
                    IF keep THEN {} ELSE {"connect_timeout"}
    <2>1. PICK ok \in BOOLEAN :
             /\ StartAp(q, ok)
             /\ provisioning_active' = ok
             /\ mode' = IF ok /\ ~keep THEN "provisioning" ELSE m
      BY <1>2 DEF EnterProvisioning, OpenAp
    <2>2. ApTypeOK' /\ events' \in Seq(EventKinds)
      BY <2>1, StartApType
    <2>3. mode' \in Modes
      BY <2>1 DEF Modes
    <2>4. sta_connect_in_progress' \in BOOLEAN /\ sta_ready' \in BOOLEAN
      <3>1. keep \in BOOLEAN OBVIOUS
      <3> QED BY <1>2, <3>1 DEF EnterProvisioning
    <2>5. work' = Cancel(f, S)
      BY <1>2 DEF EnterProvisioning
    <2>6. "sta_connect" \notin S OBVIOUS
    <2> HIDE DEF S, keep
    <2> QED BY <2>1, <2>2, <2>3, <2>4, <2>5, <2>6, CancelType
  <1> QED BY <1>1, <1>2

\* stop_provisioning_mode.
LEMMA StopProvisioningType ==
  ASSUME ApTypeOK, provisioning_active \in BOOLEAN,
         NEW q \in Seq(EventKinds), StopProvisioning(q)
  PROVE  /\ ApTypeOK' /\ events' \in Seq(EventKinds)
         /\ provisioning_active' \in BOOLEAN
  BY StopApType, ApUnchangedType DEF StopProvisioning

\* What follows a failed attempt n: the types are kept, and an attempt is
\* scheduled only while the budget lasts.
LEMMA AttemptFailedType ==
  ASSUME TypeOK, NEW n \in Nat, n <= MaxAttempts,
         NEW m \in Modes, NEW told \in Modes, NEW f \in WorkType,
         NEW q \in Seq(EventKinds),
         f["sta_connect"] # Off => n < MaxAttempts,
         AttemptFailed(n, m, told, f, q)
  PROVE  /\ ApTypeOK' /\ events' \in Seq(EventKinds)
         /\ mode' \in Modes /\ provisioning_active' \in BOOLEAN
         /\ sta_connect_in_progress' \in BOOLEAN /\ sta_ready' \in BOOLEAN
         /\ connect_attempt' \in Nat /\ work' \in WorkType
         /\ blocking_connect_active' \in BOOLEAN
         /\ connect_result_success' \in BOOLEAN
         /\ connect_result_sem' \in {0, 1}
         /\ AttemptBudget'
  <1>0. /\ ApTypeOK /\ provisioning_active \in BOOLEAN /\ sta_ready \in BOOLEAN
        /\ blocking_connect_active \in BOOLEAN
        /\ connect_result_success \in BOOLEAN
        /\ connect_result_sem \in {0, 1}
    BY DEF TypeOK, WifiTypeOK, PolicyTypeOK, RequestTypeOK
  <1>1. CASE n < MaxAttempts /\ RetryAttempt(n, m, f, q)
    <2>1. work' \in WorkType
      BY <1>1, Delays, ScheduleType DEF RetryAttempt
    <2>2. AttemptBudget'
      BY <1>1, BudgetSpent DEF RetryAttempt
    <2> QED BY <1>0, <1>1, <2>1, <2>2, ApUnchangedType DEF RetryAttempt, blockVars
  <1>2. CASE n >= MaxAttempts /\ TellClient(n, told, f, q)
    <2>1. AttemptBudget'
      BY <1>2, BudgetSpent DEF TellClient
    <2> QED BY <1>0, <1>2, <2>1, ApUnchangedType DEF TellClient, SignalFailure
  <1>3. CASE n >= MaxAttempts /\ AwaitNextRound(m, f, q)
    <2>1. work' \in WorkType
      BY <1>3, Delays, ArmType DEF AwaitNextRound, Works
    <2>2. AttemptBudget'
      BY <1>3, BudgetReset DEF AwaitNextRound
    <2> QED BY <1>0, <1>3, <2>1, <2>2, ApUnchangedType
            DEF AwaitNextRound, blockVars
  <1>4. CASE n >= MaxAttempts /\ GiveUp(n, m, f, q)
    <2>1. EnterProvisioning(m, FALSE, sta_ready, f, q)
      BY <1>4 DEF GiveUp
    <2>2. /\ ApTypeOK' /\ events' \in Seq(EventKinds)
          /\ mode' \in Modes /\ provisioning_active' \in BOOLEAN
          /\ sta_connect_in_progress' \in BOOLEAN /\ sta_ready' \in BOOLEAN
          /\ work' \in WorkType
          /\ work'["sta_connect"] # Off => f["sta_connect"] # Off
      BY <1>0, <2>1, EnterProvisioningType
    <2>3. AttemptBudget'
      BY <1>4, <2>2, BudgetSpent DEF GiveUp
    <2> QED BY <1>0, <1>4, <2>2, <2>3 DEF GiveUp, blockVars
  <1> QED BY <1>1, <1>2, <1>3, <1>4 DEF AttemptFailed, AfterLastAttempt

-----------------------------------------------------------------------------
(* The work handlers.                                                      *)

\* main starts the module with the counter at zero.
LEMMA StartStep == IInv /\ Start => IInv'
  <1> SUFFICES ASSUME IInv, Start PROVE IInv'
    OBVIOUS
  <1>1. /\ StaTypeOK /\ ApTypeOK /\ events \in Seq(EventKinds)
        /\ PolicyTypeOK /\ RequestTypeOK
        /\ connect_attempt = 0 /\ api' = "idle"
    BY DEF IInv, TypeOK, WifiTypeOK, BudgetInv, AtRest, Start
  <1>2. StaTypeOK'
    BY <1>1, StaUnchangedType DEF Start
  <1>3. /\ connect_attempt' = 0 /\ sta_retry_pending' = sta_retry_pending
        /\ persistent_reconnect' = persistent_reconnect
    BY <1>1 DEF Start
  <1>4. RequestTypeOK'
    BY <1>1 DEF Start, RequestTypeOK, requestVars, blockVars, cfgVars, ApiStates
  <1>5. CASE EnterProvisioning(mode, sta_connect_in_progress, sta_ready,
                               work, events)
    <2>1. /\ ApTypeOK' /\ events' \in Seq(EventKinds)
          /\ mode' \in Modes /\ provisioning_active' \in BOOLEAN
          /\ sta_connect_in_progress' \in BOOLEAN /\ sta_ready' \in BOOLEAN
          /\ work' \in WorkType
      BY <1>1, <1>5, EnterProvisioningType DEF PolicyTypeOK
    <2> QED BY <1>1, <1>2, <1>3, <1>4, <2>1, BudgetReset
            DEF IInv, TypeOK, WifiTypeOK, PolicyTypeOK, BudgetInv
  <1>6. CASE /\ mode' = "connecting"
             /\ work' = ScheduleStaConnect(
                            Arm(work, "boot_fallback_ap", FallbackDelay), 0)
             /\ UNCHANGED <<provisioning_active, sta_ready,
                            sta_connect_in_progress, apVars, events>>
    <2>1. work' \in WorkType
      BY <1>1, <1>6, Delays, ArmType, ScheduleType DEF PolicyTypeOK, Works
    <2>2. ApTypeOK' /\ events' \in Seq(EventKinds)
      BY <1>1, <1>6, ApUnchangedType
    <2> QED BY <1>1, <1>2, <1>3, <1>4, <1>6, <2>1, <2>2, BudgetReset
            DEF IInv, TypeOK, WifiTypeOK, PolicyTypeOK, BudgetInv, Modes
  <1> QED BY <1>5, <1>6 DEF Start

\* The attempt picks a configuration, stored or posted.
LEMMA BeginAttemptType ==
  ASSUME RequestTypeOK, NEW retry \in BOOLEAN, BeginAttempt(retry)
  PROVE  /\ AttemptCfg \in Cfgs \cup {NoCfg}
         /\ pending_sta_cfg' \in Cfgs \cup {NoCfg}
         /\ use_pending_cfg' \in BOOLEAN /\ sta_retry_pending' \in BOOLEAN
         /\ persistent_reconnect' = persistent_reconnect
         /\ UNCHANGED <<api, api_cfg, api_timer, config, nvs>>
  <1>1. AttemptCfg \in Cfgs \cup {NoCfg}
    BY DEF AttemptCfg, RequestTypeOK
  <1> QED BY <1>1 DEF BeginAttempt, apiVars, cfgVars

\* sta_connect_work_handler.
LEMMA StaConnectStep == IInv /\ StaConnectWork => IInv'
  <1> SUFFICES ASSUME IInv, StaConnectWork PROVE IInv'
    OBVIOUS
  <1>1. /\ StaTypeOK /\ ApTypeOK /\ events \in Seq(EventKinds)
        /\ PolicyTypeOK /\ RequestTypeOK /\ BudgetInv /\ TypeOK
    BY DEF IInv, TypeOK, WifiTypeOK
  <1>2. /\ connect_attempt + 1 \in Nat /\ connect_attempt + 1 <= MaxAttempts
        /\ api # "off"
    <2>1. Due("sta_connect")
      BY DEF StaConnectWork, NoCredentials, AttemptAccepted, AttemptRejected,
             BeginAttempt
    <2>2. connect_attempt < MaxAttempts
      BY <1>1, <2>1 DEF Due, BudgetInv, AttemptBudget, Armed, Off
    <2>3. api # "off" BY <2>1, Running DEF Works
    <2> QED BY <1>1, <2>2, <2>3, Delays DEF PolicyTypeOK
  <1>3. CASE NoCredentials
    <2> DEFINE f == Cancel(work, {"sta_connect"})
    <2>1. /\ pending_sta_cfg' \in Cfgs \cup {NoCfg}
          /\ use_pending_cfg' \in BOOLEAN /\ sta_retry_pending' \in BOOLEAN
          /\ persistent_reconnect' = persistent_reconnect
          /\ UNCHANGED <<api, api_cfg, api_timer, config, nvs>>
      BY <1>1, <1>3, BeginAttemptType DEF NoCredentials
    <2>2. StaTypeOK' BY <1>1, <1>3, StaUnchangedType DEF NoCredentials
    <2>3. RequestTypeOK'
      BY <1>1, <1>3, <2>1 DEF NoCredentials, RequestTypeOK, blockVars
    <2>4. f \in WorkType /\ f["sta_connect"] = Off
      BY <1>1, CancelType DEF PolicyTypeOK
    <2>5. /\ ApTypeOK' /\ events' \in Seq(EventKinds)
          /\ mode' \in Modes /\ provisioning_active' \in BOOLEAN
          /\ sta_connect_in_progress' \in BOOLEAN /\ sta_ready' \in BOOLEAN
          /\ work' \in WorkType /\ work'["sta_connect"] = Off
      <3>1. CASE EnterProvisioning(mode, sta_connect_in_progress, sta_ready,
                                   f, events)
        BY <1>1, <2>4, <3>1, EnterProvisioningType DEF PolicyTypeOK
      <3>2. CASE /\ work' = f
                 /\ UNCHANGED <<mode, provisioning_active, sta_ready,
                                sta_connect_in_progress, apVars, events>>
        BY <1>1, <2>4, <3>2, ApUnchangedType DEF PolicyTypeOK
      <3> QED BY <1>3, <3>1, <3>2 DEF NoCredentials
    <2>6. UNCHANGED connect_attempt BY <1>3 DEF NoCredentials
    <2> QED BY <1>1, <1>2, <2>1, <2>2, <2>3, <2>5, <2>6, BudgetKept
            DEF IInv, TypeOK, WifiTypeOK, PolicyTypeOK, BudgetInv
  <1>4. CASE AttemptAccepted
    <2>1. /\ AttemptCfg \in Cfgs /\ pending_sta_cfg' \in Cfgs \cup {NoCfg}
          /\ use_pending_cfg' \in BOOLEAN /\ sta_retry_pending' \in BOOLEAN
          /\ persistent_reconnect' = persistent_reconnect
          /\ UNCHANGED <<api, api_cfg, api_timer, config, nvs>>
      BY <1>1, <1>4, BeginAttemptType DEF AttemptAccepted
    <2>2. StaTypeOK' BY <1>1, <1>4, <2>1, ConnectStaType DEF AttemptAccepted
    <2>3. RequestTypeOK'
      BY <1>1, <1>4, <2>1 DEF AttemptAccepted, RequestTypeOK, blockVars
    <2>4. work' \in WorkType /\ work'["sta_connect"] = Off
      BY <1>1, <1>4, CancelType DEF PolicyTypeOK, AttemptAccepted
    <2>5. /\ connect_attempt' = connect_attempt + 1
          /\ sta_connect_in_progress' = TRUE /\ mode' = "connecting"
          /\ UNCHANGED <<apVars, events, provisioning_active, sta_ready>>
      BY <1>4 DEF AttemptAccepted
    <2>6. ApTypeOK' /\ events' \in Seq(EventKinds)
      BY <1>1, <2>5, ApUnchangedType
    <2>7. PolicyTypeOK'
      BY <1>1, <1>2, <2>1, <2>4, <2>5 DEF PolicyTypeOK, Modes
    <2>8. BudgetInv'
      BY <1>2, <2>1, <2>4, <2>5, BudgetSpent DEF BudgetInv
    <2> QED BY <2>2, <2>3, <2>6, <2>7, <2>8 DEF IInv, TypeOK, WifiTypeOK
  <1>5. CASE AttemptRejected
    <2> DEFINE n == connect_attempt + 1
               f == Cancel(work, {"sta_connect", "connect_timeout"})
    <2>1. (n < MaxAttempts) \in BOOLEAN OBVIOUS
    <2>2. /\ AttemptCfg \in Cfgs /\ pending_sta_cfg' \in Cfgs \cup {NoCfg}
          /\ use_pending_cfg' \in BOOLEAN /\ sta_retry_pending' \in BOOLEAN
          /\ persistent_reconnect' = persistent_reconnect
          /\ UNCHANGED <<api, api_cfg, api_timer, config, nvs>>
      BY <1>1, <1>5, <2>1, BeginAttemptType DEF AttemptRejected
    <2>3. StaTypeOK' BY <1>1, <1>5, <2>2, ConnectStaType DEF AttemptRejected
    <2>4. f \in WorkType /\ f["sta_connect"] = Off
      BY <1>1, CancelType DEF PolicyTypeOK
    <2>5. AttemptFailed(n, "connecting", "connecting", f, events)
      BY <1>5 DEF AttemptRejected
    <2>6. /\ ApTypeOK' /\ events' \in Seq(EventKinds)
          /\ mode' \in Modes /\ provisioning_active' \in BOOLEAN
          /\ sta_connect_in_progress' \in BOOLEAN /\ sta_ready' \in BOOLEAN
          /\ connect_attempt' \in Nat /\ work' \in WorkType
          /\ blocking_connect_active' \in BOOLEAN
          /\ connect_result_success' \in BOOLEAN
          /\ connect_result_sem' \in {0, 1}
          /\ AttemptBudget'
      <3>1. "connecting" \in Modes BY DEF Modes
      <3> HIDE DEF n, f
      <3> QED BY <1>1, <1>2, <2>4, <2>5, <3>1, AttemptFailedType DEF n
    <2> QED BY <1>1, <1>2, <2>2, <2>3, <2>6
            DEF IInv, TypeOK, WifiTypeOK, PolicyTypeOK, RequestTypeOK, BudgetInv
  <1> QED BY <1>3, <1>4, <1>5 DEF StaConnectWork

\* connect_timeout_work_handler.
LEMMA ConnectTimeoutStep == IInv /\ ConnectTimeoutWork => IInv'
  <1> SUFFICES ASSUME IInv, ConnectTimeoutWork PROVE IInv'
    OBVIOUS
  <1> DEFINE f == Cancel(work, {"connect_timeout"})
  <1>1. /\ StaTypeOK /\ ApTypeOK /\ events \in Seq(EventKinds)
        /\ PolicyTypeOK /\ RequestTypeOK /\ BudgetInv /\ TypeOK
        /\ AttemptBudget
    BY DEF IInv, TypeOK, WifiTypeOK, BudgetInv
  <1>2. api # "off"
    BY Running DEF ConnectTimeoutWork, Works
  <1>3. UNCHANGED <<pending_sta_cfg, use_pending_cfg, api, api_cfg, api_timer,
                    config, nvs>>
    BY DEF ConnectTimeoutWork, requestVars, apiVars, cfgVars
  <1>4. /\ f \in WorkType
        /\ f["sta_connect"] # Off => work["sta_connect"] # Off
    BY <1>1, CancelType DEF PolicyTypeOK
  <1>5. CASE sta_ready
    <2>1. /\ work' = f
          /\ UNCHANGED <<wifiVars, mode, provisioning_active, flagVars, blockVars>>
      BY <1>5 DEF ConnectTimeoutWork
    <2>2. StaTypeOK' /\ ApTypeOK' /\ events' \in Seq(EventKinds)
      BY <1>1, <2>1, StaUnchangedType, ApUnchangedType DEF wifiVars
    <2>3. PolicyTypeOK'
      BY <1>1, <1>4, <2>1 DEF PolicyTypeOK, flagVars
    <2>4. RequestTypeOK'
      BY <1>1, <1>3, <2>1 DEF RequestTypeOK, blockVars
    <2>5. AttemptBudget'
      BY <1>1, <1>4, <2>1, BudgetKept DEF flagVars
    <2> QED BY <1>2, <1>3, <2>2, <2>3, <2>4, <2>5
            DEF IInv, TypeOK, WifiTypeOK, BudgetInv
  <1>6. CASE ~sta_ready
    <2>1. /\ DisconnectSta
          /\ sta_retry_pending' =
                (sta_retry_pending \/ connect_attempt < MaxAttempts)
          /\ AttemptFailed(connect_attempt, mode, "provisioning", f,
                           AfterDisconnect)
          /\ UNCHANGED persistent_reconnect
      BY <1>6 DEF ConnectTimeoutWork
    <2>2. StaTypeOK' /\ AfterDisconnect \in Seq(EventKinds)
      BY <1>1, <2>1, DisconnectStaType
    <2>3. sta_retry_pending' \in BOOLEAN
      BY <2>1, Zenon
    <2>4. /\ ApTypeOK' /\ events' \in Seq(EventKinds)
          /\ mode' \in Modes /\ provisioning_active' \in BOOLEAN
          /\ sta_connect_in_progress' \in BOOLEAN /\ sta_ready' \in BOOLEAN
          /\ connect_attempt' \in Nat /\ work' \in WorkType
          /\ blocking_connect_active' \in BOOLEAN
          /\ connect_result_success' \in BOOLEAN
          /\ connect_result_sem' \in {0, 1}
          /\ AttemptBudget'
      <3>1. connect_attempt \in Nat /\ connect_attempt <= MaxAttempts
        BY <1>1 DEF PolicyTypeOK, AttemptBudget
      <3>2. f["sta_connect"] # Off => connect_attempt < MaxAttempts
        BY <1>1, <1>4 DEF AttemptBudget, Armed
      <3>3. mode \in Modes /\ "provisioning" \in Modes
        BY <1>1 DEF PolicyTypeOK, Modes
      <3> HIDE DEF f
      <3> QED BY <1>1, <1>4, <2>1, <2>2, <3>1, <3>2, <3>3, AttemptFailedType
    <2> QED BY <1>1, <1>2, <1>3, <2>1, <2>2, <2>3, <2>4
            DEF IInv, TypeOK, WifiTypeOK, PolicyTypeOK, RequestTypeOK, BudgetInv
  <1> QED BY <1>5, <1>6

\* The handlers below leave the station, the requests and the API thread
\* alone and decide the SoftAP, the mode and the work items.
LEMMA PolicyStep ==
  ASSUME IInv, api # "off",
         UNCHANGED <<staVars, netVars, requestVars, blockVars, apiVars, cfgVars>>,
         ApTypeOK', events' \in Seq(EventKinds), PolicyTypeOK', AttemptBudget'
  PROVE  IInv'
  <1>1. StaTypeOK' BY StaUnchangedType DEF IInv, TypeOK, WifiTypeOK
  <1>2. RequestTypeOK'
    BY DEF IInv, TypeOK, RequestTypeOK, requestVars, blockVars, apiVars, cfgVars
  <1> QED BY <1>1, <1>2 DEF IInv, TypeOK, WifiTypeOK, BudgetInv, apiVars

\* sta_reconnect_work_handler.
LEMMA StaReconnectStep == IInv /\ StaReconnectWork => IInv'
  <1> SUFFICES ASSUME IInv, StaReconnectWork PROVE IInv'
    OBVIOUS
  <1> DEFINE f == Cancel(work, {"sta_reconnect"})
  <1>1. /\ ApTypeOK /\ events \in Seq(EventKinds) /\ PolicyTypeOK
        /\ AttemptBudget
    BY DEF IInv, TypeOK, WifiTypeOK, BudgetInv
  <1>2. /\ api # "off"
        /\ UNCHANGED <<staVars, netVars, requestVars, blockVars, apiVars, cfgVars>>
    BY Running DEF StaReconnectWork, Works
  <1>3. /\ f \in WorkType
        /\ f["sta_connect"] # Off => work["sta_connect"] # Off
    BY <1>1, CancelType DEF PolicyTypeOK
  <1>4. CASE /\ work' = f
             /\ UNCHANGED <<mode, provisioning_active, flagVars, apVars, events>>
    <2>1. ApTypeOK' /\ PolicyTypeOK'
      BY <1>1, <1>3, <1>4, ApUnchangedType DEF PolicyTypeOK, flagVars
    <2>2. AttemptBudget' BY <1>1, <1>3, <1>4, BudgetKept DEF flagVars
    <2> QED BY <1>1, <1>2, <1>4, <2>1, <2>2, PolicyStep
  <1>5. CASE /\ EnterProvisioning(mode, sta_connect_in_progress, sta_ready,
                                  f, events)
             /\ UNCHANGED <<sta_retry_pending, connect_attempt,
                            persistent_reconnect>>
    <2>1. /\ ApTypeOK' /\ events' \in Seq(EventKinds)
          /\ mode' \in Modes /\ provisioning_active' \in BOOLEAN
          /\ sta_connect_in_progress' \in BOOLEAN /\ sta_ready' \in BOOLEAN
          /\ work' \in WorkType
          /\ work'["sta_connect"] # Off => f["sta_connect"] # Off
      BY <1>1, <1>3, <1>5, EnterProvisioningType DEF PolicyTypeOK
    <2>2. PolicyTypeOK' BY <1>1, <1>5, <2>1 DEF PolicyTypeOK
    <2>3. AttemptBudget' BY <1>1, <1>3, <1>5, <2>1, BudgetKept
    <2> QED BY <1>2, <2>1, <2>2, <2>3, PolicyStep
  <1>6. CASE /\ connect_attempt' = 0
             /\ work' = ScheduleStaConnect(f, 0)
             /\ UNCHANGED <<mode, provisioning_active, sta_ready,
                            sta_connect_in_progress, sta_retry_pending,
                            persistent_reconnect, apVars, events>>
    <2>1. work' \in WorkType
      <3> HIDE DEF f
      <3> QED BY <1>3, <1>6, ScheduleType
    <2>2. ApTypeOK' /\ PolicyTypeOK'
      BY <1>1, <1>6, <2>1, ApUnchangedType DEF PolicyTypeOK
    <2> QED BY <1>1, <1>2, <1>6, <2>2, BudgetReset, PolicyStep
  <1> QED BY <1>4, <1>5, <1>6 DEF StaReconnectWork

\* boot_fallback_ap_work_handler.
LEMMA BootFallbackStep == IInv /\ BootFallbackWork => IInv'
  <1> SUFFICES ASSUME IInv, BootFallbackWork PROVE IInv'
    OBVIOUS
  <1> DEFINE f == Cancel(work, {"boot_fallback_ap"})
  <1>1. /\ ApTypeOK /\ events \in Seq(EventKinds) /\ PolicyTypeOK
        /\ AttemptBudget
    BY DEF IInv, TypeOK, WifiTypeOK, BudgetInv
  <1>2. /\ api # "off"
        /\ UNCHANGED <<staVars, netVars, requestVars, blockVars, apiVars, cfgVars>>
        /\ UNCHANGED <<sta_retry_pending, connect_attempt, persistent_reconnect>>
    BY Running DEF BootFallbackWork, Works
  <1>3. /\ f \in WorkType
        /\ f["sta_connect"] # Off => work["sta_connect"] # Off
    BY <1>1, CancelType DEF PolicyTypeOK
  <1>4. CASE /\ work' = f \/ work' = Arm(f, "boot_fallback_ap", FallbackDelay)
             /\ UNCHANGED <<mode, provisioning_active, sta_ready,
                            sta_connect_in_progress, apVars, events>>
    <2>1. /\ work' \in WorkType
          /\ work'["sta_connect"] # Off => work["sta_connect"] # Off
      <3> HIDE DEF f
      <3>1. CASE work' = f BY <1>3, <3>1
      <3>2. CASE work' = Arm(f, "boot_fallback_ap", FallbackDelay)
        <4>1. /\ Arm(f, "boot_fallback_ap", FallbackDelay) \in WorkType
              /\ Arm(f, "boot_fallback_ap", FallbackDelay)["sta_connect"]
                    = f["sta_connect"]
          BY <1>3, Delays, ArmType DEF Works
        <4> QED BY <1>3, <3>2, <4>1
      <3> QED BY <1>4, <3>1, <3>2
    <2>2. ApTypeOK' /\ PolicyTypeOK'
      BY <1>1, <1>2, <1>4, <2>1, ApUnchangedType DEF PolicyTypeOK
    <2>3. AttemptBudget' BY <1>1, <1>2, <2>1, BudgetKept
    <2> QED BY <1>1, <1>2, <1>4, <2>2, <2>3, PolicyStep
  <1>5. CASE EnterProvisioning(mode, sta_connect_in_progress, sta_ready,
                               f, events)
    <2>1. /\ ApTypeOK' /\ events' \in Seq(EventKinds)
          /\ mode' \in Modes /\ provisioning_active' \in BOOLEAN
          /\ sta_connect_in_progress' \in BOOLEAN /\ sta_ready' \in BOOLEAN
          /\ work' \in WorkType
          /\ work'["sta_connect"] # Off => f["sta_connect"] # Off
      BY <1>1, <1>3, <1>5, EnterProvisioningType DEF PolicyTypeOK
    <2>2. PolicyTypeOK' BY <1>1, <1>2, <2>1 DEF PolicyTypeOK
    <2>3. AttemptBudget' BY <1>1, <1>2, <1>3, <2>1, BudgetKept
    <2> QED BY <1>2, <2>1, <2>2, <2>3, PolicyStep
  <1> QED BY <1>4, <1>5 DEF BootFallbackWork

\* stop_ap_work_handler.
LEMMA StopApStep == IInv /\ StopApWork => IInv'
  <1> SUFFICES ASSUME IInv, StopApWork PROVE IInv'
    OBVIOUS
  <1>1. /\ ApTypeOK /\ events \in Seq(EventKinds) /\ PolicyTypeOK
        /\ AttemptBudget
    BY DEF IInv, TypeOK, WifiTypeOK, BudgetInv
  <1>2. /\ api # "off"
        /\ UNCHANGED <<staVars, netVars, requestVars, blockVars, apiVars, cfgVars>>
        /\ UNCHANGED <<mode, flagVars>>
        /\ work' = Cancel(work, {"stop_ap"})
    BY Running DEF StopApWork, Works
  <1>3. /\ ApTypeOK' /\ events' \in Seq(EventKinds)
        /\ provisioning_active' \in BOOLEAN
    BY <1>1, StopProvisioningType DEF StopApWork, PolicyTypeOK
  <1>4. /\ work' \in WorkType
        /\ work'["sta_connect"] # Off => work["sta_connect"] # Off
    BY <1>1, <1>2, CancelType DEF PolicyTypeOK
  <1>5. PolicyTypeOK' BY <1>1, <1>2, <1>3, <1>4 DEF PolicyTypeOK, flagVars
  <1>6. AttemptBudget' BY <1>1, <1>2, <1>4, BudgetKept DEF flagVars
  <1> QED BY <1>2, <1>3, <1>5, <1>6, PolicyStep

\* The system work queue as a whole.
LEMMA WorkStepKeepsIInv == IInv /\ WorkStep => IInv'
  BY StaConnectStep, ConnectTimeoutStep, StaReconnectStep, BootFallbackStep,
     StopApStep DEF WorkStep

-----------------------------------------------------------------------------
(* The event handlers.                                                     *)

\* What a handler of a station event has to establish besides StaTypeOK.
CallbackType ==
    /\ ApTypeOK' /\ events' \in Seq(EventKinds) /\ PolicyTypeOK'
    /\ AttemptBudget'
    /\ blocking_connect_active' \in BOOLEAN
    /\ connect_result_success' \in BOOLEAN /\ connect_result_sem' \in {0, 1}
    /\ UNCHANGED requestVars

\* A callback that returns early.
LEMMA NoCallbackType ==
  ASSUME IInv, NEW q \in Seq(EventKinds), NoCallback(q)
  PROVE  CallbackType
  <1>1. ApTypeOK /\ PolicyTypeOK /\ RequestTypeOK /\ AttemptBudget
    BY DEF IInv, TypeOK, WifiTypeOK, BudgetInv
  <1>2. events' = q /\ UNCHANGED <<provVars, apVars>>
    BY DEF NoCallback
  <1>3. ApTypeOK' BY <1>1, <1>2, ApUnchangedType
  <1>4. PolicyTypeOK' BY <1>1, <1>2 DEF PolicyTypeOK, provVars, flagVars
  <1>5. AttemptBudget' BY <1>1, <1>2, BudgetKept DEF provVars, flagVars
  <1> QED BY <1>1, <1>2, <1>3, <1>4, <1>5
          DEF CallbackType, RequestTypeOK, provVars, blockVars

\* WIFI_MANAGER_EVENT_STA_CONNECTED.
LEMMA StaConnectedType ==
  ASSUME IInv, NEW q \in Seq(EventKinds), StaConnected(q)
  PROVE  CallbackType
  <1>1. ApTypeOK /\ PolicyTypeOK /\ RequestTypeOK
    BY DEF IInv, TypeOK, WifiTypeOK
  <1>2. CASE ~sta_connect_in_progress
    BY <1>2, NoCallbackType DEF StaConnected
  <1>3. CASE sta_connect_in_progress
    <2>1. /\ sta_ready' = TRUE /\ sta_connect_in_progress' = FALSE
          /\ sta_retry_pending' = FALSE /\ connect_attempt' = 0
          /\ persistent_reconnect' = FALSE /\ mode' = "operational"
          /\ UNCHANGED requestVars
          /\ work' = Cancel(work, {"connect_timeout", "boot_fallback_ap",
                                   "sta_reconnect"})
      BY <1>3 DEF StaConnected
    <2>2. /\ ApTypeOK' /\ events' \in Seq(EventKinds)
          /\ provisioning_active' \in BOOLEAN
          /\ blocking_connect_active' \in BOOLEAN
          /\ connect_result_success' \in BOOLEAN
          /\ connect_result_sem' \in {0, 1}
      <3>1. CASE StopProvisioning(q) /\ UNCHANGED blockVars
        BY <1>1, <3>1, StopProvisioningType
           DEF PolicyTypeOK, RequestTypeOK, blockVars
      <3>2. CASE /\ SignalSuccess /\ events' = q
                 /\ UNCHANGED <<provisioning_active, apVars>>
        BY <1>1, <3>2, ApUnchangedType
           DEF PolicyTypeOK, RequestTypeOK, SignalSuccess
      <3> QED BY <1>3, <3>1, <3>2 DEF StaConnected
    <2>3. work' \in WorkType
      BY <1>1, <2>1, CancelType DEF PolicyTypeOK
    <2>4. PolicyTypeOK'
      BY <2>1, <2>2, <2>3 DEF PolicyTypeOK, Modes
    <2> QED BY <2>1, <2>2, <2>4, BudgetReset DEF CallbackType
  <1> QED BY <1>2, <1>3

\* WIFI_MANAGER_EVENT_STA_DISCONNECTED schedules a retry only within budget.
LEMMA StaDisconnectedType ==
  ASSUME IInv, NEW q \in Seq(EventKinds), StaDisconnected(q)
  PROVE  CallbackType
  <1>1. /\ ApTypeOK /\ PolicyTypeOK /\ RequestTypeOK /\ AttemptBudget
        /\ connect_attempt \in Nat /\ work \in WorkType
    BY DEF IInv, TypeOK, WifiTypeOK, BudgetInv, PolicyTypeOK
  <1>2. CASE NoCallback(q)
    BY <1>2, NoCallbackType
  <1>3. CASE /\ UNCHANGED <<requestVars, blockVars>>
             /\ \/ LeaveRetryToOthers
                \/ connect_attempt < MaxAttempts /\ RetrySoon
                \/ ReconnectLater
             /\ sta_ready' = FALSE /\ sta_connect_in_progress' = FALSE
             /\ events' = q
    <2>1. /\ UNCHANGED <<provisioning_active, apVars>>
          /\ mode' \in Modes /\ sta_retry_pending' \in BOOLEAN
          /\ connect_attempt' \in Nat /\ persistent_reconnect' \in BOOLEAN
          /\ work' \in WorkType /\ AttemptBudget'
      <3>1. CASE LeaveRetryToOthers
        BY <1>1, <3>1, BudgetKept DEF LeaveRetryToOthers, PolicyTypeOK
      <3>2. CASE connect_attempt < MaxAttempts /\ RetrySoon
        <4>1. work' \in WorkType
          BY <1>1, <3>2, Delays, ScheduleType DEF RetrySoon
        <4>2. AttemptBudget'
          BY <1>1, <3>2, Delays, BudgetSpent DEF RetrySoon
        <4> QED BY <1>1, <3>2, <4>1, <4>2 DEF RetrySoon, PolicyTypeOK
      <3>3. CASE ReconnectLater
        <4>1. work' \in WorkType
          BY <1>1, <3>3, Delays, ArmType DEF ReconnectLater, Works
        <4> QED BY <1>1, <3>3, <4>1, BudgetReset
                DEF ReconnectLater, PolicyTypeOK, Modes
      <3> QED BY <1>3, <3>1, <3>2, <3>3
    <2>2. ApTypeOK' BY <1>1, <2>1, ApUnchangedType
    <2>3. PolicyTypeOK' BY <1>1, <1>3, <2>1 DEF PolicyTypeOK
    <2> QED BY <1>1, <1>3, <2>1, <2>2, <2>3
            DEF CallbackType, RequestTypeOK, blockVars
  <1>4. CASE /\ UNCHANGED <<requestVars, blockVars>>
             /\ EnterProvisioning(mode, FALSE, FALSE, work, q)
             /\ UNCHANGED <<sta_retry_pending, connect_attempt,
                            persistent_reconnect>>
    <2>1. /\ ApTypeOK' /\ events' \in Seq(EventKinds)
          /\ mode' \in Modes /\ provisioning_active' \in BOOLEAN
          /\ sta_connect_in_progress' \in BOOLEAN /\ sta_ready' \in BOOLEAN
          /\ work' \in WorkType
          /\ work'["sta_connect"] # Off => work["sta_connect"] # Off
      BY <1>1, <1>4, EnterProvisioningType DEF PolicyTypeOK
    <2>2. PolicyTypeOK' BY <1>1, <1>4, <2>1 DEF PolicyTypeOK
    <2>3. AttemptBudget' BY <1>1, <1>4, <2>1, BudgetKept
    <2> QED BY <1>1, <1>4, <2>1, <2>2, <2>3
            DEF CallbackType, RequestTypeOK, blockVars
  <1> QED BY <1>2, <1>3, <1>4 DEF StaDisconnected

\* The net_mgmt event thread, station events.
LEMMA StaEventStep == IInv /\ HandleStaEvent => IInv'
  <1> SUFFICES ASSUME IInv, HandleStaEvent PROVE IInv'
    OBVIOUS
  <1>1. PICK up \in {"none", "sta_connected", "sta_disconnected"} :
           StaEvent(up) /\ StaCallback(up, Tail(events))
    BY DEF HandleStaEvent
  <1>2. UNCHANGED <<api, api_cfg, api_timer, config, nvs>>
    BY DEF HandleStaEvent, apiVars, cfgVars
  <1>3. events # << >> /\ events \in Seq(EventKinds)
    BY <1>1, EventQueued DEF IInv, TypeOK, WifiTypeOK
  <1>4. api # "off" BY <1>3, Running
  <1>5. StaTypeOK' BY <1>1, StaEventType DEF IInv, TypeOK, WifiTypeOK
  <1>6. Tail(events) \in Seq(EventKinds) BY <1>3, QueueType
  <1>7. CallbackType
    BY <1>1, <1>6, NoCallbackType, StaConnectedType, StaDisconnectedType
       DEF StaCallback
  <1> QED BY <1>2, <1>4, <1>5, <1>7
          DEF CallbackType, IInv, TypeOK, WifiTypeOK, BudgetInv, RequestTypeOK,
              requestVars

\* The net_mgmt event thread, SoftAP events.
LEMMA ApEventStep == IInv /\ HandleApEvent => IInv'
  <1> SUFFICES ASSUME IInv, HandleApEvent PROVE IInv'
    OBVIOUS
  <1>1. PICK up \in {"none", "ap_started", "ap_stopped"} :
           ApEvent(up) /\ ApCallback(up)
    BY DEF HandleApEvent
  <1>2. /\ events' = Tail(events)
        /\ UNCHANGED <<staVars, netVars, apiVars, cfgVars>>
    BY DEF HandleApEvent
  <1>3. events # << >> /\ events \in Seq(EventKinds)
    BY <1>1, EventQueued DEF IInv, TypeOK, WifiTypeOK
  <1>4. api # "off" BY <1>3, Running
  <1>5. ApTypeOK' BY <1>1, ApEventType DEF IInv, TypeOK, WifiTypeOK
  <1>6. events' \in Seq(EventKinds) BY <1>2, <1>3, QueueType
  <1>7. UNCHANGED <<flagVars, requestVars, blockVars, work>>
    BY <1>1 DEF ApCallback
  <1>8. PolicyTypeOK /\ AttemptBudget
    BY DEF IInv, TypeOK, BudgetInv
  <1>9. mode' \in Modes /\ provisioning_active' \in BOOLEAN
    <2>1. mode' \in Modes BY <1>1, <1>8 DEF ApCallback, PolicyTypeOK, Modes
    <2>2. provisioning_active' \in BOOLEAN
      BY <1>1, <1>8 DEF ApCallback, PolicyTypeOK
    <2> QED BY <2>1, <2>2
  <1>10. PolicyTypeOK' BY <1>7, <1>8, <1>9 DEF PolicyTypeOK, flagVars
  <1>11. AttemptBudget' BY <1>7, <1>8, BudgetKept DEF flagVars
  <1> QED BY <1>2, <1>4, <1>5, <1>6, <1>7, <1>10, <1>11, PolicyStep

-----------------------------------------------------------------------------
(* The API thread.                                                         *)

\* The steps of the API thread that leave wifi_manager alone: only the mode
\* of the policy is fixed, its flags may be dropped and work cancelled.
LEMMA ApiPolicyStep ==
  ASSUME IInv, UNCHANGED wifiVars, UNCHANGED <<mode, provisioning_active>>,
         sta_ready' \in BOOLEAN, sta_connect_in_progress' \in BOOLEAN,
         sta_retry_pending' \in BOOLEAN, persistent_reconnect' \in BOOLEAN,
         connect_attempt' \in Nat, work' \in WorkType,
         RequestTypeOK', AttemptBudget', api' # "off"
  PROVE  IInv'
  <1>1. WifiTypeOK'
    BY StaUnchangedType, ApUnchangedType DEF IInv, TypeOK, WifiTypeOK, wifiVars
  <1>2. PolicyTypeOK' BY DEF IInv, TypeOK, PolicyTypeOK
  <1> QED BY <1>1, <1>2 DEF IInv, TypeOK, BudgetInv

\* The steps that disconnect the station on behalf of a client.
LEMMA ApiDisconnectStep ==
  ASSUME IInv, DisconnectSta, events' = AfterDisconnect,
         UNCHANGED <<apVars, mode, provisioning_active, flagVars>>,
         work' \in WorkType,
         work'["sta_connect"] # Off => work["sta_connect"] # Off,
         RequestTypeOK', api' # "off"
  PROVE  IInv'
  <1>1. StaTypeOK' /\ events' \in Seq(EventKinds)
    BY DisconnectStaType DEF IInv, TypeOK, WifiTypeOK
  <1>2. ApTypeOK' BY ApUnchangedType DEF IInv, TypeOK, WifiTypeOK
  <1>3. PolicyTypeOK' BY DEF IInv, TypeOK, PolicyTypeOK, flagVars
  <1>4. AttemptBudget' BY BudgetKept DEF IInv, BudgetInv, flagVars
  <1> QED BY <1>1, <1>2, <1>3, <1>4 DEF IInv, TypeOK, WifiTypeOK, BudgetInv

\* The first step of a request: every work item is cancelled.
LEMMA ClientStepKeepsIInv == IInv /\ ClientStep => IInv'
  <1> SUFFICES ASSUME IInv, ClientStep PROVE IInv'
    OBVIOUS
  <1>1. /\ UNCHANGED <<wifiVars, mode, provisioning_active, flagVars>>
        /\ UNCHANGED <<requestVars, blockVars, api_timer, cfgVars>>
        /\ work' = Cancel(work, Works)
        /\ api' \in ApiStates \ {"off"}
        /\ api_cfg' \in Cfgs \cup {api_cfg}
    BY DEF ClientStep, ResetPost, PostWifi, CancelAll, ApiStates
  <1>2. PolicyTypeOK /\ RequestTypeOK /\ AttemptBudget
    BY DEF IInv, TypeOK, BudgetInv
  <1>3. /\ work' \in WorkType
        /\ work'["sta_connect"] # Off => work["sta_connect"] # Off
    BY <1>1, <1>2, CancelType DEF PolicyTypeOK
  <1>4. AttemptBudget' BY <1>1, <1>2, <1>3, BudgetKept DEF flagVars
  <1>5. RequestTypeOK'
    BY <1>1, <1>2 DEF RequestTypeOK, requestVars, blockVars, cfgVars
  <1> QED BY <1>1, <1>2, <1>3, <1>4, <1>5, ApiPolicyStep
          DEF PolicyTypeOK, flagVars

\* Every later step of a request.
LEMMA ApiStepKeepsIInv == IInv /\ ApiStep => IInv'
  <1> SUFFICES ASSUME IInv, ApiStep PROVE IInv'
    OBVIOUS
  <1>1. /\ WifiTypeOK /\ PolicyTypeOK /\ RequestTypeOK /\ AttemptBudget
        /\ work \in WorkType
    BY DEF IInv, TypeOK, BudgetInv, PolicyTypeOK
  <1>2. CASE PostDisconnect
    BY <1>1, <1>2, Delays, ApiDisconnectStep
       DEF PostDisconnect, provVars, RequestTypeOK, requestVars, blockVars,
           cfgVars, ApiStates
  <1>3. CASE PostBegin
    <2>1. work' \in WorkType BY <1>1, <1>3, ScheduleType DEF PostBegin
    <2>2. RequestTypeOK'
      BY <1>1, <1>3, Delays DEF PostBegin, RequestTypeOK, cfgVars, ApiStates
    <2>3. AttemptBudget' BY <1>3, BudgetReset DEF PostBegin
    <2> QED BY <1>3, <2>1, <2>2, <2>3, ApiPolicyStep DEF PostBegin
  <1>4. CASE PostResult
    <2>1. RequestTypeOK'
      BY <1>1, <1>4 DEF PostResult, RequestTypeOK, requestVars, cfgVars, ApiStates
    <2>2. AttemptBudget' BY <1>1, <1>4, BudgetKept DEF PostResult, flagVars
    <2>3. api' # "off" BY <1>4 DEF PostResult
    <2> QED BY <1>1, <1>4, <2>1, <2>2, <2>3, ApiPolicyStep
            DEF PostResult, PolicyTypeOK, flagVars
  <1>5. CASE PostExpires
    <2>1. RequestTypeOK'
      BY <1>1, <1>5 DEF PostExpires, RequestTypeOK, requestVars, blockVars,
                        cfgVars, ApiStates, provVars
    <2>2. AttemptBudget'
      BY <1>1, <1>5, BudgetKept DEF PostExpires, provVars, flagVars
    <2> QED BY <1>1, <1>5, <2>1, <2>2, ApiPolicyStep
            DEF PostExpires, PolicyTypeOK, provVars, flagVars
  <1>6. CASE PostGiveUp
    <2>1. /\ work' \in WorkType
          /\ work'["sta_connect"] # Off => work["sta_connect"] # Off
      BY <1>1, <1>6, CancelType DEF PostGiveUp
    <2>2. RequestTypeOK'
      BY <1>1, <1>6 DEF PostGiveUp, RequestTypeOK, requestVars, cfgVars, ApiStates
    <2> QED BY <1>6, <2>1, <2>2, ApiDisconnectStep DEF PostGiveUp
  <1>7. CASE PostSave
    <2>1. RequestTypeOK'
      BY <1>1, <1>7 DEF PostSave, RequestTypeOK, requestVars, blockVars,
                        ApiStates, provVars
    <2>2. AttemptBudget'
      BY <1>1, <1>7, BudgetKept DEF PostSave, provVars, flagVars
    <2>3. api' # "off" BY <1>7 DEF PostSave
    <2> QED BY <1>1, <1>7, <2>1, <2>2, <2>3, ApiPolicyStep
            DEF PostSave, PolicyTypeOK, provVars, flagVars
  <1>8. CASE PostReply
    <2>1. /\ work' \in WorkType /\ work'["sta_connect"] = work["sta_connect"]
      BY <1>1, <1>8, Delays, ArmType DEF PostReply, Works
    <2>2. RequestTypeOK'
      BY <1>1, <1>8 DEF PostReply, RequestTypeOK, requestVars, blockVars,
                        cfgVars, ApiStates
    <2>3. AttemptBudget' BY <1>1, <1>8, <2>1, BudgetKept DEF PostReply, flagVars
    <2> QED BY <1>1, <1>8, <2>1, <2>2, <2>3, ApiPolicyStep
            DEF PostReply, PolicyTypeOK, flagVars
  <1>9. CASE ResetFlags
    <2>1. RequestTypeOK'
      BY <1>1, <1>9 DEF ResetFlags, RequestTypeOK, requestVars, blockVars,
                        cfgVars, ApiStates
    <2>2. AttemptBudget' BY <1>1, <1>9, BudgetKept DEF ResetFlags
    <2> QED BY <1>1, <1>9, <2>1, <2>2, ApiPolicyStep
            DEF ResetFlags, PolicyTypeOK
  <1>10. CASE ResetClear
    <2>1. StaTypeOK' /\ AfterDisconnect \in Seq(EventKinds)
      BY <1>1, <1>10, DisconnectStaType DEF ResetClear, WifiTypeOK
    <2>2. /\ ApTypeOK' /\ events' \in Seq(EventKinds)
          /\ mode' \in Modes /\ provisioning_active' \in BOOLEAN
          /\ sta_connect_in_progress' \in BOOLEAN /\ sta_ready' \in BOOLEAN
          /\ work' \in WorkType
          /\ work'["sta_connect"] # Off => work["sta_connect"] # Off
      BY <1>1, <1>10, <2>1, EnterProvisioningType
         DEF ResetClear, WifiTypeOK, PolicyTypeOK
    <2>3. PolicyTypeOK' BY <1>1, <1>10, <2>2 DEF ResetClear, PolicyTypeOK
    <2>4. RequestTypeOK'
      BY <1>1, <1>10 DEF ResetClear, RequestTypeOK, requestVars, blockVars,
                         ApiStates
    <2>5. AttemptBudget' BY <1>1, <1>10, <2>2, BudgetKept DEF ResetClear
    <2>6. api' # "off" BY <1>10 DEF ResetClear
    <2> QED BY <2>1, <2>2, <2>3, <2>4, <2>5, <2>6
            DEF IInv, TypeOK, WifiTypeOK, BudgetInv
  <1> QED BY <1>2, <1>3, <1>4, <1>5, <1>6, <1>7, <1>8, <1>9, <1>10 DEF ApiStep

-----------------------------------------------------------------------------
(* The environment, and the theorems.                                      *)

\* The driver, the clock and the power supply.
LEMMA EnvironmentKeepsIInv == IInv /\ (Driver \/ Tick \/ PowerCycle) => IInv'
  <1> SUFFICES ASSUME IInv, Driver \/ Tick \/ PowerCycle PROVE IInv'
    OBVIOUS
  <1>1. /\ WifiTypeOK /\ PolicyTypeOK /\ RequestTypeOK /\ AttemptBudget
        /\ work \in WorkType
    BY DEF IInv, TypeOK, BudgetInv, PolicyTypeOK
  <1>2. CASE Driver
    <2>1. UNCHANGED <<provVars, apiVars, cfgVars>> /\ WifiTypeOK'
      BY <1>1, <1>2, DriverStepType DEF Driver
    <2>2. PolicyTypeOK' BY <1>1, <2>1 DEF PolicyTypeOK, provVars, flagVars
    <2>3. RequestTypeOK'
      BY <1>1, <2>1 DEF RequestTypeOK, provVars, requestVars, blockVars,
                        apiVars, cfgVars
    <2>4. AttemptBudget' BY <1>1, <2>1, BudgetKept DEF provVars, flagVars
    <2>5. api # "off"
      <3>1. drv_sta # "idle"
        BY <1>2 DEF Driver, DriverStep, LinkUp, JoinFails, LinkLost, DhcpBound
      <3> QED BY <3>1, Running
    <2> QED BY <2>1, <2>2, <2>3, <2>4, <2>5 DEF IInv, TypeOK, BudgetInv, apiVars
  <1>3. CASE Tick
    <2>1. /\ work' \in WorkType
          /\ work'["sta_connect"] # Off => work["sta_connect"] # Off
      <3>1. ASSUME NEW w \in Works
            PROVE  (IF Armed(w) THEN work[w] - 1 ELSE Off) \in Nat \cup {Off}
        <4>1. work[w] \in Nat \cup {Off} /\ work[w] # 0
          BY <1>1, <1>3, <3>1 DEF WorkType, Tick, Quiet, Due
        <4> QED BY <4>1 DEF Armed, Off
      <3>2. work' = [w \in Works |-> IF Armed(w) THEN work[w] - 1 ELSE Off]
        BY <1>3 DEF Tick
      <3>3. work' \in WorkType BY <3>1, <3>2 DEF WorkType
      <3>4. "sta_connect" \in Works BY DEF Works
      <3> QED BY <3>2, <3>3, <3>4 DEF Armed
    <2>2. api_timer' \in Nat
      BY <1>1, <1>3 DEF Tick, RequestTypeOK
    <2>3. RequestTypeOK'
      BY <1>1, <1>3, <2>2 DEF Tick, RequestTypeOK, requestVars, blockVars, cfgVars
    <2>4. AttemptBudget' BY <1>1, <1>3, <2>1, BudgetKept DEF Tick, flagVars
    <2>5. api' # "off" BY <1>3 DEF Tick, Quiet
    <2> QED BY <1>1, <1>3, <2>1, <2>3, <2>4, <2>5, ApiPolicyStep
            DEF Tick, PolicyTypeOK, flagVars
  <1>4. CASE PowerCycle
    <2>1. WifiTypeOK' BY <1>4, WifiResetType DEF PowerCycle
    <2>2. work' \in WorkType /\ \A w \in Works : ~Armed(w)'
      BY <1>4 DEF PowerCycle, WorkType, Armed
    <2>3. PolicyTypeOK' BY <1>4, <2>2 DEF PowerCycle, PolicyTypeOK, Modes
    <2>4. RequestTypeOK'
      BY <1>1, <1>4 DEF PowerCycle, RequestTypeOK, ApiStates
    <2>5. AttemptBudget' BY <1>4, BudgetReset DEF PowerCycle
    <2>6. AtRest'
      BY <1>4, <2>2 DEF PowerCycle, AtRest, WifiReset
    <2> QED BY <2>1, <2>3, <2>4, <2>5, <2>6 DEF IInv, TypeOK, BudgetInv
  <1> QED BY <1>2, <1>3, <1>4

\* The state after power-up.
LEMMA InitIInv == Init => IInv
  <1> SUFFICES ASSUME Init PROVE IInv
    OBVIOUS
  <1>1. WifiTypeOK BY WifiInitType DEF Init
  <1>2. work \in WorkType /\ \A w \in Works : ~Armed(w)
    BY DEF Init, WorkType, Armed
  <1>3. PolicyTypeOK BY <1>2 DEF Init, PolicyTypeOK, Modes
  <1>4. RequestTypeOK BY DEF Init, RequestTypeOK, ApiStates
  <1>5. AttemptBudget BY Delays DEF Init, AttemptBudget
  <1>6. AtRest BY <1>2 DEF Init, AtRest, WifiInit
  <1> QED BY <1>1, <1>3, <1>4, <1>5, <1>6 DEF IInv, TypeOK, BudgetInv

\* Every step of every thread, and of the environment.
LEMMA NextIInv == IInv /\ [Next]_vars => IInv'
  <1> SUFFICES ASSUME IInv, [Next]_vars PROVE IInv'
    OBVIOUS
  <1>1. CASE Next
    BY <1>1, StartStep, WorkStepKeepsIInv, StaEventStep, ApEventStep,
       ClientStepKeepsIInv, ApiStepKeepsIInv, EnvironmentKeepsIInv
       DEF Next, EventStep
  <1>2. CASE UNCHANGED vars
    <2>1. WifiTypeOK'
      BY <1>2, StaUnchangedType, ApUnchangedType
         DEF IInv, TypeOK, WifiTypeOK, vars, wifiVars
    <2>2. PolicyTypeOK'
      BY <1>2 DEF IInv, TypeOK, PolicyTypeOK, vars, provVars, flagVars
    <2>3. RequestTypeOK'
      BY <1>2 DEF IInv, TypeOK, RequestTypeOK, vars, provVars, requestVars,
                  blockVars, apiVars, cfgVars
    <2>4. BudgetInv'
      BY <1>2 DEF IInv, BudgetInv, AttemptBudget, AtRest, Armed, vars, provVars,
                  flagVars, apiVars, wifiVars, netVars
    <2> QED BY <2>1, <2>2, <2>3, <2>4 DEF IInv, TypeOK
  <1> QED BY <1>1, <1>2

\* The inductive invariant holds in every reachable state.
THEOREM InductiveInvariant == Spec => []IInv
  BY InitIInv, NextIInv, PTL DEF Spec

\* The variables of the three threads keep their types, whatever the order of
\* their steps: in particular no work item is armed with a negative delay and
\* the semaphore of the blocking connect never counts past one.
THEOREM TypeCorrect == Spec => []TypeOK
  <1>1. IInv => TypeOK BY DEF IInv
  <1> QED BY <1>1, InductiveInvariant, PTL

\* However the work queue, the event thread and the API thread interleave, and
\* whatever fails, no more than PROVISION_STA_MAX_ATTEMPTS attempts are made
\* before the counter is reset, and none is scheduled when they are used up.
THEOREM AttemptBudgetHolds == Spec => []AttemptBudget
  <1>1. IInv => AttemptBudget BY DEF IInv, BudgetInv
  <1> QED BY <1>1, InductiveInvariant, PTL

-----------------------------------------------------------------------------
(* RetryScheduled.                                                         *)

\* The inductive form: the promise holds in every state of the API thread but
\* those between the cancelling of the work items and the dropping of the flag.
RetryInv ==
    /\ sta_retry_pending
    /\ api \notin {"cancelled", "settling", "expired", "reset_cancelled"}
    => Armed("sta_connect")

\* A step that sets no promise and leaves the scheduled attempt alone.
LEMMA RetryKept ==
  ASSUME RetryInv, sta_retry_pending' => sta_retry_pending,
         api' = api, Armed("sta_connect") => Armed("sta_connect")'
  PROVE  RetryInv'
  BY DEF RetryInv

\* After schedule_sta_connect the attempt is scheduled.
LEMMA ScheduledIsArmed ==
  ASSUME NEW f \in WorkType, NEW d \in Nat, work' = ScheduleStaConnect(f, d)
  PROVE  Armed("sta_connect")'
  BY DEF ScheduleStaConnect, WorkType, Works, Armed, Off

\* enter_provisioning_mode and a cancel of other items keep the attempt.
LEMMA EnterKeepsAttempt ==
  ASSUME IInv, NEW m \in Modes, NEW progress \in BOOLEAN, NEW ready \in BOOLEAN,
         NEW f \in WorkType, NEW q \in Seq(EventKinds),
         EnterProvisioning(m, progress, ready, f, q)
  PROVE  work'["sta_connect"] = f["sta_connect"]
  BY EnterProvisioningType DEF IInv, TypeOK, WifiTypeOK, PolicyTypeOK

\* sta_connect_work_handler: the promise it makes is the retry it schedules.
LEMMA StaConnectRetry == IInv /\ RetryInv /\ StaConnectWork => RetryInv'
  <1> SUFFICES ASSUME IInv, RetryInv, StaConnectWork PROVE RetryInv'
    OBVIOUS
  <1>1. work \in WorkType BY DEF IInv, TypeOK, PolicyTypeOK
  <1>2. CASE NoCredentials \/ AttemptAccepted
    BY <1>2 DEF NoCredentials, AttemptAccepted, BeginAttempt, RetryInv
  <1>3. CASE AttemptRejected
    <2> DEFINE n == connect_attempt + 1
               f == Cancel(work, {"sta_connect", "connect_timeout"})
    <2>1. CASE ~(n < MaxAttempts)
      BY <1>3, <2>1 DEF AttemptRejected, BeginAttempt, RetryInv
    <2>2. CASE n < MaxAttempts
      <3>1. n \in Nat /\ ~(n >= MaxAttempts)
        BY <2>2, Delays DEF IInv, TypeOK, PolicyTypeOK
      <3>2. RetryAttempt(n, "connecting", f, events)
        BY <1>3, <2>2, <3>1 DEF AttemptRejected, AttemptFailed
      <3>3. f \in WorkType BY <1>1, CancelType
      <3> HIDE DEF f
      <3> QED BY <3>2, <3>3, Delays, ScheduledIsArmed DEF RetryAttempt, RetryInv
    <2> QED BY <2>1, <2>2
  <1> QED BY <1>2, <1>3 DEF StaConnectWork

\* connect_timeout_work_handler: with the budget spent no attempt is scheduled
\* (AttemptBudget), so no promise is pending that this handler would break.
LEMMA ConnectTimeoutRetry == IInv /\ RetryInv /\ ConnectTimeoutWork => RetryInv'
  <1> SUFFICES ASSUME IInv, RetryInv, ConnectTimeoutWork PROVE RetryInv'
    OBVIOUS
  <1> DEFINE f == Cancel(work, {"connect_timeout"})
  <1>1. /\ work \in WorkType /\ connect_attempt \in Nat /\ AttemptBudget
        /\ api' = api
    BY DEF IInv, BudgetInv, TypeOK, PolicyTypeOK, ConnectTimeoutWork, apiVars
  <1>2. f \in WorkType /\ f["sta_connect"] = work["sta_connect"]
    BY <1>1, CancelType
  <1>3. CASE sta_ready
    BY <1>1, <1>2, <1>3, RetryKept DEF ConnectTimeoutWork, flagVars, Armed
  <1>4. CASE ~sta_ready /\ connect_attempt < MaxAttempts
    <2>1. RetryAttempt(connect_attempt, mode, f, AfterDisconnect)
      BY <1>1, <1>4, Delays DEF ConnectTimeoutWork, AttemptFailed
    <2> HIDE DEF f
    <2> QED BY <1>2, <2>1, Delays, ScheduledIsArmed DEF RetryAttempt, RetryInv
  <1>5. CASE ~sta_ready /\ ~(connect_attempt < MaxAttempts)
    <2>1. ~Armed("sta_connect") BY <1>1, <1>5 DEF AttemptBudget
    <2>2. sta_retry_pending' => sta_retry_pending
      BY <1>5 DEF ConnectTimeoutWork
    <2> QED BY <1>1, <2>1, <2>2, RetryKept
  <1> QED BY <1>3, <1>4, <1>5

\* The other work handlers and the start keep a scheduled attempt.
LEMMA OtherWorkRetry ==
  ASSUME IInv, RetryInv,
         StaReconnectWork \/ BootFallbackWork \/ StopApWork
  PROVE  RetryInv'
  <1>1. /\ work \in WorkType /\ mode \in Modes /\ sta_ready \in BOOLEAN
        /\ sta_connect_in_progress \in BOOLEAN /\ events \in Seq(EventKinds)
    BY DEF IInv, TypeOK, WifiTypeOK, PolicyTypeOK
  <1>2. /\ sta_retry_pending' = sta_retry_pending
        /\ api' = api
    BY DEF StaReconnectWork, BootFallbackWork, StopApWork, flagVars, apiVars
  <1>3. CASE StaReconnectWork
    <2> DEFINE f == Cancel(work, {"sta_reconnect"})
    <2>1. f \in WorkType /\ f["sta_connect"] = work["sta_connect"]
      BY <1>1, CancelType
    <2>2. CASE work' = f BY <1>2, <2>1, <2>2, RetryKept DEF Armed
    <2>3. CASE EnterProvisioning(mode, sta_connect_in_progress, sta_ready,
                                 f, events)
      BY <1>1, <1>2, <2>1, <2>3, EnterKeepsAttempt, RetryKept DEF Armed
    <2>4. CASE work' = ScheduleStaConnect(f, 0)
      <3> HIDE DEF f
      <3> QED BY <2>1, <2>4, ScheduledIsArmed DEF RetryInv
    <2> QED BY <1>3, <2>2, <2>3, <2>4 DEF StaReconnectWork
  <1>4. CASE BootFallbackWork
    <2> DEFINE f == Cancel(work, {"boot_fallback_ap"})
    <2>1. f \in WorkType /\ f["sta_connect"] = work["sta_connect"]
      BY <1>1, CancelType
    <2>2. CASE work' = f BY <1>2, <2>1, <2>2, RetryKept DEF Armed
    <2>3. CASE EnterProvisioning(mode, sta_connect_in_progress, sta_ready,
                                 f, events)
      BY <1>1, <1>2, <2>1, <2>3, EnterKeepsAttempt, RetryKept DEF Armed
    <2>4. CASE work' = Arm(f, "boot_fallback_ap", FallbackDelay)
      <3>1. work'["sta_connect"] = f["sta_connect"]
        BY <2>1, <2>4, Delays, ArmType DEF Works
      <3> QED BY <1>2, <2>1, <3>1, RetryKept DEF Armed
    <2> QED BY <1>4, <2>2, <2>3, <2>4 DEF BootFallbackWork
  <1>5. CASE StopApWork
    BY <1>1, <1>2, <1>5, CancelType, RetryKept DEF StopApWork, Armed
  <1> QED BY <1>3, <1>4, <1>5

\* The event thread: a disconnect promises a retry only as it schedules one.
LEMMA EventRetry == IInv /\ RetryInv /\ EventStep => RetryInv'
  <1> SUFFICES ASSUME IInv, RetryInv, EventStep PROVE RetryInv'
    OBVIOUS
  <1>1. /\ work \in WorkType /\ mode \in Modes /\ events \in Seq(EventKinds)
        /\ api' = api
    BY DEF IInv, TypeOK, WifiTypeOK, PolicyTypeOK, EventStep, HandleStaEvent,
           HandleApEvent, apiVars
  <1>2. CASE HandleApEvent
    BY <1>1, <1>2, RetryKept DEF HandleApEvent, ApCallback, flagVars, Armed
  <1>3. CASE HandleStaEvent
    <2>1. PICK up \in {"none", "sta_connected", "sta_disconnected"} :
             StaEvent(up) /\ StaCallback(up, Tail(events))
      BY <1>3 DEF HandleStaEvent
    <2> DEFINE q == Tail(events)
    <2>2. q \in Seq(EventKinds) BY <1>1, <2>1, EventQueued, QueueType
    <2>3. CASE NoCallback(q)
      BY <1>1, <2>3, RetryKept DEF NoCallback, provVars, flagVars, Armed
    <2>4. CASE StaConnected(q)
      BY <2>3, <2>4 DEF StaConnected, RetryInv
    <2>5. CASE StaDisconnected(q)
      <3>1. CASE LeaveRetryToOthers
        BY <1>1, <3>1, RetryKept DEF LeaveRetryToOthers, Armed
      <3>2. CASE RetrySoon
        BY <1>1, <3>2, Delays, ScheduledIsArmed DEF RetrySoon, RetryInv
      <3>3. CASE ReconnectLater
        <4>1. work'["sta_connect"] = work["sta_connect"]
          BY <1>1, <3>3, Delays, ArmType DEF ReconnectLater, Works
        <4> QED BY <1>1, <3>3, <4>1, RetryKept DEF ReconnectLater, Armed
      <3>4. CASE /\ EnterProvisioning(mode, FALSE, FALSE, work, q)
                 /\ UNCHANGED sta_retry_pending
        BY <1>1, <2>2, <3>4, EnterKeepsAttempt, RetryKept DEF Armed
      <3> QED BY <2>3, <2>5, <3>1, <3>2, <3>3, <3>4 DEF StaDisconnected
    <2> QED BY <2>1, <2>3, <2>4, <2>5 DEF StaCallback
  <1> QED BY <1>2, <1>3 DEF EventStep

\* The API thread, as long as its blocking wait does not time out.
LEMMA ApiRetry ==
  ASSUME IInv, RetryInv, BudgetSuffices, ClientStep \/ ApiStep
  PROVE  RetryInv'
  <1>1. work \in WorkType BY DEF IInv, TypeOK, PolicyTypeOK
  <1>2. CASE ClientStep
    BY <1>2 DEF ClientStep, ResetPost, PostWifi, RetryInv
  <1>3. CASE PostDisconnect BY <1>3 DEF PostDisconnect, RetryInv
  <1>4. CASE PostBegin BY <1>4 DEF PostBegin, RetryInv
  <1>5. CASE PostExpires BY <1>5 DEF PostExpires, RetryInv
  <1>6. CASE PostGiveUp BY <1>6 DEF PostGiveUp, BudgetSuffices
  <1>7. CASE PostResult BY <1>7 DEF PostResult, flagVars, RetryInv, Armed
  <1>8. CASE PostSave BY <1>8 DEF PostSave, provVars, flagVars, RetryInv, Armed
  <1>9. CASE PostReply
    <2>1. work'["sta_connect"] = work["sta_connect"]
      BY <1>1, <1>9, Delays, ArmType DEF PostReply, Works
    <2> QED BY <1>9, <2>1 DEF PostReply, flagVars, RetryInv, Armed
  <1>10. CASE ResetFlags BY <1>10 DEF ResetFlags, RetryInv
  <1>11. CASE ResetClear
    <2>1. /\ mode \in Modes /\ sta_connect_in_progress \in BOOLEAN
          /\ sta_ready \in BOOLEAN /\ AfterDisconnect \in Seq(EventKinds)
      BY <1>11, DisconnectStaType
         DEF ResetClear, IInv, TypeOK, WifiTypeOK, PolicyTypeOK
    <2>2. work'["sta_connect"] = work["sta_connect"]
      BY <1>1, <1>11, <2>1, EnterKeepsAttempt DEF ResetClear
    <2> QED BY <1>11, <2>2 DEF ResetClear, RetryInv, Armed
  <1> QED BY <1>2, <1>3, <1>4, <1>5, <1>6, <1>7, <1>8, <1>9, <1>10, <1>11
          DEF ApiStep

\* Every step keeps the promise, as long as the blocking wait does not time out.
LEMMA NextRetry == IInv /\ BudgetSuffices /\ RetryInv /\ [Next]_vars => RetryInv'
  <1> SUFFICES ASSUME IInv, BudgetSuffices, RetryInv, [Next]_vars
               PROVE RetryInv'
    OBVIOUS
  <1>1. CASE Start
    <2>1. ~sta_retry_pending
      BY <1>1 DEF Start, RetryInv, IInv, BudgetInv, AtRest, Works
    <2> QED BY <1>1, <2>1 DEF Start, RetryInv
  <1>2. CASE WorkStep
    BY <1>2, StaConnectRetry, ConnectTimeoutRetry, OtherWorkRetry DEF WorkStep
  <1>3. CASE EventStep BY <1>3, EventRetry
  <1>4. CASE ClientStep \/ ApiStep BY <1>4, ApiRetry
  <1>5. CASE Driver
    BY <1>5 DEF Driver, provVars, flagVars, apiVars, RetryInv, Armed
  <1>6. CASE Tick
    <2>1. Armed("sta_connect") => Armed("sta_connect")'
      <3>1. /\ "sta_connect" \in Works /\ work["sta_connect"] \in Nat \cup {Off}
            /\ work["sta_connect"] # 0
        BY <1>6 DEF IInv, TypeOK, PolicyTypeOK, WorkType, Works, Tick, Quiet, Due
      <3> QED BY <1>6, <3>1 DEF Tick, Armed, Off
    <2> QED BY <1>6, <2>1, RetryKept DEF Tick, flagVars
  <1>7. CASE PowerCycle BY <1>7 DEF PowerCycle, RetryInv
  <1>8. CASE UNCHANGED vars
    BY <1>8 DEF vars, provVars, flagVars, apiVars, RetryInv, Armed
  <1> QED BY <1>1, <1>2, <1>3, <1>4, <1>5, <1>6, <1>7, <1>8 DEF Next

\* As long as handle_wifi_post's budget suffices, sta_retry_pending never
\* outlives the retry it stands for, so neither STA_DISCONNECTED nor the
\* fallback SoftAP waits for an attempt that is not going to be made.
THEOREM RetryScheduledHolds == Spec /\ []BudgetSuffices => []RetryScheduled
  <1>1. Init => RetryInv BY DEF Init, RetryInv
  <1>2. RetryInv => RetryScheduled BY DEF RetryInv, RetryScheduled
  <1> QED BY <1>1, <1>2, NextRetry, InductiveInvariant, PTL DEF Spec
=============================================================================
