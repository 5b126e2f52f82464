---------------------------- MODULE WifiManager ----------------------------
(***************************************************************************)
(* src/modules/wifi_manager.c: the layer between the Zephyr network stack  *)
(* and the provisioning policy.  It keeps a few flags about the station    *)
(* (STA) and the SoftAP, issues net_mgmt requests, and turns net_mgmt      *)
(* events into callbacks.  The events are raised by the Wi-Fi driver and   *)
(* the DHCP client and handled later, in order, by the net_mgmt event      *)
(* thread: everything that can go wrong here comes from a request being    *)
(* made while events of an earlier one are still queued.                   *)
(*                                                                         *)
(* The flags carry the names of the C variables.  The driver, the DHCP     *)
(* client and the event queue are not part of the repository: they are     *)
(* modelled by the answers wifi_manager.c is written to receive.           *)
(***************************************************************************)
EXTENDS Integers, Sequences

CONSTANTS
    Cfgs,        \* station configurations (wifi_sta_cfg_t), one value each
    StaticCfgs,  \* those whose ip_mode is "static"
    NoCfg,       \* the configuration with an empty SSID
    Faults,      \* what the environment may do wrong, a subset of FaultKinds
    MaxEvents    \* bound: spontaneous events are raised only below this length

FaultKinds == {"join_fail", "link_loss", "connect_error", "static_fail",
               "ap_error", "dhcp_error", "save_error", "power_loss"}

ASSUME WifiAssumption ==
    /\ StaticCfgs \subseteq Cfgs
    /\ NoCfg \notin Cfgs
    /\ Faults \subseteq FaultKinds
    /\ MaxEvents \in Nat

VARIABLES
    sta_connect_requested, sta_link_connected, sta_ready_notified,
    sta_ipv4_seen_before_link, current_sta_cfg, link_state,
    ap_start_requested, ap_stop_requested, ap_active, ap_dhcp_running,
    ap_ipv4_configured,
    ap_start_error, \* history: did the last wifi_manager_start_ap fail?
    drv_sta,     \* driver: station "idle", "connecting" or "linked"
    drv_cfg,     \* driver: configuration of the last accepted connect request
    last_joined, \* driver: configuration of the last link that came up
    drv_ap,      \* driver: is the SoftAP on the air?
    sta_ip,      \* stack: does the STA interface have a preferred address?
    dhcp_on,     \* stack: is the DHCP client of the STA interface running?
    events       \* net_mgmt event queue, oldest first

staVars == <<sta_connect_requested, sta_link_connected, sta_ready_notified,
             sta_ipv4_seen_before_link, current_sta_cfg, link_state>>
netVars == <<drv_sta, drv_cfg, last_joined, sta_ip, dhcp_on>>
apVars  == <<ap_start_requested, ap_stop_requested, ap_active,
             ap_dhcp_running, ap_ipv4_configured, ap_start_error, drv_ap>>
wifiVars == <<staVars, netVars, apVars, events>>

LinkStates == {"disconnected", "connecting", "connected_no_ip", "connected"}
StaEventKinds == {"connect_ok", "connect_fail", "disconnected", "ipv4"}
ApEventKinds == {"ap_enabled", "ap_disabled"}
EventKinds == StaEventKinds \cup ApEventKinds

StaTypeOK ==
    /\ sta_connect_requested \in BOOLEAN /\ sta_link_connected \in BOOLEAN
    /\ sta_ready_notified \in BOOLEAN
    /\ sta_ipv4_seen_before_link \in BOOLEAN
    /\ current_sta_cfg \in Cfgs \cup {NoCfg} /\ link_state \in LinkStates
    /\ drv_sta \in {"idle", "connecting", "linked"}
    /\ drv_cfg \in Cfgs \cup {NoCfg} /\ last_joined \in Cfgs \cup {NoCfg}
    /\ sta_ip \in BOOLEAN /\ dhcp_on \in BOOLEAN

ApTypeOK ==
    /\ ap_start_requested \in BOOLEAN /\ ap_stop_requested \in BOOLEAN
    /\ ap_active \in BOOLEAN /\ ap_dhcp_running \in BOOLEAN
    /\ ap_ipv4_configured \in BOOLEAN /\ ap_start_error \in BOOLEAN
    /\ drv_ap \in BOOLEAN

WifiTypeOK == StaTypeOK /\ ApTypeOK /\ events \in Seq(EventKinds)

\* wifi_manager_init, with the radio and the event queue as after a reset.
WifiInit ==
    /\ sta_connect_requested = FALSE /\ sta_link_connected = FALSE
    /\ sta_ready_notified = FALSE /\ sta_ipv4_seen_before_link = FALSE
    /\ current_sta_cfg = NoCfg /\ link_state = "disconnected"
    /\ ap_start_requested = FALSE /\ ap_stop_requested = FALSE
    /\ ap_active = FALSE /\ ap_dhcp_running = FALSE
    /\ ap_ipv4_configured = FALSE /\ ap_start_error = FALSE
    /\ drv_sta = "idle" /\ drv_cfg = NoCfg /\ last_joined = NoCfg
    /\ drv_ap = FALSE /\ sta_ip = FALSE /\ dhcp_on = FALSE
    /\ events = << >>

\* The same state, reached by a reset of the chip.
WifiReset ==
    /\ sta_connect_requested' = FALSE /\ sta_link_connected' = FALSE
    /\ sta_ready_notified' = FALSE /\ sta_ipv4_seen_before_link' = FALSE
    /\ current_sta_cfg' = NoCfg /\ link_state' = "disconnected"
    /\ ap_start_requested' = FALSE /\ ap_stop_requested' = FALSE
    /\ ap_active' = FALSE /\ ap_dhcp_running' = FALSE
    /\ ap_ipv4_configured' = FALSE /\ ap_start_error' = FALSE
    /\ drv_sta' = "idle" /\ drv_cfg' = NoCfg /\ last_joined' = NoCfg
    /\ drv_ap' = FALSE /\ sta_ip' = FALSE /\ dhcp_on' = FALSE
    /\ events' = << >>

-----------------------------------------------------------------------------
(* Requests.  They run in the thread of the caller, which is inside some   *)
(* handler of its own: q is the event queue that handler leaves.           *)

\* wifi_manager_clear_sta_ipv4_state: DHCP stopped, address removed.
ClearStaIpv4 == sta_ip' = FALSE /\ dhcp_on' = FALSE

\* wifi_manager_connect_sta: the flags are set before the request is made and
\* stay set when it is refused.  The driver takes a connect only when idle.
ConnectSta(cfg, accepted) ==
    /\ current_sta_cfg' = cfg
    /\ sta_connect_requested' = TRUE
    /\ sta_link_connected' = FALSE
    /\ sta_ready_notified' = FALSE
    /\ sta_ipv4_seen_before_link' = FALSE
    /\ link_state' = "connecting"
    /\ ClearStaIpv4
    /\ UNCHANGED last_joined
    /\ \/ /\ accepted /\ drv_sta = "idle"
          /\ drv_sta' = "connecting" /\ drv_cfg' = cfg
       \/ /\ ~accepted /\ ("connect_error" \in Faults \/ drv_sta # "idle")
          /\ UNCHANGED <<drv_sta, drv_cfg>>

\* wifi_manager_disconnect_sta: every flag is dropped at once, link_state is
\* not; a driver that had a link or an attempt raises a disconnect event
\* (AfterDisconnect is the queue it leaves).
AfterDisconnect ==
    IF drv_sta = "idle" THEN events ELSE Append(events, "disconnected")

DisconnectSta ==
    /\ sta_connect_requested' = FALSE
    /\ sta_link_connected' = FALSE
    /\ sta_ready_notified' = FALSE
    /\ sta_ipv4_seen_before_link' = FALSE
    /\ ClearStaIpv4
    /\ drv_sta' = "idle"
    /\ UNCHANGED <<current_sta_cfg, link_state, drv_cfg, last_joined>>

\* wifi_manager_start_ap: a SoftAP that is already up counts as success and
\* raises no new event.  A driver that refuses leaves the flags set; an address
\* that cannot be set up, which is tried until it is there, leaves them alone.
StartAp(q, ok) ==
    /\ ap_start_error' = ~ok
    /\ ok \/ "ap_error" \in Faults
    /\ drv_ap' = IF ok THEN TRUE ELSE drv_ap
    /\ events' = IF ok /\ ~drv_ap THEN Append(q, "ap_enabled") ELSE q
    /\ \/ /\ ap_start_requested' = TRUE /\ ap_stop_requested' = FALSE
          /\ ap_ipv4_configured' = TRUE
       \/ /\ ~ok /\ ~ap_ipv4_configured
          /\ UNCHANGED <<ap_start_requested, ap_stop_requested,
                         ap_ipv4_configured>>
    /\ UNCHANGED <<ap_active, ap_dhcp_running>>

\* wifi_manager_stop_ap.
StopAp(q) ==
    /\ ap_dhcp_running' = FALSE
    /\ ap_stop_requested' = TRUE
    /\ ap_start_requested' = FALSE
    /\ drv_ap' = FALSE
    /\ events' = IF drv_ap THEN Append(q, "ap_disabled") ELSE q
    /\ UNCHANGED <<ap_active, ap_ipv4_configured, ap_start_error>>

-----------------------------------------------------------------------------
(* Event handlers.  up is the callback the handler makes into the          *)
(* application, "none" when it makes none.  The callback runs inside the   *)
(* handler and may start or stop the SoftAP: it decides apVars and events  *)
(* after a station event.                                                  *)

Pending(e) == events # << >> /\ Head(events) = e

\* wifi_manager_notify_sta_ready, called with an address (ip) or without one.
MayNotify(ip) == ip /\ sta_connect_requested /\ ~sta_ready_notified

MutNotify(ip, otherwise, up) ==
    /\ up = "none"
    /\ sta_ready_notified' = (sta_ready_notified \/ MayNotify(ip))
    /\ link_state' = IF MayNotify(ip) THEN "connected" ELSE otherwise

Notify(ip, otherwise, up) ==
    /\ up = IF MayNotify(ip) THEN "sta_connected" ELSE "none"
    /\ sta_ready_notified' = (sta_ready_notified \/ MayNotify(ip))
    /\ link_state' = IF MayNotify(ip) THEN "connected" ELSE otherwise

\* A link came up for a configuration with a static address.
StaticLinkUp(up) ==
    /\ current_sta_cfg \in StaticCfgs
    /\ dhcp_on' = FALSE
    /\ \/ sta_ip' = TRUE /\ Notify(TRUE, link_state, up)
       \/ /\ "static_fail" \in Faults
          /\ up = "sta_disconnected"
          /\ sta_ip' \in {sta_ip, TRUE}
          /\ link_state' = "connected_no_ip"
          /\ UNCHANGED sta_ready_notified

\* A link came up for DHCP: use an address that is already there, else ask.
MutDhcpLinkUp(up) ==
    /\ current_sta_cfg \notin StaticCfgs
    /\ Notify(TRUE, "connected_no_ip", up)
    /\ UNCHANGED <<sta_ip, dhcp_on>>

DhcpLinkUp(up) ==
    /\ current_sta_cfg \notin StaticCfgs
    /\ UNCHANGED sta_ip
    /\ \/ /\ sta_ipv4_seen_before_link \/ sta_ip
          /\ Notify(sta_ip, "connected_no_ip", up)
          /\ UNCHANGED dhcp_on
       \/ /\ ~sta_ipv4_seen_before_link /\ ~sta_ip
          /\ up = "none"
          /\ dhcp_on' = TRUE
          /\ link_state' = "connected_no_ip"
          /\ UNCHANGED sta_ready_notified

\* NET_EVENT_WIFI_CONNECT_RESULT, status 0.
ConnectOk(up) ==
    /\ Pending("connect_ok") /\ sta_connect_requested
    /\ sta_link_connected' = TRUE
    /\ StaticLinkUp(up) \/ DhcpLinkUp(up)
    /\ UNCHANGED <<sta_connect_requested, sta_ipv4_seen_before_link,
                   current_sta_cfg, drv_sta, drv_cfg, last_joined>>

\* NET_EVENT_WIFI_CONNECT_RESULT, status not 0: the request stays open.
ConnectFailed(up) ==
    /\ Pending("connect_fail") /\ sta_connect_requested
    /\ up = "sta_disconnected"
    /\ sta_ready_notified' = FALSE
    /\ sta_link_connected' = FALSE
    /\ link_state' = "disconnected"
    /\ UNCHANGED <<sta_connect_requested, sta_ipv4_seen_before_link,
                   current_sta_cfg, netVars>>

\* NET_EVENT_WIFI_DISCONNECT_RESULT.
Disconnected(up) ==
    /\ Pending("disconnected") /\ (sta_connect_requested \/ sta_link_connected)
    /\ up = "sta_disconnected"
    /\ sta_ready_notified' = FALSE
    /\ sta_link_connected' = FALSE
    /\ sta_connect_requested' = FALSE
    /\ sta_ipv4_seen_before_link' = FALSE
    /\ ClearStaIpv4
    /\ link_state' = "disconnected"
    /\ UNCHANGED <<current_sta_cfg, drv_sta, drv_cfg, last_joined>>

\* ipv4_event_handler, NET_EVENT_IPV4_DHCP_BOUND and NET_EVENT_IPV4_ADDR_ADD.
Ipv4Event(up) ==
    /\ Pending("ipv4") /\ current_sta_cfg \notin StaticCfgs
    /\ sta_ipv4_seen_before_link' = ~sta_link_connected
    /\ Notify(sta_ip /\ sta_link_connected, link_state, up)
    /\ UNCHANGED <<sta_connect_requested, sta_link_connected, current_sta_cfg,
                   netVars>>

\* Events the handlers return from at once: nobody asked for them.
IgnoredStaEvent(up) ==
    /\ \/ Pending("connect_ok") /\ ~sta_connect_requested
       \/ Pending("connect_fail") /\ ~sta_connect_requested
       \/ /\ Pending("disconnected")
          /\ ~sta_connect_requested /\ ~sta_link_connected
       \/ Pending("ipv4") /\ current_sta_cfg \in StaticCfgs
    /\ up = "none"
    /\ UNCHANGED <<staVars, netVars>>

StaEvent(up) ==
    \/ ConnectOk(up) \/ ConnectFailed(up) \/ Disconnected(up)
    \/ Ipv4Event(up) \/ IgnoredStaEvent(up)

\* NET_EVENT_WIFI_AP_ENABLE_RESULT.  A DHCP server that does not start
\* (wifi_manager_start_ap_dhcp) is only logged, and so is the status of the event:
\* assumed is that a driver which accepts a start (StartAp) does not fail it later.
ApEnabled(up) ==
    /\ Pending("ap_enabled") /\ ap_start_requested
    /\ up = "ap_started"
    /\ ap_start_requested' = FALSE
    /\ ap_stop_requested' = FALSE
    /\ ap_active' = TRUE
    /\ ap_dhcp_running' \in {TRUE} \cup
          IF "dhcp_error" \in Faults THEN {ap_dhcp_running} ELSE {}
    /\ UNCHANGED <<ap_ipv4_configured, ap_start_error, drv_ap>>

\* NET_EVENT_WIFI_AP_DISABLE_RESULT.
MutApDisabled(up) ==
    /\ Pending("ap_disabled")
    /\ up = "ap_stopped"
    /\ ap_start_requested' = FALSE /\ ap_stop_requested' = FALSE
    /\ ap_active' = FALSE /\ ap_dhcp_running' = FALSE
    /\ UNCHANGED <<ap_ipv4_configured, ap_start_error, drv_ap>>

ApDisabled(up) ==
    /\ Pending("ap_disabled") /\ ap_stop_requested
    /\ up = "ap_stopped"
    /\ ap_start_requested' = FALSE
    /\ ap_stop_requested' = FALSE
    /\ ap_active' = FALSE
    /\ ap_dhcp_running' = FALSE
    /\ UNCHANGED <<ap_ipv4_configured, ap_start_error, drv_ap>>

IgnoredApEvent(up) ==
    /\ \/ Pending("ap_enabled") /\ ~ap_start_requested
       \/ Pending("ap_disabled") /\ ~ap_stop_requested
    /\ up = "none"
    /\ UNCHANGED apVars

ApEvent(up) == ApEnabled(up) \/ ApDisabled(up) \/ IgnoredApEvent(up)

-----------------------------------------------------------------------------
(* The driver and the DHCP client.                                         *)

Raise(e) == Len(events) < MaxEvents /\ events' = Append(events, e)

LinkUp ==
    /\ drv_sta = "connecting"
    /\ drv_sta' = "linked"
    /\ last_joined' = drv_cfg
    /\ Raise("connect_ok")
    /\ UNCHANGED <<staVars, apVars, drv_cfg, sta_ip, dhcp_on>>

\* A refused join is reported as a failed connect or as a disconnect.
JoinFails ==
    /\ "join_fail" \in Faults
    /\ drv_sta = "connecting"
    /\ drv_sta' = "idle"
    /\ Raise("connect_fail") \/ Raise("disconnected")
    /\ UNCHANGED <<staVars, apVars, drv_cfg, last_joined, sta_ip, dhcp_on>>

LinkLost ==
    /\ "link_loss" \in Faults
    /\ drv_sta = "linked"
    /\ drv_sta' = "idle"
    /\ Raise("disconnected")
    /\ UNCHANGED <<staVars, apVars, drv_cfg, last_joined, sta_ip, dhcp_on>>

\* A lease is obtained or, with nothing queued, renewed; both raise the
\* address events.
DhcpBound ==
    /\ dhcp_on /\ drv_sta = "linked"
    /\ ~sta_ip \/ events = << >>
    /\ sta_ip' = TRUE
    /\ Raise("ipv4")
    /\ UNCHANGED <<staVars, apVars, drv_sta, drv_cfg, last_joined, dhcp_on>>

DriverStep == LinkUp \/ JoinFails \/ LinkLost \/ DhcpBound
=============================================================================
