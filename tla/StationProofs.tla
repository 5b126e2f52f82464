--------------------------- MODULE StationProofs ---------------------------
(***************************************************************************)
(* What TLAPS proves about the station of Provision, wherever its clients  *)
(* are: a link that is up is used, and "operational" is true.              *)
(*                                                                         *)
(* The argument.  Until an event comes late no attempt begins while one of *)
(* the attempt before is queued, so that what is queued while the driver   *)
(* has a link or an attempt is about that one (RadioLink).  No handler of the    *)
(* work queue that begins or ends attempts is due while the API thread has *)
(* cancelled them and not yet gone on (TimeLink).                          *)
(***************************************************************************)
EXTENDS SoftApProofs, ProvisionHistory

-----------------------------------------------------------------------------
(* The inductive invariant.                                                *)

\* An attempt is under way; the station has been told that it is ready.  A reset
\* that has dropped the flags is about to disconnect.
Underway == sta_connect_in_progress \/ api = "reset_cleared"
Announced == sta_ready \/ api = "reset_cleared"

\* What the driver has, somebody has asked for, and no end of it is queued.
AskedLink ==
    drv_sta # "idle" =>
        /\ sta_connect_requested /\ ~sta_ipv4_seen_before_link
        /\ ~Queued("connect_fail") /\ ~Queued("disconnected")

\* Nothing is left of an earlier link while the driver joins.
JoiningLink ==
    drv_sta = "connecting" =>
        /\ ~sta_link_connected /\ ~sta_ready_notified /\ ~sta_ip /\ ~dhcp_on
        /\ ~Queued("connect_ok") /\ ~Queued("ipv4") /\ Underway

\* A link that is up, from its event over its address to the callback: what is
\* still to be done is queued, or DHCP is asked for it.
UpLink ==
    drv_sta = "linked" =>
        /\ ~sta_link_connected => Queued("connect_ok") /\ ~Queued("ipv4") /\ ~sta_ip
        /\ sta_ip \/ dhcp_on \/ sta_ready_notified => sta_link_connected
        /\ sta_link_connected /\ ~sta_ip => dhcp_on
        /\ dhcp_on => current_sta_cfg \notin StaticCfgs
        /\ sta_ip /\ ~sta_ready_notified => Queued("ipv4") /\ current_sta_cfg \notin StaticCfgs
        /\ IF sta_ready_notified THEN sta_ip /\ Announced ELSE Underway

RadioLink == AskedLink /\ JoiningLink /\ UpLink

\* An attempt is scheduled only when the driver is idle, as it is while a POST
\* sleeps.
RestLink ==
    /\ tConnect # Off => drv_sta = "idle"
    /\ api = "settling" =>
          drv_sta = "idle" /\ ~sta_connect_requested /\ api_timer <= SettleDelay

\* The API thread has cancelled the work items, and what an event schedules then
\* is due after the sleep.
Interrupting == {"cancelled", "settling", "reset_cancelled", "reset_cleared"}
Sleep == IF api = "settling" THEN api_timer ELSE SettleDelay
Later(t) == t = Off \/ t > Sleep

CalmLink ==
    api \in Interrupting => Later(tConnect) /\ Later(tTimeout) /\ Later(tReconnect)

TimeLink == RestLink /\ CalmLink

LinkInv == RadioLink /\ TimeLink

UsedInv == IInv /\ DoorInv /\ LinkInv

-----------------------------------------------------------------------------
(* Lemmas.                                                                 *)

\* The sleep of a POST is shorter than the delays of what a disconnect schedules.
LEMMA SettlesFirst == SettleDelay < RetryDelay /\ SettleDelay < ReconnectDelay
  BY DelayOrder, Delays

LEMMA StationTypes ==
  ASSUME TypeOK
  PROVE  /\ sta_connect_requested \in BOOLEAN /\ sta_link_connected \in BOOLEAN
         /\ sta_ready_notified \in BOOLEAN /\ sta_ipv4_seen_before_link \in BOOLEAN
         /\ sta_ip \in BOOLEAN /\ dhcp_on \in BOOLEAN
         /\ drv_sta \in {"idle", "connecting", "linked"}
         /\ sta_connect_in_progress \in BOOLEAN /\ sta_ready \in BOOLEAN
         /\ api \in ApiStates /\ api_timer \in Nat /\ SettleDelay \in Nat
         /\ RetryDelay \in Nat /\ ReconnectDelay \in Nat /\ ConnectTimeout \in Nat
         /\ events \in Seq(EventKinds) /\ work \in WorkType
  BY ProvisionAssumption DEF TypeOK, WifiTypeOK, StaTypeOK, PolicyTypeOK, RequestTypeOK

\* A driver that is idle has nothing to be asked about.
LEMMA IdleLink == drv_sta' = "idle" => RadioLink'
  BY DEF RadioLink, AskedLink, JoiningLink, UpLink

\* A step that leaves the radio and the station's events alone.
LEMMA RadioLinkKept ==
  ASSUME RadioLink, UNCHANGED <<staVars, netVars>>,
         Underway => Underway', Announced => Announced',
         \A x \in StaEventKinds : Holds(events', x) <=> Queued(x)
  PROVE  RadioLink'
  <1>1. /\ Queued("connect_ok")' <=> Queued("connect_ok")
        /\ Queued("connect_fail")' <=> Queued("connect_fail")
        /\ Queued("disconnected")' <=> Queued("disconnected")
        /\ Queued("ipv4")' <=> Queued("ipv4")
    BY DEF StaEventKinds, Queued
  <1> QED
    BY <1>1 DEF RadioLink, AskedLink, JoiningLink, UpLink, staVars, netVars

\* One that leaves the queue alone too.
LEMMA RadioLinkUntouched ==
  ASSUME RadioLink, UNCHANGED <<staVars, netVars, events>>,
         Underway => Underway', Announced => Announced'
  PROVE  RadioLink'
  BY RadioLinkKept DEF Queued

\* A station of which provision_module knows nothing has nothing.
LEMMA Unknown ==
  ASSUME IInv, RadioLink, ~sta_connect_in_progress, ~sta_ready, api # "reset_cleared"
  PROVE  drv_sta = "idle"
  BY StationTypes DEF IInv, RadioLink, JoiningLink, UpLink, Underway, Announced

\* The events of the SoftAP are not the station's.
LEMMA StaKinds ==
  ASSUME NEW q \in Seq(EventKinds), Extends(q), NEW x \in StaEventKinds
  PROVE  Holds(events', x) <=> Holds(q, x)
  <1>1. /\ "ap_enabled" \in EventKinds /\ "ap_disabled" \in EventKinds
        /\ x # "ap_enabled" /\ x # "ap_disabled"
    BY DEF EventKinds, ApEventKinds, StaEventKinds
  <1>2. CASE events' = q
    BY <1>2
  <1>3. CASE events' = Append(q, "ap_enabled")
    BY <1>1, <1>3, Raised
  <1>4. CASE events' = Append(q, "ap_disabled")
    BY <1>1, <1>4, Raised
  <1> QED
    BY <1>2, <1>3, <1>4 DEF Extends

\* A step that schedules nothing.
LEMMA TimeLinkKept ==
  ASSUME TimeLink, tConnect' \in {tConnect, Off}, tTimeout' \in {tTimeout, Off},
         tReconnect' \in {tReconnect, Off}, drv_sta = "idle" => drv_sta' = "idle",
         api' \in Interrupting => UNCHANGED <<api, api_timer>>,
         api' = "settling" /\ sta_connect_requested' => sta_connect_requested
  PROVE  TimeLink'
  BY DEF TimeLink, RestLink, CalmLink, Later, Sleep, Interrupting

\* No handler of the work queue runs while the API thread is in between.
LEMMA NobodyInterrupts ==
  ASSUME IInv, DoorInv, TimeLink, NEW w \in Works, Due(w)
  PROVE  api \notin Interrupting
  <1>1. Off = -1 /\ api_timer \in Nat /\ SettleDelay \in Nat
    BY StationTypes DEF Off, IInv
  <1>2. CASE w = "sta_connect"
    BY <1>1, <1>2 DEF Due, TimeLink, CalmLink, Later, Sleep, tConnect
  <1>3. CASE w = "connect_timeout"
    BY <1>1, <1>3 DEF Due, TimeLink, CalmLink, Later, Sleep, tTimeout
  <1>4. CASE w = "sta_reconnect"
    BY <1>1, <1>4 DEF Due, TimeLink, CalmLink, Later, Sleep, tReconnect
  <1>5. CASE w = "boot_fallback_ap"
    BY <1>1, <1>5 DEF Due, DoorInv, BootDoor, tFallback, Interrupting
  <1>6. CASE w = "stop_ap"
    BY <1>1, <1>6 DEF Due, DoorInv, OpenDoor, tStopAp, Interrupting
  <1> QED
    BY <1>2, <1>3, <1>4, <1>5, <1>6 DEF Works

\* So what a handler leaves is in time if it schedules attempts for an idle
\* driver only.
LEMMA WorkTime ==
  ASSUME IInv, DoorInv, TimeLink, NEW w \in Works, Due(w), api' = api,
         tConnect' # Off => drv_sta' = "idle"
  PROVE  TimeLink'
  <1>1. api \notin Interrupting
    BY NobodyInterrupts
  <1> QED
    BY <1>1 DEF TimeLink, RestLink, CalmLink, Interrupting

-----------------------------------------------------------------------------
(* Work handlers.                                                          *)

\* sta_connect_work_handler: an attempt that the driver takes is the only one
\* that anything in the queue could be about, and the queue is empty.
LEMMA StaConnectLink == UsedInv /\ events = << >> /\ StaConnectWork => LinkInv'
  <1> SUFFICES ASSUME UsedInv, events = << >>, StaConnectWork PROVE LinkInv'
    OBVIOUS
  <1>1. tConnect = 0 /\ tConnect # Off /\ api' = api /\ Due("sta_connect")
    <2>1. PICK retry : BeginAttempt(retry)
      BY DEF StaConnectWork, NoCredentials, AttemptAccepted, AttemptRejected
    <2>2. Due("sta_connect") /\ api' = api
      BY <2>1 DEF BeginAttempt, apiVars
    <2> QED
      BY <2>2 DEF Due, tConnect, Off
  <1>2. drv_sta = "idle"
    BY <1>1 DEF UsedInv, LinkInv, TimeLink, RestLink
  <1>3. CASE NoCredentials \/ AttemptRejected
    <2>1. drv_sta' = "idle"
      BY <1>2, <1>3 DEF NoCredentials, AttemptRejected, ConnectSta, netVars
    <2> QED
      BY <1>1, <2>1, IdleLink, WorkTime DEF UsedInv, LinkInv, Works
  <1>4. CASE AttemptAccepted
    <2>1. /\ tConnect' = Off
          /\ sta_connect_requested' = TRUE /\ sta_ipv4_seen_before_link' = FALSE
          /\ sta_link_connected' = FALSE /\ sta_ready_notified' = FALSE
          /\ sta_ip' = FALSE /\ dhcp_on' = FALSE /\ drv_sta' = "connecting"
          /\ sta_connect_in_progress' = TRUE /\ events' = events
      BY <1>2, <1>4 DEF AttemptAccepted, ConnectSta, ClearStaIpv4, Cancel, Works, tConnect
    <2>2. \A x : ~Holds(events', x)
      BY <2>1 DEF Holds
    <2>3. RadioLink'
      BY <2>1, <2>2 DEF RadioLink, AskedLink, JoiningLink, UpLink, Underway, Queued
    <2> QED
      BY <1>1, <2>1, <2>3, WorkTime DEF UsedInv, LinkInv, Works
  <1> QED
    BY <1>3, <1>4 DEF StaConnectWork

\* connect_timeout_work_handler.
LEMMA ConnectTimeoutLink == UsedInv /\ ConnectTimeoutWork => LinkInv'
  <1> SUFFICES ASSUME UsedInv, ConnectTimeoutWork PROVE LinkInv'
    OBVIOUS
  <1>1. api' = api /\ Due("connect_timeout")
    BY DEF ConnectTimeoutWork, apiVars
  <1>2. CASE DisconnectSta
    <2>1. drv_sta' = "idle"
      BY <1>2 DEF DisconnectSta
    <2> QED
      BY <1>1, <2>1, IdleLink, WorkTime DEF UsedInv, LinkInv, Works
  <1>3. CASE work' = Cancel(work, {"connect_timeout"}) /\ UNCHANGED <<wifiVars, flagVars>>
    <2>1. tConnect' = tConnect
      BY <1>3, StationTypes DEF UsedInv, IInv, Cancel, Works, WorkType, tConnect
    <2>2. UNCHANGED <<staVars, netVars, events, sta_connect_in_progress, sta_ready>>
      BY <1>3 DEF wifiVars, flagVars
    <2>3. RadioLink'
      BY <1>1, <2>2, RadioLinkUntouched DEF UsedInv, LinkInv, Underway, Announced
    <2>4. tConnect' # Off => drv_sta' = "idle"
      BY <2>1, <2>2 DEF UsedInv, LinkInv, TimeLink, RestLink, netVars
    <2> QED
      BY <1>1, <2>3, <2>4, WorkTime DEF UsedInv, LinkInv, Works
  <1> QED
    BY <1>2, <1>3 DEF ConnectTimeoutWork

\* sta_reconnect_work_handler begins a round only when there is nothing.
LEMMA StaReconnectLink == UsedInv /\ StaReconnectWork => LinkInv'
  <1> SUFFICES ASSUME UsedInv, StaReconnectWork PROVE LinkInv'
    OBVIOUS
  <1> DEFINE busy == sta_ready \/ provisioning_active \/ sta_connect_in_progress
             f == Cancel(work, {"sta_reconnect"})
  <1>1. /\ api' = api /\ Due("sta_reconnect") /\ UNCHANGED <<staVars, netVars>>
        /\ busy => work' = f /\ UNCHANGED <<flagVars, events>>
    BY DEF StaReconnectWork, apiVars
  <1>2. api # "reset_cleared"
    BY <1>1, NobodyInterrupts DEF UsedInv, LinkInv, Interrupting, Works
  <1>3. CASE busy
    <2>1. tConnect' = tConnect
      BY <1>1, <1>3, StationTypes DEF UsedInv, IInv, Cancel, Works, WorkType, tConnect
    <2>2. UNCHANGED <<events, sta_connect_in_progress, sta_ready>>
      BY <1>1, <1>3 DEF flagVars
    <2>3. RadioLink'
      BY <1>1, <2>2, RadioLinkUntouched DEF UsedInv, LinkInv, Underway, Announced
    <2>4. tConnect' # Off => drv_sta' = "idle"
      BY <1>1, <2>1 DEF UsedInv, LinkInv, TimeLink, RestLink, netVars
    <2> QED
      BY <1>1, <2>3, <2>4, WorkTime DEF UsedInv, LinkInv, Works
  <1>4. CASE ~busy
    <2>1. drv_sta' = "idle"
      BY <1>1, <1>2, <1>4, Unknown DEF UsedInv, LinkInv, netVars
    <2> QED
      BY <1>1, <2>1, IdleLink, WorkTime DEF UsedInv, LinkInv, Works
  <1> QED
    BY <1>3, <1>4

\* boot_fallback_ap_work_handler opens the SoftAP only then.
LEMMA BootFallbackLink == UsedInv /\ BootFallbackWork => LinkInv'
  <1> SUFFICES ASSUME UsedInv, BootFallbackWork PROVE LinkInv'
    OBVIOUS
  <1> DEFINE f == Cancel(work, {"boot_fallback_ap"})
  <1>1. /\ api' = api /\ Due("boot_fallback_ap") /\ UNCHANGED <<staVars, netVars>>
        /\ \/ /\ work' \in {f, Arm(f, "boot_fallback_ap", FallbackDelay)}
              /\ UNCHANGED <<sta_connect_in_progress, sta_ready, events>>
           \/ ~sta_ready /\ ~sta_connect_in_progress
    BY DEF BootFallbackWork, apiVars
  <1>2. api # "reset_cleared"
    BY <1>1, NobodyInterrupts DEF UsedInv, LinkInv, Interrupting, Works
  <1>3. CASE /\ work' \in {f, Arm(f, "boot_fallback_ap", FallbackDelay)}
             /\ UNCHANGED <<sta_connect_in_progress, sta_ready, events>>
    <2>1. tConnect' = tConnect
      BY <1>3, StationTypes DEF UsedInv, IInv, Cancel, Arm, Works, WorkType, tConnect
    <2>2. RadioLink'
      BY <1>1, <1>3, RadioLinkUntouched DEF UsedInv, LinkInv, Underway, Announced
    <2>3. tConnect' # Off => drv_sta' = "idle"
      BY <1>1, <2>1 DEF UsedInv, LinkInv, TimeLink, RestLink, netVars
    <2> QED
      BY <1>1, <2>2, <2>3, WorkTime DEF UsedInv, LinkInv, Works
  <1>4. CASE ~sta_ready /\ ~sta_connect_in_progress
    <2>1. drv_sta' = "idle"
      BY <1>1, <1>2, <1>4, Unknown DEF UsedInv, LinkInv, netVars
    <2> QED
      BY <1>1, <2>1, IdleLink, WorkTime DEF UsedInv, LinkInv, Works
  <1> QED
    BY <1>1, <1>3, <1>4

\* stop_ap_work_handler leaves the station alone.
LEMMA StopApLink == UsedInv /\ StopApWork => LinkInv'
  <1> SUFFICES ASSUME UsedInv, StopApWork PROVE LinkInv'
    OBVIOUS
  <1>1. /\ api' = api /\ Due("stop_ap") /\ UNCHANGED <<staVars, netVars, flagVars>>
        /\ work' = Cancel(work, {"stop_ap"}) /\ Extends(events)
    BY SoftApEvents DEF StopApWork, apiVars
  <1>2. tConnect' = tConnect
    BY <1>1, StationTypes DEF UsedInv, IInv, Cancel, Works, WorkType, tConnect
  <1>3. events \in Seq(EventKinds)
    BY StationTypes DEF UsedInv, IInv
  <1>4. \A x \in StaEventKinds : Holds(events', x) <=> Queued(x)
    BY <1>1, <1>3, StaKinds DEF Queued
  <1>5. RadioLink'
    BY <1>1, <1>4, RadioLinkKept DEF UsedInv, LinkInv, Underway, Announced, flagVars
  <1>6. tConnect' # Off => drv_sta' = "idle"
    BY <1>1, <1>2 DEF UsedInv, LinkInv, TimeLink, RestLink, netVars
  <1> QED
    BY <1>1, <1>5, <1>6, WorkTime DEF UsedInv, LinkInv, Works

LEMMA WorkLink == UsedInv /\ events = << >> /\ WorkStep => LinkInv'
  BY StaConnectLink, ConnectTimeoutLink, StaReconnectLink, BootFallbackLink, StopApLink
  DEF WorkStep

-----------------------------------------------------------------------------
(* Events.                                                                 *)

\* What a callback does to the flags, and to the queue q that its event leaves.
LEMMA CallbackFlags ==
  ASSUME NEW up \in {"none", "sta_connected"}, NEW q, StaCallback(up, q), api' = api
  PROVE  /\ Extends(q) /\ (Announced => Announced')
         /\ up = "none" => (Underway => Underway')
         /\ up = "sta_connected" => (Underway => Announced')
  <1>1. CASE NoCallback(q)
    <2>1. UNCHANGED <<sta_connect_in_progress, sta_ready>> /\ Extends(q)
      BY <1>1 DEF NoCallback, provVars, flagVars, Extends
    <2>2. CASE up = "none"
      BY <2>1, <2>2 DEF Underway, Announced
    <2>3. CASE up = "sta_connected" /\ ~sta_connect_in_progress
      BY <2>1, <2>3 DEF Underway, Announced
    <2>4. CASE up = "sta_connected" /\ sta_connect_in_progress
      BY <2>1, <2>4 DEF StaCallback, StaConnected, Underway, Announced
    <2> QED
      BY <2>2, <2>3, <2>4
  <1>2. CASE ~NoCallback(q)
    <2>1. up = "sta_connected" /\ StaConnected(q)
      BY <1>2 DEF StaCallback
    <2>2. sta_ready' = TRUE /\ Extends(q)
      BY <1>2, <2>1, SoftApEvents DEF StaConnected, Extends
    <2> QED
      BY <2>1, <2>2 DEF Announced
  <1> QED
    BY <1>1, <1>2

\* wifi_manager_notify_sta_ready for a station that was asked for.
LEMMA Notified ==
  ASSUME NEW ip \in BOOLEAN, NEW otherwise, NEW up, Notify(ip, otherwise, up),
         sta_connect_requested, sta_ready_notified \in BOOLEAN
  PROVE  /\ ip => /\ sta_ready_notified' = TRUE
                  /\ sta_ready_notified => up = "none"
                  /\ ~sta_ready_notified => up = "sta_connected"
         /\ ~ip => up = "none" /\ sta_ready_notified' = sta_ready_notified
  BY DEF Notify, MayNotify

\* What that means for a link.
LEMMA NotifiedLink ==
  ASSUME UpLink, drv_sta = "linked", NEW otherwise, NEW up, Notify(TRUE, otherwise, up),
         sta_connect_requested, sta_ready_notified \in BOOLEAN
  PROVE  /\ sta_ready_notified' = TRUE
         /\ \/ up = "none" /\ Announced
            \/ up = "sta_connected" /\ Underway
  <1>1. IF sta_ready_notified THEN Announced ELSE Underway
    BY DEF UpLink
  <1>2. /\ sta_ready_notified' = TRUE
        /\ sta_ready_notified => up = "none"
        /\ ~sta_ready_notified => up = "sta_connected"
    BY Notified
  <1> QED
    BY <1>1, <1>2

\* NET_EVENT_WIFI_CONNECT_RESULT of a link.
LEMMA ConnectOkLink ==
  ASSUME UsedInv, ~AddressRefused', drv_sta = "linked", NEW up, ConnectOk(up),
         StaCallback(up, Tail(events)), api' = api
  PROVE  UpLink'
  <1>1. /\ sta_connect_requested /\ sta_link_connected' = TRUE /\ drv_sta' = drv_sta
        /\ current_sta_cfg' = current_sta_cfg /\ sta_ipv4_seen_before_link = FALSE
    BY StationTypes DEF ConnectOk, UsedInv, IInv, LinkInv, RadioLink, AskedLink
  <1>2. /\ sta_ready_notified \in BOOLEAN /\ sta_ip \in BOOLEAN /\ dhcp_on \in BOOLEAN
    BY StationTypes DEF UsedInv, IInv
  <1>3. CASE StaticLinkUp(up)
    <2>1. /\ dhcp_on' = FALSE /\ sta_ip' = TRUE /\ Notify(TRUE, link_state, up)
      BY <1>1, <1>3 DEF StaticLinkUp, AddressRefused
    <2>2. /\ sta_ready_notified' = TRUE
          /\ \/ up = "none" /\ Announced
             \/ up = "sta_connected" /\ Underway
      BY <1>1, <1>2, <2>1, NotifiedLink DEF UsedInv, LinkInv, RadioLink
    <2>3. Announced'
      BY <1>2, <2>2, CallbackFlags
    <2> QED
      BY <1>1, <2>1, <2>2, <2>3 DEF UpLink
  <1>4. CASE DhcpLinkUp(up) /\ sta_ip
    <2>1. /\ current_sta_cfg \notin StaticCfgs /\ sta_ip' = TRUE /\ dhcp_on' = dhcp_on
          /\ Notify(TRUE, "connected_no_ip", up)
      BY <1>2, <1>4 DEF DhcpLinkUp
    <2>2. /\ sta_ready_notified' = TRUE
          /\ \/ up = "none" /\ Announced
             \/ up = "sta_connected" /\ Underway
      BY <1>1, <1>2, <2>1, NotifiedLink DEF UsedInv, LinkInv, RadioLink
    <2>3. Announced'
      BY <1>2, <2>2, CallbackFlags
    <2> QED
      BY <1>1, <2>1, <2>2, <2>3 DEF UpLink
  <1>5. CASE DhcpLinkUp(up) /\ ~sta_ip
    <2>1. /\ current_sta_cfg \notin StaticCfgs /\ sta_ip' = sta_ip /\ dhcp_on' = TRUE
          /\ up = "none" /\ sta_ready_notified' = sta_ready_notified
      BY <1>1, <1>5 DEF DhcpLinkUp
    <2>2. ~sta_ready_notified /\ Underway
      BY <1>5 DEF UsedInv, LinkInv, RadioLink, UpLink
    <2>3. Underway'
      BY <2>1, <2>2, CallbackFlags
    <2> QED
      BY <1>1, <1>5, <2>1, <2>2, <2>3 DEF UpLink
  <1> QED
    BY <1>2, <1>3, <1>4, <1>5 DEF ConnectOk

\* An address of a link: its event is the one that is left to notify.
LEMMA Ipv4Link ==
  ASSUME UsedInv, drv_sta = "linked", NEW up, Ipv4Event(up),
         StaCallback(up, Tail(events)), api' = api
  PROVE  UpLink' /\ sta_ipv4_seen_before_link' = FALSE
  <1>1. /\ sta_ready_notified \in BOOLEAN /\ sta_ip \in BOOLEAN
        /\ sta_link_connected \in BOOLEAN /\ events \in Seq(EventKinds)
    BY StationTypes DEF UsedInv, IInv
  <1>2. Queued("ipv4") /\ sta_connect_requested
    BY <1>1, Handled DEF Ipv4Event, Pending, Queued, UsedInv, LinkInv, RadioLink, AskedLink
  <1>3. sta_link_connected = TRUE
    BY <1>1, <1>2 DEF UsedInv, LinkInv, RadioLink, UpLink
  <1>4. /\ Notify(sta_ip, link_state, up) /\ current_sta_cfg \notin StaticCfgs
        /\ sta_ipv4_seen_before_link' = FALSE
        /\ UNCHANGED <<sta_link_connected, current_sta_cfg, netVars>>
    BY <1>1, <1>3 DEF Ipv4Event
  <1>5. CASE sta_ip
    <2>1. /\ sta_ready_notified' = TRUE
          /\ \/ up = "none" /\ Announced
             \/ up = "sta_connected" /\ Underway
      BY <1>1, <1>2, <1>4, <1>5, NotifiedLink DEF UsedInv, LinkInv, RadioLink
    <2>2. Announced'
      BY <1>1, <2>1, CallbackFlags
    <2> QED
      BY <1>3, <1>4, <1>5, <2>1, <2>2 DEF UpLink, netVars
  <1>6. CASE ~sta_ip
    <2>1. up = "none" /\ sta_ready_notified' = sta_ready_notified
      BY <1>1, <1>2, <1>4, <1>6, Notified
    <2>2. ~sta_ready_notified /\ Underway /\ dhcp_on
      BY <1>3, <1>6 DEF UsedInv, LinkInv, RadioLink, UpLink
    <2>3. Underway'
      BY <2>1, <2>2, CallbackFlags
    <2> QED
      BY <1>3, <1>4, <1>6, <2>1, <2>2, <2>3 DEF UpLink, netVars
  <1> QED
    BY <1>4, <1>5, <1>6

\* What can be at the head of the queue while the driver is not idle.
LEMMA LinkedEvent ==
  ASSUME UsedInv, ~AddressRefused', drv_sta # "idle", NEW up, StaEvent(up)
  PROVE  /\ up \in {"none", "sta_connected"} /\ drv_sta = "linked"
         /\ \/ ConnectOk(up) \/ Ipv4Event(up)
            \/ /\ Pending("ipv4") /\ current_sta_cfg \in StaticCfgs
               /\ UNCHANGED <<staVars, netVars>> /\ up = "none"
  <1>1. events # << >> /\ events \in Seq(EventKinds)
    BY StationTypes DEF UsedInv, IInv, StaEvent, ConnectOk, ConnectFailed, Disconnected, Ipv4Event,
                        IgnoredStaEvent, Pending
  <1>2. Queued(Head(events))
    BY <1>1, Handled DEF Queued
  <1>3. sta_connect_requested /\ ~Pending("connect_fail") /\ ~Pending("disconnected")
    BY <1>2 DEF Pending, UsedInv, LinkInv, RadioLink, AskedLink
  <1>4. \/ ConnectOk(up) \/ Ipv4Event(up)
        \/ /\ Pending("ipv4") /\ current_sta_cfg \in StaticCfgs
           /\ UNCHANGED <<staVars, netVars>> /\ up = "none"
    BY <1>3 DEF StaEvent, ConnectFailed, Disconnected, IgnoredStaEvent
  <1>5. Pending("connect_ok") \/ Pending("ipv4")
    BY <1>4 DEF ConnectOk, Ipv4Event
  <1>6. drv_sta = "linked"
    BY <1>2, <1>5, StationTypes
    DEF Pending, UsedInv, IInv, LinkInv, RadioLink, JoiningLink
  <1>7. up \in {"none", "sta_connected"}
    <2>1. CASE ConnectOk(up)
      <3>1. current_sta_cfg' = current_sta_cfg
        BY <2>1 DEF ConnectOk
      <3> QED
        BY <1>3, <2>1, <3>1
        DEF ConnectOk, StaticLinkUp, DhcpLinkUp, Notify, AddressRefused
    <2>2. CASE ~ConnectOk(up)
      BY <1>4, <2>2 DEF Ipv4Event, Notify
    <2> QED
      BY <2>1, <2>2
  <1> QED
    BY <1>4, <1>6, <1>7

LEMMA StaEventRadio ==
  ASSUME UsedInv, ~AddressRefused', NEW up, StaEvent(up),
         StaCallback(up, Tail(events)), api' = api
  PROVE  RadioLink'
  <1>1. /\ events # << >> /\ events \in Seq(EventKinds) /\ Tail(events) \in Seq(EventKinds)
        /\ drv_sta' = drv_sta
    BY StaEventFacts, StationTypes DEF UsedInv, IInv
  <1>2. CASE drv_sta = "idle"
    BY <1>1, <1>2, IdleLink
  <1>3. CASE drv_sta # "idle"
    <2>1. up \in {"none", "sta_connected"} /\ drv_sta = "linked"
      BY <1>3, LinkedEvent
    <2>2. Extends(Tail(events)) /\ (Announced => Announced')
          /\ (up = "none" => (Underway => Underway'))
      BY <2>1, CallbackFlags
    <2>3. \A x \in StaEventKinds : Queued(x) <=> Holds(events', x) \/ x = Head(events)
      BY <1>1, <2>2, Handled, StaKinds DEF Queued
    <2>4. /\ sta_connect_requested /\ ~sta_ipv4_seen_before_link
          /\ ~Holds(events', "connect_fail") /\ ~Holds(events', "disconnected")
      BY <1>3, <2>3 DEF StaEventKinds, UsedInv, LinkInv, RadioLink, AskedLink
    <2>5. CASE ConnectOk(up)
      <3>1. UpLink'
        BY <2>1, <2>5, ConnectOkLink
      <3>2. UNCHANGED <<sta_connect_requested, sta_ipv4_seen_before_link>>
        BY <2>5 DEF ConnectOk
      <3> QED
        BY <1>1, <2>1, <2>4, <3>1, <3>2 DEF RadioLink, AskedLink, JoiningLink, Queued
    <2>6. CASE Ipv4Event(up)
      <3>1. UpLink' /\ sta_ipv4_seen_before_link' = FALSE
        BY <2>1, <2>6, Ipv4Link
      <3>2. UNCHANGED sta_connect_requested
        BY <2>6 DEF Ipv4Event
      <3> QED
        BY <1>1, <2>1, <2>4, <3>1, <3>2 DEF RadioLink, AskedLink, JoiningLink, Queued
    <2>7. CASE /\ Pending("ipv4") /\ current_sta_cfg \in StaticCfgs
               /\ UNCHANGED <<staVars, netVars>> /\ up = "none"
      <3>1. Head(events) = "ipv4" /\ "ipv4" \in StaEventKinds /\ "connect_ok" \in StaEventKinds
        BY <2>7 DEF Pending, StaEventKinds
      <3>2. Queued("ipv4") /\ (Queued("connect_ok") <=> Queued("connect_ok")')
        BY <2>3, <3>1 DEF Queued
      <3>3. UpLink'
        BY <2>1, <2>2, <2>7, <3>2 DEF UsedInv, LinkInv, RadioLink, UpLink, staVars, netVars
      <3> QED
        BY <1>1, <2>1, <2>4, <2>7, <3>3
        DEF RadioLink, AskedLink, JoiningLink, Queued, staVars
    <2> QED
      BY <1>3, <2>5, <2>6, <2>7, LinkedEvent
  <1> QED
    BY <1>2, <1>3

\* What is scheduled for a station that is gone comes after the sleep.
LEMMA StaDisconnectedTime ==
  ASSUME UsedInv, ~AddressRefused', StaEvent("sta_disconnected"),
         NEW q, StaDisconnected(q), UNCHANGED apiVars
  PROVE  TimeLink'
  <1>1. /\ drv_sta' = drv_sta /\ (sta_connect_requested' => sta_connect_requested)
        /\ api' = api /\ api_timer' = api_timer
    BY StaEventFacts DEF UsedInv, apiVars
  <1>2. drv_sta = "idle"
    BY LinkedEvent
  <1>3. /\ SettleDelay \in Nat /\ RetryDelay \in Nat /\ ReconnectDelay \in Nat
        /\ ConnectTimeout \in Nat /\ api_timer \in Nat /\ work \in WorkType
    BY StationTypes DEF UsedInv, IInv
  <1>4. Sleep <= SettleDelay /\ Sleep' = Sleep /\ Sleep \in Nat
    BY <1>1, <1>3 DEF Sleep, UsedInv, LinkInv, TimeLink, RestLink
  <1>5. api' \in Interrupting => Later(tConnect)' /\ Later(tTimeout)' /\ Later(tReconnect)'
    <2>1. api \in Interrupting => Later(tConnect) /\ Later(tTimeout) /\ Later(tReconnect)
      BY DEF UsedInv, LinkInv, TimeLink, CalmLink
    <2>2. CASE NoCallback(q) \/ LeaveRetryToOthers
      <3>1. UNCHANGED <<tConnect, tTimeout, tReconnect>>
        BY <2>2, UnchangedWork DEF NoCallback, provVars, LeaveRetryToOthers
      <3> QED
        BY <1>1, <1>4, <2>1, <3>1 DEF Later
    <2>3. CASE RetrySoon
      <3>1. /\ tConnect' = RetryDelay /\ tTimeout' = RetryDelay + ConnectTimeout
            /\ tReconnect' = tReconnect
        BY <1>3, <2>3 DEF RetrySoon, ScheduleStaConnect, WorkType, Works, tConnect, tTimeout,
                          tReconnect
      <3> QED
        BY <1>1, <1>3, <1>4, <2>1, <3>1, SettlesFirst DEF Later
    <2>4. CASE ReconnectLater
      <3>1. tReconnect' = ReconnectDelay /\ UNCHANGED <<tConnect, tTimeout>>
        BY <1>3, <2>4 DEF ReconnectLater, Arm, WorkType, Works, tConnect, tTimeout, tReconnect
      <3> QED
        BY <1>1, <1>3, <1>4, <2>1, <3>1, SettlesFirst DEF Later
    <2>5. CASE EnterProvisioning(mode, FALSE, FALSE, work, q)
      <3>1. Entered(FALSE, FALSE, work, q)
        BY <1>3, <2>5, Entering DEF UsedInv
      <3>2. tConnect' = tConnect /\ tTimeout' \in {tTimeout, Off} /\ tReconnect' = tReconnect
        BY <3>1 DEF Entered, tConnect, tTimeout, tReconnect
      <3> QED
        BY <1>1, <1>4, <2>1, <3>2 DEF Later
    <2> QED
      BY <2>2, <2>3, <2>4, <2>5 DEF StaDisconnected
  <1> QED
    BY <1>1, <1>2, <1>5 DEF UsedInv, LinkInv, TimeLink, RestLink, CalmLink

\* Nor does any other event schedule an attempt.
LEMMA StaEventTime ==
  ASSUME UsedInv, ~AddressRefused', NEW up, StaEvent(up),
         StaCallback(up, Tail(events)), UNCHANGED apiVars
  PROVE  TimeLink'
  <1>1. /\ drv_sta' = drv_sta /\ (sta_connect_requested' => sta_connect_requested)
        /\ UNCHANGED <<api, api_timer>>
    BY StaEventFacts DEF UsedInv, apiVars
  <1>2. CASE up = "sta_disconnected"
    BY <1>2, StaDisconnectedTime DEF StaCallback
  <1>3. CASE up # "sta_disconnected"
    <2>1. work' \in {work, Cancel(work, {"connect_timeout", "boot_fallback_ap",
                                         "sta_reconnect"})}
      BY <1>3 DEF StaCallback, StaConnected, NoCallback, provVars
    <2>2. /\ tConnect' \in {tConnect, Off} /\ tTimeout' \in {tTimeout, Off}
          /\ tReconnect' \in {tReconnect, Off}
      BY <2>1, StationTypes DEF UsedInv, IInv, Cancel, WorkType, Works, tConnect, tTimeout,
                                tReconnect
    <2> QED
      BY <1>1, <2>2, TimeLinkKept DEF UsedInv, LinkInv
  <1> QED
    BY <1>2, <1>3

LEMMA EventLink ==
  ASSUME UsedInv, ~AddressRefused', EventStep PROVE LinkInv'
  <1>1. CASE HandleStaEvent
    <2>1. PICK up \in {"none", "sta_connected", "sta_disconnected"} :
             StaEvent(up) /\ StaCallback(up, Tail(events))
      BY <1>1 DEF HandleStaEvent
    <2>2. UNCHANGED apiVars /\ api' = api
      BY <1>1 DEF HandleStaEvent, apiVars
    <2> QED
      BY <2>1, <2>2, StaEventRadio, StaEventTime DEF LinkInv
  <1>2. CASE HandleApEvent
    <2>1. PICK up \in {"none", "ap_started", "ap_stopped"} : ApEvent(up) /\ ApCallback(up)
      BY <1>2 DEF HandleApEvent
    <2>2. /\ events' = Tail(events) /\ UNCHANGED <<staVars, netVars, apiVars, flagVars, work>>
      BY <1>2, <2>1 DEF HandleApEvent, ApCallback
    <2>3. events # << >> /\ Head(events) \in ApEventKinds /\ events \in Seq(EventKinds)
      BY <2>1, StationTypes DEF ApEvent, ApEnabled, ApDisabled, IgnoredApEvent, Pending,
                                ApEventKinds, UsedInv, IInv
    <2>4. \A x \in StaEventKinds : x # Head(events)
      BY <2>3 DEF StaEventKinds, ApEventKinds
    <2>5. \A x \in StaEventKinds : Holds(events', x) <=> Queued(x)
      BY <2>2, <2>3, <2>4, Handled DEF Queued
    <2>6. RadioLink'
      BY <2>2, <2>5, RadioLinkKept
      DEF UsedInv, LinkInv, Underway, Announced, apiVars, flagVars
    <2>7. UNCHANGED <<tConnect, tTimeout, tReconnect, api, api_timer, drv_sta,
                      sta_connect_requested>>
      BY <2>2, UnchangedWork DEF apiVars, netVars, staVars
    <2> QED
      BY <2>6, <2>7, TimeLinkKept DEF UsedInv, LinkInv
  <1> QED
    BY <1>1, <1>2 DEF EventStep

-----------------------------------------------------------------------------
(* The start, the API thread and the environment.                          *)

LEMMA StartLink == UsedInv /\ Start => LinkInv'
  <1> SUFFICES ASSUME UsedInv, Start PROVE LinkInv'
    OBVIOUS
  <1>1. api = "off" /\ api' = "idle" /\ UNCHANGED <<staVars, netVars>>
    BY DEF Start
  <1>2. drv_sta = "idle"
    BY <1>1, Unknown DEF UsedInv, DoorInv, OffDoor, LinkInv
  <1>3. drv_sta' = "idle"
    BY <1>1, <1>2 DEF netVars
  <1> QED
    BY <1>1, <1>3, IdleLink DEF LinkInv, TimeLink, RestLink, CalmLink, Interrupting

\* A request begins: the work items are gone.
LEMMA ClientLink == UsedInv /\ ClientStep => LinkInv'
  <1> SUFFICES ASSUME UsedInv, ClientStep PROVE LinkInv'
    OBVIOUS
  <1>1. /\ api = "idle" /\ api' \in {"cancelled", "reset_cancelled"}
        /\ work' = CancelAll(work) /\ UNCHANGED <<wifiVars, flagVars>>
    BY DEF ClientStep, PostWifi, ResetPost
  <1>2. tConnect' = Off /\ tTimeout' = Off /\ tReconnect' = Off
    BY <1>1 DEF CancelAll, Cancel, Works, tConnect, tTimeout, tReconnect
  <1>3. RadioLink'
    BY <1>1, RadioLinkUntouched DEF UsedInv, LinkInv, Underway, Announced, wifiVars, flagVars
  <1>4. TimeLink'
    BY <1>1, <1>2 DEF TimeLink, RestLink, CalmLink, Later
  <1> QED
    BY <1>3, <1>4 DEF LinkInv

\* provision_module_connect_blocking: disconnected, the driver sleeps too.
LEMMA PostDisconnectLink == UsedInv /\ PostDisconnect => LinkInv'
  <1> SUFFICES ASSUME UsedInv, PostDisconnect PROVE LinkInv'
    OBVIOUS
  <1>1. /\ api = "cancelled" /\ api' = "settling" /\ api_timer' = SettleDelay
        /\ drv_sta' = "idle" /\ sta_connect_requested' = FALSE
        /\ UNCHANGED <<tConnect, tTimeout, tReconnect>>
    BY UnchangedWork DEF PostDisconnect, DisconnectSta, provVars
  <1>2. SettleDelay \in Nat
    BY StationTypes DEF UsedInv, IInv
  <1>3. Sleep' = Sleep
    BY <1>1 DEF Sleep
  <1>4. TimeLink'
    BY <1>1, <1>2, <1>3
    DEF UsedInv, LinkInv, TimeLink, RestLink, CalmLink, Interrupting, Later
  <1> QED
    BY <1>1, <1>4, IdleLink DEF LinkInv

LEMMA PostBeginLink == UsedInv /\ PostBegin => LinkInv'
  <1> SUFFICES ASSUME UsedInv, PostBegin PROVE LinkInv'
    OBVIOUS
  <1>1. api = "settling" /\ api' = "waiting" /\ drv_sta' = drv_sta
    BY DEF PostBegin, wifiVars, netVars
  <1>2. drv_sta' = "idle"
    BY <1>1 DEF UsedInv, LinkInv, TimeLink, RestLink
  <1> QED
    BY <1>1, <1>2, IdleLink DEF LinkInv, TimeLink, RestLink, CalmLink, Interrupting

\* It gives up, or a reset clears the credentials: disconnected again.
LEMMA DroppedLink == UsedInv /\ (PostGiveUp \/ ResetClear) => LinkInv'
  <1> SUFFICES ASSUME UsedInv, PostGiveUp \/ ResetClear PROVE LinkInv'
    OBVIOUS
  <1>1. api' = "idle" /\ drv_sta' = "idle"
    BY DEF PostGiveUp, ResetClear, DisconnectSta
  <1> QED
    BY <1>1, IdleLink DEF LinkInv, TimeLink, RestLink, CalmLink, Interrupting

\* The flags go just before.
LEMMA ResetFlagsLink == UsedInv /\ ResetFlags => LinkInv'
  <1> SUFFICES ASSUME UsedInv, ResetFlags PROVE LinkInv'
    OBVIOUS
  <1>1. /\ api = "reset_cancelled" /\ api' = "reset_cleared"
        /\ UNCHANGED <<staVars, netVars, events, tConnect, tTimeout, tReconnect>>
    BY UnchangedWork DEF ResetFlags, wifiVars
  <1>2. Underway' /\ Announced' /\ Sleep' = Sleep
    BY <1>1 DEF Underway, Announced, Sleep
  <1>3. RadioLink'
    BY <1>1, <1>2, RadioLinkUntouched DEF UsedInv, LinkInv
  <1>4. TimeLink'
    BY <1>1, <1>2
    DEF UsedInv, LinkInv, TimeLink, RestLink, CalmLink, Interrupting, Later, netVars
  <1> QED
    BY <1>3, <1>4 DEF LinkInv

\* The rest of a POST leaves the station alone.
LEMMA PostEndLink ==
  UsedInv /\ (PostResult \/ PostExpires \/ PostSave \/ PostReply) => LinkInv'
  <1> SUFFICES ASSUME UsedInv, PostResult \/ PostExpires \/ PostSave \/ PostReply PROVE LinkInv'
    OBVIOUS
  <1>1. /\ api \in {"waiting", "saving", "saved"}
        /\ api' \in {"idle", "saving", "expired", "saved"}
        /\ UNCHANGED <<wifiVars, flagVars>>
    BY DEF PostResult, PostExpires, PostSave, PostReply, provVars
  <1>2. RadioLink'
    BY <1>1, RadioLinkUntouched DEF UsedInv, LinkInv, Underway, Announced, wifiVars, flagVars
  <1>3. tConnect' = tConnect
    <2>1. work' = work \/ work' = Arm(work, "stop_ap", ApStopDelay)
      BY DEF PostResult, PostExpires, PostSave, PostReply, provVars
    <2> QED
      BY <2>1, StationTypes DEF UsedInv, IInv, Arm, WorkType, Works, tConnect
  <1>4. TimeLink'
    BY <1>1, <1>3
    DEF UsedInv, LinkInv, TimeLink, RestLink, CalmLink, Interrupting, wifiVars, netVars
  <1> QED
    BY <1>2, <1>4 DEF LinkInv

LEMMA ApiLink == UsedInv /\ ApiStep => LinkInv'
  BY PostDisconnectLink, PostBeginLink, DroppedLink, ResetFlagsLink, PostEndLink DEF ApiStep

LEMMA DriverLink == UsedInv /\ Driver => LinkInv'
  <1> SUFFICES ASSUME UsedInv, Driver PROVE LinkInv'
    OBVIOUS
  <1>1. DriverStep /\ UNCHANGED <<staVars, api, api_timer, sta_connect_in_progress, sta_ready,
                                  work, current_sta_cfg>>
    BY DEF Driver, DriverStep, LinkUp, JoinFails, LinkLost, DhcpBound, provVars, flagVars, apiVars,
           staVars
  <1>2. /\ events \in Seq(EventKinds) /\ sta_link_connected \in BOOLEAN
        /\ sta_ip \in BOOLEAN /\ sta_ready_notified \in BOOLEAN
    BY StationTypes DEF UsedInv, IInv
  <1>3. UNCHANGED <<tConnect, tTimeout, tReconnect>>
    BY <1>1, UnchangedWork
  <1>4. drv_sta = "idle" => drv_sta' = "idle"
    BY <1>1 DEF DriverStep, LinkUp, JoinFails, LinkLost, DhcpBound
  <1>5. TimeLink'
    BY <1>1, <1>3, <1>4, TimeLinkKept DEF UsedInv, LinkInv, staVars
  <1>6. (Underway' <=> Underway) /\ (Announced' <=> Announced)
    BY <1>1 DEF Underway, Announced
  <1>7. CASE LinkUp
    <2>1. /\ drv_sta = "connecting" /\ drv_sta' = "linked" /\ "connect_ok" \in EventKinds
          /\ events' = Append(events, "connect_ok") /\ UNCHANGED <<sta_ip, dhcp_on>>
      BY <1>7 DEF LinkUp, Raise, EventKinds, StaEventKinds
    <2>2. \A x : Holds(events', x) <=> Queued(x) \/ x = "connect_ok"
      BY <1>2, <2>1, Raised DEF Queued
    <2>3. /\ ~sta_link_connected /\ ~sta_ready_notified /\ ~sta_ip /\ ~dhcp_on
          /\ ~Queued("ipv4") /\ Underway
          /\ sta_connect_requested /\ ~sta_ipv4_seen_before_link
          /\ ~Queued("connect_fail") /\ ~Queued("disconnected")
      BY <2>1 DEF UsedInv, LinkInv, RadioLink, AskedLink, JoiningLink
    <2>4. Queued("connect_ok")' /\ ~Queued("ipv4")'
          /\ ~Queued("connect_fail")' /\ ~Queued("disconnected")'
      BY <2>2, <2>3 DEF Queued
    <2>5. RadioLink'
      BY <1>1, <1>6, <2>1, <2>3, <2>4
      DEF RadioLink, AskedLink, JoiningLink, UpLink, staVars
    <2> QED
      BY <1>5, <2>5 DEF LinkInv
  <1>8. CASE JoinFails \/ LinkLost
    <2>1. drv_sta' = "idle"
      BY <1>8 DEF JoinFails, LinkLost
    <2> QED
      BY <1>5, <2>1, IdleLink DEF LinkInv
  <1>9. CASE DhcpBound
    <2>1. /\ drv_sta = "linked" /\ drv_sta' = "linked" /\ dhcp_on /\ dhcp_on' = dhcp_on
          /\ sta_ip' = TRUE /\ events' = Append(events, "ipv4") /\ "ipv4" \in EventKinds
      BY <1>9 DEF DhcpBound, Raise, EventKinds, StaEventKinds
    <2>2. \A x : Holds(events', x) <=> Queued(x) \/ x = "ipv4"
      BY <1>2, <2>1, Raised DEF Queued
    <2>3. /\ sta_link_connected /\ current_sta_cfg \notin StaticCfgs
          /\ sta_connect_requested /\ ~sta_ipv4_seen_before_link
          /\ ~Queued("connect_fail") /\ ~Queued("disconnected")
          /\ IF sta_ready_notified THEN Announced ELSE Underway
      BY <2>1 DEF UsedInv, LinkInv, RadioLink, AskedLink, UpLink
    <2>4. Queued("ipv4")' /\ ~Queued("connect_fail")' /\ ~Queued("disconnected")'
      BY <2>2, <2>3 DEF Queued
    <2>5. RadioLink'
      BY <1>1, <1>6, <2>1, <2>3, <2>4
      DEF RadioLink, AskedLink, JoiningLink, UpLink, staVars
    <2> QED
      BY <1>5, <2>5 DEF LinkInv
  <1> QED
    BY <1>1, <1>7, <1>8, <1>9 DEF DriverStep

\* The sleep of a POST and what waits for it go on together.
LEMMA TickLink == UsedInv /\ Tick => LinkInv'
  <1> SUFFICES ASSUME UsedInv, Tick PROVE LinkInv'
    OBVIOUS
  <1>1. /\ UNCHANGED <<wifiVars, flagVars, api>>
        /\ api_timer' = IF api_timer > 0 THEN api_timer - 1 ELSE 0
        /\ api \in Interrupting => api = "settling" /\ api_timer > 0
    BY DEF Tick, Quiet, Interrupting
  <1>2. /\ tConnect' = (IF tConnect # Off THEN tConnect - 1 ELSE Off)
        /\ tTimeout' = (IF tTimeout # Off THEN tTimeout - 1 ELSE Off)
        /\ tReconnect' = (IF tReconnect # Off THEN tReconnect - 1 ELSE Off)
    BY Ticked DEF UsedInv
  <1>3. /\ tConnect \in Nat \cup {-1} /\ tTimeout \in Nat \cup {-1} /\ Off = -1
        /\ tReconnect \in Nat \cup {-1} /\ api_timer \in Nat /\ SettleDelay \in Nat
    BY WorkTypes, StationTypes DEF UsedInv, IInv
  <1>4. RadioLink'
    BY <1>1, RadioLinkUntouched DEF UsedInv, LinkInv, Underway, Announced, wifiVars, flagVars
  <1>5. RestLink'
    BY <1>1, <1>2, <1>3
    DEF UsedInv, LinkInv, TimeLink, RestLink, wifiVars, netVars, staVars
  <1>6. CalmLink'
    <2> SUFFICES ASSUME api \in Interrupting PROVE (Later(tConnect) /\ Later(tTimeout)
                                                    /\ Later(tReconnect))'
      BY <1>1 DEF CalmLink
    <2>1. Later(tConnect) /\ Later(tTimeout) /\ Later(tReconnect)
      BY DEF UsedInv, LinkInv, TimeLink, CalmLink
    <2>2. api = "settling" /\ Sleep = api_timer /\ Sleep' = api_timer - 1
      BY <1>1 DEF Sleep
    <2> QED
      BY <1>2, <1>3, <2>1, <2>2 DEF Later
  <1> QED
    BY <1>4, <1>5, <1>6 DEF LinkInv, TimeLink

LEMMA InitLink == Init => LinkInv
  BY DEF Init, WifiInit, LinkInv, RadioLink, AskedLink, JoiningLink, UpLink, TimeLink, RestLink,
         CalmLink, Interrupting, Works, tConnect

LEMMA PowerCycleLink == PowerCycle => LinkInv'
  BY DEF PowerCycle, WifiReset, LinkInv, RadioLink, AskedLink, JoiningLink, UpLink, TimeLink,
         RestLink, CalmLink, Interrupting, Works, tConnect

LEMMA StutterLink == UsedInv /\ UNCHANGED vars => LinkInv'
  <1> SUFFICES ASSUME UsedInv, UNCHANGED vars PROVE LinkInv'
    OBVIOUS
  <1>1. UNCHANGED <<staVars, netVars, events, api, api_timer, sta_connect_in_progress,
                    sta_ready, tConnect, tTimeout, tReconnect>>
    BY UnchangedWork DEF vars, wifiVars, provVars, flagVars, apiVars
  <1>2. RadioLink'
    BY <1>1, RadioLinkUntouched DEF UsedInv, LinkInv, Underway, Announced
  <1>3. TimeLink'
    BY <1>1, TimeLinkKept DEF UsedInv, LinkInv, staVars, netVars
  <1> QED
    BY <1>2, <1>3 DEF LinkInv

LEMMA NextLink ==
  ASSUME UsedInv, ~Rough, [Next]_vars
  PROVE  LinkInv'
  BY StutterLink, WorkLink, StartLink, EventLink, ClientLink, ApiLink, DriverLink, TickLink,
       PowerCycleLink DEF Next, Rough, EventIsLate

\* A step that is remembered: the record forgets only with the power.
LEMMA Remembered ==
  ASSUME [Next /\ Remember]_historyVars, ~PowerCycle, radio' # "rough"
  PROVE  radio # "rough" /\ (~Rough \/ UNCHANGED vars)
  BY DEF Remember, historyVars

\* An event that comes late or an address that is refused is all it takes to
\* lose a link: until then it has been notified, or what will is queued.
UsedOr == IInv /\ DoorInv /\ (radio # "rough" => LinkInv)

LEMMA UsedInitially == Init => UsedInv
  BY InitIInv, InitDoor, InitLink DEF UsedInv

LEMMA NextUsed == UsedOr /\ [Next /\ Remember]_historyVars => UsedOr'
  <1> SUFFICES ASSUME UsedOr, [Next /\ Remember]_historyVars PROVE UsedOr'
    OBVIOUS
  <1>1. [Next]_vars
    BY DEF historyVars
  <1>2. IInv' /\ DoorInv'
    BY <1>1, NextIInv, NextDoor DEF UsedOr
  <1>3. ASSUME radio' # "rough" PROVE LinkInv'
    <2>1. CASE PowerCycle
      BY <2>1, PowerCycleLink
    <2>2. CASE ~PowerCycle
      <3>1. UsedInv
        BY <1>3, <2>2, Remembered DEF UsedOr, UsedInv
      <3>2. CASE ~Rough
        BY <1>1, <3>1, <3>2, NextLink
      <3>3. CASE UNCHANGED vars
        BY <3>1, <3>3, StutterLink
      <3> QED
        BY <1>3, <2>2, <3>2, <3>3, Remembered
    <2> QED
      BY <2>1, <2>2
  <1> QED
    BY <1>2, <1>3 DEF UsedOr

THEOREM LinkInvariant == HistorySpec => []UsedOr
  <1>1. Init => UsedOr
    BY UsedInitially DEF UsedInv, UsedOr
  <1>2. UsedOr /\ [Next /\ Remember]_historyVars => UsedOr'
    BY NextUsed
  <1> QED
    BY <1>1, <1>2, PTL DEF HistorySpec

\* LinkIsUsed, over every fault and whoever the client is: as long as no event
\* has come late and no static address was refused, a connection, its address
\* and the callback are handled in time, whatever timer runs.
THEOREM LinkIsUsedHolds == HistorySpec => []LinkIsUsed
  <1>1. UsedOr => LinkIsUsed
    <2> SUFFICES ASSUME IInv, LinkInv, drv_sta = "linked", events = << >>, api = "idle"
                 PROVE  IF sta_ip THEN sta_ready ELSE dhcp_on /\ sta_connect_in_progress
      BY DEF LinkIsUsed, UsedOr
    <2>1. ~Queued("connect_ok") /\ ~Queued("ipv4")
      BY DEF Queued, Holds
    <2> QED
      BY <2>1, StationTypes DEF IInv, LinkInv, RadioLink, UpLink, Underway, Announced
  <1> QED
    BY <1>1, LinkInvariant, PTL

-----------------------------------------------------------------------------
(* "operational" is true.                                                  *)

\* What wifi_manager believes of a link is so while links are not lost.
ClaimLink ==
    /\ sta_connect_requested /\ Queued("connect_ok") => drv_sta = "linked"
    /\ sta_link_connected => drv_sta = "linked"
    /\ sta_ready_notified => sta_link_connected

\* The mode outlives the link in a POST that has disconnected and not yet begun
\* its first attempt, and in a reset that found the SoftAP open.
ModeLink ==
    mode = "operational" =>
        \/ drv_sta = "linked" /\ sta_ready_notified
        \/ api = "settling"
        \/ api = "waiting" /\ use_pending_cfg
        \/ config = NoCfg /\ api \in {"idle", "cancelled", "reset_cancelled", "reset_cleared"}

\* Until its first attempt a POST cannot have been answered.
PendLink ==
    /\ api = "waiting" /\ use_pending_cfg => Trying /\ ~sta_connect_requested
    /\ api = "off" => mode # "operational"

ReadyInv == ClaimLink /\ ModeLink /\ PendLink

\* Everything, with a semaphore that waits long enough.
TrueInv == UsedInv /\ ReadyInv /\ BudgetSuffices

LEMMA ReadyTypes ==
  ASSUME TypeOK
  PROVE  /\ mode \in Modes /\ use_pending_cfg \in BOOLEAN
         /\ blocking_connect_active \in BOOLEAN /\ connect_result_sem \in {0, 1}
         /\ sta_connect_requested \in BOOLEAN /\ sta_link_connected \in BOOLEAN
         /\ sta_ready_notified \in BOOLEAN
  BY DEF TypeOK, WifiTypeOK, StaTypeOK, PolicyTypeOK, RequestTypeOK

\* Steps that leave wifi_manager and the driver alone, and that disconnect.
LEMMA ClaimKept ==
  ASSUME ClaimLink, UNCHANGED staVars, drv_sta' = drv_sta,
         Holds(events', "connect_ok") => Queued("connect_ok")
  PROVE  ClaimLink'
  BY DEF ClaimLink, Queued, staVars

LEMMA ClaimDropped == DisconnectSta => ClaimLink'
  BY DEF DisconnectSta, ClaimLink

\* Steps that leave the link and the request alone and do not make the mode
\* operational.
LEMMA ModeKept ==
  ASSUME ModeLink, mode' = mode \/ mode' # "operational",
         UNCHANGED <<drv_sta, sta_ready_notified, api, use_pending_cfg, config>>
  PROVE  ModeLink'
  BY DEF ModeLink

LEMMA PendKept ==
  ASSUME PendLink, mode' = mode \/ mode' # "operational", api' = api,
         use_pending_cfg' => use_pending_cfg, UNCHANGED <<blocking_connect_active,
         connect_result_sem>>, sta_connect_requested' => sta_connect_requested
  PROVE  PendLink'
  BY DEF PendLink, Trying

\* enter_provisioning_mode and what follows a failed attempt never make the mode
\* operational.
LEMMA EnterMode ==
  ASSUME NEW m, NEW p, NEW r, NEW f, NEW q, EnterProvisioning(m, p, r, f, q)
  PROVE  mode' \in {m, "provisioning"} /\ Extends(q)
  <1>1. mode' \in {m, "provisioning"}
    BY DEF EnterProvisioning, OpenAp
  <1> QED
    BY <1>1, SoftApEvents

LEMMA FailedMode ==
  ASSUME NEW n, NEW m, NEW told, NEW f, NEW q, AttemptFailed(n, m, told, f, q)
  PROVE  mode' \in {m, told, "provisioning"} /\ Extends(q)
  <1>1. CASE RetryAttempt(n, m, f, q)
    BY <1>1 DEF RetryAttempt, Extends
  <1>2. CASE TellClient(n, told, f, q)
    BY <1>2 DEF TellClient, Extends
  <1>3. CASE AwaitNextRound(m, f, q)
    BY <1>3 DEF AwaitNextRound, Extends
  <1>4. CASE GiveUp(n, m, f, q)
    BY <1>4, EnterMode DEF GiveUp
  <1> QED
    BY <1>1, <1>2, <1>3, <1>4 DEF AttemptFailed, AfterLastAttempt

\* A POST that has not begun its first attempt has one scheduled.
LEMMA PendingAttempt ==
  ASSUME TrueInv, api = "waiting", use_pending_cfg
  PROVE  tConnect # Off /\ tTimeout # 0
  <1>1. Trying /\ tConnect # Off
    BY DEF TrueInv, UsedInv, ReadyInv, PendLink, DoorInv, RequestDoor
  <1>2. tConnect \in Nat \cup {-1} /\ Off = -1 /\ ConnectTimeout \in Nat \ {0}
    BY WorkTypes, ProvisionAssumption DEF TrueInv, UsedInv, IInv
  <1>3. tTimeout \in {Off, tConnect + ConnectTimeout}
    BY <1>1 DEF TrueInv, UsedInv, DoorInv, AttemptDoor
  <1> QED
    BY <1>1, <1>2, <1>3

-----------------------------------------------------------------------------
(* Its work handlers.                                                      *)

LEMMA StaConnectReady == TrueInv /\ events = << >> /\ StaConnectWork => ReadyInv'
  <1> SUFFICES ASSUME TrueInv, events = << >>, StaConnectWork PROVE ReadyInv'
    OBVIOUS
  <1>1. /\ Due("sta_connect") /\ use_pending_cfg' = FALSE /\ api' = api /\ config' = config
    <2>1. PICK retry : BeginAttempt(retry)
      BY DEF StaConnectWork, NoCredentials, AttemptAccepted, AttemptRejected
    <2> QED
      BY <2>1 DEF BeginAttempt, apiVars, cfgVars
  <1>2. drv_sta = "idle" /\ api \notin Interrupting /\ api # "off"
    BY <1>1, NobodyInterrupts, Running
    DEF Due, Off, tConnect, TrueInv, UsedInv, LinkInv, TimeLink, RestLink, Works
  <1>3. CASE NoCredentials
    <2>1. /\ UNCHANGED <<staVars, netVars>> /\ mode' \in {mode, "provisioning"}
          /\ Extends(events) /\ AttemptCfg = NoCfg
      BY <1>3, EnterMode DEF NoCredentials, Extends
    <2>2. config = NoCfg /\ ~use_pending_cfg
      BY <2>1, WifiAssumption DEF AttemptCfg, TrueInv, UsedInv, DoorInv, RequestDoor
    <2>3. Holds(events', "connect_ok") => Queued("connect_ok")
      BY <2>1, ExtendedQueue, StationTypes DEF Queued, TrueInv, UsedInv, IInv
    <2>4. ClaimLink'
      BY <2>1, <2>3, ClaimKept DEF TrueInv, ReadyInv, netVars
    <2>5. ModeLink' /\ PendLink'
      BY <1>1, <1>2, <2>1, <2>2 DEF TrueInv, ReadyInv, ModeLink, PendLink, Interrupting
    <2> QED
      BY <2>4, <2>5 DEF ReadyInv
  <1>4. CASE AttemptAccepted \/ AttemptRejected
    <2>1. /\ Extends(events) /\ mode' \in {"connecting", "provisioning"}
          /\ sta_link_connected' = FALSE /\ sta_ready_notified' = FALSE
      BY <1>4, FailedMode DEF AttemptAccepted, AttemptRejected, ConnectSta, Extends
    <2>2. ~Holds(events', "connect_ok")
      <3>1. ~Holds(events, "connect_ok") /\ events \in Seq(EventKinds)
        BY StationTypes DEF Holds, TrueInv, UsedInv, IInv
      <3> QED
        BY <2>1, <3>1, ExtendedQueue
    <2>3. ClaimLink'
      BY <2>1, <2>2 DEF ClaimLink, Queued
    <2> QED
      BY <1>1, <2>1, <2>3 DEF ReadyInv, ModeLink, PendLink
  <1> QED
    BY <1>3, <1>4 DEF StaConnectWork

LEMMA ConnectTimeoutReady == TrueInv /\ ConnectTimeoutWork => ReadyInv'
  <1> SUFFICES ASSUME TrueInv, ConnectTimeoutWork PROVE ReadyInv'
    OBVIOUS
  <1>1. /\ Due("connect_timeout") /\ tTimeout = 0 /\ UNCHANGED <<requestVars, apiVars, cfgVars>>
    BY DEF ConnectTimeoutWork, Due, tTimeout
  <1>2. api \notin Interrupting /\ api # "off"
    BY <1>1, NobodyInterrupts, Running DEF TrueInv, UsedInv, LinkInv, IInv, Works
  <1>3. ~(api = "waiting" /\ use_pending_cfg)
    BY <1>1, PendingAttempt
  <1>4. UNCHANGED <<api, use_pending_cfg, config>>
    BY <1>1 DEF requestVars, apiVars, cfgVars
  <1>5. CASE sta_ready
    <2>1. UNCHANGED <<wifiVars, mode, blockVars>>
      BY <1>5 DEF ConnectTimeoutWork
    <2>2. ClaimLink'
      BY <2>1, ClaimKept DEF TrueInv, ReadyInv, wifiVars, netVars, Queued
    <2>3. ModeLink' /\ PendLink'
      BY <1>4, <2>1, ModeKept, PendKept
      DEF TrueInv, ReadyInv, wifiVars, staVars, netVars, blockVars
    <2> QED
      BY <2>2, <2>3 DEF ReadyInv
  <1>6. CASE ~sta_ready
    <2>1. /\ DisconnectSta
          /\ \E f : AttemptFailed(connect_attempt, mode, "provisioning", f, AfterDisconnect)
      BY <1>6 DEF ConnectTimeoutWork
    <2>2. mode' \in {mode, "provisioning"}
      BY <2>1, FailedMode
    <2>3. mode' = "operational" => config = NoCfg /\ api = "idle"
      BY <1>2, <1>3, <1>6, <2>2
      DEF TrueInv, UsedInv, ReadyInv, ModeLink, LinkInv, RadioLink, UpLink, Announced, Interrupting
    <2> QED
      BY <1>2, <1>3, <1>4, <2>1, <2>3, ClaimDropped DEF ReadyInv, ModeLink, PendLink
  <1> QED
    BY <1>5, <1>6

\* The other handlers leave the station and the request alone.
LEMMA OtherWorkReady ==
  TrueInv /\ (StaReconnectWork \/ BootFallbackWork \/ StopApWork) => ReadyInv'
  <1> SUFFICES ASSUME TrueInv, StaReconnectWork \/ BootFallbackWork \/ StopApWork
               PROVE  ReadyInv'
    OBVIOUS
  <1>1. /\ UNCHANGED <<staVars, netVars, requestVars, blockVars, apiVars, cfgVars>>
        /\ mode' \in {mode, "provisioning"} /\ Extends(events)
    <2>1. CASE StaReconnectWork
      BY <2>1, EnterMode DEF StaReconnectWork, Extends
    <2>2. CASE BootFallbackWork
      BY <2>2, EnterMode DEF BootFallbackWork, Extends
    <2>3. CASE StopApWork
      BY <2>3, SoftApEvents DEF StopApWork
    <2> QED
      BY <2>1, <2>2, <2>3
  <1>2. Holds(events', "connect_ok") => Queued("connect_ok")
    BY <1>1, ExtendedQueue, StationTypes DEF Queued, TrueInv, UsedInv, IInv
  <1>3. ClaimLink'
    BY <1>1, <1>2, ClaimKept DEF TrueInv, ReadyInv, netVars
  <1>4. ModeLink' /\ PendLink'
    BY <1>1, ModeKept, PendKept
    DEF TrueInv, ReadyInv, staVars, netVars, requestVars, blockVars, apiVars, cfgVars
  <1> QED
    BY <1>3, <1>4 DEF ReadyInv

LEMMA WorkReady == TrueInv /\ events = << >> /\ WorkStep => ReadyInv'
  BY StaConnectReady, ConnectTimeoutReady, OtherWorkReady DEF WorkStep

-----------------------------------------------------------------------------
(* Its events.                                                             *)

\* What wifi_manager's handlers make of the flags.
LEMMA StaEventClaim ==
  ASSUME TrueInv, NEW up, StaEvent(up), Holds(events', "connect_ok") => Queued("connect_ok")
  PROVE  /\ ClaimLink'
         /\ up = "sta_connected" =>
               drv_sta = "linked" /\ sta_ready_notified' = TRUE /\ sta_connect_requested
  <1>1. ClaimLink /\ drv_sta' = drv_sta /\ (sta_connect_requested' => sta_connect_requested)
    BY StaEventFacts DEF TrueInv, UsedInv, ReadyInv
  <1>2. CASE ConnectOk(up)
    <2>1. events # << >> /\ Queued("connect_ok") /\ sta_connect_requested
      BY <1>2, StationTypes, Handled
      DEF ConnectOk, Pending, Queued, TrueInv, UsedInv, IInv
    <2>2. drv_sta = "linked" /\ sta_link_connected' = TRUE
      BY <1>1, <1>2, <2>1 DEF ClaimLink, ConnectOk
    <2>3. up = "sta_connected" => sta_ready_notified' = TRUE
      BY <1>2, <2>1 DEF ConnectOk, StaticLinkUp, DhcpLinkUp, Notify, MayNotify
    <2> QED
      BY <1>1, <2>1, <2>2, <2>3 DEF ClaimLink, Queued
  <1>3. CASE ConnectFailed(up) \/ Disconnected(up)
    BY <1>1, <1>3 DEF ConnectFailed, Disconnected, ClaimLink, Queued
  <1>4. CASE Ipv4Event(up)
    <2>1. /\ Notify(sta_ip /\ sta_link_connected, link_state, up)
          /\ UNCHANGED <<sta_connect_requested, sta_link_connected>>
      BY <1>4 DEF Ipv4Event
    <2>2. /\ sta_ready_notified' => sta_ready_notified \/ sta_link_connected
          /\ up = "sta_connected" =>
                sta_link_connected /\ sta_connect_requested /\ sta_ready_notified' = TRUE
      BY <2>1 DEF Notify, MayNotify
    <2> QED
      BY <1>1, <2>1, <2>2 DEF ClaimLink, Queued
  <1>5. CASE IgnoredStaEvent(up)
    BY <1>1, <1>5 DEF IgnoredStaEvent, ClaimLink, Queued, staVars
  <1> QED
    BY <1>2, <1>3, <1>4, <1>5 DEF StaEvent

\* And what the callback makes of the mode and of a request.
LEMMA CallbackMode ==
  ASSUME NEW up \in {"none", "sta_connected", "sta_disconnected"}, NEW q, StaCallback(up, q)
  PROVE  /\ Extends(q) /\ use_pending_cfg' = use_pending_cfg
         /\ up # "sta_connected" =>
               /\ mode' = mode \/ (up = "sta_disconnected" /\ mode' # "operational")
               /\ UNCHANGED <<blocking_connect_active, connect_result_sem>>
  <1>1. CASE NoCallback(q)
    BY <1>1 DEF NoCallback, Extends, provVars, requestVars, blockVars
  <1>2. CASE ~NoCallback(q) /\ up = "sta_connected"
    BY <1>2, SoftApEvents DEF StaCallback, StaConnected, Extends, requestVars
  <1>3. CASE ~NoCallback(q) /\ up = "sta_disconnected"
    <2>1. StaDisconnected(q) /\ UNCHANGED <<requestVars, blockVars>>
      BY <1>3 DEF StaCallback, StaDisconnected
    <2>2. Extends(q) /\ (mode' = mode \/ mode' # "operational")
      <3>1. CASE EnterProvisioning(mode, FALSE, FALSE, work, q)
        BY <3>1, EnterMode
      <3>2. CASE /\ events' = q
                 /\ LeaveRetryToOthers \/ RetrySoon \/ ReconnectLater
        BY <3>2 DEF LeaveRetryToOthers, RetrySoon, ReconnectLater, Extends
      <3> QED
        BY <1>3, <2>1, <3>1, <3>2 DEF StaDisconnected
    <2> QED
      BY <1>3, <2>1, <2>2 DEF requestVars, blockVars
  <1> QED
    BY <1>1, <1>2, <1>3 DEF StaCallback

LEMMA StaEventReady ==
  ASSUME TrueInv, ~AddressRefused', HandleStaEvent PROVE ReadyInv'
  <1>1. PICK up \in {"none", "sta_connected", "sta_disconnected"} :
           StaEvent(up) /\ StaCallback(up, Tail(events))
    BY DEF HandleStaEvent
  <1>2. UNCHANGED <<api, config>>
    BY DEF HandleStaEvent, apiVars, cfgVars
  <1>3. /\ Tail(events) \in Seq(EventKinds) /\ events # << >> /\ api # "off"
        /\ drv_sta' = drv_sta /\ (sta_connect_requested' => sta_connect_requested)
        /\ events \in Seq(EventKinds)
    BY <1>1, StaEventFacts, StationTypes DEF TrueInv, UsedInv, IInv
  <1>4. /\ Extends(Tail(events)) /\ use_pending_cfg' = use_pending_cfg
        /\ up # "sta_connected" =>
              /\ mode' = mode \/ (up = "sta_disconnected" /\ mode' # "operational")
              /\ UNCHANGED <<blocking_connect_active, connect_result_sem>>
    BY <1>1, CallbackMode
  <1>5. Holds(events', "connect_ok") => Queued("connect_ok")
    BY <1>3, <1>4, Handled, ExtendedQueue DEF Queued
  <1>6. /\ ClaimLink'
        /\ up = "sta_connected" =>
              drv_sta = "linked" /\ sta_ready_notified' = TRUE /\ sta_connect_requested
    BY <1>1, <1>5, StaEventClaim
  <1>7. CASE up = "sta_connected"
    <2>1. ~(api = "waiting" /\ use_pending_cfg)
      BY <1>6, <1>7 DEF TrueInv, ReadyInv, PendLink
    <2> QED
      BY <1>2, <1>3, <1>4, <1>6, <1>7, <2>1 DEF ReadyInv, ModeLink, PendLink
  <1>8. CASE up # "sta_connected"
    <2>1. drv_sta = "linked" /\ sta_ready_notified => sta_ready_notified'
      <3> SUFFICES ASSUME drv_sta = "linked", sta_ready_notified PROVE sta_ready_notified'
        OBVIOUS
      <3>1. \/ ConnectOk(up) \/ Ipv4Event(up)
            \/ UNCHANGED <<staVars, netVars>>
        BY <1>1, LinkedEvent DEF TrueInv
      <3>2. up = "none"
        BY <1>1, <1>8, LinkedEvent DEF TrueInv
      <3> QED
        BY <3>1, <3>2 DEF ConnectOk, StaticLinkUp, DhcpLinkUp, Ipv4Event, Notify, staVars
    <2>2. ModeLink'
      <3>1. mode' = "operational" => mode = "operational"
        BY <1>4, <1>8
      <3> QED
        BY <1>2, <1>3, <1>4, <2>1, <3>1 DEF TrueInv, ReadyInv, ModeLink
    <2>3. PendLink'
      BY <1>2, <1>3, <1>4, <1>8, PendKept DEF TrueInv, ReadyInv
    <2> QED
      BY <1>6, <2>2, <2>3 DEF ReadyInv
  <1> QED
    BY <1>7, <1>8

LEMMA ApEventReady == TrueInv /\ HandleApEvent => ReadyInv'
  <1> SUFFICES ASSUME TrueInv, HandleApEvent PROVE ReadyInv'
    OBVIOUS
  <1>1. PICK up \in {"none", "ap_started", "ap_stopped"} : ApEvent(up) /\ ApCallback(up)
    BY DEF HandleApEvent
  <1>2. /\ events' = Tail(events) /\ UNCHANGED <<staVars, netVars, apiVars, cfgVars>>
        /\ UNCHANGED <<requestVars, blockVars>> /\ mode' \in {mode, "provisioning"}
    BY <1>1 DEF HandleApEvent, ApCallback
  <1>3. events # << >> /\ events \in Seq(EventKinds)
    BY <1>1, StationTypes DEF ApEvent, ApEnabled, ApDisabled, IgnoredApEvent, Pending, TrueInv,
                              UsedInv, IInv
  <1>4. Holds(events', "connect_ok") => Queued("connect_ok")
    BY <1>2, <1>3, Handled DEF Queued
  <1>5. ClaimLink'
    BY <1>2, <1>4, ClaimKept DEF TrueInv, ReadyInv, netVars
  <1>6. ModeLink' /\ PendLink'
    BY <1>2, ModeKept, PendKept
    DEF TrueInv, ReadyInv, staVars, netVars, requestVars, blockVars, apiVars, cfgVars
  <1> QED
    BY <1>5, <1>6 DEF ReadyInv

-----------------------------------------------------------------------------
(* Its start, requests and environment.                                    *)

LEMMA StartReady == TrueInv /\ Start => ReadyInv'
  <1> SUFFICES ASSUME TrueInv, Start PROVE ReadyInv'
    OBVIOUS
  <1>1. /\ api = "off" /\ api' = "idle" /\ UNCHANGED <<staVars, netVars>>
        /\ mode' \in {mode, "provisioning", "connecting"} /\ Extends(events)
    BY EnterMode DEF Start, Extends
  <1>2. mode' # "operational"
    BY <1>1 DEF TrueInv, ReadyInv, PendLink
  <1>3. Holds(events', "connect_ok") => Queued("connect_ok")
    BY <1>1, ExtendedQueue, StationTypes DEF Queued, TrueInv, UsedInv, IInv
  <1>4. ClaimLink'
    BY <1>1, <1>3, ClaimKept DEF TrueInv, ReadyInv, netVars
  <1> QED
    BY <1>1, <1>2, <1>4 DEF ReadyInv, ModeLink, PendLink

\* The requests, step by step: those that leave the station alone, ...
LEMMA QuietApiReady ==
  ASSUME TrueInv, BudgetSuffices',
         ClientStep \/ PostBegin \/ PostResult \/ PostExpires \/ PostSave \/ PostReply
         \/ ResetFlags
  PROVE  ReadyInv'
  <1>1. UNCHANGED wifiVars /\ mode' = mode
    BY DEF ClientStep, PostWifi, ResetPost, PostBegin, PostResult, PostExpires, PostSave,
           PostReply, ResetFlags, provVars
  <1>2. ClaimLink'
    BY <1>1, ClaimKept DEF TrueInv, ReadyInv, wifiVars, netVars, Queued
  <1>3. UNCHANGED <<drv_sta, sta_ready_notified, sta_connect_requested>>
    BY <1>1 DEF wifiVars, netVars, staVars
  <1>4. CASE PostBegin
    <2>1. /\ api = "settling" /\ api' = "waiting" /\ use_pending_cfg' = TRUE
          /\ blocking_connect_active' = TRUE /\ connect_result_sem' = 0
      BY <1>4 DEF PostBegin
    <2>2. ~sta_connect_requested
      BY <2>1 DEF TrueInv, UsedInv, LinkInv, TimeLink, RestLink
    <2> QED
      BY <1>2, <1>3, <2>1, <2>2 DEF ReadyInv, ModeLink, PendLink, Trying
  <1>5. CASE ~PostBegin
    <2>1. /\ api # "off" /\ api' \notin {"off", "waiting", "settling"}
          /\ api # "settling" /\ ~(api = "waiting" /\ use_pending_cfg)
          /\ config = NoCfg /\ api \in {"idle", "cancelled", "reset_cancelled", "reset_cleared"}
                => config' = NoCfg /\ api' \in {"cancelled", "reset_cancelled", "reset_cleared"}
      <3>1. CASE ClientStep
        BY <3>1 DEF ClientStep, PostWifi, ResetPost, cfgVars
      <3>2. CASE PostResult
        <4>1. connect_result_sem = 1 /\ api = "waiting" /\ api' \in {"saving", "idle"}
          BY <3>2 DEF PostResult
        <4>2. ~use_pending_cfg
          BY <4>1 DEF TrueInv, ReadyInv, PendLink, Trying
        <4> QED
          BY <4>1, <4>2
      <3>3. CASE PostExpires
        BY <3>3 DEF PostExpires, BudgetSuffices
      <3>4. CASE PostSave \/ PostReply
        BY <3>4 DEF PostSave, PostReply
      <3>5. CASE ResetFlags
        BY <3>5 DEF ResetFlags, cfgVars
      <3> QED
        BY <1>5, <3>1, <3>2, <3>3, <3>4, <3>5
    <2> QED
      BY <1>1, <1>2, <1>3, <2>1 DEF TrueInv, ReadyInv, ModeLink, PendLink
  <1> QED
    BY <1>4, <1>5

\* ... and those that disconnect it.
LEMMA DropApiReady == TrueInv /\ (PostDisconnect \/ PostGiveUp \/ ResetClear) => ReadyInv'
  <1> SUFFICES ASSUME TrueInv, PostDisconnect \/ PostGiveUp \/ ResetClear PROVE ReadyInv'
    OBVIOUS
  <1>1. DisconnectSta
    BY DEF PostDisconnect, PostGiveUp, ResetClear
  <1>2. CASE PostDisconnect
    BY <1>1, <1>2, ClaimDropped DEF PostDisconnect, ReadyInv, ModeLink, PendLink
  <1>3. CASE PostGiveUp
    BY <1>3 DEF PostGiveUp, TrueInv, BudgetSuffices
  <1>4. CASE ResetClear
    BY <1>1, <1>4, ClaimDropped DEF ResetClear, ReadyInv, ModeLink, PendLink
  <1> QED
    BY <1>2, <1>3, <1>4

\* The driver, as long as it loses no link.
LEMMA DriverReady == TrueInv /\ ~LinkLost /\ Driver => ReadyInv'
  <1> SUFFICES ASSUME TrueInv, ~LinkLost, Driver PROVE ReadyInv'
    OBVIOUS
  <1>1. /\ UNCHANGED <<staVars, mode, api, config, use_pending_cfg, blocking_connect_active,
                       connect_result_sem, sta_connect_requested>>
        /\ LinkUp \/ JoinFails \/ DhcpBound
    BY DEF Driver, DriverStep, LinkUp, JoinFails, LinkLost, DhcpBound, provVars, requestVars,
           blockVars, apiVars, cfgVars, staVars
  <1>2. events \in Seq(EventKinds)
    BY StationTypes DEF TrueInv, UsedInv, IInv
  <1>3. PendLink'
    BY <1>1, PendKept DEF TrueInv, ReadyInv
  <1>4. drv_sta = "linked" => drv_sta' = "linked"
    BY <1>1 DEF LinkUp, JoinFails, DhcpBound
  <1>5. sta_ready_notified' = sta_ready_notified
    BY <1>1 DEF staVars
  <1>6. ModeLink'
    BY <1>1, <1>4, <1>5 DEF TrueInv, ReadyInv, ModeLink
  <1>7. ClaimLink'
    <2>1. CASE LinkUp
      BY <1>1, <2>1 DEF LinkUp, TrueInv, ReadyInv, ClaimLink, staVars
    <2>2. CASE JoinFails \/ DhcpBound
      <3>1. \E e \in {"connect_fail", "disconnected", "ipv4"} : events' = Append(events, e)
        BY <2>2 DEF JoinFails, DhcpBound, Raise
      <3>2. Queued("connect_ok")' => Queued("connect_ok")
        <4>1. \A e \in {"connect_fail", "disconnected", "ipv4"} :
                 e \in EventKinds /\ e # "connect_ok"
          BY DEF EventKinds, StaEventKinds
        <4> QED
          BY <1>2, <3>1, <4>1, Raised DEF Queued
      <3> QED
        BY <1>1, <1>4, <3>2 DEF TrueInv, ReadyInv, ClaimLink, staVars
    <2> QED
      BY <1>1, <2>1, <2>2
  <1> QED
    BY <1>3, <1>6, <1>7 DEF ReadyInv

LEMMA RestReady == TrueInv /\ (Tick \/ UNCHANGED vars) => ReadyInv'
  <1> SUFFICES ASSUME TrueInv, Tick \/ UNCHANGED vars PROVE ReadyInv'
    OBVIOUS
  <1>1. UNCHANGED <<wifiVars, mode, requestVars, blockVars, api, cfgVars>>
    BY DEF Tick, vars, provVars, apiVars
  <1>2. ClaimLink'
    BY <1>1, ClaimKept DEF TrueInv, ReadyInv, wifiVars, netVars, Queued
  <1>3. ModeLink' /\ PendLink'
    BY <1>1, ModeKept, PendKept
    DEF TrueInv, ReadyInv, wifiVars, staVars, netVars, requestVars, blockVars, cfgVars
  <1> QED
    BY <1>2, <1>3 DEF ReadyInv

LEMMA BootReady == (Init => ReadyInv) /\ (PowerCycle => ReadyInv')
  <1>1. Init => ReadyInv
    BY DEF Init, WifiInit, ReadyInv, ClaimLink, ModeLink, PendLink
  <1>2. PowerCycle => ReadyInv'
    BY DEF PowerCycle, WifiReset, ReadyInv, ClaimLink, ModeLink, PendLink
  <1> QED
    BY <1>1, <1>2

LEMMA NextReady ==
  ASSUME TrueInv, ~Rough, ~Lossy, [Next]_vars
  PROVE  ReadyInv'
  BY WorkReady, StaEventReady, ApEventReady, StartReady, QuietApiReady, DropApiReady,
     DriverReady, RestReady, BootReady
  DEF Next, EventStep, ApiStep, Rough, EventIsLate, Lossy

\* With a record that is calm the station has all that "operational" says.
CalmInv == UsedOr /\ (radio = "calm" => ReadyInv /\ BudgetSuffices)

LEMMA NextCalm == CalmInv /\ [Next /\ Remember]_historyVars => CalmInv'
  <1> SUFFICES ASSUME CalmInv, [Next /\ Remember]_historyVars PROVE CalmInv'
    OBVIOUS
  <1>1. UsedOr' /\ [Next]_vars
    BY NextUsed DEF CalmInv, historyVars
  <1>2. ASSUME radio' = "calm" PROVE ReadyInv' /\ BudgetSuffices'
    <2>1. CASE PowerCycle
      BY <2>1, BootReady DEF PowerCycle, BudgetSuffices
    <2>2. CASE ~PowerCycle
      <3>1. radio = "calm" /\ ((~Rough /\ ~Lossy) \/ UNCHANGED vars)
        BY <1>2, <2>2 DEF Remember, historyVars
      <3>2. TrueInv
        BY <3>1 DEF CalmInv, UsedOr, TrueInv, UsedInv
      <3>3. CASE ~Rough /\ ~Lossy
        BY <1>1, <3>2, <3>3, NextReady DEF Lossy
      <3>4. CASE UNCHANGED vars
        <4>1. api' = api
          BY <3>4 DEF vars, apiVars
        <4> QED
          BY <3>2, <3>4, <4>1, RestReady DEF TrueInv, BudgetSuffices
      <3> QED
        BY <3>1, <3>3, <3>4
    <2> QED
      BY <2>1, <2>2
  <1> QED
    BY <1>1, <1>2 DEF CalmInv

\* OperationalMeansReady, over every fault: as long as no event has come late, no
\* static address was refused, no link was lost and no POST stopped waiting before
\* its attempts were over, no timeout, request or reset leaves the mode behind.
THEOREM OperationalMeansReadyHolds == HistorySpec => []OperationalMeansReady
  <1>1. Init => CalmInv
    BY UsedInitially, BootReady DEF Init, BudgetSuffices, UsedInv, UsedOr, CalmInv
  <1>2. CalmInv /\ [Next /\ Remember]_historyVars => CalmInv'
    BY NextCalm
  <1>3. CalmInv => OperationalMeansReady
    <2> SUFFICES ASSUME UsedInv, ReadyInv, mode = "operational", api = "idle", events = << >>,
                        config # NoCfg
                 PROVE  drv_sta = "linked" /\ sta_ip
      BY DEF OperationalMeansReady, CalmInv, UsedOr, UsedInv
    <2>1. drv_sta = "linked" /\ sta_ready_notified
      BY DEF ReadyInv, ModeLink
    <2> QED
      BY <2>1 DEF UsedInv, LinkInv, RadioLink, UpLink
  <1> QED
    BY <1>1, <1>2, <1>3, PTL DEF HistorySpec

=============================================================================
