------------------------ MODULE ProvisionProperties ------------------------
(***************************************************************************)
(* What provision_module.c, wifi_manager.c and the API thread owe each     *)
(* other and their client.  Every property relates the state of at least   *)
(* two of the threads; which of them hold, and under which environment, is *)
(* recorded by the runs (README.md).                                       *)
(***************************************************************************)
EXTENDS Provision

-----------------------------------------------------------------------------
(* Safety.                                                                 *)

\* connect_attempt is incremented by the work queue and zeroed by all three
\* threads, yet never runs past the budget, and sta_connect_work is never left
\* scheduled when the attempts are used up.
AttemptBudget ==
    /\ connect_attempt <= MaxAttempts
    /\ Armed("sta_connect") => connect_attempt < MaxAttempts

\* Once the event thread has caught up, all opinions about the SoftAP agree:
\* what is on the air, wifi_manager's ap_active, and provision_module's
\* provisioning_active; and no DHCP server is left running without it (it may
\* be missing, where it did not start).  AP requests and AP events cross on the
\* queue; a stale AP_DISABLE after a restart must not win.  A start that the
\* driver refused leaves ap_start_requested behind, and then ap_active may lie.
ApAgreement ==
    events = << >> /\ ~ap_start_requested =>
        /\ drv_ap = ap_active /\ drv_ap = provisioning_active
        /\ ap_dhcp_running => drv_ap

\* "AP stays up so the HTTP connection remains alive": from the moment a
\* request is taken up until it is answered nothing takes the SoftAP down, not
\* the delayed stop of the request before, nor a connection that succeeds.
ClientKeepsAp ==
    [][api \notin {"off", "idle"} /\ drv_ap /\ ~drv_ap' => api' = "off"]_vars

\* Flash only ever receives credentials with which the radio has joined a
\* network, or none at all (a reset of the credentials).
CredentialsProven == [][nvs' # nvs => nvs' \in {NoCfg, last_joined}]_vars

\* An attempt that has been handed to the driver is always watched: either
\* connect_timeout_work is pending, or the API thread is about to clean up.
AttemptSupervised ==
    sta_connect_in_progress /\ api \in {"idle", "waiting"}
        => Armed("connect_timeout")

\* sta_retry_pending makes STA_DISCONNECTED return early and holds the
\* fallback SoftAP back, so it must never outlive the retry it stands for.
RetryScheduled ==
    sta_retry_pending /\ api \in {"idle", "waiting"} => Armed("sta_connect")

\* The semaphore carries a result only for the request that waits for it, and
\* a success means that the radio joined the network this client posted.
ResultIsFresh ==
    connect_result_sem = 1 =>
        /\ api = "waiting"
        /\ connect_result_success => last_joined = api_cfg
        /\ ~connect_result_success =>
              ~blocking_connect_active /\ ~Armed("connect_timeout")

\* The timeout that handle_wifi_post computes covers every attempt: "Semaphore
\* timed out (shouldn't happen with correctly set timeout_ms)".
BudgetSuffices == api # "expired"

\* In provisioning mode the SoftAP is there for the client to come back to.
ProvisioningModeHasAp ==
    mode = "provisioning" /\ api = "idle" /\ events = << >> => drv_ap

\* The client's view of a request, from where the API thread is in it.
RequestOf(a) ==
    CASE a = "off" -> "off"
      [] a = "idle" -> "none"
      [] a \in {"cancelled", "settling", "waiting", "expired"} -> "trying"
      [] a = "saving" -> "proven"
      [] a = "saved" -> "kept"
      [] a \in {"reset_cancelled", "reset_cleared"} -> "resetting"

Provided == INSTANCE ProvisioningService WITH
    request <- RequestOf(api), asked <- api_cfg, used <- config, stored <- nvs,
    joined <- last_joined, door <- drv_ap

\* For clients on the SoftAP the three threads implement the service: whatever
\* the interleaving of attempts, timers and events, only a join with the posted
\* credentials has them kept, and the SoftAP does not close before the answer.
ImplementsService == Provided!Service

\* What the status tells a client that polls it: "connecting" is never a dead
\* end, an attempt is under way or due, or the link is up.  After the last attempt
\* of a set the mode may stay at "connecting" with nothing scheduled, but then the
\* client has the SoftAP to come back to, unless the start of that failed.
ConnectingMeansTrying ==
    mode = "connecting" /\ api = "idle" /\ events = << >> =>
        \/ sta_connect_in_progress \/ sta_ready
        \/ Armed("sta_connect") \/ Armed("sta_reconnect")
        \/ connect_attempt = MaxAttempts /\ (drv_ap \/ ap_start_error)

-----------------------------------------------------------------------------
(* Liveness, under FairSpec unless said otherwise.                         *)

\* Every request is answered, whatever the network, the flash or the driver
\* do: the semaphore is given, or its timeout ends the wait.
RequestsAnswered == (api \notin {"off", "idle"}) ~> (api \in {"off", "idle"})

\* A station that was ready and lost its link is connected again, or the
\* credentials were taken from it.
LossIsRetried ==
    (sta_ready /\ drv_sta = "idle") ~> (Due("sta_connect") \/ config = NoCfg)

\* A persistent reconnect without a SoftAP goes on until it succeeds.
ReconnectPersists ==
    (persistent_reconnect /\ ~drv_ap /\ ~Armed("boot_fallback_ap"))
        ~> (Due("sta_connect") \/ ~persistent_reconnect)

\* Again and again the device is ready, tries to connect, or offers its SoftAP.
NeverGivesUp == []<>(Due("sta_connect") \/ sta_ready \/ drv_ap)
=============================================================================
