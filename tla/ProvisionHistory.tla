-------------------------- MODULE ProvisionHistory --------------------------
(***************************************************************************)
(* Provision with a record of what has gone wrong since the power came on, *)
(* for the properties of the station's link: they hold as long as certain  *)
(* things have not happened, whatever else fails.                          *)
(***************************************************************************)
EXTENDS ProvisionProperties

\* What has happened since the power came on: nothing of what follows ("calm"), at
\* most what Lossy names ("lossy"), or what Rough names ("rough").
VARIABLE radio

historyVars == <<vars, radio>>

\* A work handler runs while an event of the driver is still queued.  The event
\* thread and the work queue are both cooperative, and the work queue yields after
\* each handler: the driver has raised the event late.
EventIsLate == events # << >> /\ WorkStep

\* A static address was refused, which leaves the link as it is.
AddressRefused == link_state = "connected_no_ip" /\ current_sta_cfg \in StaticCfgs

Rough == EventIsLate \/ AddressRefused'

\* The driver loses a link, or a POST stops waiting before its attempts are over.
Lossy == LinkLost \/ ~BudgetSuffices'

Remember ==
    radio' = IF PowerCycle THEN "calm"
             ELSE IF radio = "rough" \/ Rough THEN "rough"
             ELSE IF Lossy THEN "lossy" ELSE radio

HistorySpec ==
    /\ Init /\ radio = "calm"
    /\ [][Next /\ Remember]_historyVars

-----------------------------------------------------------------------------
\* A link that is up is used: once the events are handled the station is ready
\* if it has an address, and otherwise DHCP is asked for one while a timeout
\* watches.  No losses, requests or AP events in between lose the notification.  An
\* event that comes late is excepted, for it is taken for the end of the attempt
\* that follows, whose link is then left unused; and so is a static address that is
\* refused, with which the link stays.  (An address comes after its link here: DHCP
\* is asked for one by the event of the link.)
LinkIsUsed ==
    radio # "rough" /\ drv_sta = "linked" /\ events = << >> /\ api = "idle"
        => IF sta_ip THEN sta_ready
                     ELSE dhcp_on /\ sta_connect_in_progress

\* "Operational" is never a leftover: the station has its link and address.  A
\* reset of the credentials is excepted, which leaves the mode as it was when the
\* SoftAP is still open; so is a link that drops while the SoftAP is open, of
\* which the mode does not tell.
OperationalMeansReady ==
    radio = "calm" /\ mode = "operational" /\ api = "idle" /\ events = << >> /\ config # NoCfg
        => drv_sta = "linked" /\ sta_ip
=============================================================================
