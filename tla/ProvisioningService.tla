------------------------ MODULE ProvisioningService ------------------------
(***************************************************************************)
(* What a client of the provisioning API may rely on, with no word about   *)
(* attempts, timers, flags or events: one request at a time is taken up    *)
(* and answered; the credentials of a request are kept only after the      *)
(* radio has joined with them; a reset forgets; and the SoftAP over which  *)
(* the client may have come does not close before the answer.              *)
(*                                                                         *)
(* ProvisionProperties shows under which mapping Provision implements it.  *)
(***************************************************************************)

CONSTANTS
    Cfgs,   \* credentials a client may post
    NoCfg   \* no credentials

VARIABLES
    request, \* what the service is doing for a client
    asked,   \* the credentials of the current or last request
    used,    \* the credentials the device connects with
    stored,  \* the credentials it would boot with
    joined,  \* the credentials with which the radio last joined a network
    door     \* is the SoftAP open?

service == <<request, asked, used, stored, joined, door>>

\* "off" before the service runs; "trying" until the outcome of a request is
\* known; "proven" until it is saved; "kept" until it is answered.
Requests == {"off", "none", "trying", "proven", "kept", "resetting"}

ServiceInit ==
    /\ request = "off" /\ asked = NoCfg /\ joined = NoCfg /\ door = FALSE
    /\ stored \in Cfgs \cup {NoCfg} /\ used = stored

-----------------------------------------------------------------------------
\* The service comes up, with its SoftAP open or still closed.
Boot ==
    /\ request = "off" /\ request' = "none"
    /\ door' \in BOOLEAN
    /\ UNCHANGED <<asked, used, stored, joined>>

Submit(cfg) ==
    /\ request = "none" /\ request' = "trying"
    /\ asked' = cfg
    /\ UNCHANGED <<used, stored, joined, door>>

\* Only a join with the credentials of this request proves them.
Prove ==
    /\ request = "trying" /\ request' = "proven"
    /\ joined = asked
    /\ UNCHANGED <<asked, used, stored, joined, door>>

Refuse ==
    /\ request = "trying" /\ request' = "none"
    /\ UNCHANGED <<asked, used, stored, joined, door>>

\* What is proven is used at once; it is kept unless the flash refuses it,
\* and then the client gets an error.
Keep ==
    /\ request = "proven"
    /\ used' = asked
    /\ \/ request' = "kept" /\ stored' = asked
       \/ request' = "none" /\ stored' = stored
    /\ UNCHANGED <<asked, joined, door>>

Answer ==
    /\ request = "kept" /\ request' = "none"
    /\ UNCHANGED <<asked, used, stored, joined, door>>

Reset ==
    /\ request = "none" /\ request' = "resetting"
    /\ UNCHANGED <<asked, used, stored, joined, door>>

\* A reset leaves an open SoftAP open and tries to open a closed one.
Forget ==
    /\ request = "resetting" /\ request' = "none"
    /\ used' = NoCfg /\ stored' \in {NoCfg, stored}
    /\ door' \in {door, TRUE}
    /\ UNCHANGED <<asked, joined>>

\* The radio may join at any time, even with credentials that were refused
\* meanwhile: nothing follows from it unless they are those being tried.
Join ==
    /\ joined' \in Cfgs
    /\ UNCHANGED <<request, asked, used, stored, door>>

OpenDoor ==
    /\ request # "off"
    /\ door' = TRUE
    /\ UNCHANGED <<request, asked, used, stored, joined>>

\* Never while a client waits for its answer.
CloseDoor ==
    /\ request = "none" /\ door
    /\ door' = FALSE
    /\ UNCHANGED <<request, asked, used, stored, joined>>

\* The power fails: only what is stored survives.
Fall ==
    /\ request' = "off" /\ asked' = NoCfg /\ joined' = NoCfg /\ door' = FALSE
    /\ used' = stored /\ UNCHANGED stored

ServiceNext ==
    \/ Boot \/ Prove \/ Refuse \/ Keep \/ Answer \/ Reset \/ Forget
    \/ Join \/ OpenDoor \/ CloseDoor \/ Fall
    \/ \E cfg \in Cfgs : Submit(cfg)

Service == ServiceInit /\ [][ServiceNext]_service
=============================================================================
