---------------------------- MODULE MCProvision ----------------------------
(***************************************************************************)
(* Small instance of ProvisionProperties for TLC: the network at home      *)
(* gives addresses by DHCP, the one at office is configured statically.    *)
(***************************************************************************)
EXTENDS ProvisionProperties

CONSTANTS home, office

MCCfgs == {home, office}
MCStaticCfgs == {office}
=============================================================================
