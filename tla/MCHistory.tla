----------------------------- MODULE MCHistory -----------------------------
(* MCProvision with the record of ProvisionHistory.                        *)
EXTENDS MCProvision, ProvisionHistory
=============================================================================
