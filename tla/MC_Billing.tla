----------------------------- MODULE MC_Billing -----------------------------
(* Billing of a partner and its client, who may leave it.                   *)
EXTENDS Billing

CONSTANTS o1, o2

MCFirstPartner == [o \in Orgs |-> o1]
=============================================================================
