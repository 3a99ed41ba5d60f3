--------------------- MODULE MC_OrganisationLifecycle ----------------------
(* OrganisationLifecycle with one organisation and two exports of it.       *)
EXTENDS OrganisationLifecycle
=============================================================================
