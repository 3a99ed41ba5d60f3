------------------------ MODULE MC_DeviceOnboarding ------------------------
(* DeviceOnboarding with two organisations and a few requests in turn.      *)
EXTENDS DeviceOnboarding
=============================================================================
