-------------------------- MODULE MC_OfflineAlarm --------------------------
(* OfflineAlarm has one controller and needs only its bounds.               *)
EXTENDS OfflineAlarm
=============================================================================
