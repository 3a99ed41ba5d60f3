-------------------------- MODULE MC_AlarmEngine ---------------------------
(* AlarmEngine on a small instance: a key with a nuisance delay (door) and  *)
(* one without (sensor), two organisations, one of which set its delays to 0.*)
EXTENDS AlarmEngine

CONSTANTS door, sensor
=============================================================================
