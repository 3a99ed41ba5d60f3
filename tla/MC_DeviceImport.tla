-------------------------- MODULE MC_DeviceImport --------------------------
(* DeviceImport with two controllers and two imports, of which one lists     *)
(* both and the other the second.                                            *)
EXTENDS DeviceImport, TLC

CONSTANTS j1, j2

BothAndOne == j1 :> {1, 2} @@ j2 :> {2}
=============================================================================
