--------------------------- MODULE MC_OtaRollout ---------------------------
(* OtaRollout on small rollouts; the controllers are interchangeable.       *)
EXTENDS OtaRollout, TLC
Symmetry == Permutations(Devices) \cup Permutations(Workers)
=============================================================================
