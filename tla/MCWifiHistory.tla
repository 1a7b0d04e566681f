--------------------------- MODULE MCWifiHistory ---------------------------
(***************************************************************************)
(* Instances of WifiHistory for TLC.                                       *)
(***************************************************************************)
EXTENDS WifiHistory, TLC

Symmetry == Permutations(Networks) \cup Permutations(Passwords) \cup Permutations(Tasks)
=============================================================================
