----------------------------- MODULE MCPairing -----------------------------
(* Instances of PairingMenu for TLC: see the Pair*.cfg files. *)
EXTENDS PairingMenu, TLC

LossFaults == {"loss"}
AllFaults == FaultKinds

BadgeSymmetry == Permutations({L, R})
=============================================================================
