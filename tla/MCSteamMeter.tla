---------------------------- MODULE MCSteamMeter ----------------------------
(* The metered client for TLC; callers are interchangeable.                *)
EXTENDS SteamMeter, TLC

Symmetry == Permutations(Callers)
=============================================================================
