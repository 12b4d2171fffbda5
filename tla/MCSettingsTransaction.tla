----------------------- MODULE MCSettingsTransaction ------------------------
(* SettingsTransaction with both slots, two callers and two of everything.  *)
EXTENDS SettingsTransaction, TLC

Alike == Permutations(Versions) \cup Permutations(Secrets) \cup Permutations(Callers)
=============================================================================
