-------------------------- MODULE MCSettingsAccess --------------------------
(* SettingsAccess with two browsers and two addresses, one of which the     *)
(* limiter has room for.                                                    *)
EXTENDS SettingsAccess, TLC

Alike == Permutations(Browsers) \cup Permutations(Clients) \cup Permutations(Bodies) \cup Permutations(Passwords)
=============================================================================
