-------------------------- MODULE MCDesktopBackend --------------------------
(* DesktopBackend on a Mac with everything switched on, or with nothing.       *)
EXTENDS DesktopBackend

Everything == [profile |-> "desktop", mac |-> TRUE, state |-> TRUE, actions |-> TRUE,
               report |-> TRUE, relay |-> TRUE]
Bare == [Everything EXCEPT !.state = FALSE, !.actions = FALSE, !.report = FALSE]
McConfigs == {Everything, Bare}
=============================================================================
