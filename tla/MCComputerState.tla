--------------------------- MODULE MCComputerState ---------------------------
(* ComputerState with two reports, clocks that may be one unit apart, as is  *)
(* allowed, or more, and time for a snapshot to outlive its two units.       *)
EXTENDS ComputerState

Offs == {-1, 0, 2}
=============================================================================
