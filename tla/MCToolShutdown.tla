--------------------------- MODULE MCToolShutdown ---------------------------
(* ToolShutdown with one request of the model; MCToolExecution.cfg has the     *)
(* calls that may race without a close.                                        *)
EXTENDS ToolShutdown
=============================================================================
