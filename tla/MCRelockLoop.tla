---------------------------- MODULE MCRelockLoop ----------------------------
(* Three relock periods, close together. *)
EXTENDS RelockLoop

MCPeriods == <<3, 4, 5>>

=============================================================================
