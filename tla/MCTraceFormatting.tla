------------------------- MODULE MCTraceFormatting -------------------------
(***************************************************************************)
(* One provider whose callback makes a call, and one thread that formats   *)
(* the trace meanwhile.                                                    *)
(***************************************************************************)
EXTENDS TraceFormatting
=============================================================================
