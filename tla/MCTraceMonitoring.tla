------------------------ MODULE MCTraceMonitoring -------------------------
(***************************************************************************)
(* The instance of TraceMonitoring that TLC explores: one trace, in a slot *)
(* that others may take before and after it, and two delivery threads.     *)
(* What processing waits for is the trace's own consumer, its callbacks    *)
(* and its session; what its counters race with is its own callbacks.      *)
(***************************************************************************)
EXTENDS TraceMonitoring
=============================================================================
