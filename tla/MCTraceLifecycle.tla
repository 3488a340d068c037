------------------------- MODULE MCTraceLifecycle -------------------------
(***************************************************************************)
(* The instance of TraceLifecycle that TLC explores.  Traces are           *)
(* interchangeable: no action or invariant tells one from another but by   *)
(* its state.                                                              *)
(***************************************************************************)
EXTENDS TraceLifecycle, TLC

Interchangeable == Permutations(Traces)
=============================================================================
