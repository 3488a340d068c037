-------------------------- MODULE SessionControl --------------------------
(***************************************************************************)
(* An application thread that asks the system for its profile sources or   *)
(* sets a trace up.  The calls share no state of the crate: each is made   *)
(* on its own, and other processes go on meanwhile.                        *)
(***************************************************************************)
EXTENDS SessionSetup, SystemQueries

controlVars == <<setupVars, queryVars>>

Init == SetupInit /\ QueryInit

\* The call has returned.
Returned ==
  /\ phase \in {"live", "failed"} \/ step \in {"done", "gaveUp", "failed"}
  /\ UNCHANGED controlVars

Next ==
  \/ step = "idle" /\ SetupNext /\ UNCHANGED queryVars
  \/ phase = "builder" /\ QueryNext /\ UNCHANGED setupVars
  \/ Returned

Spec == Init /\ [][Next]_controlVars
=============================================================================
