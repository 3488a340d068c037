--------------------------- MODULE AtomicSession ---------------------------
(***************************************************************************)
(* What `UserTrace::enable_provider` and `UserTrace::disable_provider`     *)
(* promise to their callers: each call takes effect at one instant, on the *)
(* dispatch registry and on the ETW session together, or not at all.       *)
(*                                                                         *)
(* An entry is a registered provider instance, numbered in registration    *)
(* order.  The session keeps one configuration per GUID: that of the last  *)
(* entry enabled for it.  When it is gone nothing takes effect any more:   *)
(* the entries stay as they are.                                           *)
(***************************************************************************)
EXTENDS Integers

CONSTANTS
  Guids,   \* provider GUIDs
  Ids      \* registration numbers, a set of integers

VARIABLES
  alive,        \* the session runs, and this trace controls it
  entries,      \* the registered entries: records [id, guid]
  configured    \* GUID -> id of the entry whose configuration the session holds

vars == <<alive, entries, configured>>

Latest(S) == CHOOSE e \in S : \A f \in S : f.id <= e.id

ForGuid(g) == {e \in entries : e.guid = g}

\* A started session holds the configuration of the last entry of every GUID;
\* one that is only consumed (`open_existing`) was configured by somebody else.
Init ==
  /\ alive \in BOOLEAN
  /\ entries \in SUBSET [id : Ids, guid : Guids]
  /\ configured = [g \in IF alive THEN {e.guid : e \in entries} ELSE {} |-> Latest(ForGuid(g)).id]

Enable(g, i) ==
  /\ alive
  /\ \A e \in entries : e.id < i
  /\ entries' = entries \cup {[id |-> i, guid |-> g]}
  /\ configured' = [h \in DOMAIN configured \cup {g} |->
                      IF h = g THEN i ELSE configured[h]]
  /\ UNCHANGED alive

\* The returned count is the number of entries that leave.
Disable(g) ==
  /\ alive
  /\ ForGuid(g) # {}
  /\ entries' = entries \ ForGuid(g)
  /\ configured' = [h \in DOMAIN configured \ {g} |-> configured[h]]
  /\ UNCHANGED alive

\* Somebody else stops the session; the registry is not told.
End ==
  /\ alive
  /\ alive' = FALSE
  /\ configured' = [g \in {} |-> 0]
  /\ UNCHANGED entries

Next ==
  \/ End
  \/ \E g \in Guids : Disable(g) \/ \E i \in Ids : Enable(g, i)

Spec == Init /\ [][Next]_vars
=============================================================================
