------------------------ MODULE MCRejectedProvider ------------------------
(***************************************************************************)
(* One GUID, enabled when the trace starts, of which an application thread *)
(* enables a second instance while an event is dispatched.                 *)
(***************************************************************************)
EXTENDS RejectedProvider
=============================================================================
