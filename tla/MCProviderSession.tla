------------------------- MODULE MCProviderSession -------------------------
(***************************************************************************)
(* The instance of ProviderSession that TLC explores: an application       *)
(* thread and two delivery threads, whose callbacks may mutate the session *)
(* too, over two GUIDs.  The constants' values are in the .cfg.            *)
(***************************************************************************)
EXTENDS ProviderSession
=============================================================================
