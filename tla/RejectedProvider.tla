------------------------- MODULE RejectedProvider -------------------------
(***************************************************************************)
(* A history of ProviderSession: the entries whose runtime enable returned *)
(* an error.  `enable_provider` registers before it asks the OS, and the   *)
(* dispatch clones what is registered; removing the entry afterwards does  *)
(* not take it out of the clones.                                          *)
(***************************************************************************)
EXTENDS ProviderSession

VARIABLE rejected   \* entries whose enable_provider has returned an error

RejectedInit == Init /\ rejected = {}

RejectedNext ==
  /\ Next
  /\ rejected' = rejected \cup {own[t] : t \in {u \in Threads :
                                   pc[u] = "rollback" /\ pc'[u] = "idle"}}

RejectedSpec == RejectedInit /\ [][RejectedNext]_<<vars, rejected>>
-----------------------------------------------------------------------------
\* What the comment on the rollback says (trace.rs, enable_provider): the
\* callbacks of a provider the OS rejected never fire.  Weaker than its words:
\* here they may fire until the call has returned its error, but not after.
RejectedNeverFires ==
  [][\A d \in Deliverers :
       running'[d] # running[d] => running'[d] \notin rejected]_<<vars, rejected>>
=============================================================================
