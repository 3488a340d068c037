-------------------------- MODULE TraceFormatting --------------------------
(***************************************************************************)
(* ProviderSession with `Debug`: `UserTrace` derives it, down to the       *)
(* registry.  `RwLock`'s own Debug keeps the read lock while it formats    *)
(* the registry, and `Provider`'s locks the callbacks of each entry.       *)
(* Sharing a trace between threads takes the caller's own wrapper, which   *)
(* a callback that enables providers needs anyway.                         *)
(***************************************************************************)
EXTENDS ProviderSession

VARIABLES
  reading,   \* application threads formatting the registry, under its read lock
  unprinted  \* the entries each of them still has to format

formatting == <<reading, unprinted>>

FormatInit ==
  /\ Init
  /\ reading = {}
  /\ unprinted = [a \in Apps |-> {}]

BeginFormat(a) ==
  /\ pc[a] = "idle"
  /\ a \notin reading
  /\ reading' = reading \cup {a}
  /\ unprinted' = [unprinted EXCEPT ![a] = providers]
  /\ UNCHANGED vars

FormatEntry(a) ==
  /\ \E i \in unprinted[a] :
       /\ \A j \in unprinted[a] : i <= j
       /\ \A d \in Deliverers : running[d] # i
       /\ unprinted' = [unprinted EXCEPT ![a] = @ \ {i}]
  /\ UNCHANGED <<vars, reading>>

EndFormat(a) ==
  /\ a \in reading
  /\ unprinted[a] = {}
  /\ reading' = reading \ {a}
  /\ UNCHANGED <<vars, unprinted>>

\* A formatting thread makes no call, and the write lock waits for the readers.
FormatNext ==
  \/ /\ Next
     /\ \A a \in reading : pc'[a] = pc[a]
     /\ reading = {} \/ UNCHANGED registry
     /\ UNCHANGED formatting
  \/ \E a \in Apps : BeginFormat(a) \/ FormatEntry(a) \/ EndFormat(a)

FormatSpec == FormatInit /\ [][FormatNext]_<<vars, formatting>>
-----------------------------------------------------------------------------
\* The registry's documentation (callback_data.rs, `providers`): user callbacks
\* run after the lock has been released, so a callback may itself enable or
\* disable providers.  So no callback that mutates may wait for the registry's
\* write lock while the thread that holds it in read mode waits for that callback.
CallbacksMayMutate ==
  ~ \E d \in Deliverers, a \in reading :
      /\ pc[d] \in {"register", "rollback", "unregister"}
      /\ running[d] \in unprinted[a]
      /\ \A j \in unprinted[a] : running[d] <= j
=============================================================================
