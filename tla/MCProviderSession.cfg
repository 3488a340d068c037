\* Up to one initial provider, two runtime calls (enables and disables, by any of
\* the threads, of the initial GUID or of the other) and two events.
CONSTANTS
  Guids = {g1, g2}
  Apps = {app}
  Deliverers = {d1, d2}
  NoThread = NoThread
  NoGuid = NoGuid
  MaxInitial = 1
  MaxCalls = 2
  MaxEvents = 2
SPECIFICATION FairSpec
INVARIANTS
  TypeOK
  IndexesAgree
  SessionMatchesRegistry
  ConfiguredIsRegistered
  IInv
PROPERTIES
  MutationsAreAtomic
  CallsReturn
  EventsReachEntries
  EventsEnd
