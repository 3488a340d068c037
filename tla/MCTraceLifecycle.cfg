CONSTANTS
  Traces = {t1, t2}
  Names = {n}
  Loggers = {1}
  Deliverers = {d}
  Nobody = Nobody
  Other = Other
  MaxEvents = 1
  MaxOutside = 1
SYMMETRY Interchangeable
SPECIFICATION Spec
INVARIANTS
  TypeOK
  EventsReachOwnTrace
  OpenTracesDispatch
  ContextsAreFreed
  NothingKeepsRunning
PROPERTIES
  ClosedTracesStaySilent
