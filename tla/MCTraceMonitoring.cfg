CONSTANTS
  Traces = {t1}
  Names = {n}
  Loggers = {1}
  Deliverers = {d1, d2}
  Nobody = Nobody
  Other = Other
  MaxEvents = 1
  MaxOutside = 2
  MaxBuffers = 2
SPECIFICATION FairMonitoringSpec
INVARIANTS
  CountersCatchUp
PROPERTIES
  ProcessingEnds
  CountersNeverGoBack
