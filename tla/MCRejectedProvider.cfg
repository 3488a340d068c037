CONSTANTS
  Guids = {g1}
  Apps = {app}
  Deliverers = {d1}
  NoThread = NoThread
  NoGuid = NoGuid
  MaxInitial = 1
  MaxCalls = 1
  MaxEvents = 1
SPECIFICATION RejectedSpec
PROPERTIES
  RejectedNeverFires
