SPECIFICATION LiveSpec
CONSTANTS
  Events = {e1, e2, e3}
  Workers = {w1, w2}
  NoEvent = NoEvent
  Unaddressed = {e3}
  Forsaken = {e2}
  MaxRetries = 2
  MaxFaults = 1
  MaxCrashes = 1
INVARIANTS
  TypeOK
  RetriesAreBounded
  CompletedIsDelivered
PROPERTIES
  ImplementsQueue
  EventEnds
CHECK_DEADLOCK FALSE
