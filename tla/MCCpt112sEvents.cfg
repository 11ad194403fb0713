SPECIFICATION Spec
CONSTANTS
  MaxEvents = 4
  MaxFaults = 3
INVARIANTS TypeOK NoEventStranded EachEventOnce InOrderExceptInit
PROPERTY QueueIsEmptied
CHECK_DEADLOCK FALSE
