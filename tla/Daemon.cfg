SPECIFICATION Spec
CONSTANTS
  Servers <- TwoServers
  MaxStarts = 2
  MaxStops = 3
  MaxTroubles = 1
INVARIANTS TypeOK OneServiceUnlessStopped ThreeStopsSuffice
PROPERTY EverythingSettles
\* Everything may be over.
CHECK_DEADLOCK FALSE
