\* Another process comes to the GPU once.
CONSTANTS
  Arguments = {"all"}
  MaxRuns = 2
  MaxArrivals = 1
  NoFile = NoFile
  Torn = Torn
SPECIFICATION Spec
PROPERTIES InvalidTimingsNeverPass
CHECK_DEADLOCK FALSE
