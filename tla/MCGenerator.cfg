\* One to three inputs, two goroutines at a time, zooms 1 and 2.
CONSTANTS
  Inputs <- MCInputs
  Concurrency = 2
  MinZoom = 1
  MaxZoom = 2
  GridZoom = 2
  MaxFan = 9
SPECIFICATION GeneratorSpec
INVARIANTS
  FailuresAreReported
  StreamIsDeterministic
PROPERTIES
  BuildReturns
\* A build ends.
CHECK_DEADLOCK FALSE
