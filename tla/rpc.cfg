CONSTANTS
  Word = 100
  Threads = {1, 2}
  Requests <- MCRequests
  MaxXid = 3
  MaxConn = 2
  MaxBoot = 2
SPECIFICATION Spec
INVARIANTS RpcTypeOK AtMostOnce OwnAnswer RunsAtItsServer Understood NoDanglingCaller AckedIsOver QuietAfterCancel
PROPERTY CancelReturns
\* Calls, connections and starts are bounded, and everything may be at rest.
CHECK_DEADLOCK FALSE
