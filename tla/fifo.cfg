CONSTANTS
  Producers = {p1, p2}
  Workers = {w1, w2}
  Jobs = {j1, j2, j3, j4, n1, n2}
  Pills = {n1, n2}
  Owner = p1
  None = None
  limit = 2
SPECIFICATION PoolSpec
INVARIANTS TypeOK Bounded JobsAreSeen SpaceIsSeen PoolTypeOK OneHolder Drained
PROPERTIES EnqReturns DestructorReturns AcceptedJobsRun
\* The pool is gone at the end.
CHECK_DEADLOCK FALSE
