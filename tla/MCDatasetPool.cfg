\* Three lookups contend for two readers while two callers close the dataset.
CONSTANTS
  Reader = {r1, r2}
  Request = {p1, p2, p3}
  Closer = {c1, c2}
  Opener = opener
  NoReader = noReader
SPECIFICATION Spec
INVARIANTS
  NoReaderLeaks
PROPERTIES
  CallsReturn
  ImplementsLease
\* A failed Open leaves nothing to do.
CHECK_DEADLOCK FALSE
