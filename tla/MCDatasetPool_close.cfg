\* What the comment on Close says of the moment it returns.
CONSTANTS
  Reader = {r1, r2}
  Request = {p1, p2}
  Closer = {c1}
  Opener = opener
  NoReader = noReader
SPECIFICATION Spec
SYMMETRY Symmetry
INVARIANT CloseReturnsWithReadersClosed
CHECK_DEADLOCK FALSE
