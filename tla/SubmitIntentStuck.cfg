SPECIFICATION Spec
CONSTANTS
  Companies = {acme, globex}
  Jobs = {j1, j2, j3}
  Presses = {p1, p2, p3}
  MaxKeys = 5
  None = None
  acme = acme
  globex = globex
  j1 = j1
  j2 = j2
  j3 = j3
  p1 = p1
  p2 = p2
  p3 = p3
PROPERTIES
  RepliesAreRead
CHECK_DEADLOCK FALSE
