SPECIFICATION Spec
CONSTANTS
  p1 = p1
  p2 = p2
  t1 = t1
  t2 = t2
  Op = {p1, p2}
  User = {u}
  Token = {t1, t2}
  None = None
  Capability = {c}
SYMMETRY Symmetric
INVARIANTS
  SweptStaySwept
  SpentStaysSpent
PROPERTIES
  LockHonoured
CHECK_DEADLOCK FALSE
