SPECIFICATION FairSpec
CONSTANTS
  Tasks = {t1, t2}
  Updates = {u1, u2}
  Foreign = {p1}
  Base = Base
  MaxWire = 2
  None = None
INVARIANTS TypeOK UntouchedFieldsSurvive CurrentReadLosesNothing FailedSessionGone ClosedStaysClosed
PROPERTIES OperationsEnd
