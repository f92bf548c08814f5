SPECIFICATION Spec
CONSTANTS
  Tables = {"plans", "payments"}
  Descending = {"payments"}
  MaxRows = 5
  Limit = 2
  Refused = Refused
  NoCursor = NoCursor
INVARIANT PagesReachEveryRow
CHECK_DEADLOCK FALSE
