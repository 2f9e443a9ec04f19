SPECIFICATION Spec
CONSTANTS
  Closed = Closed
  Absent = Absent
  Checks <- MCChecks
  IsHTTP <- MCIsHTTP
  MaxErrors = 1
CHECK_DEADLOCK FALSE
INVARIANTS
  CheckExact
  PassMeansSound
