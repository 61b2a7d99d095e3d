CONSTANTS
  Unset = Unset
  Here = 100
  UserValue = 48
  LocalNames = {"P0", "AR3", "C"}
  Statements <- MCStatements
  Followed <- MCFollowed
SPECIFICATION Spec
INVARIANTS
  RegistersAreNamed
CHECK_DEADLOCK FALSE
