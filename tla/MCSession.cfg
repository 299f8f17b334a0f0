\* Every URL, server configuration, lost connection and cancelled context.
CONSTANTS
  Users <- MCUsers
  Passwords = {"p1", "p2"}
  NoCredentials = NoCredentials
  Keys = {"k1"}
  Foreign = TRUE
SPECIFICATION Spec
INVARIANTS TypeOK Agreement OnlyWithCredentials NothingLeft
PROPERTIES DialsInTurn OwnedByCaller Returns Succeeds
CHECK_DEADLOCK FALSE
