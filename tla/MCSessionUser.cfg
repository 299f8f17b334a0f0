\* The user that the client names when it answers a challenge.
CONSTANTS
  Users <- MCUsers
  Passwords = {"p1", "p2"}
  NoCredentials = NoCredentials
  Keys = {"k1"}
  Foreign = TRUE
SPECIFICATION Spec
INVARIANT NamesUser
CHECK_DEADLOCK FALSE
