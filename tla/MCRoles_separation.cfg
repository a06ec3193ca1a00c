SPECIFICATION RolesSpec
CONSTANTS
  a1 = a1
  a2 = a2
  a3 = a3
  a4 = a4
  Users = {a1, a2, a3, a4}
  User = {a1, a2, a3, a4}
  tf = tf
  Cases = {"lower"}
  None = None
  Acc <- MCAcc
  Addr <- MCAddr
  Spelling <- MCSpelling
  AccOf <- MCAccOf
  String <- MCString
  Blocked <- MCBlocked
  Genesis <- MCGenesis
INVARIANT
  RolesSeparated
