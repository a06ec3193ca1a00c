SPECIFICATION TokenSpec
CONSTANTS
  a1 = a1
  a2 = a2
  a3 = a3
  usdx = usdx
  stake = stake
  tf = tf
  Module = tf
  Wealth <- NoWealth
  None = None
  Acc <- MCAcc
  Spelling <- MCSpelling
  AccOf <- MCAccOf
  String <- MCString
  Blocked <- MCBlocked
  Users = {a1, a2}
  User = {a1, a2}
  Cases = {"lower"}
  Addr <- MCAddr
  Denom = {usdx}
  MaxInt = 1
  MaxMinters = 1
  MaxControllers = 1
  Genesis <- AuthorityGenesis
CONSTRAINT Bounded
PROPERTIES
  OrphanAllowanceOnlyShrinks
  RestartLosesOnlyTheOffer
