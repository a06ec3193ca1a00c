SPECIFICATION TokenSpec
CONSTANTS
  a1 = a1
  a2 = a2
  a3 = a3
  usdx = usdx
  stake = stake
  tf = tf
  Module = tf
  Wealth <- NoWealth
  None = None
  Acc <- MCAcc
  Spelling <- MCSpelling
  AccOf <- MCAccOf
  String <- MCString
  Blocked <- MCBlocked
  Users = {a1, a2}
  User = {a1, a2}
  Cases = {"lower", "upper"}
  Addr <- MCIssuanceAddr
  Denom = {usdx, stake}
  MaxInt = 3
  MaxMinters = 4
  MaxControllers = 4
  Genesis <- IssuanceGenesis
INVARIANTS
  TokenTypeOK
  AllowanceIsGrantLessMinted
  ModuleAccountIsEmpty
PROPERTIES
  MintIsCharged
  BurnTakesOwnCoins
