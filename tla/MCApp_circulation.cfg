SPECIFICATION AppSpec
CONSTANTS
  u1 = u1
  u2 = u2
  tf = tf
  fc = fc
  dist = dist
  esc1 = esc1
  esc2 = esc2
  ch1 = ch1
  ch2 = ch2
  usdx = usdx
  None = None
  Acc <- MCAcc
  Spelling <- MCAddr
  Addr <- MCAddr
  AccOf <- MCAccOf
  String <- MCString
  User = {u1, u2}
  Blocked <- MCBlocked
  Denom = {usdx}
  Wealth <- MCWealth
  MaxInt = 2
  Module = tf
  Genesis <- MCGenesis
  FeeCollector = fc
  Distribution = dist
  Channel = {ch1, ch2}
  Escrow <- MCEscrow
  Path <- MCPath
  Home <- MCHome
  Prec = 2
  BpsUnit = 2
  ParamSets <- MCParamSets
  MaxAmount = 2
  MaxInFlight = 2
INVARIANTS
  SupplyIsHeld
  CirculationIsIssued
PROPERTIES
  OnlyOwnersSpend
  ImplementsTokenFactory
  ImplementsTariff
