SPECIFICATION TariffSpec
CONSTANTS
  u1 = u1
  u2 = u2
  fc = fc
  dist = dist
  esc1 = esc1
  esc2 = esc2
  ch1 = ch1
  ch2 = ch2
  usdc = usdc
  atom = atom
  atomPath = atomPath
  None = None
  Acc <- MCAcc
  Spelling <- MCAddr
  Addr <- MCAddr
  AccOf <- MCAccOf
  String <- MCString
  Blocked <- MCBlocked
  FeeCollector = fc
  Distribution = dist
  Escrow <- MCEscrow
  User = {u1}
  Channel = {}
  Denom = {usdc, atom}
  Path <- MCPath
  Home <- MCHome
  Prec = 5
  BpsUnit = 4
  ParamSets <- AllocationParams
  Wealth <- ManyFees
  MaxAmount = 8
  MaxInFlight = 0
PROPERTIES
  AllocationIsTheShare
