SPECIFICATION MessagesSpec
CONSTANTS
  Nil = Nil
  High = 128
  MaxGroups = 3
  Half = 16384
  NumHalf = 16
  Schema <- MessageTypes
  Writes <- MessageWrites
  Counts <- MessageCounts
  Bech32 <- MCBech32
  Digits <- MCDigits
  Decimal <- MCDecimal
  Input <- MCInput
  MaxBytes = 4
  ByteTypes = {"MsgPause", "TariffParams"}
INVARIANTS
  CursorInBounds
  DecodesWhatWasSent
  BufferIsFilled
  NothingPanics
PROPERTIES
  EveryStepAdvances
  EveryInputIsDecided
CHECK_DEADLOCK FALSE
