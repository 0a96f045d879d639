SPECIFICATION FloatSpec
CONSTANTS
  Kind = {"int16", "uint16"}
  Signed = {"int16"}
  MaxDigits = 6
  Modulus <- MCModulus
  BufLen <- MCBufLen
  Weight <- MCWeight
  Den = 8
  ExactPrec = 3
  Floats <- MCFloats
  NaN = NaN
  Precisions <- MCPrecisions
  MaxEligible = 10000
INVARIANTS
  FloatTypeOK
  Converts
  Rounds
CHECK_DEADLOCK FALSE
