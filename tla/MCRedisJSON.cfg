CONSTANTS
  Keys = {k1}
  NoDoc = NoDoc
  Malformed = Malformed
  NoArg = NoArg
  IntBits = 3
  FloatMax = 4
  OverflowChecks = FALSE
  MaxLen = 2
  MaxStr = 2
  PathArgs <- MCPathArgs
  SetArgs <- MCSetArgs
  NumArgs <- MCNumArgs
  StrArgs <- MCStrArgs
  ItemArgs <- MCItemArgs
  IndexArgs <- MCIndexArgs
SPECIFICATION Spec
INVARIANTS TypeOK ChangesAreReplicated
