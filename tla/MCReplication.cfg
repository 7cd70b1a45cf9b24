CONSTANTS
  Keys = {k1}
  NoDoc = NoDoc
  Malformed = Malformed
  NoArg = NoArg
  NoSync = NoSync
  IntBits = 2
  FloatMax = 4
  OverflowChecks = FALSE
  MaxLen = 1
  MaxStr = 2
  MaxLag = 1
  PathArgs <- MCReplPathArgs
  SetArgs <- MCReplSetArgs
  NumArgs <- MCReplNumArgs
  StrArgs <- MCReplStrArgs
  ItemArgs <- MCReplItemArgs
  IndexArgs <- MCReplIndexArgs
SPECIFICATION ReplFairSpec
INVARIANT ReplicaConsistent
PROPERTIES ReplicationRefinesLag ReplicaConverges
