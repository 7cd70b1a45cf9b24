CONSTANTS
  None = None
  ArgLists <- MCArgLists
SPECIFICATION Spec
INVARIANT GetFastPathSound
