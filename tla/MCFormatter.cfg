CONSTANTS
  None = None
  Docs <- MCDocs
  Indents = {None, "I"}
  Spaces = {None, "S"}
  Newlines = {None, "N"}
SPECIFICATION Spec
INVARIANTS TypeOK StreamsReference
