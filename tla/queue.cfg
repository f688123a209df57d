\* Cursors of four bits over four entries.
SPECIFICATION Spec
CONSTANTS
  Vals = {v1, v2}
  Size = 4
  W = 16
INVARIANTS
  CursorsOK
PROPERTIES
  ImplementsFifo
