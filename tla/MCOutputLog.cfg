CONSTANTS
  Size = 4
  Data = {a, b}
  NUL = NUL
  Readers = {r1, r2}
SPECIFICATION Spec
CONSTRAINT Lone
SYMMETRY Symmetry
INVARIANTS InBounds Terminated LogExact
