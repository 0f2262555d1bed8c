SPECIFICATION Spec
CONSTANTS
  Restorers = {r1}
  Readers = {q1}
  Versions = {v1, v2}
  Keys = {k0, k1, k2}
  Old = k0
  None = None
  MaxCommits = 2
  MaxFiles = 2
SYMMETRY Symmetry
INVARIANT NoRequestSeesAMix
