SPECIFICATION Spec
CONSTANTS
  Cases = {c1}
  Runs = {r1, r2}
  Keys = {k1, k2}
  Requests = {q1, q2}
SYMMETRY Symmetry
INVARIANTS ReleasedByAHuman OverlapBoundsReleases
CHECK_DEADLOCK FALSE
