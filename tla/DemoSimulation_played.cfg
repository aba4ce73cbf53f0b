SPECIFICATION Spec
CONSTANTS
  Sims = {s1,s2}
  Commands = {k1, k2}
  Requests = {q1, q2}
  MaxCrashes = 1
SYMMETRY Symmetry
INVARIANTS MoneyHasCharge VerifiedHasCharge StepsHaveNoGap
CHECK_DEADLOCK FALSE
