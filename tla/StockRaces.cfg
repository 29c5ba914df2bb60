CONSTANTS
  s1 = s1
  s2 = s2
  p1 = p1
  c1 = c1
  c2 = c2
  r1 = r1
  Sellers = {s1,s2}
  Receivers = {p1}
  Counters = {c1,c2}
  Reviewers = {r1}
  Counts <- MCCounts
  Opening <- MCOpening
SPECIFICATION Spec
SYMMETRY MCSymmetry
INVARIANTS DriftNeedsStray CountsOverwriteNothing
CHECK_DEADLOCK FALSE
