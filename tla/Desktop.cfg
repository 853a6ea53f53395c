\* Who of several copies of the application runs its engine.
SPECIFICATION Spec
CONSTANTS
  m1 = m1
  m2 = m2
  m3 = m3
  l1 = l1
  l2 = l2
  Modern = {m1, m2, m3}
  Legacy = {l1, l2}
  VersionOf <- Releases
  Windows = TRUE
  Other = Other
  None = None
INVARIANTS
  OneEngine
SYMMETRY Alike
