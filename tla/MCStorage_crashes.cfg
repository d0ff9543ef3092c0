\* Crashes and failed writes; browsers with one schema and another.
CONSTANTS
  File = {f1, f2, f3}
  Schema = {"v1", "v2"}
  MaxLoads = 1
  Faults = {"write", "crash"}
SPECIFICATION Spec
SYMMETRY FileSymmetry
INVARIANTS
  NeverMisread
  SignedWhenGoverned
  GovernedOnDisk
PROPERTIES
  LoadReclaims
  KeepsContract
