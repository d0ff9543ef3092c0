\* The configuration is disabled and enabled again with tasks pending.
CONSTANTS
  File = {f1, f2}
  Schema = {"v1"}
  MaxLoads = 2
  Faults = {"write", "read", "map", "disable"}
SPECIFICATION FairSpec
INVARIANTS
  NeverMisread
PROPERTIES
  AnswersCome
