\* One topic that counts users, one that gathers its payload asynchronously.
CONSTANTS
  activeping = activeping
  Topic = {activeping, hits}
  MaxPings = 3
  MaxDays = 2
SPECIFICATION FairSpec
INVARIANTS
  OneRequestPerTopic
  NoPingWhileDisabled
  PingsFormAChain
  TagsTellRetries
PROPERTIES
  ForgetsOnlyInCrash
  PingsGoOn
