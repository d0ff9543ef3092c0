\* Three items: Acceptable Ads, a default list that is the only one for its
\* language, and a custom list; a second configuration of an embedder.
CONSTANTS
  Item = {exceptionrules, easylist, custom}
  Configuration = {adblock, other}
  adblock = adblock
  AcceptableAdsUrl = exceptionrules
  FirstRunLists = {exceptionrules}
  LocaleLists = {easylist}
  DefaultSubscription = {easylist}
SPECIFICATION Spec
INVARIANTS
  ChoicesRespected
  SnapshotIsOfEnabled
