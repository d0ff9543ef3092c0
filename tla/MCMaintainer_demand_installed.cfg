\* Two lists, nothing on disk; only requests fail.
CONSTANTS
  easylist = easylist
  exceptionrules = exceptionrules
  custom = custom
  query = query
  Url = {easylist, exceptionrules}
  CountCap <- MCCountCap
  AllowedUrl = {easylist, exceptionrules}
  StripQuery <- MCStripQuery
  RedirectsTo <- MCNoRedirects
  Generation = {1, 2}
  MaxRedirects = 1
  MaxConversions = 1
  AcceptableAdsUrl = exceptionrules
  IsAdblock = TRUE
  Preload <- MCPreload
  Matches <- MCMatches
  CustomFilter = {"f"}
  MaxLoaded = 0
  Faults = {}
SPECIFICATION FairSpec
INVARIANTS
  CustomFiltersInForce
PROPERTIES
  DemandIsInstalled
