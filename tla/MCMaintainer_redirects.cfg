\* Two lists that redirect to each other, one of them also at an address with
\* a query.
CONSTANTS
  easylist = easylist
  exceptionrules = exceptionrules
  custom = custom
  query = query
  Url = {easylist, custom, query}
  CountCap <- MCCountCap
  AllowedUrl = {easylist, custom, query}
  StripQuery <- MCStripQuery
  RedirectsTo <- MCRedirects
  Generation = {1, 2}
  MaxRedirects = 1
  MaxConversions = 1
  AcceptableAdsUrl = custom
  IsAdblock = FALSE
  Preload <- MCPreload
  Matches <- MCMatches
  CustomFilter = {}
  MaxLoaded = 0
  Faults = {"restart", "expiry"}
SPECIFICATION Spec
INVARIANTS
  StorageGovernsInstalled
  OnlyObtainable
PROPERTIES
  AnswersKeepInstalled
