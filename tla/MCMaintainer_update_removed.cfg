\* A list is added while the update of another is under way.
CONSTANTS
  easylist = easylist
  exceptionrules = exceptionrules
  custom = custom
  query = query
  Url = {easylist, exceptionrules}
  CountCap <- MCCountCap
  AllowedUrl = {easylist, exceptionrules}
  StripQuery <- MCStripQuery
  RedirectsTo <- MCNoRedirects
  Generation = {1, 2}
  MaxRedirects = 1
  MaxConversions = 1
  AcceptableAdsUrl = exceptionrules
  IsAdblock = TRUE
  Preload <- MCPreload
  Matches <- MCMatches
  CustomFilter = {}
  MaxLoaded = 0
  Faults = {"expiry"}
SPECIFICATION Spec
PROPERTIES
  DemandedStaysInstalled
