\* Two lists, every fault, crashes among them, no redirects.
CONSTANTS
  easylist = easylist
  exceptionrules = exceptionrules
  custom = custom
  query = query
  Url = {easylist, exceptionrules}
  CountCap <- MCCountCap
  AllowedUrl = {easylist, exceptionrules}
  StripQuery <- MCStripQuery
  RedirectsTo <- MCNoRedirects
  Generation = {1, 2}
  MaxRedirects = 1
  MaxConversions = 1
  AcceptableAdsUrl = exceptionrules
  IsAdblock = TRUE
  Preload <- MCPreload
  Matches <- MCMatches
  CustomFilter = {}
  MaxLoaded = 2
  Faults = {"conversion", "store", "crash", "expiry"}
SPECIFICATION FairSpec
INVARIANTS
  UniqueInstalled
  OneInstallationPerUrl
  StorageGovernsInstalled
  PreloadedConsistent
  OnlyDemanded
  EveryInstallationProgresses
  NoOrphanDownload
  OnlyUpdatesGiveUp
PROPERTIES
  AnswersKeepInstalled
  AcceptableAdsCountKept
  InstallationsEnd
