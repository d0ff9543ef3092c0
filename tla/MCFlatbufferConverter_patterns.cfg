\* Patterns of up to four pieces and lists of up to three options, one at a time.
CONSTANTS
  easylist = easylist
  custom = custom
  own = own
  adblock = adblock
  other = other
  blank_js = blank_js
  blank_css = blank_css
  policy = policy
  bad_policy = bad_policy
  on_page = on_page
  not_in_frame = not_in_frame
  signed_by = signed_by
  escaped = escaped
  header = header
  header_value = header_value
  key = key
  ContentType = {"script", "image"}
  Unnamed = Unnamed
  Nothing = Nothing
  EmptyText = EmptyText
  Rewrite <- MCRewrite
  InvalidCsp <- MCInvalidCsp
  DomainsIn <- MCDomainsIn
  SitekeysIn <- MCSitekeysIn
  Unescaped <- MCUnescaped
  ExcludeSymbols = {"~"}
  HeaderIn <- MCHeaderIn
  AnyValue = AnyValue
  AnyType = AnyType
  NoSitekey = NoSitekey
  Word <- MCWord
  kMaxRecursionDepth = 5
  SiteOf <- MCSiteOf
  OwnerOf <- MCOwnerOf
  UrlFilter <- MCPatternFilter
  ContentFilter = {}
  Url <- MCPatternUrl
  List = {easylist}
  Privileged = {}
  Request = {}
  MaxLines = 1
SPECIFICATION Spec
CHECK_DEADLOCK FALSE
INVARIANTS
  MatchesLikeGlob
  KeywordIndexComplete
  OptionsMeanWhatTheySay
