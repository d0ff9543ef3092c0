\* Three lines in two lists of one configuration and a list of another.
CONSTANTS
  easylist = easylist
  custom = custom
  own = own
  adblock = adblock
  other = other
  blank_js = blank_js
  blank_css = blank_css
  policy = policy
  bad_policy = bad_policy
  on_page = on_page
  not_in_frame = not_in_frame
  signed_by = signed_by
  escaped = escaped
  header = header
  header_value = header_value
  key = key
  ContentType = {"script", "image"}
  Unnamed = Unnamed
  Nothing = Nothing
  EmptyText = EmptyText
  Rewrite <- MCRewrite
  InvalidCsp <- MCInvalidCsp
  DomainsIn <- MCDomainsIn
  SitekeysIn <- MCSitekeysIn
  Unescaped <- MCUnescaped
  ExcludeSymbols = {"~"}
  HeaderIn <- MCHeaderIn
  AnyValue = AnyValue
  AnyType = AnyType
  NoSitekey = NoSitekey
  Word <- MCWord
  kMaxRecursionDepth = 50
  SiteOf <- MCSiteOf
  OwnerOf <- MCOwnerOf
  UrlFilter <- MCUrlFilter
  ContentFilter <- MCContentFilter
  Url <- MCUrl
  List = {easylist, custom, own}
  Privileged = {custom, own}
  Request <- MCRequest
  MaxLines = 3
SPECIFICATION Spec
CHECK_DEADLOCK FALSE
INVARIANTS
  ListsFormOneRuleset
PROPERTIES
  ExceptionsOnlyUnblock
