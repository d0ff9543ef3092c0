\* A request, for a document or not, with two lists.
CONSTANTS
  list = list
  exceptions = exceptions
  page = page
  ad = ad
  localhost = localhost
  Item = {list, exceptions}
  Configuration = {adblock}
  Request = {r}
  Url = {page, ad, localhost}
  Local = {localhost}
  RedirectsTo <- MCRedirectsTo
  Blocking <- MCBlocking
  Allowing <- MCAllowing
  HeaderBlocking <- MCHeaderBlocking
  Rewriting <- MCRewriting
  Csp <- MCCsp
SPECIFICATION FairSpec
CHECK_DEADLOCK FALSE
INVARIANTS
  VerdictIsCurrent
  BlockedIsCounted
PROPERTIES
  ToldInOrder
  RequestsAreAnswered
