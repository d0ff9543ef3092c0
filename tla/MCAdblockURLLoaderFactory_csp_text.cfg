\* A list with a policy leaves force while its policies are looked up.
CONSTANTS
  list = list
  exceptions = exceptions
  page = page
  ad = ad
  localhost = localhost
  Item = {list, exceptions}
  Configuration = {adblock}
  Request = {r}
  Url = {page, ad, localhost}
  Local = {localhost}
  RedirectsTo <- MCRedirectsTo
  Blocking <- MCBlocking
  Allowing <- MCAllowing
  HeaderBlocking <- MCHeaderBlocking
  Rewriting <- MCRewriting
  Csp <- MCCsp
SPECIFICATION Spec
CHECK_DEADLOCK FALSE
INVARIANTS
  CspTextIsHeld
