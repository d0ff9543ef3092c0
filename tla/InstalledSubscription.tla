------------------------ MODULE InstalledSubscription ------------------------
(***************************************************************************)
(* Lookups in an installed list.  A list is a set of entries: each files a *)
(* filter, as FilterParser made it, in one of the list's indices under a   *)
(* key, a keyword for a URL filter and a domain for another.  <<>> is the  *)
(* key of filters without one.  match-case and regular expressions are     *)
(* left out.                                                               *)
(***************************************************************************)
EXTENDS PatternMatcher, FilterParser

CONSTANTS
  UrlFilter,       \* the URL filters of the lists, as they are written there
  Url,             \* the addresses of requests and frames
  SiteOf,          \* the registered domain of each host
  NoSitekey,       \* of a page without a signature
  AnyType          \* of a lookup that has no content type

ASSUME UrlAssumption ==
  \A u \in Url :
    /\ u.host \in Seq(STRING) /\ \A i \in DOMAIN u.host : u.host[i] # "/"
    /\ u.path \in Seq(STRING) /\ (u.path = <<>> \/ u.path[1] = "/")

ASSUME UrlFilterAssumption ==
  \A line \in UrlFilter :
    /\ "pattern" \in DOMAIN line
    /\ line.allowing \in BOOLEAN
    /\ line.pattern \in Seq(STRING)
    /\ line.options = Nothing \/ line.options \in Seq(UrlFilterOption)

Blocking == "Blocking"
Allowing == "Allowing"
DomainSpecificBlocking == "DomainSpecificBlocking"

Filed(list, index, key) ==
  { e.filter : e \in { x \in list : x.index = index /\ x.key = key } }

-----------------------------------------------------------------------------
DomainMatches(filter_domain, document_domain) ==
  \/ document_domain = filter_domain
  \/ IsSuffix(<<".">> \o filter_domain, document_domain)

DomainOnList(domain, list) == \E d \in list : DomainMatches(d, domain)

\* A domain and the domains it is part of.
Subdomains(domain) ==
  {domain} \cup
  { SubSeq(domain, i + 1, Len(domain)) : i \in { j \in DOMAIN domain : domain[j] = "." } }

IsThirdParty(url, domain) == SiteOf[url.host] # SiteOf[domain]

CheckThirdParty(filter, third_party) ==
  CASE filter.third_party = "Ignore" -> TRUE
    [] filter.third_party = "FirstPartyOnly" -> ~third_party
    [] filter.third_party = "ThirdPartyOnly" -> third_party

IsEmptyDomainAllowed(filter) == filter.include = {} /\ filter.exclude = {}

IsGenericFilter(filter) == filter.sitekeys = {} /\ IsEmptyDomainAllowed(filter)

IsActiveOnDomain(filter, domain) ==
  /\ ~DomainOnList(domain, filter.exclude)
  /\ filter.include # {} => DomainOnList(domain, filter.include)

CandidateFilterViable(filter, type, domain, sitekey, category, third_party) ==
  /\ type = AnyType \/ type \in filter.types
  /\ category = DomainSpecificBlocking => ~IsGenericFilter(filter)
  /\ CheckThirdParty(filter, third_party)
  /\ filter.sitekeys # {} => sitekey \in filter.sitekeys
  /\ IsActiveOnDomain(filter, domain)

-----------------------------------------------------------------------------
\* What the patterns match and the keywords of the addresses, worked out once.
Matches ==
  [ p \in { f.pattern : f \in UrlFilter } |-> [ u \in Url |-> DoesPatternMatchUrl(p, u) ] ]

Keywords == [ u \in Url |-> UrlKeywords(u) ]

\* The filters of one index that are for a request.  Only those filed under a
\* keyword of the address, or under none, are looked at.
FindInternal(list, index, url, type, domain, sitekey, category) ==
  { f \in UNION { Filed(list, index, k) : k \in Keywords[url] \cup {<<>>} } :
      /\ CandidateFilterViable(f, type, domain, sitekey, category, IsThirdParty(url, domain))
      /\ Matches[f.pattern][url] }

\* The index of a use, for filters that block or for those that allow.
IndexOf(use, category) == <<use, category = Allowing>>

HasUrlFilter(list, url, domain, type, sitekey, category) ==
  FindInternal(list, IndexOf("subresource", category), url, type, domain, sitekey, category) # {}

HasPopupFilter(list, url, domain, sitekey, category) ==
  FindInternal(list, IndexOf("popup", category), url, AnyType, domain, sitekey, category) # {}

\* The policies of the CSP filters for a response.
FindCspFilters(list, url, domain, category) ==
  { f.csp : f \in
      FindInternal(list, IndexOf("csp", category), url, AnyType, domain, NoSitekey, category) }

\* The first filter found; which of several that is depends on their keywords and
\* places in the list, so these are all that it may be.
FindRewriteFilter(list, url, domain, category) ==
  FindInternal(list, IndexOf("rewrite", category), url, AnyType, domain, NoSitekey, category)

RewritesOf(filters) == { f.rewrite : f \in filters }

\* The texts of the header filters for a response.
FindHeaderFilters(list, url, type, domain, category) ==
  { f.headers : f \in
      FindInternal(list, IndexOf("header", category), url, type, domain, NoSitekey, category) }

\* Whether an exception of a kind is made for an address.
HasSpecialFilter(list, kind, url, domain, sitekey) ==
  FindInternal(list, <<kind, TRUE>>, url, AnyType, domain, sitekey, Allowing) # {}

-----------------------------------------------------------------------------
\* The selectors filed in an index under one of the keys, for a domain.
GetSelectorsForDomain(list, index, keys, domain) ==
  { f.selector : f \in
      { x \in UNION { Filed(list, index, k) : k \in keys } : IsActiveOnDomain(x, domain) } }

\* The keys under which element hiding filters are looked for.
GetElemhideKeys(url, domain_specific) ==
  Subdomains(url.host) \cup IF domain_specific THEN {} ELSE {<<>>}

GetElemhideSelectors(list, url, domain_specific) ==
  LET keys == GetElemhideKeys(url, domain_specific)
  IN  [ hide   |-> GetSelectorsForDomain(list, <<"ElemHide">>, keys, url.host),
        except |-> GetSelectorsForDomain(list, <<"ElemHideException">>, keys, url.host) ]

\* Generic filters, and exceptions from all, are not looked for.
GetElemhideEmulationSelectors(list, url) ==
  LET keys == Subdomains(url.host)
  IN  [ hide   |-> GetSelectorsForDomain(list, <<"ElemHideEmulation">>, keys, url.host),
        except |-> GetSelectorsForDomain(list, <<"ElemHideException">>, keys, url.host) ]

\* The snippets for a document.
MatchSnippets(list, domain) ==
  GetSelectorsForDomain(list, <<"Snippet">>, Subdomains(domain), domain)
=============================================================================
