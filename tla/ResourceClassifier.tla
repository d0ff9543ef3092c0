-------------------------- MODULE ResourceClassifier --------------------------
(***************************************************************************)
(* What ResourceClassifier and ElementHider decide with a snapshot: a set  *)
(* of collections, one for each enabled configuration, each a set of       *)
(* installed lists.  Which list decided is left out.  A request has the    *)
(* address asked for, the addresses of the frames it comes from with the   *)
(* innermost first, the type of what it asks for, the signature of its     *)
(* page, and the headers of its response as pairs of a name and a value.   *)
(***************************************************************************)
EXTENDS InstalledSubscription

CONSTANTS
  HeaderIn,     \* the name and value of a header in each text of a header filter
  AnyValue      \* the value in a text that has a name only

DocumentDomain(r) == IF r.frames = <<>> THEN r.url.host ELSE r.frames[1].host

-----------------------------------------------------------------------------
\* SubscriptionCollection: an exception for a frame of the request; the domain
\* is the one of the frame around it.
SubscriptionContainsSpecialFilter(list, kind, r, sitekey) ==
  \E i \in DOMAIN r.frames :
    LET parent == IF i < Len(r.frames) THEN r.frames[i + 1] ELSE r.frames[i]
    IN  HasSpecialFilter(list, kind, r.frames[i], parent.host, sitekey)

HasAllowFilter(list, r) ==
  \/ HasUrlFilter(list, r.url, DocumentDomain(r), r.type, r.sitekey, Allowing)
  \/ SubscriptionContainsSpecialFilter(list, "document", r, r.sitekey)

\* An exception for the request itself or for a frame of it.
FindBySpecialFilter(collection, kind, r, sitekey) ==
  \E list \in collection :
    \/ HasSpecialFilter(list, kind, r.url, DocumentDomain(r), sitekey)
    \/ SubscriptionContainsSpecialFilter(list, kind, r, sitekey)

FindBySubresourceFilter(collection, r, category) ==
  \E list \in collection :
    HasUrlFilter(list, r.url, DocumentDomain(r), r.type, r.sitekey, category)

FindByPopupFilter(collection, r, category) ==
  \E list \in collection : HasPopupFilter(list, r.url, DocumentDomain(r), r.sitekey, category)

FindByAllowFilter(collection, r) == \E list \in collection : HasAllowFilter(list, r)

GetHeaderFilters(collection, r, category) ==
  UNION { FindHeaderFilters(list, r.url, r.type, DocumentDomain(r), category) :
            list \in collection }

\* The policies added to a response.
GetCspInjections(collection, r) ==
  LET Found(category) ==
        UNION { FindCspFilters(list, r.url, DocumentDomain(r), category) : list \in collection }
      allowing == Found(Allowing)
      searched == IF FindBySpecialFilter(collection, "genericblock", r, NoSitekey)
                  THEN Found(DomainSpecificBlocking) ELSE Found(Blocking)
  IN  IF EmptyText \in allowing \/ FindBySpecialFilter(collection, "document", r, NoSitekey)
      THEN {} ELSE searched \ allowing

\* Whether a rewrite is, and may be, overruled: the first allowing filter found
\* in each list counts.
IsAllowed(collection, r) == FindBySpecialFilter(collection, "document", r, NoSitekey)

IsFilterOverruled(collection, rewrite, r) ==
  IsAllowed(collection, r) \/ \E list \in collection :
    RewritesOf(FindRewriteFilter(list, r.url, DocumentDomain(r), Allowing)) = {rewrite}

MayBeOverruled(collection, rewrite, r) ==
  IsAllowed(collection, r) \/ \E list \in collection :
    rewrite \in RewritesOf(FindRewriteFilter(list, r.url, DocumentDomain(r), Allowing))

OrNothing(rewrites) == IF rewrites = {} THEN {Nothing} ELSE rewrites

\* What a list of a collection may yield: nothing but the first filter found in
\* it is considered, and if it is for all domains and those are excepted, the
\* first of the others, whether that is overruled or not.
GenericFindFilter(collection, list, r) ==
  LET Found(category) == FindRewriteFilter(list, r.url, DocumentDomain(r), category)
      specific == Found(DomainSpecificBlocking)
      Passed(f) ==
        IF /\ f \notin specific
           /\ FindBySpecialFilter(collection, "genericblock", r, NoSitekey)
        THEN OrNothing(RewritesOf(specific)) ELSE {f.rewrite}
      Yield(f) ==
        (IF IsFilterOverruled(collection, f.rewrite, r) THEN {} ELSE Passed(f))
        \cup IF MayBeOverruled(collection, f.rewrite, r) THEN {Nothing} ELSE {}
  IN  OrNothing(UNION { Yield(f) : f \in Found(Blocking) })

\* Several lists or collections are asked one after the other until one has a
\* rewrite.
FirstOf(outcomes) ==
  ((UNION outcomes) \ {Nothing})
  \cup IF \A outcome \in outcomes : Nothing \in outcome THEN {Nothing} ELSE {}

GetRewriteUrl(collection, r) == FirstOf({ GenericFindFilter(collection, l, r) : l \in collection })

\* The snippets run in a document.
GenerateSnippets(collection, r) ==
  UNION { MatchSnippets(list, DocumentDomain(r)) : list \in collection }

\* Selectors without those some list makes an exception for.
ReduceSelectors(found) ==
  (UNION { s.hide : s \in found }) \ (UNION { s.except : s \in found })

GetElementHideSelectors(collection, r) ==
  LET domain_specific == FindBySpecialFilter(collection, "generichide", r, r.sitekey)
  IN  ReduceSelectors({ GetElemhideSelectors(list, r.url, domain_specific) :
                          list \in collection })

GetElementHideEmulationSelectors(collection, r) ==
  ReduceSelectors({ GetElemhideEmulationSelectors(list, r.url) : list \in collection })

-----------------------------------------------------------------------------
Ignored == "Ignored"
Allowed == "Allowed"
Blocked == "Blocked"

\* Faulty: a list can only allow what it blocks itself.
AllowedByBlockingList(collection, r) ==
  IF \E list \in collection : FindBySubresourceFilter({list}, r, Blocking)
                              /\ ~FindByAllowFilter({list}, r)
  THEN Blocked ELSE Ignored

\* Faulty: domain-specific filters are searched for before allowing ones.
GenericblockFirst(collection, r) ==
  CASE ~FindBySubresourceFilter(collection, r, Blocking) -> Ignored
    [] FindBySubresourceFilter(collection, r, DomainSpecificBlocking)
       /\ FindBySpecialFilter(collection, "genericblock", r, r.sitekey) -> Blocked
    [] FindByAllowFilter(collection, r) -> Allowed
    [] OTHER -> Blocked

\* A blocking filter in any list, an allowing one in any list that overrules it,
\* and then an exception from the blocking filters that are for all domains.
ClassifyRequestWithSingleCollection(collection, r) ==
  CASE ~FindBySubresourceFilter(collection, r, Blocking) -> Ignored
    [] /\ FindBySubresourceFilter(collection, r, Blocking)
       /\ FindByAllowFilter(collection, r) -> Allowed
    [] /\ FindBySubresourceFilter(collection, r, Blocking)
       /\ ~FindByAllowFilter(collection, r) ->
         IF /\ FindBySpecialFilter(collection, "genericblock", r, r.sitekey)
            /\ ~FindBySubresourceFilter(collection, r, DomainSpecificBlocking)
         THEN Ignored ELSE Blocked

ClassifyPopupWithSingleCollection(collection, r) ==
  IF ~FindByPopupFilter(collection, r, Blocking) THEN Ignored
  ELSE IF \/ FindByPopupFilter(collection, r, Allowing)
          \/ FindBySpecialFilter(collection, "document", r, r.sitekey)
       THEN Allowed ELSE Blocked

\* A header filter is the name of a header, with a value or with any; an
\* allowing filter is searched for in the text of a blocking one.
IsHeaderFilterOverruled(blocking, allowing) ==
  \E a \in allowing :
    \/ a \in {EmptyText, blocking}
    \/ /\ a # EmptyText
       /\ HeaderIn[a].name = HeaderIn[blocking].name
       /\ HeaderIn[a].value = AnyValue

CheckHeaderFiltersMatchResponseHeaders(r, blocking, allowing) ==
  LET Matching(b) == \E h \in r.headers :
        HeaderIn[b].name = h.name /\ HeaderIn[b].value \in {AnyValue, h.value}
      matching == { b \in blocking : Matching(b) }
  IN  IF matching = {} THEN Ignored
      ELSE IF \A b \in matching : IsHeaderFilterOverruled(b, allowing)
           THEN Allowed ELSE Blocked

\* With an exception from the filters for all domains, allowing filters are not
\* searched for.
ClassifyResponseWithSingleCollection(collection, r) ==
  LET blocking == GetHeaderFilters(collection, r, Blocking)
  IN  IF blocking = {} THEN Ignored
      ELSE IF FindBySpecialFilter(collection, "document", r, NoSitekey) THEN Allowed
      ELSE IF FindBySpecialFilter(collection, "genericblock", r, NoSitekey)
      THEN CheckHeaderFiltersMatchResponseHeaders(
             r, GetHeaderFilters(collection, r, DomainSpecificBlocking), {})
      ELSE CheckHeaderFiltersMatchResponseHeaders(
             r, blocking, GetHeaderFilters(collection, r, Allowing))

\* A block in one collection stands, whatever the others say.
Combined(decisions) ==
  CASE Blocked \in decisions -> Blocked
    [] Blocked \notin decisions /\ Allowed \in decisions -> Allowed
    [] OTHER -> Ignored

ClassifyRequest(snapshot, r) ==
  Combined({ ClassifyRequestWithSingleCollection(c, r) : c \in snapshot })

ClassifyPopup(snapshot, r) ==
  Combined({ ClassifyPopupWithSingleCollection(c, r) : c \in snapshot })

ClassifyResponse(snapshot, r) ==
  Combined({ ClassifyResponseWithSingleCollection(c, r) : c \in snapshot })

-----------------------------------------------------------------------------
\* ElementHider: the selectors hidden in a frame, by style sheet and by script,
\* and the snippets.
PrepareElemhideEmulationData(snapshot, r) ==
  LET running == { c \in snapshot : ~FindBySpecialFilter(c, "document", r, r.sitekey) }
      hiding == { c \in running : ~FindBySpecialFilter(c, "elemhide", r, r.sitekey) }
  IN  [ stylesheet  |-> UNION { GetElementHideSelectors(c, r) : c \in hiding },
        elemhide_js |-> UNION { GetElementHideEmulationSelectors(c, r) : c \in hiding },
        snippet_js  |-> UNION { GenerateSnippets(c, r) : c \in running } ]

\* HasRewriteHelper: what a request may be rewritten to.
Rewrites(snapshot, r) == FirstOf({ GetRewriteUrl(c, r) : c \in snapshot })

\* ContentSecurityPolicyInjector: the policies of all collections.
CspInjections(snapshot, r) == UNION { GetCspInjections(c, r) : c \in snapshot }
=============================================================================
