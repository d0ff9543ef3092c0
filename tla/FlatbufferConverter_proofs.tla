----------------------- MODULE FlatbufferConverter_proofs -----------------------
(***************************************************************************)
(* Exceptions only unblock; filters are filed where they are found again,  *)
(* and a match is always found; the lists of a configuration form one set  *)
(* of rules; options mean what they say, and patterns what they look like. *)
(***************************************************************************)
EXTENDS FlatbufferConverter, PatternMatcher_proofs, FiniteSetTheorems

-----------------------------------------------------------------------------
(* What a list decides when entries are added to some of its indices.      *)

\* The indices of exceptions: from requests, popups, policies, headers and
\* rewrites, for pages, and from element hiding.
ExceptionIndex ==
  (({"subresource", "popup", "csp", "header", "rewrite"} \cup ExceptionType) \X {TRUE})
  \cup {<<"ElemHideException">>}

\* A list grown by entries in the indices `added`.
Grown(list, then, added) ==
  /\ list \subseteq then
  /\ \A e \in then : e \notin list => e.index \in added

\* A collection of which each list has grown, by entries in the same indices.
GrownCollection(collection, then, added) ==
  /\ \A list \in collection : \E x \in then : Grown(list, x, added)
  /\ \A x \in then : \E list \in collection : Grown(list, x, added)

(* The indices of what blocks or hides are not among those of exceptions.    *)
LEMMA BlockingIsNoException ==
  /\ \A use : <<use, FALSE>> \notin ExceptionIndex
  /\ <<"ElemHide">> \notin ExceptionIndex
  /\ <<"ElemHideEmulation">> \notin ExceptionIndex
  /\ <<"Snippet">> \notin ExceptionIndex
<1>1. ASSUME NEW i \in ExceptionIndex PROVE i = <<"ElemHideException">> \/ (Len(i) = 2 /\ i[2] = TRUE)
  <2>1. CASE i = <<"ElemHideException">>
    BY <2>1
  <2>2. CASE i # <<"ElemHideException">>
    <3>1. i \in ({"subresource", "popup", "csp", "header", "rewrite"} \cup ExceptionType) \X {TRUE}
      BY <1>1, <2>2 DEF ExceptionIndex
    <3> QED
      BY <3>1
  <2> QED
    BY <2>1, <2>2
<1>2. \A use \in STRING : Len(<<use, FALSE>>) = 2 /\ <<use, FALSE>>[2] = FALSE
  OBVIOUS
<1>3. ASSUME NEW use PROVE <<use, FALSE>> \notin ExceptionIndex
  <2>1. Len(<<"ElemHideException">>) = 1
    OBVIOUS
  <2> QED
    BY <1>1, <1>2, <2>1
<1>4. ASSUME NEW type, type # "ElemHideException" PROVE <<type>> \notin ExceptionIndex
  <2>1. Len(<<type>>) # 2 /\ <<type>> # <<"ElemHideException">>
    BY <1>4
  <2> QED
    BY <1>1, <2>1
<1>5. /\ <<"ElemHide">> \notin ExceptionIndex
      /\ <<"ElemHideEmulation">> \notin ExceptionIndex
      /\ <<"Snippet">> \notin ExceptionIndex
  <2> DEFINE types == {"ElemHide", "ElemHideEmulation", "Snippet"}
  <2>1. \A type \in types : type # "ElemHideException"
    OBVIOUS
  <2>2. \A type \in types : <<type>> \notin ExceptionIndex
    BY <1>4, <2>1
  <2> QED
    BY <2>2, Zenon
<1> QED
  BY <1>3, <1>5

(* What is filed under an index stays, and nothing is added to an index that *)
(* is not among those added to.                                              *)
LEMMA FiledGrows ==
  ASSUME NEW list, NEW then, NEW added, Grown(list, then, added), NEW index, NEW k
  PROVE  /\ Filed(list, index, k) \subseteq Filed(then, index, k)
         /\ index \notin added => Filed(then, index, k) = Filed(list, index, k)
  BY DEF Filed, Grown

(* The same of the filters found for an address.                             *)
LEMMA FindInternalGrows ==
  ASSUME NEW list, NEW then, NEW added, Grown(list, then, added), NEW index,
         NEW url, NEW type, NEW domain, NEW sitekey, NEW category
  PROVE  /\ FindInternal(list, index, url, type, domain, sitekey, category)
              \subseteq FindInternal(then, index, url, type, domain, sitekey, category)
         /\ index \notin added =>
              FindInternal(then, index, url, type, domain, sitekey, category)
                = FindInternal(list, index, url, type, domain, sitekey, category)
<1>1. \A k : /\ Filed(list, index, k) \subseteq Filed(then, index, k)
             /\ index \notin added => Filed(then, index, k) = Filed(list, index, k)
  BY FiledGrows
<1> QED
  BY <1>1 DEF FindInternal

(* The same of the selectors for a domain.                                   *)
LEMMA SelectorsGrow ==
  ASSUME NEW list, NEW then, NEW added, Grown(list, then, added), NEW index,
         NEW places, NEW domain
  PROVE  /\ GetSelectorsForDomain(list, index, places, domain)
              \subseteq GetSelectorsForDomain(then, index, places, domain)
         /\ index \notin added =>
              GetSelectorsForDomain(then, index, places, domain)
                = GetSelectorsForDomain(list, index, places, domain)
<1>1. \A k : /\ Filed(list, index, k) \subseteq Filed(then, index, k)
             /\ index \notin added => Filed(then, index, k) = Filed(list, index, k)
  BY FiledGrows
<1> QED
  BY <1>1 DEF GetSelectorsForDomain

(* Domain-specific filters are among the filters.                            *)
LEMMA DomainSpecificIsBlocking ==
  ASSUME NEW list, NEW use, NEW url, NEW type, NEW domain, NEW sitekey
  PROVE  /\ IndexOf(use, Blocking) = <<use, FALSE>>
         /\ IndexOf(use, DomainSpecificBlocking) = <<use, FALSE>>
         /\ IndexOf(use, Allowing) = <<use, TRUE>>
         /\ FindInternal(list, <<use, FALSE>>, url, type, domain, sitekey, DomainSpecificBlocking)
              \subseteq FindInternal(list, <<use, FALSE>>, url, type, domain, sitekey, Blocking)
<1>1. Blocking # Allowing /\ DomainSpecificBlocking # Allowing /\ Blocking # DomainSpecificBlocking
  BY DEF Blocking, Allowing, DomainSpecificBlocking
<1>2. \A f, third : CandidateFilterViable(f, type, domain, sitekey, DomainSpecificBlocking, third)
               => CandidateFilterViable(f, type, domain, sitekey, Blocking, third)
  BY <1>1 DEF CandidateFilterViable
<1> QED
  BY <1>1, <1>2 DEF IndexOf, FindInternal

(* Exceptions for pages are kept, and those of a kind that is not added stay *)
(* as they are.                                                              *)
LEMMA SpecialFilterGrows ==
  ASSUME NEW collection, NEW then, NEW added, GrownCollection(collection, then, added),
         NEW kind, NEW r, NEW sitekey
  PROVE  /\ FindBySpecialFilter(collection, kind, r, sitekey)
              => FindBySpecialFilter(then, kind, r, sitekey)
         /\ <<kind, TRUE>> \notin added =>
              (FindBySpecialFilter(then, kind, r, sitekey)
                 => FindBySpecialFilter(collection, kind, r, sitekey))
<1> DEFINE Has(l) == \/ HasSpecialFilter(l, kind, r.url, DocumentDomain(r), sitekey)
                     \/ SubscriptionContainsSpecialFilter(l, kind, r, sitekey)
<1>1. ASSUME NEW x, NEW y, Grown(x, y, added)
      PROVE  /\ Has(x) => Has(y)
             /\ <<kind, TRUE>> \notin added => (Has(y) => Has(x))
  <2>1. ASSUME NEW url, NEW domain
        PROVE  /\ HasSpecialFilter(x, kind, url, domain, sitekey)
                    => HasSpecialFilter(y, kind, url, domain, sitekey)
               /\ <<kind, TRUE>> \notin added =>
                    (HasSpecialFilter(y, kind, url, domain, sitekey)
                       => HasSpecialFilter(x, kind, url, domain, sitekey))
    <3> DEFINE X == FindInternal(x, <<kind, TRUE>>, url, AnyType, domain, sitekey, Allowing)
               Y == FindInternal(y, <<kind, TRUE>>, url, AnyType, domain, sitekey, Allowing)
    <3>1. X \subseteq Y /\ (<<kind, TRUE>> \notin added => Y = X)
      BY <1>1, FindInternalGrows
    <3> QED
      BY <3>1 DEF HasSpecialFilter
  <2> QED
    BY <2>1 DEF SubscriptionContainsSpecialFilter
<1>2. \A c : FindBySpecialFilter(c, kind, r, sitekey) <=> \E l \in c : Has(l)
  BY DEF FindBySpecialFilter
<1> HIDE DEF Has
<1> QED
  BY <1>1, <1>2 DEF GrownCollection

(* Two collections of which one has grown out of the other by exceptions.    *)
Exceptions(collection, then, added) ==
  added \subseteq ExceptionIndex /\ GrownCollection(collection, then, added)

(* With more exceptions no filter that blocks is found that was not, and     *)
(* every filter that allows is still found.                                  *)
LEMMA FoundGrows ==
  ASSUME NEW x, NEW y, NEW added, added \subseteq ExceptionIndex, Grown(x, y, added),
         NEW use, NEW url, NEW type, NEW domain, NEW sitekey
  PROVE  /\ FindInternal(x, IndexOf(use, Allowing), url, type, domain, sitekey, Allowing)
              \subseteq FindInternal(y, IndexOf(use, Allowing), url, type, domain, sitekey, Allowing)
         /\ \A category \in {Blocking, DomainSpecificBlocking} :
              FindInternal(y, IndexOf(use, category), url, type, domain, sitekey, category)
                = FindInternal(x, IndexOf(use, category), url, type, domain, sitekey, category)
<1>1. <<use, FALSE>> \notin added
  BY BlockingIsNoException
<1>2. /\ IndexOf(use, Blocking) = <<use, FALSE>>
      /\ IndexOf(use, DomainSpecificBlocking) = <<use, FALSE>>
  BY DomainSpecificIsBlocking
<1>3. ASSUME NEW category, IndexOf(use, category) = <<use, FALSE>>
      PROVE  FindInternal(y, IndexOf(use, category), url, type, domain, sitekey, category)
               = FindInternal(x, IndexOf(use, category), url, type, domain, sitekey, category)
  <2>1. IndexOf(use, category) \notin added
    BY <1>1, <1>3
  <2> QED
    BY <2>1, FindInternalGrows
<1>4. FindInternal(x, IndexOf(use, Allowing), url, type, domain, sitekey, Allowing)
        \subseteq FindInternal(y, IndexOf(use, Allowing), url, type, domain, sitekey, Allowing)
  BY FindInternalGrows
<1> QED
  BY <1>2, <1>3, <1>4

(* A request that is blocked with more exceptions is blocked without them.   *)
LEMMA RequestUnblocked ==
  ASSUME NEW c, NEW d, NEW added, Exceptions(c, d, added), NEW r,
         ClassifyRequestWithSingleCollection(d, r) = Blocked
  PROVE  ClassifyRequestWithSingleCollection(c, r) = Blocked
<1>1. ASSUME NEW x, NEW y, Grown(x, y, added), NEW url, NEW domain, NEW type, NEW sitekey
      PROVE  /\ HasUrlFilter(x, url, domain, type, sitekey, Allowing)
                  => HasUrlFilter(y, url, domain, type, sitekey, Allowing)
             /\ \A category \in {Blocking, DomainSpecificBlocking} :
                  HasUrlFilter(y, url, domain, type, sitekey, category)
                    <=> HasUrlFilter(x, url, domain, type, sitekey, category)
  <2> DEFINE F(l, category) ==
        FindInternal(l, IndexOf("subresource", category), url, type, domain, sitekey, category)
  <2>1. /\ F(x, Allowing) \subseteq F(y, Allowing)
        /\ \A category \in {Blocking, DomainSpecificBlocking} : F(y, category) = F(x, category)
    BY <1>1, FoundGrows DEF Exceptions
  <2>2. \A l, category : HasUrlFilter(l, url, domain, type, sitekey, category) <=> F(l, category) # {}
    BY DEF HasUrlFilter
  <2> HIDE DEF F
  <2> QED
    BY <2>1, <2>2
<1>2. GrownCollection(c, d, added)
  BY DEF Exceptions
<1>3. \A category \in {Blocking, DomainSpecificBlocking} :
        FindBySubresourceFilter(d, r, category) <=> FindBySubresourceFilter(c, r, category)
  BY <1>1, <1>2 DEF GrownCollection, FindBySubresourceFilter
<1>4. FindByAllowFilter(c, r) => FindByAllowFilter(d, r)
  <2>1. ASSUME NEW x, NEW y, Grown(x, y, added), HasAllowFilter(x, r)
        PROVE  HasAllowFilter(y, r)
    <3>1. ASSUME NEW url, NEW domain, HasSpecialFilter(x, "document", url, domain, r.sitekey)
          PROVE  HasSpecialFilter(y, "document", url, domain, r.sitekey)
      <4>1. FindInternal(x, <<"document", TRUE>>, url, AnyType, domain, r.sitekey, Allowing)
              \subseteq FindInternal(y, <<"document", TRUE>>, url, AnyType, domain, r.sitekey, Allowing)
        BY <2>1, FindInternalGrows
      <4> QED
        BY <3>1, <4>1 DEF HasSpecialFilter
    <3>2. SubscriptionContainsSpecialFilter(x, "document", r, r.sitekey)
            => SubscriptionContainsSpecialFilter(y, "document", r, r.sitekey)
      BY <3>1 DEF SubscriptionContainsSpecialFilter
    <3> QED
      BY <1>1, <2>1, <3>2 DEF HasAllowFilter
  <2> QED
    BY <1>2, <2>1 DEF GrownCollection, FindByAllowFilter
<1>5. FindBySpecialFilter(c, "genericblock", r, r.sitekey)
        => FindBySpecialFilter(d, "genericblock", r, r.sitekey)
  BY <1>2, SpecialFilterGrows
<1>6. Blocked # Ignored /\ Blocked # Allowed
  BY DEF Blocked, Ignored, Allowed
<1> QED
  BY <1>3, <1>4, <1>5, <1>6 DEF ClassifyRequestWithSingleCollection

(* The same for a popup.                                                     *)
LEMMA PopupUnblocked ==
  ASSUME NEW c, NEW d, NEW added, Exceptions(c, d, added), NEW r,
         ClassifyPopupWithSingleCollection(d, r) = Blocked
  PROVE  ClassifyPopupWithSingleCollection(c, r) = Blocked
<1>1. ASSUME NEW x, NEW y, Grown(x, y, added), NEW url, NEW domain, NEW sitekey
      PROVE  /\ HasPopupFilter(x, url, domain, sitekey, Allowing)
                  => HasPopupFilter(y, url, domain, sitekey, Allowing)
             /\ HasPopupFilter(y, url, domain, sitekey, Blocking)
                  <=> HasPopupFilter(x, url, domain, sitekey, Blocking)
  <2> DEFINE F(l, category) ==
        FindInternal(l, IndexOf("popup", category), url, AnyType, domain, sitekey, category)
  <2>1. F(x, Allowing) \subseteq F(y, Allowing) /\ F(y, Blocking) = F(x, Blocking)
    BY <1>1, FoundGrows DEF Exceptions
  <2>2. \A l, category : HasPopupFilter(l, url, domain, sitekey, category) <=> F(l, category) # {}
    BY DEF HasPopupFilter
  <2> HIDE DEF F
  <2> QED
    BY <2>1, <2>2
<1>2. GrownCollection(c, d, added)
  BY DEF Exceptions
<1>3. /\ FindByPopupFilter(c, r, Allowing) => FindByPopupFilter(d, r, Allowing)
      /\ FindByPopupFilter(d, r, Blocking) => FindByPopupFilter(c, r, Blocking)
  BY <1>1, <1>2 DEF GrownCollection, FindByPopupFilter
<1>4. FindBySpecialFilter(c, "document", r, r.sitekey)
        => FindBySpecialFilter(d, "document", r, r.sitekey)
  BY <1>2, SpecialFilterGrows
<1>5. Blocked # Ignored /\ Blocked # Allowed
  BY DEF Blocked, Ignored, Allowed
<1> QED
  BY <1>3, <1>4, <1>5 DEF ClassifyPopupWithSingleCollection

(* A response whose headers are blocked is blocked without the exceptions    *)
(* too, unless they include one from the filters for all domains.            *)
LEMMA ResponseUnblocked ==
  ASSUME NEW c, NEW d, NEW added, Exceptions(c, d, added), NEW r,
         <<"genericblock", TRUE>> \notin added,
         ClassifyResponseWithSingleCollection(d, r) = Blocked
  PROVE  ClassifyResponseWithSingleCollection(c, r) = Blocked
<1>1. ASSUME NEW x, NEW y, Grown(x, y, added), NEW url, NEW domain, NEW type
      PROVE  /\ FindHeaderFilters(x, url, type, domain, Allowing)
                  \subseteq FindHeaderFilters(y, url, type, domain, Allowing)
             /\ \A category \in {Blocking, DomainSpecificBlocking} :
                  FindHeaderFilters(y, url, type, domain, category)
                    = FindHeaderFilters(x, url, type, domain, category)
  <2> DEFINE F(l, category) ==
        FindInternal(l, IndexOf("header", category), url, type, domain, NoSitekey, category)
             Texts(filters) == { f.headers : f \in filters }
  <2>1. /\ F(x, Allowing) \subseteq F(y, Allowing)
        /\ \A category \in {Blocking, DomainSpecificBlocking} : F(y, category) = F(x, category)
    BY <1>1, FoundGrows DEF Exceptions
  <2>2. \A l, category : FindHeaderFilters(l, url, type, domain, category)
                           = Texts(F(l, category))
    BY DEF FindHeaderFilters
  <2>3. \A s, t : s \subseteq t => Texts(s) \subseteq Texts(t)
    OBVIOUS
  <2> HIDE DEF F, Texts
  <2> QED
    BY <2>1, <2>2, <2>3
<1>2. GrownCollection(c, d, added)
  BY DEF Exceptions
<1>3. /\ GetHeaderFilters(c, r, Allowing) \subseteq GetHeaderFilters(d, r, Allowing)
      /\ GetHeaderFilters(d, r, Blocking) = GetHeaderFilters(c, r, Blocking)
      /\ GetHeaderFilters(d, r, DomainSpecificBlocking) = GetHeaderFilters(c, r, DomainSpecificBlocking)
  BY <1>1, <1>2 DEF GrownCollection, GetHeaderFilters
<1>4. /\ FindBySpecialFilter(c, "document", r, NoSitekey)
           => FindBySpecialFilter(d, "document", r, NoSitekey)
      /\ FindBySpecialFilter(c, "genericblock", r, NoSitekey)
           <=> FindBySpecialFilter(d, "genericblock", r, NoSitekey)
  BY <1>2, SpecialFilterGrows
<1>5. ASSUME NEW blocking, NEW allowing, NEW more, allowing \subseteq more,
             CheckHeaderFiltersMatchResponseHeaders(r, blocking, more) = Blocked
      PROVE  CheckHeaderFiltersMatchResponseHeaders(r, blocking, allowing) = Blocked
  BY <1>5 DEF CheckHeaderFiltersMatchResponseHeaders, IsHeaderFilterOverruled,
              Blocked, Allowed, Ignored
<1>6. Blocked # Ignored /\ Blocked # Allowed
  BY DEF Blocked, Ignored, Allowed
<1> QED
  BY <1>3, <1>4, <1>5, <1>6 DEF ClassifyResponseWithSingleCollection

(* No policy is added to a response that was not without the exceptions.     *)
LEMMA PoliciesUnblocked ==
  ASSUME NEW c, NEW d, NEW added, Exceptions(c, d, added), NEW r
  PROVE  GetCspInjections(d, r) \subseteq GetCspInjections(c, r)
<1> DEFINE Found(collection, category) ==
      UNION { FindCspFilters(list, r.url, DocumentDomain(r), category) : list \in collection }
<1>1. ASSUME NEW x, NEW y, Grown(x, y, added), NEW url, NEW domain
      PROVE  /\ FindCspFilters(x, url, domain, Allowing) \subseteq FindCspFilters(y, url, domain, Allowing)
             /\ \A category \in {Blocking, DomainSpecificBlocking} :
                  FindCspFilters(y, url, domain, category) = FindCspFilters(x, url, domain, category)
             /\ FindCspFilters(x, url, domain, DomainSpecificBlocking)
                  \subseteq FindCspFilters(x, url, domain, Blocking)
  <2> DEFINE F(l, category) ==
        FindInternal(l, IndexOf("csp", category), url, AnyType, domain, NoSitekey, category)
             Policies(filters) == { f.csp : f \in filters }
  <2>1. /\ F(x, Allowing) \subseteq F(y, Allowing)
        /\ \A category \in {Blocking, DomainSpecificBlocking} : F(y, category) = F(x, category)
    BY <1>1, FoundGrows DEF Exceptions
  <2>2. F(x, DomainSpecificBlocking) \subseteq F(x, Blocking)
    BY DomainSpecificIsBlocking
  <2>3. \A l, category : FindCspFilters(l, url, domain, category) = Policies(F(l, category))
    BY DEF FindCspFilters
  <2>4. \A s, t : s \subseteq t => Policies(s) \subseteq Policies(t)
    OBVIOUS
  <2> HIDE DEF F, Policies
  <2> QED
    BY <2>1, <2>2, <2>3, <2>4
<1>2. GrownCollection(c, d, added)
  BY DEF Exceptions
<1>3. /\ Found(c, Allowing) \subseteq Found(d, Allowing)
      /\ Found(d, Blocking) = Found(c, Blocking)
      /\ Found(d, DomainSpecificBlocking) = Found(c, DomainSpecificBlocking)
      /\ Found(c, DomainSpecificBlocking) \subseteq Found(c, Blocking)
  BY <1>1, <1>2 DEF GrownCollection
<1>4. /\ FindBySpecialFilter(c, "document", r, NoSitekey)
           => FindBySpecialFilter(d, "document", r, NoSitekey)
      /\ FindBySpecialFilter(c, "genericblock", r, NoSitekey)
           => FindBySpecialFilter(d, "genericblock", r, NoSitekey)
  BY <1>2, SpecialFilterGrows
<1>5. \A collection : GetCspInjections(collection, r) =
        IF \/ EmptyText \in Found(collection, Allowing)
           \/ FindBySpecialFilter(collection, "document", r, NoSitekey)
        THEN {}
        ELSE (IF FindBySpecialFilter(collection, "genericblock", r, NoSitekey)
              THEN Found(collection, DomainSpecificBlocking)
              ELSE Found(collection, Blocking)) \ Found(collection, Allowing)
  BY DEF GetCspInjections
<1> HIDE DEF Found
<1> QED
  BY <1>3, <1>4, <1>5

(* If each outcome has grown by nothing but Nothing, so has the first.       *)
LEMMA FirstOfGrows ==
  ASSUME NEW outcomes, NEW then, \A o \in then : \E x \in outcomes : o \subseteq x \cup {Nothing}
  PROVE  FirstOf(then) \subseteq FirstOf(outcomes) \cup {Nothing}
<1> SUFFICES ASSUME NEW v \in FirstOf(then), v # Nothing PROVE v \in FirstOf(outcomes)
  OBVIOUS
<1>1. PICK o \in then : v \in o
  BY DEF FirstOf
<1>2. PICK x \in outcomes : o \subseteq x \cup {Nothing}
  BY <1>1
<1>3. v \in (UNION outcomes) \ {Nothing}
  BY <1>1, <1>2
<1> QED
  BY <1>3 DEF FirstOf

\* A list whose rewriting filters are for certain domains only.
RewritesForDomains(list) ==
  \A f : \A k : f \in Filed(list, <<"rewrite", FALSE>>, k) => f.include # {}

(* What is rewritten, is rewritten to what it was without the exceptions, if *)
(* none of them is from rewrites.                                            *)
LEMMA RewritesUnblocked ==
  ASSUME NEW c, NEW d, NEW added, Exceptions(c, d, added), NEW r,
         <<"rewrite", TRUE>> \notin added, \A list \in d : RewritesForDomains(list)
  PROVE  GetRewriteUrl(d, r) \subseteq GetRewriteUrl(c, r) \cup {Nothing}
<1> DEFINE Found(list, category) == FindRewriteFilter(list, r.url, DocumentDomain(r), category)
           Generic(collection) == FindBySpecialFilter(collection, "genericblock", r, NoSitekey)
           Passed(collection, list, f) ==
             IF f \notin Found(list, DomainSpecificBlocking) /\ Generic(collection)
             THEN OrNothing(RewritesOf(Found(list, DomainSpecificBlocking))) ELSE {f.rewrite}
           Yield(collection, list, f) ==
             (IF IsFilterOverruled(collection, f.rewrite, r) THEN {} ELSE Passed(collection, list, f))
             \cup IF MayBeOverruled(collection, f.rewrite, r) THEN {Nothing} ELSE {}
<1>1. GrownCollection(c, d, added)
  BY DEF Exceptions
<1>2. ASSUME NEW x, NEW y, Grown(x, y, added),
             NEW category \in {Allowing, Blocking, DomainSpecificBlocking}
      PROVE  Found(y, category) = Found(x, category)
  <2>1. CASE category = Allowing
    <3>1. IndexOf("rewrite", category) \notin added
      BY <2>1, DomainSpecificIsBlocking
    <3> QED
      BY <1>2, <3>1, FindInternalGrows DEF FindRewriteFilter
  <2>2. CASE category # Allowing
    BY <1>2, <2>2, FoundGrows DEF FindRewriteFilter, Exceptions
  <2> QED
    BY <2>1, <2>2
<1>3. ASSUME NEW y \in d PROVE Found(y, Blocking) \subseteq Found(y, DomainSpecificBlocking)
  <2>1. RewritesForDomains(y)
    OBVIOUS
  <2>2. ASSUME NEW k, NEW f \in Filed(y, <<"rewrite", FALSE>>, k) PROVE ~IsGenericFilter(f)
    BY <2>1 DEF RewritesForDomains, IsGenericFilter, IsEmptyDomainAllowed
  <2>3. \A f, third : /\ ~IsGenericFilter(f)
                     /\ CandidateFilterViable(f, AnyType, DocumentDomain(r), NoSitekey, Blocking, third)
                     => CandidateFilterViable(f, AnyType, DocumentDomain(r), NoSitekey,
                                              DomainSpecificBlocking, third)
    BY DEF CandidateFilterViable
  <2>4. FindInternal(y, <<"rewrite", FALSE>>, r.url, AnyType, DocumentDomain(r), NoSitekey, Blocking)
          \subseteq FindInternal(y, <<"rewrite", FALSE>>, r.url, AnyType, DocumentDomain(r), NoSitekey,
                                DomainSpecificBlocking)
    BY <2>2, <2>3 DEF FindInternal
  <2> QED
    BY <2>4, DomainSpecificIsBlocking DEF FindRewriteFilter
<1>4. IsAllowed(c, r) => IsAllowed(d, r)
  BY <1>1, SpecialFilterGrows DEF IsAllowed
<1>5. ASSUME NEW w, IsFilterOverruled(c, w, r) PROVE IsFilterOverruled(d, w, r)
  BY <1>1, <1>2, <1>4, <1>5 DEF IsFilterOverruled, GrownCollection
<1>6. ASSUME NEW x \in c, NEW y \in d, Grown(x, y, added)
      PROVE  GenericFindFilter(d, y, r) \subseteq GenericFindFilter(c, x, r) \cup {Nothing}
  <2>1. \A collection, list : GenericFindFilter(collection, list, r)
          = OrNothing(UNION { Yield(collection, list, f) : f \in Found(list, Blocking) })
    BY DEF GenericFindFilter
  <2>2. SUFFICES ASSUME NEW v \in GenericFindFilter(d, y, r), v # Nothing
                 PROVE  v \in GenericFindFilter(c, x, r)
    OBVIOUS
  <2>3. PICK f \in Found(y, Blocking) : v \in Yield(d, y, f)
    <3> HIDE DEF Yield, Found
    <3> QED
      BY <2>1, <2>2 DEF OrNothing
  <2>4. f \in Found(y, DomainSpecificBlocking)
    BY <1>3, <2>3
  <2>5. ~IsFilterOverruled(d, f.rewrite, r) /\ v = f.rewrite
    BY <2>2, <2>3, <2>4
  <2>6. f \in Found(x, DomainSpecificBlocking) /\ f \in Found(x, Blocking)
    BY <1>2, <1>6, <2>3, <2>4
  <2>7. v \in Yield(c, x, f)
    BY <1>5, <2>5, <2>6
  <2> QED
    <3> HIDE DEF Yield, Found
    <3> QED
      BY <2>1, <2>6, <2>7 DEF OrNothing
<1>7. \A o \in { GenericFindFilter(d, y, r) : y \in d } :
        \E p \in { GenericFindFilter(c, x, r) : x \in c } : o \subseteq p \cup {Nothing}
  <2>1. ASSUME NEW y \in d
        PROVE  \E x \in c : GenericFindFilter(d, y, r) \subseteq GenericFindFilter(c, x, r) \cup {Nothing}
    BY <1>1, <1>6 DEF GrownCollection
  <2> QED
    BY <2>1
<1> QED
  BY <1>7, FirstOfGrows DEF GetRewriteUrl

(* Selectors reduced by more exceptions are fewer.                           *)
LEMMA ReducedSelectorsShrink ==
  ASSUME NEW found, NEW then,
         \A s \in then : \E t \in found : s.hide \subseteq t.hide,
         \A t \in found : \E s \in then : t.except \subseteq s.except
  PROVE  ReduceSelectors(then) \subseteq ReduceSelectors(found)
<1> SUFFICES ASSUME NEW v \in ReduceSelectors(then) PROVE v \in ReduceSelectors(found)
  OBVIOUS
<1>1. /\ v \in UNION { s.hide : s \in then }
      /\ v \notin UNION { s.except : s \in then }
  BY DEF ReduceSelectors
<1>2. PICK s \in then : v \in s.hide
  BY <1>1
<1>3. PICK t \in found : s.hide \subseteq t.hide
  BY <1>2
<1>4. v \in UNION { x.hide : x \in found }
  BY <1>2, <1>3
<1>5. ASSUME v \in UNION { x.except : x \in found } PROVE FALSE
  <2>1. PICK x \in found : v \in x.except
    BY <1>5
  <2>2. PICK y \in then : x.except \subseteq y.except
    BY <2>1
  <2> QED
    BY <1>1, <2>1, <2>2
<1> QED
  BY <1>4, <1>5 DEF ReduceSelectors

(* Nothing is hidden that was not without the exceptions, if none of them is *)
(* from the filters for all domains; and the same snippets are run.          *)
LEMMA HidingUnblocked ==
  ASSUME NEW c, NEW d, NEW added, Exceptions(c, d, added), NEW r
  PROVE  /\ <<"generichide", TRUE>> \notin added =>
              GetElementHideSelectors(d, r) \subseteq GetElementHideSelectors(c, r)
         /\ GetElementHideEmulationSelectors(d, r) \subseteq GetElementHideEmulationSelectors(c, r)
         /\ GenerateSnippets(d, r) = GenerateSnippets(c, r)
<1>1. /\ GrownCollection(c, d, added)
      /\ <<"ElemHide">> \notin added
      /\ <<"ElemHideEmulation">> \notin added
      /\ <<"Snippet">> \notin added
  BY BlockingIsNoException DEF Exceptions
<1>2. ASSUME <<"generichide", TRUE>> \notin added
      PROVE  GetElementHideSelectors(d, r) \subseteq GetElementHideSelectors(c, r)
  <2> DEFINE specific == FindBySpecialFilter(c, "generichide", r, r.sitekey)
             S(list) == GetElemhideSelectors(list, r.url, specific)
  <2>1. ASSUME NEW x, NEW y, Grown(x, y, added)
        PROVE  S(y).hide = S(x).hide /\ S(x).except \subseteq S(y).except
    BY <1>1, <2>1, SelectorsGrow DEF GetElemhideSelectors
  <2>2. FindBySpecialFilter(d, "generichide", r, r.sitekey) <=> specific
    BY <1>1, <1>2, SpecialFilterGrows
  <2>3. /\ FindBySpecialFilter(c, "generichide", r, r.sitekey) \in BOOLEAN
        /\ FindBySpecialFilter(d, "generichide", r, r.sitekey) \in BOOLEAN
    BY DEF FindBySpecialFilter
  <2>4. FindBySpecialFilter(d, "generichide", r, r.sitekey) = specific
    BY <2>2, <2>3
  <2>5. /\ GetElementHideSelectors(c, r) = ReduceSelectors({ S(x) : x \in c })
        /\ GetElementHideSelectors(d, r) = ReduceSelectors({ S(y) : y \in d })
    BY <2>4 DEF GetElementHideSelectors
  <2> HIDE DEF S
  <2>6. /\ \A s \in { S(y) : y \in d } : \E t \in { S(x) : x \in c } : s.hide \subseteq t.hide
        /\ \A t \in { S(x) : x \in c } : \E s \in { S(y) : y \in d } : t.except \subseteq s.except
    BY <1>1, <2>1 DEF GrownCollection
  <2>7. ReduceSelectors({ S(y) : y \in d }) \subseteq ReduceSelectors({ S(x) : x \in c })
    BY <2>6, ReducedSelectorsShrink
  <2> QED
    BY <2>5, <2>7
<1>3. GetElementHideEmulationSelectors(d, r) \subseteq GetElementHideEmulationSelectors(c, r)
  <2> DEFINE S(list) == GetElemhideEmulationSelectors(list, r.url)
  <2>1. ASSUME NEW x, NEW y, Grown(x, y, added)
        PROVE  S(y).hide = S(x).hide /\ S(x).except \subseteq S(y).except
    BY <1>1, <2>1, SelectorsGrow DEF GetElemhideEmulationSelectors
  <2>2. /\ GetElementHideEmulationSelectors(c, r) = ReduceSelectors({ S(x) : x \in c })
        /\ GetElementHideEmulationSelectors(d, r) = ReduceSelectors({ S(y) : y \in d })
    BY DEF GetElementHideEmulationSelectors
  <2> HIDE DEF S
  <2>3. /\ \A s \in { S(y) : y \in d } : \E t \in { S(x) : x \in c } : s.hide \subseteq t.hide
        /\ \A t \in { S(x) : x \in c } : \E s \in { S(y) : y \in d } : t.except \subseteq s.except
    BY <1>1, <2>1 DEF GrownCollection
  <2>4. ReduceSelectors({ S(y) : y \in d }) \subseteq ReduceSelectors({ S(x) : x \in c })
    BY <2>3, ReducedSelectorsShrink
  <2> QED
    BY <2>2, <2>4
<1>4. GenerateSnippets(d, r) = GenerateSnippets(c, r)
  <2>1. ASSUME NEW x, NEW y, Grown(x, y, added)
        PROVE  MatchSnippets(y, DocumentDomain(r)) = MatchSnippets(x, DocumentDomain(r))
    BY <1>1, <2>1, SelectorsGrow DEF MatchSnippets
  <2> QED
    BY <1>1, <2>1 DEF GenerateSnippets, GrownCollection
<1> QED
  BY <1>2, <1>3, <1>4

-----------------------------------------------------------------------------
(* The same of a snapshot.                                                 *)

\* Each collection has grown by exceptions, in indices among `added`.
GrownSnapshot(now, then, added) ==
  /\ \A c \in now : \E d \in then : Exceptions(c, d, added)
  /\ \A d \in then : \E c \in now : Exceptions(c, d, added)

(* Combined decisions block when one of them does.                           *)
LEMMA CombinedBlocks ==
  ASSUME NEW decisions
  PROVE  Combined(decisions) = Blocked <=> Blocked \in decisions
  BY DEF Combined, Blocked, Allowed, Ignored

(* Nothing is blocked, and nothing hidden, that was not, but for the kinds   *)
(* the line makes.                                                           *)
LEMMA SnapshotUnblocked ==
  ASSUME NEW now, NEW then, NEW added, GrownSnapshot(now, then, added), NEW r, NEW line,
         \A d \in then : \A list \in d : RewritesForDomains(list),
         \A kind \in {"genericblock", "generichide", "rewrite"} :
           <<kind, TRUE>> \in added =>
             IsUrlFilter(line) /\ \E option \in OptionsOf(line) : option.key = kind
  PROVE  OnlyUnblocks(line, r, now, then)
<1>1. ClassifyRequest(then, r) = Blocked => ClassifyRequest(now, r) = Blocked
  <2>1. \A s : ClassifyRequest(s, r) = Blocked
                <=> \E c \in s : ClassifyRequestWithSingleCollection(c, r) = Blocked
    BY CombinedBlocks DEF ClassifyRequest
  <2> QED
    BY <2>1, RequestUnblocked DEF GrownSnapshot
<1>2. ClassifyPopup(then, r) = Blocked => ClassifyPopup(now, r) = Blocked
  <2>1. \A s : ClassifyPopup(s, r) = Blocked
                <=> \E c \in s : ClassifyPopupWithSingleCollection(c, r) = Blocked
    BY CombinedBlocks DEF ClassifyPopup
  <2> QED
    BY <2>1, PopupUnblocked DEF GrownSnapshot
<1>3. ASSUME <<"genericblock", TRUE>> \notin added, ClassifyResponse(then, r) = Blocked
      PROVE  ClassifyResponse(now, r) = Blocked
  <2>1. \A s : ClassifyResponse(s, r) = Blocked
                <=> \E c \in s : ClassifyResponseWithSingleCollection(c, r) = Blocked
    BY CombinedBlocks DEF ClassifyResponse
  <2> QED
    BY <1>3, <2>1, ResponseUnblocked DEF GrownSnapshot
<1>4. CspInjections(then, r) \subseteq CspInjections(now, r)
  BY PoliciesUnblocked DEF CspInjections, GrownSnapshot
<1>5. ASSUME <<"rewrite", TRUE>> \notin added
      PROVE  Rewrites(then, r) \subseteq Rewrites(now, r) \cup {Nothing}
  <2>1. ASSUME NEW d \in then
        PROVE  \E c \in now : GetRewriteUrl(d, r) \subseteq GetRewriteUrl(c, r) \cup {Nothing}
    BY <1>5, RewritesUnblocked DEF GrownSnapshot
  <2>2. \A o \in { GetRewriteUrl(d, r) : d \in then } :
          \E p \in { GetRewriteUrl(c, r) : c \in now } : o \subseteq p \cup {Nothing}
    BY <2>1
  <2> QED
    BY <2>2, FirstOfGrows DEF Rewrites
<1> DEFINE running(s) == { c \in s : ~FindBySpecialFilter(c, "document", r, r.sitekey) }
           hiding(s) == { c \in running(s) : ~FindBySpecialFilter(c, "elemhide", r, r.sitekey) }
<1>6. \A s : LET hidden == PrepareElemhideEmulationData(s, r)
             IN  /\ hidden.stylesheet = UNION { GetElementHideSelectors(c, r) : c \in hiding(s) }
                 /\ hidden.elemhide_js = UNION { GetElementHideEmulationSelectors(c, r) : c \in hiding(s) }
                 /\ hidden.snippet_js = UNION { GenerateSnippets(c, r) : c \in running(s) }
  BY DEF PrepareElemhideEmulationData
<1>7. /\ \A d \in running(then) : \E c \in running(now) : Exceptions(c, d, added)
      /\ \A d \in hiding(then) : \E c \in hiding(now) : Exceptions(c, d, added)
  <2>1. ASSUME NEW c, NEW d, Exceptions(c, d, added), NEW kind
        PROVE  FindBySpecialFilter(c, kind, r, r.sitekey) => FindBySpecialFilter(d, kind, r, r.sitekey)
    BY <2>1, SpecialFilterGrows DEF Exceptions
  <2> QED
    BY <2>1 DEF GrownSnapshot
<1> HIDE DEF running, hiding
<1>8. /\ UNION { GenerateSnippets(d, r) : d \in running(then) }
           \subseteq UNION { GenerateSnippets(c, r) : c \in running(now) }
      /\ UNION { GetElementHideEmulationSelectors(d, r) : d \in hiding(then) }
           \subseteq UNION { GetElementHideEmulationSelectors(c, r) : c \in hiding(now) }
  BY <1>7, HidingUnblocked
<1>9. ASSUME <<"generichide", TRUE>> \notin added
      PROVE  UNION { GetElementHideSelectors(d, r) : d \in hiding(then) }
               \subseteq UNION { GetElementHideSelectors(c, r) : c \in hiding(now) }
  BY <1>7, <1>9, HidingUnblocked
<1> QED
  BY <1>1, <1>2, <1>3, <1>4, <1>5, <1>6, <1>8, <1>9 DEF OnlyUnblocks

-----------------------------------------------------------------------------
(* What is read of options.                                                *)

ReadOptions ==
  [ match_case : BOOLEAN, popup : BOOLEAN, subresource : BOOLEAN,
    third_party : {"Ignore", "FirstPartyOnly", "ThirdPartyOnly"}, types : SUBSET Default,
    exceptions : SUBSET ExceptionType, rewrite : Text \cup {Nothing}, csp : Text \cup {Nothing},
    headers : Text \cup {Nothing}, domains : SUBSET Seq(STRING),
    sitekeys : {{}} \cup { SitekeysIn[t] : t \in Text }, value : Text, valid : BOOLEAN ]

(* An option adds no exception but of its own kind, and a rewrite only if it *)
(* is one.                                                                   *)
LEMMA ReadOptionTyped ==
  ASSUME NEW o \in ReadOptions, NEW option \in UrlFilterOption
  PROVE  LET next == ReadOption(o, option)
         IN  /\ next \in ReadOptions
             /\ next.exceptions \subseteq o.exceptions \cup {option.key}
             /\ next.rewrite # o.rewrite => option.key = "rewrite"
<1> DEFINE v == IF option.value = Nothing THEN o.value ELSE option.value
           read == [o EXCEPT !.value = v]
           next == ReadOption(o, option)
           failed == [o EXCEPT !.valid = FALSE]
           Good(x) == /\ x \in ReadOptions
                      /\ x.exceptions \subseteq o.exceptions \cup {option.key}
                      /\ x.rewrite # o.rewrite => option.key = "rewrite"
<1>1. /\ v \in Text
      /\ Unescaped[v] \in Text
      /\ DomainsIn[v] \in SUBSET Seq(STRING)
      /\ option.inverse \in BOOLEAN
  BY TextAssumption DEF ReadOptions, UrlFilterOption, Text
<1> HIDE DEF v
<1>2. Good(o) /\ Good(failed)
  BY DEF ReadOptions
<1>3. /\ Good([read EXCEPT !.match_case = ~option.inverse])
      /\ Good([read EXCEPT !.popup = TRUE])
      /\ Good([read EXCEPT !.third_party = IF option.inverse THEN "FirstPartyOnly" ELSE "ThirdPartyOnly"])
  BY <1>1 DEF ReadOptions
<1>4. option.key = "rewrite" => Good([read EXCEPT !.rewrite = v])
  BY <1>1 DEF ReadOptions
<1>5. /\ Good([read EXCEPT !.domains = DomainsIn[v]])
      /\ Good([read EXCEPT !.sitekeys = SitekeysIn[v]])
      /\ Good([read EXCEPT !.csp = v])
  BY <1>1 DEF ReadOptions
<1>6. Good([read EXCEPT !.headers = Unescaped[v], !.value = Unescaped[v]])
  BY <1>1 DEF ReadOptions
<1>7. option.key \in ContentType =>
        Good([read EXCEPT !.types = WithType(@, option.key, option.inverse), !.subresource = TRUE])
  <2>1. option.key \in ContentType => WithType(o.types, option.key, option.inverse) \in SUBSET Default
    BY DEF WithType, Default, ReadOptions
  <2> QED
    BY <1>1, <2>1 DEF ReadOptions
<1>8. option.key \in ExceptionType => Good([read EXCEPT !.exceptions = @ \cup {option.key}])
  BY <1>1 DEF ReadOptions
<1> DEFINE named == {"match-case", "popup", "third-party", "rewrite", 
                     "domain", "sitekey", "csp", "header"}
<1>9. ASSUME ~o.valid PROVE Good(next)
  BY <1>2, <1>9 DEF ReadOption
<1>10. ASSUME o.valid, option.key = "match-case"
       PROVE  next = [read EXCEPT !.match_case = ~option.inverse]
  BY <1>10, ContentTypeAssumption DEF ReadOption, v, ExceptionType
<1>11. ASSUME o.valid, option.key = "popup"
       PROVE  next = [read EXCEPT !.popup = TRUE]
  BY <1>11, ContentTypeAssumption DEF ReadOption, v, ExceptionType
<1>12. ASSUME o.valid, option.key = "third-party"
       PROVE  next = [read EXCEPT !.third_party = IF option.inverse THEN "FirstPartyOnly" ELSE "ThirdPartyOnly"]
  BY <1>12, ContentTypeAssumption DEF ReadOption, v, ExceptionType
<1>13. ASSUME o.valid, option.key = "rewrite"
       PROVE  next \in {failed, [read EXCEPT !.rewrite = v]}
  BY <1>13, ContentTypeAssumption DEF ReadOption, v, ExceptionType
<1>14. ASSUME o.valid, option.key = "domain"
       PROVE  next \in {failed, [read EXCEPT !.domains = DomainsIn[v]]}
  BY <1>14, ContentTypeAssumption DEF ReadOption, v, ExceptionType
<1>15. ASSUME o.valid, option.key = "sitekey"
       PROVE  next \in {failed, [read EXCEPT !.sitekeys = SitekeysIn[v]]}
  BY <1>15, ContentTypeAssumption DEF ReadOption, v, ExceptionType
<1>16. ASSUME o.valid, option.key = "csp"
       PROVE  next \in {failed, [read EXCEPT !.csp = v]}
  BY <1>16, ContentTypeAssumption DEF ReadOption, v, ExceptionType
<1>17. ASSUME o.valid, option.key = "header"
       PROVE  next = [read EXCEPT !.headers = Unescaped[v], !.value = Unescaped[v]]
  BY <1>17, ContentTypeAssumption DEF ReadOption, v, ExceptionType
<1>18. ASSUME o.valid, option.key \notin named
       PROVE  \/ next = failed
              \/ /\ option.key \in ContentType
                 /\ next = [read EXCEPT !.types = WithType(@, option.key, option.inverse), !.subresource = TRUE]
              \/ /\ option.key \in ExceptionType
                 /\ next = [read EXCEPT !.exceptions = @ \cup {option.key}]
  BY <1>18, ContentTypeAssumption DEF ReadOption, v, ExceptionType
<1> HIDE DEF Good, next, read, failed
<1>19. Good(next)
  <2>1. ASSUME o.valid, option.key \in named PROVE Good(next)
    <3>1. CASE option.key \in {"match-case", "popup", "third-party", "header"}
      BY <1>3, <1>6, <1>10, <1>11, <1>12, <1>17, <2>1, <3>1
    <3>2. CASE option.key \in {"rewrite", "domain", "sitekey", "csp"}
      BY <1>2, <1>4, <1>5, <1>13, <1>14, <1>15, <1>16, <2>1, <3>2
    <3> QED
      BY <2>1, <3>1, <3>2
  <2>2. ASSUME o.valid, option.key \notin named PROVE Good(next)
    BY <1>2, <1>7, <1>8, <1>18, <2>2
  <2> QED
    BY <1>9, <2>1, <2>2
<1> QED
  BY <1>19 DEF Good, next

(* The recursion over the options has a value.                               *)
LEMMA ReadingDef ==
  ASSUME NEW T, NEW options \in Seq(T)
  PROVE  Reading(options) =
           [ n \in 0..Len(options) |->
               IF n = 0 THEN Unread ELSE ReadOption(Reading(options)[n - 1], options[n]) ]
<1> DEFINE Is(f, m) ==
             f = [ n \in 0..m |-> IF n = 0 THEN Unread ELSE ReadOption(f[n - 1], options[n]) ]
           S == { m \in Nat : \E f : Is(f, m) }
<1>1. 0 \in S
  <2>1. Is([n \in 0..0 |-> Unread], 0)
    OBVIOUS
  <2> QED
    BY <2>1
<1>2. ASSUME NEW m \in Nat, m \in S PROVE m + 1 \in S
  <2>1. PICK f : Is(f, m)
    BY <1>2
  <2> DEFINE g == [ n \in 0..(m + 1) |-> IF n = m + 1 THEN ReadOption(f[m], options[n]) ELSE f[n] ]
  <2>2. ASSUME NEW n \in 0..(m + 1)
        PROVE  g[n] = IF n = 0 THEN Unread ELSE ReadOption(g[n - 1], options[n])
    <3>1. CASE n = m + 1
      BY <3>1
    <3>2. CASE n # m + 1
      <4>1. n \in 0..m
        BY <3>2
      <4>2. f[n] = IF n = 0 THEN Unread ELSE ReadOption(f[n - 1], options[n])
        BY <2>1, <4>1
      <4> QED
        BY <3>2, <4>1, <4>2
    <3> QED
      BY <3>1, <3>2
  <2>3. Is(g, m + 1)
    BY <2>2
  <2>4. \E h : Is(h, m + 1)
    <3> HIDE DEF g, Is
    <3> QED
      BY <2>3
  <2> QED
    BY <2>4, SMTT(30)
<1>3. Len(options) \in S
  <2> HIDE DEF S
  <2> QED
    BY <1>1, <1>2, NatInductionOverSet
<1> QED
  BY <1>3 DEF Reading

KeysOf(options) == { options[i].key : i \in 1..Len(options) }

(* All that is read: exceptions of the kinds that are named, and a rewrite   *)
(* only if one is.                                                           *)
LEMMA ReadingTyped ==
  ASSUME NEW options \in Seq(UrlFilterOption)
  PROVE  LET o == Reading(options)[Len(options)]
         IN  /\ o \in ReadOptions
             /\ o.exceptions \subseteq KeysOf(options)
             /\ o.rewrite # Nothing => "rewrite" \in KeysOf(options)
<1> DEFINE Good(o) == /\ o \in ReadOptions
                      /\ o.exceptions \subseteq KeysOf(options)
                      /\ o.rewrite # Nothing => "rewrite" \in KeysOf(options)
           S == { n \in Nat : n <= Len(options) => Good(Reading(options)[n]) }
<1>1. /\ Reading(options)[0] = Unread
      /\ \A n \in 1..Len(options) :
           Reading(options)[n] = ReadOption(Reading(options)[n - 1], options[n])
  BY ReadingDef
<1>2. 0 \in S
  <2>1. Good(Unread)
    BY TextAssumption DEF ReadOptions, Unread
  <2> QED
    BY <1>1, <2>1
<1>3. ASSUME NEW n \in Nat, n \in S PROVE n + 1 \in S
  <2>1. SUFFICES ASSUME n + 1 <= Len(options) PROVE Good(Reading(options)[n + 1])
    OBVIOUS
  <2>2. Good(Reading(options)[n]) /\ options[n + 1] \in UrlFilterOption
    BY <1>3, <2>1
  <2>3. Reading(options)[n + 1] = ReadOption(Reading(options)[n], options[n + 1])
    BY <1>1, <2>1
  <2>4. options[n + 1].key \in KeysOf(options)
    BY <2>1 DEF KeysOf
  <2> DEFINE before == Reading(options)[n]
             after == Reading(options)[n + 1]
  <2>5. /\ after \in ReadOptions
        /\ after.exceptions \subseteq before.exceptions \cup {options[n + 1].key}
        /\ after.rewrite # before.rewrite => options[n + 1].key = "rewrite"
    BY <2>2, <2>3, ReadOptionTyped
  <2> HIDE DEF before, after
  <2>6. Good(after)
    BY <2>2, <2>4, <2>5 DEF before
  <2> QED
    BY <2>6 DEF after
<1>4. Len(options) \in S
  <2> HIDE DEF S
  <2> QED
    BY <1>2, <1>3, NatInductionOverSet
<1> QED
  BY <1>4

(* The filter of a line allows if the line does, its exceptions are of kinds *)
(* the line names, and a rewrite in it is of the line and for certain        *)
(* domains only.                                                             *)
LEMMA ParsedUrlFilter ==
  ASSUME NEW line \in UrlFilter, ParseUrlFilter(line) # Nothing
  PROVE  LET f == ParseUrlFilter(line)
             keys_of_line == { option.key : option \in OptionsOf(line) }
         IN  /\ IsUrlFilter(f)
             /\ f.allowing = line.allowing /\ f.pattern = line.pattern
             /\ f.exceptions \subseteq keys_of_line \cap ExceptionType
             /\ f.rewrite # Nothing => "rewrite" \in keys_of_line /\ f.include # {}
<1> DEFINE options == IF line.options = Nothing THEN <<>> ELSE line.options
           read == Reading(options)[Len(options)]
           o == ParseOptions(options)
           f == ParseUrlFilter(line)
<1>1. options \in Seq(UrlFilterOption)
  BY UrlFilterAssumption
<1>2. { option.key : option \in OptionsOf(line) } = KeysOf(options)
  BY <1>1 DEF OptionsOf, KeysOf, ToSet
<1> HIDE DEF options
<1>3. /\ read \in ReadOptions
      /\ read.exceptions \subseteq KeysOf(options)
      /\ read.rewrite # Nothing => "rewrite" \in KeysOf(options)
  BY <1>1, ReadingTyped
<1>4. /\ o.exceptions = read.exceptions
      /\ o.rewrite = read.rewrite
      /\ o.domains = read.domains
  BY <1>3 DEF ParseOptions, ReadOptions
<1>5. read.exceptions \subseteq ExceptionType
  BY <1>3 DEF ReadOptions
<1> HIDE DEF read, o
<1>6. /\ f = [ allowing |-> line.allowing, pattern |-> line.pattern, popup |-> o.popup,
               subresource |-> o.subresource, third_party |-> o.third_party, types |-> o.types,
               exceptions |-> o.exceptions, rewrite |-> o.rewrite, csp |-> o.csp,
               headers |-> o.headers, sitekeys |-> o.sitekeys,
               include |-> IncludeDomains(o.domains), exclude |-> ExcludeDomains(o.domains) ]
      /\ ~IsInvalidRewrite(line.pattern, o)
  BY DEF ParseUrlFilter, o, options
<1> HIDE DEF f
<1>7. /\ f.allowing = line.allowing /\ f.pattern = line.pattern
      /\ f.exceptions = o.exceptions /\ f.rewrite = o.rewrite
      /\ f.include = IncludeDomains(o.domains)
      /\ IsUrlFilter(f)
  BY <1>6 DEF IsUrlFilter
<1>8. o.rewrite # Nothing => IncludeDomains(o.domains) # {}
  BY <1>6 DEF IsInvalidRewrite
<1> QED
  BY <1>2, <1>3, <1>4, <1>5, <1>7, <1>8 DEF f

-----------------------------------------------------------------------------
(* What a line adds to a list.                                             *)

(* What is parsed from a line of a URL filter is one, and from another not.  *)
LEMMA ParsedContentFilter ==
  ASSUME NEW line \in ContentFilter, ParseContentFilter(line) # Nothing
  PROVE  LET f == ParseContentFilter(line)
         IN  ~IsUrlFilter(line) /\ ~IsUrlFilter(f) /\ f.type = line.type
<1> DEFINE f == ParseContentFilter(line)
           Kept(domains) == IF NeedsSubdomain(line.type)
                            THEN RemoveDomainsWithNoSubdomain(domains) ELSE domains
<1>1. f = [ type |-> line.type, selector |-> line.selector,
            include |-> Kept(IncludeDomains(line.domains)),
            exclude |-> Kept(ExcludeDomains(line.domains)) ]
  BY DEF ParseContentFilter
<1> HIDE DEF f, Kept
<1>2. DOMAIN f = {"type", "selector", "include", "exclude"} /\ f.type = line.type
  BY <1>1
<1> QED
  BY <1>2, ContentFilterAssumption DEF IsUrlFilter, f

(* A list only grows, by entries in the indices of what is parsed.           *)
LEMMA Converted ==
  ASSUME NEW line \in Line, NEW list, NEW allow_privileged
  PROVE  LET then == ConvertFilter(list, line, allow_privileged)
         IN  /\ list \subseteq then
             /\ \A e \in then : e \notin list =>
                  \/ /\ line \in UrlFilter
                     /\ ParseUrlFilter(line) # Nothing
                     /\ e.filter = ParseUrlFilter(line)
                     /\ e.index \in IndicesOf(e.filter)
                  \/ /\ line \in ContentFilter
                     /\ e.index = <<line.type>>
<1>1. CASE line \in UrlFilter
  <2>1. IsUrlFilter(line)
    BY <1>1, UrlFilterAssumption DEF IsUrlFilter
  <2>2. CASE ParseUrlFilter(line) = Nothing
    BY <2>1, <2>2 DEF ConvertFilter
  <2>3. CASE ParseUrlFilter(line) # Nothing
    <3> DEFINE f == ParseUrlFilter(line)
    <3>1. IsUrlFilter(f)
      BY <1>1, <2>3, ParsedUrlFilter
    <3>2. ConvertFilter(list, line, allow_privileged) = SerializeUrlFilter(list, f, allow_privileged)
      BY <2>1, <2>3, <3>1 DEF ConvertFilter, Serialize
    <3> HIDE DEF f
    <3>3. /\ list \subseteq SerializeUrlFilter(list, f, allow_privileged)
          /\ \A e \in SerializeUrlFilter(list, f, allow_privileged) : e \notin list =>
               e.filter = f /\ e.index \in IndicesOf(f)
      BY DEF SerializeUrlFilter
    <3> QED
      BY <1>1, <2>3, <3>2, <3>3 DEF f
  <2> QED
    BY <2>2, <2>3
<1>2. CASE line \in ContentFilter
  <2>1. ~IsUrlFilter(line)
    BY <1>2, ContentFilterAssumption DEF IsUrlFilter
  <2>2. CASE ParseContentFilter(line) = Nothing
    BY <2>1, <2>2 DEF ConvertFilter
  <2>3. CASE ParseContentFilter(line) # Nothing
    <3> DEFINE f == ParseContentFilter(line)
    <3>1. ~IsUrlFilter(f) /\ f.type = line.type
      BY <1>2, <2>3, ParsedContentFilter
    <3>2. ConvertFilter(list, line, allow_privileged) = Serialize(list, f, allow_privileged)
      BY <2>1, <2>3 DEF ConvertFilter
    <3> HIDE DEF f
    <3>3. /\ list \subseteq Serialize(list, f, allow_privileged)
          /\ \A e \in Serialize(list, f, allow_privileged) : e \notin list => e.index = <<f.type>>
      BY <3>1 DEF Serialize, SerializeSnippetFilter, SerializeContentFilter
    <3> QED
      BY <1>2, <3>1, <3>2, <3>3
  <2> QED
    BY <2>2, <2>3
<1> QED
  BY <1>1, <1>2 DEF Line

(* A pair of an element of a set and TRUE.                                   *)
LEMMA PairsWithTrue ==
  ASSUME NEW S, NEW pair \in S \X {TRUE}
  PROVE  pair[1] \in S /\ pair = <<pair[1], TRUE>>
<1>1. pair[1] \in S /\ pair = <<pair[1], pair[2]>>
  OBVIOUS
<1>2. pair[2] = TRUE
  OBVIOUS
<1> QED
  BY <1>1, <1>2, Zenon

(* The indices of a filter that allows are of exceptions, of the kinds and   *)
(* uses that it has.                                                         *)
LEMMA IndicesOfException ==
  ASSUME NEW f, f.allowing = TRUE, f.exceptions \subseteq ExceptionType
  PROVE  /\ IndicesOf(f) \subseteq ExceptionIndex
         /\ \A kind \in {"genericblock", "generichide"} :
              <<kind, TRUE>> \in IndicesOf(f) => kind \in f.exceptions
         /\ <<"rewrite", TRUE>> \in IndicesOf(f) => f.rewrite # Nothing
<1>1. ASSUME NEW i \in IndicesOf(f)
      PROVE  /\ i \in ExceptionIndex
             /\ \A kind \in {"genericblock", "generichide"} : i = <<kind, TRUE>> => kind \in f.exceptions
             /\ i = <<"rewrite", TRUE>> => f.rewrite # Nothing
  <2> DEFINE uses == (IF f.popup THEN {"popup"} ELSE {})
                     \cup (IF f.csp # Nothing THEN {"csp"} ELSE {})
                     \cup (IF f.rewrite # Nothing THEN {"rewrite"} ELSE {})
                     \cup (IF f.subresource THEN {"subresource"} ELSE {})
             Use(u) == \/ u = "header"
                       \/ u \in {"popup", "csp", "subresource"}
                       \/ u = "rewrite" /\ f.rewrite # Nothing
                       \/ u \in f.exceptions
  <2>1. PICK use : i = <<use, TRUE>> /\ Use(use)
    <3>1. \A u \in uses \cup f.exceptions : Use(u)
      OBVIOUS
    <3>2. i = <<"header", TRUE>> \/ i \in (uses \X {TRUE}) \cup (f.exceptions \X {TRUE})
      BY DEF IndicesOf
    <3> HIDE DEF uses
    <3>3. CASE i = <<"header", TRUE>>
      BY <3>3
    <3>4. CASE i \in (uses \X {TRUE}) \cup (f.exceptions \X {TRUE})
      <4>1. i[1] \in uses \cup f.exceptions /\ i = <<i[1], TRUE>>
        <5>1. i \in uses \X {TRUE} \/ i \in f.exceptions \X {TRUE}
          BY <3>4
        <5> QED
          BY <5>1, PairsWithTrue
      <4>2. Use(i[1])
        BY <3>1, <4>1
      <4> HIDE DEF Use
      <4> QED
        BY <4>1, <4>2
    <3> QED
      BY <3>2, <3>3, <3>4
  <2>2. i \in ExceptionIndex
    BY <2>1 DEF ExceptionIndex
  <2>3. \A kind : i = <<kind, TRUE>> => kind = use
    BY <2>1
  <2> QED
    BY <2>1, <2>2, <2>3 DEF ExceptionType
<1> QED
  BY <1>1

(* A filter filed among those that rewrite does.                             *)
LEMMA IndicesOfRewrite ==
  ASSUME NEW f, f.exceptions \subseteq ExceptionType, <<"rewrite", FALSE>> \in IndicesOf(f)
  PROVE  f.rewrite # Nothing
<1>1. <<"rewrite", FALSE>> # <<"header", f.allowing>>
  OBVIOUS
<1> QED
  BY <1>1 DEF IndicesOf, ExceptionType

-----------------------------------------------------------------------------
(* The invariants, and what exceptions do.                                 *)

TypeOK ==
  /\ lines \in [List -> SUBSET Line]
  /\ lists = [ l \in List |-> lists[l] ]

RewritesAreForDomains == \A l \in List : RewritesForDomains(lists[l])

(* The lines and lists are as many as there are lists, in every state.       *)
THEOREM TypeCorrect == Spec => []TypeOK
<1>1. Init => TypeOK
  BY DEF Init, TypeOK
<1>2. TypeOK /\ [Next]_converter_vars => TypeOK'
  <2> SUFFICES ASSUME TypeOK, [Next]_converter_vars PROVE TypeOK'
    OBVIOUS
  <2>1. CASE UNCHANGED converter_vars
    BY <2>1 DEF TypeOK, converter_vars
  <2>2. ASSUME NEW l \in List, Convert(l) PROVE TypeOK'
    <3>1. PICK line \in Line :
            /\ lines' = [lines EXCEPT ![l] = @ \cup {line}]
            /\ lists' = [lists EXCEPT ![l] = ConvertFilter(@, line, l \in Privileged)]
      BY <2>2 DEF Convert
    <3>2. lines' \in [List -> SUBSET Line]
      BY <3>1 DEF TypeOK
    <3>3. lists' = [ x \in List |-> lists'[x] ]
      BY <3>1 DEF TypeOK
    <3> QED
      BY <3>2, <3>3 DEF TypeOK
  <2> QED
    BY <2>1, <2>2 DEF Next
<1> QED
  BY <1>1, <1>2, PTL DEF Spec

(* A step reads one line into one list.                                      *)
LEMMA ConvertStep ==
  ASSUME TypeOK, NEW l \in List, Convert(l)
  PROVE  \E line \in Line :
           /\ \A x \in List : lines'[x] = IF x = l THEN lines[x] \cup {line} ELSE lines[x]
           /\ \A x \in List : lists'[x] =
                IF x = l THEN ConvertFilter(lists[x], line, l \in Privileged) ELSE lists[x]
<1>1. PICK line \in Line :
        /\ lines' = [lines EXCEPT ![l] = @ \cup {line}]
        /\ lists' = [lists EXCEPT ![l] = ConvertFilter(@, line, l \in Privileged)]
  BY DEF Convert
<1>2. \A x \in List : lines'[x] = IF x = l THEN lines[x] \cup {line} ELSE lines[x]
  BY <1>1 DEF TypeOK
<1>3. \A x \in List : lists'[x] =
        IF x = l THEN ConvertFilter(lists[x], line, l \in Privileged) ELSE lists[x]
  BY <1>1 DEF TypeOK
<1> QED
  BY <1>2, <1>3

(* Every filter that rewrites is for certain domains.                        *)
LEMMA RewritesStep ==
  ASSUME TypeOK, RewritesAreForDomains, NEW l \in List, Convert(l)
  PROVE  RewritesAreForDomains'
<1>1. PICK line \in Line :
        \A x \in List : lists'[x] =
          IF x = l THEN ConvertFilter(lists[x], line, l \in Privileged) ELSE lists[x]
  BY ConvertStep
<1>2. ASSUME NEW e \in ConvertFilter(lists[l], line, l \in Privileged),
             e.index = <<"rewrite", FALSE>>
      PROVE  e.filter.include # {}
  <2>1. CASE e \in lists[l]
    <3>1. e.filter \in Filed(lists[l], <<"rewrite", FALSE>>, e.key)
      BY <1>2, <2>1 DEF Filed
    <3> QED
      BY <3>1 DEF RewritesAreForDomains, RewritesForDomains
  <2>2. CASE e \notin lists[l]
    <3>1. \/ /\ line \in UrlFilter
             /\ ParseUrlFilter(line) # Nothing
             /\ e.filter = ParseUrlFilter(line)
             /\ e.index \in IndicesOf(e.filter)
          \/ e.index = <<line.type>>
      BY <2>2, Converted
    <3>2. e.index # <<line.type>>
      <4>1. Len(<<"rewrite", FALSE>>) = 2 /\ Len(<<line.type>>) = 1
        OBVIOUS
      <4> QED
        BY <1>2, <4>1
    <3>3. e.filter.exceptions \subseteq ExceptionType
      BY <3>1, <3>2, ParsedUrlFilter
    <3>4. e.filter.rewrite # Nothing
      BY <1>2, <3>1, <3>2, <3>3, IndicesOfRewrite
    <3> QED
      BY <3>1, <3>2, <3>4, ParsedUrlFilter
  <2> QED
    BY <2>1, <2>2
<1>3. RewritesForDomains(ConvertFilter(lists[l], line, l \in Privileged))
  BY <1>2 DEF RewritesForDomains, Filed
<1> QED
  BY <1>1, <1>3 DEF RewritesAreForDomains

(* Every filter that rewrites is for certain domains, in every state.        *)
THEOREM RewritesCorrect == Spec => []RewritesAreForDomains
<1>1. Init => RewritesAreForDomains
  BY DEF Init, RewritesAreForDomains, RewritesForDomains, Filed
<1>2. TypeOK /\ RewritesAreForDomains /\ [Next]_converter_vars => RewritesAreForDomains'
  <2>1. UNCHANGED converter_vars /\ RewritesAreForDomains => RewritesAreForDomains'
    BY DEF RewritesAreForDomains, RewritesForDomains, converter_vars, Filed
  <2> QED
    BY <2>1, RewritesStep DEF Next
<1> QED
  BY <1>1, <1>2, TypeCorrect, PTL DEF Spec

\* The indices an exception is filed in: not those of the three kinds that are
\* different, unless the line makes one.
AddedBy(line) ==
  LET keys_of_line == { option.key : option \in OptionsOf(line) }
  IN  { i \in ExceptionIndex :
          \A kind \in {"genericblock", "generichide", "rewrite"} :
            i = <<kind, TRUE>> => IsUrlFilter(line) /\ kind \in keys_of_line }

(* A list to which an exception is converted grows by exceptions.            *)
LEMMA ExceptionConverted ==
  ASSUME NEW line \in Line, IsException(line), NEW list, NEW allow_privileged
  PROVE  Grown(list, ConvertFilter(list, line, allow_privileged), AddedBy(line))
<1> DEFINE then == ConvertFilter(list, line, allow_privileged)
<1>1. /\ list \subseteq then
      /\ \A e \in then : e \notin list =>
           \/ /\ line \in UrlFilter
              /\ ParseUrlFilter(line) # Nothing
              /\ e.filter = ParseUrlFilter(line)
              /\ e.index \in IndicesOf(e.filter)
           \/ /\ line \in ContentFilter
              /\ e.index = <<line.type>>
  BY Converted
<1> HIDE DEF then
<1>2. ASSUME line \in UrlFilter, ParseUrlFilter(line) # Nothing,
             NEW index \in IndicesOf(ParseUrlFilter(line))
      PROVE  index \in AddedBy(line)
  <2> DEFINE f == ParseUrlFilter(line)
             keys_of_line == { option.key : option \in OptionsOf(line) }
  <2>1. IsUrlFilter(line)
    BY <1>2, UrlFilterAssumption DEF IsUrlFilter
  <2>2. /\ f.allowing = TRUE
        /\ f.exceptions \subseteq keys_of_line \cap ExceptionType
        /\ f.rewrite # Nothing => "rewrite" \in keys_of_line
    <3>1. line.allowing = TRUE
      BY <1>2, <2>1, UrlFilterAssumption DEF IsException
    <3> QED
      BY <1>2, <3>1, ParsedUrlFilter
  <2> HIDE DEF f
  <2>3. /\ IndicesOf(f) \subseteq ExceptionIndex
        /\ \A kind \in {"genericblock", "generichide"} :
             <<kind, TRUE>> \in IndicesOf(f) => kind \in f.exceptions
        /\ <<"rewrite", TRUE>> \in IndicesOf(f) => f.rewrite # Nothing
    BY <2>2, IndicesOfException
  <2>4. index \in IndicesOf(f)
    BY <1>2 DEF f
  <2> QED
    BY <2>1, <2>2, <2>3, <2>4 DEF AddedBy
<1>3. ASSUME line \in ContentFilter PROVE <<line.type>> \in AddedBy(line)
  <2>1. line.type = "ElemHideException"
    BY <1>3, ContentFilterAssumption DEF IsException, IsUrlFilter
  <2>2. \A kind : <<kind, TRUE>> # <<"ElemHideException">>
    <3>1. Len(<<"ElemHideException">>) = 1 /\ \A kind : Len(<<kind, TRUE>>) = 2
      OBVIOUS
    <3> QED
      BY <3>1
  <2>3. <<"ElemHideException">> \in ExceptionIndex
    BY DEF ExceptionIndex
  <2> QED
    BY <2>1, <2>2, <2>3 DEF AddedBy
<1>4. \A e \in then : e \notin list => e.index \in AddedBy(line)
  BY <1>1, <1>2, <1>3
<1> QED
  BY <1>1, <1>4 DEF Grown, then

(* A collection and a snapshot grow by exceptions when one is converted.     *)
LEMMA SnapshotGrows ==
  ASSUME TypeOK, NEW l \in List, NEW line \in Line, IsException(line),
         \A x \in List : lists'[x] =
           IF x = l THEN ConvertFilter(lists[x], line, l \in Privileged) ELSE lists[x]
  PROVE  GrownSnapshot(Snapshot, Snapshot', AddedBy(line))
<1>1. ASSUME NEW x \in List PROVE Grown(lists[x], lists'[x], AddedBy(line))
  BY ExceptionConverted DEF Grown
<1> DEFINE Owned(c) == { x \in List : OwnerOf[x] = c }
           Now(c) == { lists[x] : x \in Owned(c) }
           Then(c) == { lists'[x] : x \in Owned(c) }
           owners == { OwnerOf[x] : x \in List }
<1>2. AddedBy(line) \subseteq ExceptionIndex
  BY DEF AddedBy
<1>3. ASSUME NEW c PROVE Exceptions(Now(c), Then(c), AddedBy(line))
  <2>1. GrownCollection(Now(c), Then(c), AddedBy(line))
    BY <1>1 DEF GrownCollection
  <2> QED
    BY <1>2, <2>1 DEF Exceptions
<1>4. Snapshot = { Now(c) : c \in owners } /\ Snapshot' = { Then(c) : c \in owners }
  BY DEF Snapshot
<1> HIDE DEF Now, Then, owners
<1> QED
  BY <1>3, <1>4 DEF GrownSnapshot

(* An exception in any list blocks and hides nothing that was not, but for   *)
(* the kinds ExceptionsOnlyUnblock names.                                    *)
THEOREM ExceptionsUnblock == Spec => ExceptionsOnlyUnblock
<1> DEFINE Body ==
      \A l \in List : \A line \in lines'[l] \ lines[l] : IsException(line) =>
        \A r \in Request, now \in {Snapshot}, then \in {Snapshot'} :
          OnlyUnblocks(line, r, now, then)
<1>1. TypeOK /\ RewritesAreForDomains /\ RewritesAreForDomains' /\ [Next]_converter_vars => [Body]_converter_vars
  <2> SUFFICES ASSUME TypeOK, RewritesAreForDomains', NEW x \in List, Convert(x) PROVE Body
    BY DEF Next
  <2>1. PICK new \in Line :
          /\ \A y \in List : lines'[y] = IF y = x THEN lines[y] \cup {new} ELSE lines[y]
          /\ \A y \in List : lists'[y] =
               IF y = x THEN ConvertFilter(lists[y], new, x \in Privileged) ELSE lists[y]
    BY ConvertStep
  <2>2. SUFFICES ASSUME NEW l \in List, NEW line \in lines'[l] \ lines[l], IsException(line),
                        NEW r \in Request
                 PROVE  OnlyUnblocks(line, r, Snapshot, Snapshot')
    OBVIOUS
  <2>3. line = new
    BY <2>1
  <2>4. GrownSnapshot(Snapshot, Snapshot', AddedBy(line))
    BY <2>1, <2>2, <2>3, SnapshotGrows
  <2>5. \A d \in Snapshot' : \A list \in d : RewritesForDomains(list)
    BY DEF RewritesAreForDomains, Snapshot
  <2>6. \A kind \in {"genericblock", "generichide", "rewrite"} :
          <<kind, TRUE>> \in AddedBy(line) =>
            IsUrlFilter(line) /\ \E option \in OptionsOf(line) : option.key = kind
    BY DEF AddedBy
  <2> HIDE DEF Body
  <2> QED
    BY <2>4, <2>5, <2>6, SnapshotUnblocked
<1> QED
  BY <1>1, TypeCorrect, RewritesCorrect, PTL DEF Spec, ExceptionsOnlyUnblock

-----------------------------------------------------------------------------
(* Which filters are found.                                                *)

(* A pattern of a filter that matches an address has its keywords there.     *)
LEMMA PatternMatchHasKeywords ==
  ASSUME NEW line \in UrlFilter, NEW u \in Url, IsIndexable(line.pattern), Matches[line.pattern][u],
         NEW place \in KeywordPlaces(line.pattern)
  PROVE  SubSeq(line.pattern, place[1], place[2]) \in Keywords[u]
<1> DEFINE p == line.pattern
<1>1. p \in Seq(STRING) /\ u.host \in Seq(STRING) /\ u.path \in Seq(STRING)
      /\ (u.path = <<>> \/ u.path[1] = "/")
  BY UrlFilterAssumption, UrlAssumption
<1>2. Seq(STRING) \subseteq Seq(Character)
  BY SeqMonotonic DEF Character
<1>3. IsFoundInUrl(p, u)
  <2>1. p \in { f.pattern : f \in UrlFilter }
    OBVIOUS
  <2> HIDE DEF p
  <2>2. Matches[p] = [ x \in Url |-> DoesPatternMatchUrl(p, x) ]
    BY <2>1 DEF Matches
  <2>3. Matches[p][u] = DoesPatternMatchUrl(p, u)
    BY <2>2, Zenon
  <2> QED
    BY <2>3 DEF p, DoesPatternMatchUrl
<1>4. HasNoMiddleAnchor(p) /\ IsNoEndOfScheme(p, place)
  BY DEF IsIndexable, HasNoMiddleAnchor, IsNoEndOfScheme
<1> HIDE DEF p
<1>5. SubSeq(p, place[1], place[2]) \in UrlKeywords(u)
  <2>1. place \in KeywordPlaces(p)
    BY DEF p
  <2>2. p \in Seq(Character) /\ u.host \in Seq(Character) /\ u.path \in Seq(Character)
    BY <1>1, <1>2
  <2> QED
    BY <1>1, <1>3, <1>4, <2>1, <2>2, MatchHasKeywords
<1> QED
  BY <1>5 DEF Keywords, p

(* The keyword index finds every filter that matches, in every state.        *)
THEOREM KeywordsFindEveryMatch == Spec => []KeywordIndexComplete
<1>1. TypeOK => KeywordIndexComplete
  <2> SUFFICES ASSUME TypeOK, NEW p \in Written, NEW u \in Url, IsIndexable(p), Matches[p][u],
                      NEW place \in KeywordPlaces(p)
               PROVE  SubSeq(p, place[1], place[2]) \in Keywords[u]
    BY DEF KeywordIndexComplete
  <2>1. PICK line \in Line : IsUrlFilter(line) /\ p = line.pattern
    BY DEF Written, TypeOK
  <2>2. line \in UrlFilter
    BY <2>1, ContentFilterAssumption DEF Line, IsUrlFilter
  <2> QED
    BY <2>1, <2>2, PatternMatchHasKeywords
<1> QED
  BY <1>1, TypeCorrect, PTL

(* The values of a function on a finite set are finitely many.               *)
LEMMA FiniteImage ==
  ASSUME NEW S, IsFiniteSet(S), NEW f
  PROVE  IsFiniteSet({ f[x] : x \in S })
<1> DEFINE T == { f[x] : x \in S }
           g == [ x \in S |-> f[x] ]
<1>1. g \in Surjection(S, T)
  BY DEF Surjection
<1> HIDE DEF g, T
<1>2. IsFiniteSet(T)
  BY <1>1, FS_Surjection
<1> QED
  BY <1>2 DEF T

(* What is filed in a finite list under an index and a key is finite.        *)
LEMMA FiledFinite ==
  ASSUME NEW list, IsFiniteSet(list), NEW index, NEW k
  PROVE  Cardinality(Filed(list, index, k)) \in Nat
<1> DEFINE S == { x \in list : x.index = index /\ x.key = k }
           f == [ e \in S |-> e.filter ]
<1>1. IsFiniteSet(S)
  BY FS_Subset
<1>2. Filed(list, index, k) = { f[e] : e \in S }
  BY DEF Filed
<1> HIDE DEF S, f
<1>3. IsFiniteSet(Filed(list, index, k))
  BY <1>1, <1>2, FiniteImage
<1> QED
  BY <1>3, FS_CardinalityType

(* The keyword a pattern is filed under is one of its keywords.              *)
LEMMA CandidateIsKeyword ==
  ASSUME NEW list, IsFiniteSet(list), NEW index, NEW pattern \in Seq(STRING)
  PROVE  \/ FindCandidateKeyword(list, index, pattern) = <<>>
         \/ \E place \in KeywordPlaces(pattern) :
              FindCandidateKeyword(list, index, pattern) = SubSeq(pattern, place[1], place[2])
<1> DEFINE Keyword(place) == SubSeq(pattern, place[1], place[2])
           Size(place) == Cardinality(Filed(list, index, Keyword(place)))
           Length(place) == place[2] - place[1]
           Better(p, q) ==
             \/ Size(p) < Size(q)
             \/ Size(p) = Size(q) /\ Length(p) > Length(q)
             \/ Size(p) = Size(q) /\ Length(p) = Length(q) /\ p[1] <= q[1]
           places == KeywordPlaces(pattern)
           n == Len(pattern)
<1>1. CASE places = {}
  BY <1>1 DEF FindCandidateKeyword
<1>2. CASE places # {}
  <2>1. \A p \in places : p[1] \in Nat /\ Length(p) \in Nat /\ n - Length(p) \in Nat /\ Size(p) \in Nat
    <3>1. \A p \in places : p[1] \in 2..n /\ p[2] \in 2..(n - 1) /\ p[1] <= p[2]
      BY DEF KeywordPlaces
    <3>2. \A p : Size(p) \in Nat
      BY FiledFinite
    <3> HIDE DEF places, Size
    <3> QED
      BY <3>1, <3>2
  <2>2. n \in Nat
    OBVIOUS
  <2> HIDE DEF places, Size, Length, n
  <2> DEFINE Sizes == { Size(p) : p \in places }
  <2>3. PICK size \in Sizes : \A m \in Sizes : size <= m
    <3>1. Sizes \subseteq Nat /\ Sizes # {}
      BY <1>2, <2>1
    <3> HIDE DEF Sizes
    <3> QED
      BY <3>1, SmallestOf
  <2> DEFINE smallest == { p \in places : Size(p) = size }
             Rests == { n - Length(p) : p \in smallest }
  <2>4. PICK rest \in Rests : \A m \in Rests : rest <= m
    <3>1. Rests \subseteq Nat /\ Rests # {}
      BY <2>1, <2>3
    <3> HIDE DEF Rests
    <3> QED
      BY <3>1, SmallestOf
  <2> DEFINE longest == { p \in smallest : n - Length(p) = rest }
             Starts == { p[1] : p \in longest }
  <2>5. PICK start \in Starts : \A m \in Starts : start <= m
    <3>1. Starts \subseteq Nat /\ Starts # {}
      BY <2>1, <2>4
    <3> HIDE DEF Starts
    <3> QED
      BY <3>1, SmallestOf
  <2>6. PICK p \in longest : p[1] = start
    BY <2>5
  <2>7. ASSUME NEW q \in places PROVE Better(p, q)
    <3>1. Size(p) <= Size(q)
      BY <2>3, <2>6
    <3>2. Size(q) = Size(p) => Length(q) <= Length(p)
      <4>1. SUFFICES ASSUME Size(q) = Size(p) PROVE Length(q) <= Length(p)
        OBVIOUS
      <4>2. n - Length(q) \in Rests /\ n - Length(p) = rest
        BY <2>6, <4>1
      <4>3. n - Length(p) <= n - Length(q)
        BY <2>4, <4>2
      <4> QED
        BY <2>1, <2>2, <2>6, <4>3
    <3>3. Size(q) = Size(p) /\ Length(q) = Length(p) => p[1] <= q[1]
      BY <2>5, <2>6
    <3> QED
      BY <2>1, <2>6, <3>1, <3>2, <3>3
  <2> DEFINE best == CHOOSE x \in places : \A q \in places : Better(x, q)
  <2>8. best \in places
    <3>1. p \in places
      BY <2>6
    <3> HIDE DEF Better
    <3> QED
      BY <2>7, <3>1
  <2>9. FindCandidateKeyword(list, index, pattern) = Keyword(best)
    BY <1>2 DEF FindCandidateKeyword, Size, Length, places
  <2> HIDE DEF best
  <2> QED
    BY <2>8, <2>9 DEF places
<1> QED
  BY <1>1, <1>2

-----------------------------------------------------------------------------
(* Where the filters of a list are filed.                                  *)

\* The keys of a filter that is not for addresses.
DomainKeys(filter) == IF filter.include = {} THEN {<<>>} ELSE filter.include

\* An entry files its filter under one of its indices, and there under none or
\* one of its keywords, or under one of its domains.
IsFiledRight(e) ==
  IF IsUrlFilter(e.filter)
  THEN /\ e.index \in IndicesOf(e.filter)
       /\ \/ e.key = <<>>
          \/ \E place \in KeywordPlaces(e.filter.pattern) :
               e.key = SubSeq(e.filter.pattern, place[1], place[2])
  ELSE /\ e.index = <<e.filter.type>>
       /\ e.key \in DomainKeys(e.filter)

\* A filter is filed under all its indices, or under all its domains.
IsFiled(list, filter) ==
  IF IsUrlFilter(filter)
  THEN \A index \in IndicesOf(filter) : \E e \in list : e.filter = filter /\ e.index = index
  ELSE \A k \in DomainKeys(filter) :
         \E e \in list : e.filter = filter /\ e.index = <<filter.type>> /\ e.key = k

\* A list files these filters, and no others.
Files(list, filters) ==
  /\ \A e \in list : e.filter \in filters /\ IsFiledRight(e)
  /\ \A filter \in filters : IsFiled(list, filter)

\* What is parsed from a line.
Parsed(line) == IF IsUrlFilter(line) THEN ParseUrlFilter(line) ELSE ParseContentFilter(line)

\* What is known of a parsed filter.
IsFilter(f) ==
  IF IsUrlFilter(f)
  THEN /\ f.pattern \in Seq(STRING)
       /\ f.allowing \in BOOLEAN
       /\ f.exceptions \subseteq ExceptionType
  ELSE /\ IsFiniteSet(f.include)
       /\ f.type = "Snippet" => f.include # {}

(* What is parsed from a line is a filter.                                   *)
LEMMA ParsedIsFilter ==
  ASSUME NEW line \in Line, Parsed(line) # Nothing
  PROVE  /\ IsFilter(Parsed(line))
         /\ IsUrlFilter(Parsed(line)) <=> IsUrlFilter(line)
         /\ IsUrlFilter(line) => line \in UrlFilter /\ Parsed(line).pattern = line.pattern
<1>1. CASE line \in UrlFilter
  <2>1. IsUrlFilter(line) /\ line.pattern \in Seq(STRING) /\ line.allowing \in BOOLEAN
    BY <1>1, UrlFilterAssumption DEF IsUrlFilter
  <2> DEFINE f == ParseUrlFilter(line)
  <2>2. Parsed(line) = f /\ f # Nothing
    BY <2>1 DEF Parsed
  <2>3. /\ IsUrlFilter(f)
        /\ f.allowing = line.allowing /\ f.pattern = line.pattern
        /\ f.exceptions \subseteq ExceptionType
    BY <1>1, <2>2, ParsedUrlFilter
  <2> HIDE DEF f
  <2> QED
    BY <1>1, <2>1, <2>2, <2>3 DEF IsFilter
<1>2. CASE line \in ContentFilter
  <2>1. ~IsUrlFilter(line)
    BY <1>2, ContentFilterAssumption DEF IsUrlFilter
  <2> DEFINE f == ParseContentFilter(line)
             Kept(domains) == IF NeedsSubdomain(line.type)
                              THEN RemoveDomainsWithNoSubdomain(domains) ELSE domains
  <2>2. Parsed(line) = f /\ f # Nothing
    BY <2>1 DEF Parsed
  <2>3. ~IsUrlFilter(f)
    BY <1>2, <2>2, ParsedContentFilter
  <2>4. /\ f = [ type |-> line.type, selector |-> line.selector,
                 include |-> Kept(IncludeDomains(line.domains)),
                 exclude |-> Kept(ExcludeDomains(line.domains)) ]
        /\ ~(NeedsSubdomain(line.type) /\ Kept(IncludeDomains(line.domains)) = {})
    BY <2>2 DEF ParseContentFilter
  <2> HIDE DEF f
  <2>5. f.include \subseteq line.domains
    <3>1. f.include = Kept(IncludeDomains(line.domains))
      BY <2>4
    <3>2. IncludeDomains(line.domains) \subseteq line.domains
      BY DEF IncludeDomains
    <3>3. \A domains : RemoveDomainsWithNoSubdomain(domains) \subseteq domains
      BY DEF RemoveDomainsWithNoSubdomain
    <3> QED
      BY <3>1, <3>2, <3>3
  <2>6. IsFiniteSet(f.include)
    BY <1>2, <2>5, ContentFilterAssumption, FS_Subset
  <2>7. f.type = "Snippet" => f.include # {}
    BY <2>4 DEF NeedsSubdomain
  <2> QED
    BY <2>1, <2>2, <2>3, <2>6, <2>7 DEF IsFilter
<1> QED
  BY <1>1, <1>2 DEF Line

(* A filter has finitely many indices.                                       *)
LEMMA IndicesFinite ==
  ASSUME NEW f, f.allowing \in BOOLEAN, f.exceptions \subseteq ExceptionType
  PROVE  /\ IsFiniteSet(IndicesOf(f))
         /\ \A i \in IndicesOf(f) : Len(i) = 2
<1> DEFINE all == {"popup", "csp", "rewrite", "subresource", "header", "document", "genericblock",
                   "elemhide", "generichide"}
<1>1. IsFiniteSet(all)
  <2>1. IsFiniteSet({"popup"} \cup {"csp"} \cup {"rewrite"} \cup {"subresource"} \cup {"header"})
    BY FS_Singleton, FS_Union
  <2>2. IsFiniteSet({"document"} \cup {"genericblock"} \cup {"elemhide"} \cup {"generichide"})
    BY FS_Singleton, FS_Union
  <2>3. all = ({"popup"} \cup {"csp"} \cup {"rewrite"} \cup {"subresource"} \cup {"header"})
              \cup ({"document"} \cup {"genericblock"} \cup {"elemhide"} \cup {"generichide"})
    OBVIOUS
  <2> HIDE DEF all
  <2> QED
    BY <2>1, <2>2, <2>3, FS_Union
<1>2. IsFiniteSet(BOOLEAN)
  <2>1. BOOLEAN = {TRUE} \cup {FALSE}
    OBVIOUS
  <2>2. \A x, y : IsFiniteSet({x} \cup {y})
    BY FS_Singleton, FS_Union
  <2> QED
    BY <2>1, <2>2, Zenon
<1>3. IndicesOf(f) \subseteq all \X BOOLEAN
  <2> DEFINE uses == (IF f.popup THEN {"popup"} ELSE {})
                     \cup (IF f.csp # Nothing THEN {"csp"} ELSE {})
                     \cup (IF f.rewrite # Nothing THEN {"rewrite"} ELSE {})
                     \cup (IF f.subresource THEN {"subresource"} ELSE {})
  <2>1. /\ uses \subseteq all /\ f.exceptions \subseteq all /\ "header" \in all
        /\ f.allowing \in BOOLEAN /\ TRUE \in BOOLEAN
    BY DEF ExceptionType
  <2>2. IndicesOf(f) \subseteq {<<"header", f.allowing>>} \cup (uses \X {f.allowing})
                               \cup (f.exceptions \X {TRUE})
    BY DEF IndicesOf
  <2> HIDE DEF uses, all
  <2>3. /\ <<"header", f.allowing>> \in all \X BOOLEAN
        /\ uses \X {f.allowing} \subseteq all \X BOOLEAN
        /\ f.exceptions \X {TRUE} \subseteq all \X BOOLEAN
    BY <2>1
  <2> QED
    BY <2>2, <2>3
<1> HIDE DEF all
<1>4. IsFiniteSet(all \X BOOLEAN)
  BY <1>1, <1>2, FS_Product
<1>5. IsFiniteSet(IndicesOf(f))
  BY <1>3, <1>4, FS_Subset
<1>6. \A i \in all \X BOOLEAN : Len(i) = 2
  OBVIOUS
<1> QED
  BY <1>3, <1>5, <1>6

\* Whether a list may have a filter.
IsAccepted(filter, allow_privileged) ==
  allow_privileged \/ IF IsUrlFilter(filter) THEN filter.headers = Nothing ELSE filter.type # "Snippet"

(* A filter is filed as it should be, and nothing else is changed.           *)
LEMMA Serialized ==
  ASSUME NEW list, IsFiniteSet(list), NEW f, IsFilter(f), NEW allow_privileged \in BOOLEAN
  PROVE  LET then == Serialize(list, f, allow_privileged)
         IN  /\ IsFiniteSet(then)
             /\ ~IsAccepted(f, allow_privileged) => then = list
             /\ list \subseteq then
             /\ \A e \in then : e \notin list => e.filter = f /\ IsFiledRight(e)
             /\ IsAccepted(f, allow_privileged) => IsFiled(then, f)
<1> DEFINE then == Serialize(list, f, allow_privileged)
<1>1. CASE IsUrlFilter(f)
  <2> DEFINE Entry(i) == [ index |-> i, filter |-> f, key |-> FindCandidateKeyword(list, i, f.pattern) ]
             added == { Entry(i) : i \in IndicesOf(f) }
  <2>1. then = IF IsAccepted(f, allow_privileged) THEN list \cup added ELSE list
    BY <1>1 DEF Serialize, SerializeUrlFilter, IsAccepted
  <2>2. IsFiniteSet(IndicesOf(f))
    BY <1>1, IndicesFinite DEF IsFilter
  <2>3. IsFiniteSet(added)
    <3> DEFINE g == [ i \in IndicesOf(f) |-> Entry(i) ]
    <3>1. added = { g[i] : i \in IndicesOf(f) }
      OBVIOUS
    <3> HIDE DEF added, g
    <3> QED
      BY <2>2, <3>1, FiniteImage
  <2>4. ASSUME NEW i \in IndicesOf(f)
        PROVE  Entry(i).filter = f /\ Entry(i).index = i /\ IsFiledRight(Entry(i))
    <3>1. Entry(i).filter = f /\ Entry(i).index = i
            /\ Entry(i).key = FindCandidateKeyword(list, i, f.pattern)
      OBVIOUS
    <3>2. \/ FindCandidateKeyword(list, i, f.pattern) = <<>>
          \/ \E place \in KeywordPlaces(f.pattern) :
               FindCandidateKeyword(list, i, f.pattern) = SubSeq(f.pattern, place[1], place[2])
      BY <1>1, CandidateIsKeyword DEF IsFilter
    <3> HIDE DEF Entry
    <3> QED
      BY <1>1, <2>4, <3>1, <3>2 DEF IsFiledRight
  <2> HIDE DEF Entry, then
  <2>5. \A e \in added : e.filter = f /\ IsFiledRight(e)
    BY <2>4
  <2>6. IsFiled(list \cup added, f)
    BY <1>1, <2>4 DEF IsFiled
  <2> HIDE DEF added
  <2> QED
    BY <2>1, <2>3, <2>5, <2>6, FS_Union DEF then
<1>2. CASE ~IsUrlFilter(f)
  <2> DEFINE Entry(k) == [ index |-> <<f.type>>, key |-> k, filter |-> f ]
             added == { Entry(k) : k \in DomainKeys(f) }
  <2>1. then = IF IsAccepted(f, allow_privileged) THEN list \cup added ELSE list
    BY <1>2 DEF Serialize, SerializeContentFilter, SerializeSnippetFilter, IsAccepted, DomainKeys, IsFilter
  <2>2. IsFiniteSet(DomainKeys(f))
    BY <1>2, FS_Singleton DEF IsFilter, DomainKeys
  <2>3. IsFiniteSet(added)
    <3> DEFINE g == [ k \in DomainKeys(f) |-> Entry(k) ]
    <3>1. added = { g[k] : k \in DomainKeys(f) }
      OBVIOUS
    <3> HIDE DEF added, g
    <3> QED
      BY <2>2, <3>1, FiniteImage
  <2>4. ASSUME NEW k \in DomainKeys(f)
        PROVE  /\ Entry(k).filter = f /\ Entry(k).index = <<f.type>> /\ Entry(k).key = k
               /\ IsFiledRight(Entry(k))
    <3>1. Entry(k).filter = f /\ Entry(k).index = <<f.type>> /\ Entry(k).key = k
      OBVIOUS
    <3> HIDE DEF Entry
    <3> QED
      BY <1>2, <2>4, <3>1 DEF IsFiledRight
  <2> HIDE DEF Entry, then
  <2>5. \A e \in added : e.filter = f /\ IsFiledRight(e)
    BY <2>4
  <2>6. IsFiled(list \cup added, f)
    BY <1>2, <2>4 DEF IsFiled
  <2> HIDE DEF added
  <2> QED
    BY <2>1, <2>3, <2>5, <2>6, FS_Union DEF then
<1> QED
  BY <1>1, <1>2

(* A list with more in it files what it filed.                               *)
LEMMA FiledStays ==
  ASSUME NEW list, NEW then, list \subseteq then, NEW f, IsFiled(list, f)
  PROVE  IsFiled(then, f)
BY DEF IsFiled

\* Every list files its filters as it should, and each filter is of a line that
\* was read into it.
WellFiled ==
  \A l \in List :
    /\ IsFiniteSet(lists[l])
    /\ Files(lists[l], FiltersOf(lists[l]))
    /\ \A f \in FiltersOf(lists[l]) : \E line \in lines[l] : f = Parsed(line) /\ f # Nothing

(* The same of a list to which a line is converted.                          *)
LEMMA ConvertedIsWellFiled ==
  ASSUME NEW list, IsFiniteSet(list), Files(list, FiltersOf(list)), NEW line \in Line,
         NEW allow_privileged \in BOOLEAN
  PROVE  LET then == ConvertFilter(list, line, allow_privileged)
         IN  /\ IsFiniteSet(then)
             /\ Files(then, FiltersOf(then))
             /\ \A f \in FiltersOf(then) : f \in FiltersOf(list) \/ (f = Parsed(line) /\ f # Nothing)
<1> DEFINE f == Parsed(line)
           then == ConvertFilter(list, line, allow_privileged)
<1>1. then = IF f = Nothing THEN list ELSE Serialize(list, f, allow_privileged)
  BY DEF ConvertFilter, Parsed
<1>2. CASE f = Nothing
  BY <1>1, <1>2
<1>3. CASE f # Nothing
  <2>1. IsFilter(f)
    BY <1>3, ParsedIsFilter
  <2> HIDE DEF f, then
  <2>2. /\ IsFiniteSet(then)
        /\ ~IsAccepted(f, allow_privileged) => then = list
        /\ list \subseteq then
        /\ \A e \in then : e \notin list => e.filter = f /\ IsFiledRight(e)
        /\ IsAccepted(f, allow_privileged) => IsFiled(then, f)
    BY <1>1, <1>3, <2>1, Serialized
  <2>3. \A g \in FiltersOf(then) : g \in FiltersOf(list) \/ (g = f /\ IsAccepted(f, allow_privileged))
    BY <2>2 DEF FiltersOf
  <2>4. \A e \in then : e.filter \in FiltersOf(then) /\ IsFiledRight(e)
    BY <2>2 DEF Files, FiltersOf
  <2>5. ASSUME NEW g \in FiltersOf(then) PROVE IsFiled(then, g)
    <3>1. CASE g \in FiltersOf(list)
      <4>1. IsFiled(list, g)
        BY <3>1 DEF Files
      <4> QED
        BY <2>2, <4>1, FiledStays
    <3>2. CASE g = f /\ IsAccepted(f, allow_privileged)
      BY <2>2, <3>2
    <3> QED
      BY <2>3, <3>1, <3>2
  <2> QED
    BY <1>3, <2>2, <2>3, <2>4, <2>5 DEF Files, f, then
<1> QED
  BY <1>2, <1>3

(* Every list files its filters as it should, in every state.                *)
THEOREM FiledCorrectly == Spec => []WellFiled
<1>1. Init => WellFiled
  BY FS_EmptySet DEF Init, WellFiled, Files, FiltersOf
<1>2. TypeOK /\ WellFiled /\ [Next]_converter_vars => WellFiled'
  <2> SUFFICES ASSUME TypeOK, WellFiled, [Next]_converter_vars PROVE WellFiled'
    OBVIOUS
  <2>1. CASE UNCHANGED converter_vars
    BY <2>1 DEF WellFiled, converter_vars
  <2>2. ASSUME NEW l \in List, Convert(l) PROVE WellFiled'
    <3>1. PICK line \in Line :
            /\ \A x \in List : lines'[x] = IF x = l THEN lines[x] \cup {line} ELSE lines[x]
            /\ \A x \in List : lists'[x] =
                 IF x = l THEN ConvertFilter(lists[x], line, l \in Privileged) ELSE lists[x]
      BY <2>2, ConvertStep
    <3> DEFINE Good(list, read) ==
                 /\ IsFiniteSet(list)
                 /\ Files(list, FiltersOf(list))
                 /\ \A f \in FiltersOf(list) : \E x \in read : f = Parsed(x) /\ f # Nothing
    <3>2. \A x \in List : Good(lists[x], lines[x])
      BY DEF WellFiled
    <3>3. Good(ConvertFilter(lists[l], line, l \in Privileged), lines[l] \cup {line})
      <4> DEFINE list == lists[l]
                 allow == l \in Privileged
                 then == ConvertFilter(list, line, allow)
      <4>0. allow \in BOOLEAN /\ IsFiniteSet(list) /\ Files(list, FiltersOf(list))
        BY <3>2
      <4> HIDE DEF list, allow
      <4>1. /\ IsFiniteSet(then)
            /\ Files(then, FiltersOf(then))
            /\ \A f \in FiltersOf(then) : f \in FiltersOf(list) \/ (f = Parsed(line) /\ f # Nothing)
        BY <4>0, ConvertedIsWellFiled
      <4> HIDE DEF then
      <4>2. \A f \in FiltersOf(list) : \E x \in lines[l] : f = Parsed(x) /\ f # Nothing
        BY <3>2 DEF list
      <4>3. Good(then, lines[l] \cup {line})
        BY <4>1, <4>2
      <4> QED
        BY <4>3 DEF then, list, allow
    <3> HIDE DEF Good
    <3>4. \A x \in List : Good(lists'[x], lines'[x])
      BY <3>1, <3>2, <3>3
    <3> QED
      BY <3>4 DEF Good, WellFiled, Files, FiltersOf, IsFiled
  <2> QED
    BY <2>1, <2>2 DEF Next
<1> QED
  BY <1>1, <1>2, TypeCorrect, PTL DEF Spec

-----------------------------------------------------------------------------
(* What is found in a list is a matter of its filters only.                *)

\* Filters whose patterns can be relied on to be found by their words.
AreIndexable(filters) ==
  \A f \in filters :
    /\ IsFilter(f)
    /\ IsUrlFilter(f) => \E line \in UrlFilter : f.pattern = line.pattern /\ IsIndexable(line.pattern)

\* The filters among some that are found for an address.
Finds(filters, index, url, type, domain, sitekey, category) ==
  { f \in filters :
      /\ IsUrlFilter(f)
      /\ index \in IndicesOf(f)
      /\ CandidateFilterViable(f, type, domain, sitekey, category, IsThirdParty(url, domain))
      /\ Matches[f.pattern][url] }

\* The selectors of those that are found for a domain.
Selects(filters, type, places, domain) ==
  { f.selector : f \in
      { x \in filters : /\ ~IsUrlFilter(x) /\ x.type = type
                        /\ DomainKeys(x) \cap places # {}
                        /\ IsActiveOnDomain(x, domain) } }

(* The filters found in a list are those that should be.                     *)
LEMMA FoundMeaning ==
  ASSUME NEW list, NEW filters, Files(list, filters), AreIndexable(filters),
         NEW use, NEW allow \in BOOLEAN, NEW url \in Url, NEW type, NEW domain, NEW sitekey, NEW category
  PROVE  FindInternal(list, <<use, allow>>, url, type, domain, sitekey, category)
           = Finds(filters, <<use, allow>>, url, type, domain, sitekey, category)
<1> DEFINE index == <<use, allow>>
           places == Keywords[url] \cup {<<>>}
           Viable(f) ==
             CandidateFilterViable(f, type, domain, sitekey, category, IsThirdParty(url, domain))
           filed == UNION { Filed(list, index, k) : k \in places }
<1>2. Len(index) = 2
  OBVIOUS
<1>0. <<>> \in places /\ \A k \in Keywords[url] : k \in places
  OBVIOUS
<1>9. FindInternal(list, index, url, type, domain, sitekey, category)
        = { f \in filed : Viable(f) /\ Matches[f.pattern][url] }
  BY DEF FindInternal
<1> HIDE DEF index, places
<1>1. \A f : f \in filed <=> \E e \in list : e.filter = f /\ e.index = index /\ e.key \in places
  BY DEF Filed
<1>3. ASSUME NEW e \in list, e.index = index
      PROVE  /\ e.filter \in filters
             /\ IsUrlFilter(e.filter)
             /\ index \in IndicesOf(e.filter)
  <2>1. e.filter \in filters /\ IsFiledRight(e)
    BY <1>3 DEF Files
  <2>2. e.index # <<e.filter.type>>
    <3>1. Len(<<e.filter.type>>) = 1
      OBVIOUS
    <3> QED
      BY <1>2, <1>3, <3>1
  <2> QED
    BY <1>3, <2>1, <2>2 DEF IsFiledRight
<1>4. ASSUME NEW f \in filters, IsUrlFilter(f), index \in IndicesOf(f), Matches[f.pattern][url]
      PROVE  f \in filed
  <2>1. PICK e \in list : e.filter = f /\ e.index = index
    BY <1>4 DEF Files, IsFiled
  <2>2. CASE e.key = <<>>
    BY <1>0, <1>1, <2>1, <2>2
  <2>3. CASE e.key # <<>>
    <3>1. PICK place \in KeywordPlaces(f.pattern) : e.key = SubSeq(f.pattern, place[1], place[2])
      BY <1>4, <2>1, <2>3 DEF Files, IsFiledRight
    <3>2. PICK line \in UrlFilter : f.pattern = line.pattern /\ IsIndexable(line.pattern)
      BY <1>4 DEF AreIndexable
    <3>3. SubSeq(line.pattern, place[1], place[2]) \in Keywords[url]
      BY <1>4, <3>1, <3>2, PatternMatchHasKeywords
    <3>4. e.key \in places
      BY <1>0, <3>1, <3>2, <3>3
    <3> QED
      BY <1>1, <2>1, <3>4
  <2> QED
    BY <2>2, <2>3
<1>5. \A f : f \in filed => f \in filters /\ IsUrlFilter(f) /\ index \in IndicesOf(f)
  BY <1>1, <1>3
<1> HIDE DEF Viable, filed
<1>7. Finds(filters, index, url, type, domain, sitekey, category)
        = { f \in filters : IsUrlFilter(f) /\ index \in IndicesOf(f) /\ Viable(f) /\ Matches[f.pattern][url] }
  BY DEF Finds, Viable
<1>8. { f \in filed : Viable(f) /\ Matches[f.pattern][url] }
        = { f \in filters : IsUrlFilter(f) /\ index \in IndicesOf(f) /\ Viable(f) /\ Matches[f.pattern][url] }
  BY <1>4, <1>5
<1> QED
  BY <1>7, <1>8, <1>9 DEF index

(* The selectors found in a list are those that should be.                   *)
LEMMA SelectorsMeaning ==
  ASSUME NEW list, NEW filters, Files(list, filters), AreIndexable(filters),
         NEW type, NEW places, NEW domain
  PROVE  GetSelectorsForDomain(list, <<type>>, places, domain) = Selects(filters, type, places, domain)
<1> DEFINE filed == UNION { Filed(list, <<type>>, k) : k \in places }
           found == { x \in filters : ~IsUrlFilter(x) /\ x.type = type /\ DomainKeys(x) \cap places # {} }
<1>1. \A f : f \in filed <=> \E e \in list : e.filter = f /\ e.index = <<type>> /\ e.key \in places
  BY DEF Filed
<1>2. ASSUME NEW e \in list, e.index = <<type>>, e.key \in places
      PROVE  e.filter \in found
  <2>1. e.filter \in filters /\ IsFiledRight(e)
    BY <1>2 DEF Files
  <2>2. ~IsUrlFilter(e.filter)
    <3>1. SUFFICES ASSUME IsUrlFilter(e.filter) PROVE FALSE
      OBVIOUS
    <3>2. <<type>> \in IndicesOf(e.filter)
      BY <1>2, <2>1, <3>1 DEF IsFiledRight
    <3>3. Len(<<type>>) = 2
      <4>1. e.filter.allowing \in BOOLEAN /\ e.filter.exceptions \subseteq ExceptionType
        BY <2>1, <3>1 DEF AreIndexable, IsFilter
      <4> QED
        BY <3>2, <4>1, IndicesFinite
    <3>4. Len(<<type>>) = 1
      OBVIOUS
    <3> QED
      BY <3>3, <3>4
  <2>3. <<e.filter.type>> = <<type>> /\ e.key \in DomainKeys(e.filter)
    BY <1>2, <2>1, <2>2 DEF IsFiledRight
  <2>4. e.filter.type = type
    BY <2>3
  <2> QED
    BY <1>2, <2>1, <2>2, <2>3, <2>4
<1>3. ASSUME NEW f \in found PROVE f \in filed
  <2>1. PICK k \in DomainKeys(f) : k \in places
    BY <1>3
  <2>2. f \in filters /\ ~IsUrlFilter(f) /\ f.type = type
    BY <1>3
  <2>3. PICK e \in list : e.filter = f /\ e.index = <<f.type>> /\ e.key = k
    BY <2>1, <2>2 DEF Files, IsFiled
  <2> QED
    BY <1>1, <2>1, <2>2, <2>3
<1>4. filed = found
  BY <1>1, <1>2, <1>3
<1>5. GetSelectorsForDomain(list, <<type>>, places, domain)
        = { f.selector : f \in { x \in filed : IsActiveOnDomain(x, domain) } }
  BY DEF GetSelectorsForDomain
<1>6. Selects(filters, type, places, domain)
        = { f.selector : f \in { x \in found : IsActiveOnDomain(x, domain) } }
  <2>1. { x \in filters : /\ ~IsUrlFilter(x) /\ x.type = type
                          /\ DomainKeys(x) \cap places # {}
                          /\ IsActiveOnDomain(x, domain) }
          = { x \in found : IsActiveOnDomain(x, domain) }
    OBVIOUS
  <2> HIDE DEF found
  <2> QED
    BY <2>1 DEF Selects
<1> HIDE DEF filed, found
<1> QED
  BY <1>4, <1>5, <1>6

\* Two collections in which the same filters are found.
SameRules(c, d) ==
  /\ \A use, type, domain, sitekey, category, f : \A url \in Url, allow \in BOOLEAN :
       (\E list \in c : f \in FindInternal(list, <<use, allow>>, url, type, domain, sitekey, category))
         <=> \E list \in d :
               f \in FindInternal(list, <<use, allow>>, url, type, domain, sitekey, category)
  /\ \A type, places, domain, s :
       (\E list \in c : s \in GetSelectorsForDomain(list, <<type>>, places, domain))
         <=> \E list \in d : s \in GetSelectorsForDomain(list, <<type>>, places, domain)

\* The filters of all lists of a collection.
FiltersIn(collection) == UNION { FiltersOf(list) : list \in collection }

(* The list that all lists are merged into files the filters of all of them. *)
LEMMA MergedFiles ==
  ASSUME NEW collection, \A f \in FiltersIn(collection) : IsFilter(f)
  PROVE  Files(Merged(collection), FiltersIn(collection))
<1> DEFINE filters == FiltersIn(collection)
           Alone(f) == Serialize({}, f, TRUE)
           merged == UNION { Alone(f) : f \in filters }
<1>1. Merged(collection) = merged
  BY DEF Merged, FiltersIn
<1>2. ASSUME NEW f \in filters
      PROVE  /\ \A e \in Alone(f) : e.filter = f /\ IsFiledRight(e)
             /\ IsFiled(Alone(f), f)
  <2> DEFINE list == {}
             allow == TRUE
             then == Serialize(list, f, allow)
  <2>1. IsFiniteSet(list) /\ IsFilter(f) /\ allow \in BOOLEAN /\ IsAccepted(f, allow)
    BY FS_EmptySet DEF IsAccepted
  <2>2. \A e : e \notin list
    OBVIOUS
  <2>3. Alone(f) = then
    OBVIOUS
  <2> HIDE DEF list, allow
  <2>4. /\ \A e \in then : e \notin list => e.filter = f /\ IsFiledRight(e)
        /\ IsAccepted(f, allow) => IsFiled(then, f)
    BY <2>1, Serialized
  <2> HIDE DEF then, Alone
  <2> QED
    BY <2>1, <2>2, <2>3, <2>4
<1> HIDE DEF Alone
<1>3. \A f \in filters : Alone(f) \subseteq merged
  OBVIOUS
<1>4. \A f \in filters : IsFiled(merged, f)
  BY <1>2, <1>3, FiledStays
<1>5. \A e \in merged : e.filter \in filters /\ IsFiledRight(e)
  BY <1>2
<1> HIDE DEF merged, filters
<1> QED
  BY <1>1, <1>4, <1>5 DEF Files, filters

(* The same filters are found in the lists of a collection and in the one    *)
(* they are merged into.                                                     *)
LEMMA MergedRules ==
  ASSUME NEW collection,
         \A list \in collection : Files(list, FiltersOf(list)) /\ AreIndexable(FiltersOf(list))
  PROVE  SameRules(collection, {Merged(collection)})
<1> DEFINE merged == Merged(collection)
           filters == FiltersIn(collection)
<1>1. \A f : f \in filters <=> \E list \in collection : f \in FiltersOf(list)
  BY DEF FiltersIn
<1>2. AreIndexable(filters)
  BY <1>1 DEF AreIndexable
<1>3. Files(merged, filters)
  BY <1>2, MergedFiles DEF AreIndexable
<1> HIDE DEF merged, filters
<1>4. ASSUME NEW use, NEW type, NEW domain, NEW sitekey, NEW category, NEW f,
             NEW url \in Url, NEW allow \in BOOLEAN
      PROVE  (\E list \in collection :
                f \in FindInternal(list, <<use, allow>>, url, type, domain, sitekey, category))
               <=> f \in FindInternal(merged, <<use, allow>>, url, type, domain, sitekey, category)
  <2> DEFINE Found(list) == FindInternal(list, <<use, allow>>, url, type, domain, sitekey, category)
             Should(some) == Finds(some, <<use, allow>>, url, type, domain, sitekey, category)
  <2>1. \A list \in collection : Found(list) = Should(FiltersOf(list))
    BY FoundMeaning
  <2>2. Found(merged) = Should(filters)
    BY <1>2, <1>3, FoundMeaning
  <2>3. \A some : f \in Should(some) <=> f \in some /\ f \in Should({f})
    BY DEF Finds
  <2> HIDE DEF Found, Should
  <2>4. (\E list \in collection : f \in Found(list)) <=> f \in Found(merged)
    BY <1>1, <2>1, <2>2, <2>3
  <2> QED
    BY <2>4 DEF Found
<1>5. ASSUME NEW type, NEW places, NEW domain, NEW s
      PROVE  (\E list \in collection : s \in GetSelectorsForDomain(list, <<type>>, places, domain))
               <=> s \in GetSelectorsForDomain(merged, <<type>>, places, domain)
  <2> DEFINE Found(list) == GetSelectorsForDomain(list, <<type>>, places, domain)
             Should(some) == Selects(some, type, places, domain)
             IsSelector(f) == /\ ~IsUrlFilter(f) /\ f.type = type
                              /\ DomainKeys(f) \cap places # {}
                              /\ IsActiveOnDomain(f, domain)
                              /\ s = f.selector
  <2>1. \A list \in collection : Found(list) = Should(FiltersOf(list))
    BY SelectorsMeaning
  <2>2. Found(merged) = Should(filters)
    BY <1>2, <1>3, SelectorsMeaning
  <2>3. \A some : s \in Should(some) <=> \E f \in some : IsSelector(f)
    BY DEF Selects
  <2> HIDE DEF Found, Should, IsSelector
  <2>4. (\E list \in collection : s \in Found(list)) <=> s \in Found(merged)
    BY <1>1, <2>1, <2>2, <2>3
  <2> QED
    BY <2>4 DEF Found
<1> QED
  BY <1>4, <1>5 DEF SameRules, merged

(* With the same filters the same exceptions are found for an address, ...   *)
LEMMA SameExemption ==
  ASSUME NEW c, NEW d, SameRules(c, d), NEW kind, NEW sitekey, NEW url \in Url, NEW domain
  PROVE  (\E list \in c : HasSpecialFilter(list, kind, url, domain, sitekey))
           <=> \E list \in d : HasSpecialFilter(list, kind, url, domain, sitekey)
<1> DEFINE allow == TRUE
           Exempt(list) == HasSpecialFilter(list, kind, url, domain, sitekey)
           Found(list) == FindInternal(list, <<kind, allow>>, url, AnyType, domain, sitekey, Allowing)
<1>1. \A list : Exempt(list) <=> \E f : f \in Found(list)
  BY DEF HasSpecialFilter
<1>2. allow \in BOOLEAN
  OBVIOUS
<1> HIDE DEF allow, Exempt
<1>3. \A f : (\E list \in c : f \in Found(list)) <=> \E list \in d : f \in Found(list)
  BY <1>2 DEF SameRules
<1> HIDE DEF Found
<1>4. (\E list \in c : Exempt(list)) <=> \E list \in d : Exempt(list)
  BY <1>1, <1>3
<1> QED
  BY <1>4 DEF Exempt

(* ... and so for a request and the frames it comes from.                    *)
LEMMA SameSpecialFilter ==
  ASSUME NEW c, NEW d, SameRules(c, d), NEW r \in Request, NEW kind, NEW sitekey
  PROVE  FindBySpecialFilter(c, kind, r, sitekey) <=> FindBySpecialFilter(d, kind, r, sitekey)
<1> DEFINE Exempt(list, url, domain) == HasSpecialFilter(list, kind, url, domain, sitekey)
           Around(i) == IF i < Len(r.frames) THEN r.frames[i + 1] ELSE r.frames[i]
<1>1. ASSUME NEW url \in Url, NEW domain
      PROVE  (\E list \in c : Exempt(list, url, domain)) <=> \E list \in d : Exempt(list, url, domain)
  BY SameExemption
<1>2. r.url \in Url /\ \A i \in DOMAIN r.frames : r.frames[i] \in Url
  BY RequestAssumption
<1>3. ASSUME NEW x
      PROVE FindBySpecialFilter(x, kind, r, sitekey) <=>
              \/ \E list \in x : Exempt(list, r.url, DocumentDomain(r))
              \/ \E i \in DOMAIN r.frames : \E list \in x : Exempt(list, r.frames[i], Around(i).host)
  BY DEF FindBySpecialFilter, SubscriptionContainsSpecialFilter
<1> HIDE DEF Exempt, Around
<1> QED
  BY <1>1, <1>2, <1>3

(* With the same filters the same blocking and allowing filters are found.   *)
LEMMA SameFound ==
  ASSUME NEW c, NEW d, SameRules(c, d), NEW r \in Request, NEW use, NEW type, NEW sitekey, NEW category,
         NEW f
  PROVE  (\E list \in c :
            f \in FindInternal(list, IndexOf(use, category), r.url, type, DocumentDomain(r), sitekey, category))
           <=> \E list \in d :
            f \in FindInternal(list, IndexOf(use, category), r.url, type, DocumentDomain(r), sitekey, category)
<1> DEFINE allow == category = Allowing
           url == r.url
<1>1. allow \in BOOLEAN /\ url \in Url
  BY RequestAssumption
<1>2. IndexOf(use, category) = <<use, allow>>
  BY DEF IndexOf
<1> HIDE DEF allow
<1> QED
  BY <1>1, <1>2 DEF SameRules

(* With the same filters a request is classified the same, ...               *)
LEMMA SameRequest ==
  ASSUME NEW c, NEW d, SameRules(c, d), NEW r \in Request
  PROVE  ClassifyRequestWithSingleCollection(c, r) = ClassifyRequestWithSingleCollection(d, r)
<1>1. ASSUME NEW category
      PROVE  FindBySubresourceFilter(c, r, category) <=> FindBySubresourceFilter(d, r, category)
  <2> DEFINE Found(list) == FindInternal(list, IndexOf("subresource", category), r.url, r.type,
                                         DocumentDomain(r), r.sitekey, category)
  <2>1. \A f : (\E list \in c : f \in Found(list)) <=> \E list \in d : f \in Found(list)
    BY SameFound
  <2>2. \A x : FindBySubresourceFilter(x, r, category) <=> \E list \in x : \E f : f \in Found(list)
    BY DEF FindBySubresourceFilter, HasUrlFilter
  <2> HIDE DEF Found
  <2> QED
    BY <2>1, <2>2
<1>2. FindByAllowFilter(c, r) <=> FindByAllowFilter(d, r)
  <2> DEFINE Exempt(list, url, domain) == HasSpecialFilter(list, "document", url, domain, r.sitekey)
             Around(i) == IF i < Len(r.frames) THEN r.frames[i + 1] ELSE r.frames[i]
             Framed(x) == \E i \in DOMAIN r.frames : \E list \in x : Exempt(list, r.frames[i], Around(i).host)
  <2>1. ASSUME NEW x
        PROVE  FindByAllowFilter(x, r) <=> FindBySubresourceFilter(x, r, Allowing) \/ Framed(x)
    BY DEF FindByAllowFilter, HasAllowFilter, FindBySubresourceFilter, SubscriptionContainsSpecialFilter
  <2>2. Framed(c) <=> Framed(d)
    <3>1. ASSUME NEW url \in Url, NEW domain
          PROVE  (\E list \in c : Exempt(list, url, domain)) <=> \E list \in d : Exempt(list, url, domain)
      BY SameExemption
    <3>2. \A i \in DOMAIN r.frames : r.frames[i] \in Url
      BY RequestAssumption
    <3> HIDE DEF Exempt, Around
    <3> QED
      BY <3>1, <3>2
  <2> HIDE DEF Framed
  <2> QED
    BY <1>1, <2>1, <2>2
<1>3. FindBySpecialFilter(c, "genericblock", r, r.sitekey)
        <=> FindBySpecialFilter(d, "genericblock", r, r.sitekey)
  BY SameSpecialFilter
<1> QED
  BY <1>1, <1>2, <1>3, Zenon DEF ClassifyRequestWithSingleCollection

(* ... and a window that opens, ...                                          *)
LEMMA SamePopup ==
  ASSUME NEW c, NEW d, SameRules(c, d), NEW r \in Request
  PROVE  ClassifyPopupWithSingleCollection(c, r) = ClassifyPopupWithSingleCollection(d, r)
<1>1. ASSUME NEW category
      PROVE  FindByPopupFilter(c, r, category) <=> FindByPopupFilter(d, r, category)
  <2> DEFINE Found(list) == FindInternal(list, IndexOf("popup", category), r.url, AnyType,
                                         DocumentDomain(r), r.sitekey, category)
  <2>1. \A f : (\E list \in c : f \in Found(list)) <=> \E list \in d : f \in Found(list)
    BY SameFound
  <2>2. \A x : FindByPopupFilter(x, r, category) <=> \E list \in x : \E f : f \in Found(list)
    BY DEF FindByPopupFilter, HasPopupFilter
  <2> HIDE DEF Found
  <2> QED
    BY <2>1, <2>2
<1>2. FindBySpecialFilter(c, "document", r, r.sitekey) <=> FindBySpecialFilter(d, "document", r, r.sitekey)
  BY SameSpecialFilter
<1> QED
  BY <1>1, <1>2, Zenon DEF ClassifyPopupWithSingleCollection

(* ... and a response, ...                                                   *)
LEMMA SameResponse ==
  ASSUME NEW c, NEW d, SameRules(c, d), NEW r \in Request
  PROVE  ClassifyResponseWithSingleCollection(c, r) = ClassifyResponseWithSingleCollection(d, r)
<1>1. ASSUME NEW category
      PROVE  GetHeaderFilters(c, r, category) = GetHeaderFilters(d, r, category)
  <2> DEFINE Found(list) == FindInternal(list, IndexOf("header", category), r.url, r.type,
                                         DocumentDomain(r), NoSitekey, category)
  <2>1. \A f : (\E list \in c : f \in Found(list)) <=> \E list \in d : f \in Found(list)
    BY SameFound
  <2>2. \A x, h : h \in GetHeaderFilters(x, r, category)
                    <=> \E list \in x : \E f \in Found(list) : h = f.headers
    BY DEF GetHeaderFilters, FindHeaderFilters
  <2> HIDE DEF Found
  <2>3. \A h : h \in GetHeaderFilters(c, r, category) <=> h \in GetHeaderFilters(d, r, category)
    BY <2>1, <2>2
  <2> QED
    BY <2>3
<1>2. ASSUME NEW kind
      PROVE  FindBySpecialFilter(c, kind, r, NoSitekey) <=> FindBySpecialFilter(d, kind, r, NoSitekey)
  BY SameSpecialFilter
<1>3. ASSUME NEW x
      PROVE  ClassifyResponseWithSingleCollection(x, r) =
               IF GetHeaderFilters(x, r, Blocking) = {} THEN Ignored
               ELSE IF FindBySpecialFilter(x, "document", r, NoSitekey) THEN Allowed
               ELSE IF FindBySpecialFilter(x, "genericblock", r, NoSitekey)
               THEN CheckHeaderFiltersMatchResponseHeaders(
                      r, GetHeaderFilters(x, r, DomainSpecificBlocking), {})
               ELSE CheckHeaderFiltersMatchResponseHeaders(
                      r, GetHeaderFilters(x, r, Blocking), GetHeaderFilters(x, r, Allowing))
  BY DEF ClassifyResponseWithSingleCollection
<1> QED
  BY <1>1, <1>2, <1>3

(* ... and the same policies are added to a response.                        *)
LEMMA SamePolicies ==
  ASSUME NEW c, NEW d, SameRules(c, d), NEW r \in Request
  PROVE  GetCspInjections(c, r) = GetCspInjections(d, r)
<1> DEFINE Policies(x, category) ==
             UNION { FindCspFilters(list, r.url, DocumentDomain(r), category) : list \in x }
<1>1. ASSUME NEW category PROVE Policies(c, category) = Policies(d, category)
  <2> DEFINE Found(list) == FindInternal(list, IndexOf("csp", category), r.url, AnyType,
                                         DocumentDomain(r), NoSitekey, category)
  <2>1. \A f : (\E list \in c : f \in Found(list)) <=> \E list \in d : f \in Found(list)
    BY SameFound
  <2>2. \A x, p : p \in Policies(x, category) <=> \E list \in x : \E f \in Found(list) : p = f.csp
    BY DEF FindCspFilters
  <2> HIDE DEF Found, Policies
  <2>3. \A p : p \in Policies(c, category) <=> p \in Policies(d, category)
    BY <2>1, <2>2
  <2> QED
    BY <2>3
<1>2. ASSUME NEW kind
      PROVE  FindBySpecialFilter(c, kind, r, NoSitekey) <=> FindBySpecialFilter(d, kind, r, NoSitekey)
  BY SameSpecialFilter
<1>3. ASSUME NEW x
      PROVE  GetCspInjections(x, r) =
               IF \/ EmptyText \in Policies(x, Allowing)
                  \/ FindBySpecialFilter(x, "document", r, NoSitekey)
               THEN {}
               ELSE (IF FindBySpecialFilter(x, "genericblock", r, NoSitekey)
                     THEN Policies(x, DomainSpecificBlocking) ELSE Policies(x, Blocking))
                    \ Policies(x, Allowing)
  BY DEF GetCspInjections
<1> HIDE DEF Policies
<1> QED
  BY <1>1, <1>2, <1>3

(* The same selectors and exceptions are reduced to the same.                *)
LEMMA SameReduced ==
  ASSUME NEW found, NEW then,
         \A v : (\E s \in found : v \in s.hide) <=> \E s \in then : v \in s.hide,
         \A v : (\E s \in found : v \in s.except) <=> \E s \in then : v \in s.except
  PROVE  ReduceSelectors(found) = ReduceSelectors(then)
<1>1. UNION { s.hide : s \in found } = UNION { s.hide : s \in then }
  OBVIOUS
<1>2. UNION { s.except : s \in found } = UNION { s.except : s \in then }
  OBVIOUS
<1> QED
  BY <1>1, <1>2 DEF ReduceSelectors

(* With the same filters the same is hidden in a frame.                      *)
LEMMA SameHiding ==
  ASSUME NEW c, NEW d, SameRules(c, d), NEW r \in Request
  PROVE  /\ GetElementHideSelectors(c, r) = GetElementHideSelectors(d, r)
         /\ GetElementHideEmulationSelectors(c, r) = GetElementHideEmulationSelectors(d, r)
         /\ GenerateSnippets(c, r) = GenerateSnippets(d, r)
<1>1. \A type, places, domain, s :
        (\E list \in c : s \in GetSelectorsForDomain(list, <<type>>, places, domain))
          <=> \E list \in d : s \in GetSelectorsForDomain(list, <<type>>, places, domain)
  BY DEF SameRules
<1>2. GetElementHideSelectors(c, r) = GetElementHideSelectors(d, r)
  <2> DEFINE specific == FindBySpecialFilter(c, "generichide", r, r.sitekey)
             S(list) == GetElemhideSelectors(list, r.url, specific)
             places == GetElemhideKeys(r.url, specific)
  <2>1. \A list : /\ S(list).hide = GetSelectorsForDomain(list, <<"ElemHide">>, places, r.url.host)
                  /\ S(list).except =
                       GetSelectorsForDomain(list, <<"ElemHideException">>, places, r.url.host)
    BY DEF GetElemhideSelectors
  <2>2. FindBySpecialFilter(d, "generichide", r, r.sitekey) = specific
    <3>1. FindBySpecialFilter(d, "generichide", r, r.sitekey) <=> specific
      BY SameSpecialFilter
    <3>2. specific \in BOOLEAN /\ FindBySpecialFilter(d, "generichide", r, r.sitekey) \in BOOLEAN
      BY DEF FindBySpecialFilter
    <3> QED
      BY <3>1, <3>2
  <2>3. /\ GetElementHideSelectors(c, r) = ReduceSelectors({ S(list) : list \in c })
        /\ GetElementHideSelectors(d, r) = ReduceSelectors({ S(list) : list \in d })
    BY <2>2 DEF GetElementHideSelectors
  <2> HIDE DEF S, places
  <2>4. /\ \A v : (\E s \in { S(list) : list \in c } : v \in s.hide)
                    <=> \E s \in { S(list) : list \in d } : v \in s.hide
        /\ \A v : (\E s \in { S(list) : list \in c } : v \in s.except)
                    <=> \E s \in { S(list) : list \in d } : v \in s.except
    BY <1>1, <2>1
  <2>5. ReduceSelectors({ S(list) : list \in c }) = ReduceSelectors({ S(list) : list \in d })
    BY <2>4, SameReduced
  <2> QED
    BY <2>3, <2>5
<1>3. GetElementHideEmulationSelectors(c, r) = GetElementHideEmulationSelectors(d, r)
  <2> DEFINE S(list) == GetElemhideEmulationSelectors(list, r.url)
             places == Subdomains(r.url.host)
  <2>1. \A list : /\ S(list).hide =
                       GetSelectorsForDomain(list, <<"ElemHideEmulation">>, places, r.url.host)
                  /\ S(list).except =
                       GetSelectorsForDomain(list, <<"ElemHideException">>, places, r.url.host)
    BY DEF GetElemhideEmulationSelectors
  <2>2. /\ GetElementHideEmulationSelectors(c, r) = ReduceSelectors({ S(list) : list \in c })
        /\ GetElementHideEmulationSelectors(d, r) = ReduceSelectors({ S(list) : list \in d })
    BY DEF GetElementHideEmulationSelectors
  <2> HIDE DEF S, places
  <2>3. /\ \A v : (\E s \in { S(list) : list \in c } : v \in s.hide)
                    <=> \E s \in { S(list) : list \in d } : v \in s.hide
        /\ \A v : (\E s \in { S(list) : list \in c } : v \in s.except)
                    <=> \E s \in { S(list) : list \in d } : v \in s.except
    BY <1>1, <2>1
  <2>4. ReduceSelectors({ S(list) : list \in c }) = ReduceSelectors({ S(list) : list \in d })
    BY <2>3, SameReduced
  <2> QED
    BY <2>2, <2>4
<1>4. GenerateSnippets(c, r) = GenerateSnippets(d, r)
  <2> DEFINE Found(list) == MatchSnippets(list, DocumentDomain(r))
  <2>1. \A s : (\E list \in c : s \in Found(list)) <=> \E list \in d : s \in Found(list)
    BY <1>1 DEF MatchSnippets
  <2> HIDE DEF Found
  <2>2. UNION { Found(list) : list \in c } = UNION { Found(list) : list \in d }
    BY <2>1
  <2> QED
    BY <2>2 DEF Found, GenerateSnippets
<1> QED
  BY <1>2, <1>3, <1>4

-----------------------------------------------------------------------------
(* The same of a snapshot, and so of every state.                          *)

(* If each collection decides as the one it is replaced by, a snapshot does. *)
LEMMA SameDecisions ==
  ASSUME NEW snapshot, NEW r \in Request,
         \A c \in snapshot : SameRules(c, {Merged(c)})
  PROVE  Decisions(snapshot, r) = Decisions({ {Merged(c)} : c \in snapshot }, r)
<1> DEFINE One(c) == {Merged(c)}
           merged == { One(c) : c \in snapshot }
<1>1. \A c \in snapshot : SameRules(c, One(c))
  OBVIOUS
<1> HIDE DEF One
<1>2. ClassifyRequest(snapshot, r) = ClassifyRequest(merged, r)
  <2>1. \A c \in snapshot :
          ClassifyRequestWithSingleCollection(c, r) = ClassifyRequestWithSingleCollection(One(c), r)
    BY <1>1, SameRequest
  <2>2. { ClassifyRequestWithSingleCollection(c, r) : c \in snapshot }
          = { ClassifyRequestWithSingleCollection(c, r) : c \in merged }
    BY <2>1
  <2> QED
    BY <2>2 DEF ClassifyRequest
<1>3. ClassifyPopup(snapshot, r) = ClassifyPopup(merged, r)
  <2>1. \A c \in snapshot :
          ClassifyPopupWithSingleCollection(c, r) = ClassifyPopupWithSingleCollection(One(c), r)
    BY <1>1, SamePopup
  <2>2. { ClassifyPopupWithSingleCollection(c, r) : c \in snapshot }
          = { ClassifyPopupWithSingleCollection(c, r) : c \in merged }
    BY <2>1
  <2> QED
    BY <2>2 DEF ClassifyPopup
<1>4. ClassifyResponse(snapshot, r) = ClassifyResponse(merged, r)
  <2>1. \A c \in snapshot :
          ClassifyResponseWithSingleCollection(c, r) = ClassifyResponseWithSingleCollection(One(c), r)
    BY <1>1, SameResponse
  <2>2. { ClassifyResponseWithSingleCollection(c, r) : c \in snapshot }
          = { ClassifyResponseWithSingleCollection(c, r) : c \in merged }
    BY <2>1
  <2> QED
    BY <2>2 DEF ClassifyResponse
<1>5. CspInjections(snapshot, r) = CspInjections(merged, r)
  <2>1. \A c \in snapshot : GetCspInjections(c, r) = GetCspInjections(One(c), r)
    BY <1>1, SamePolicies
  <2>2. { GetCspInjections(c, r) : c \in snapshot } = { GetCspInjections(c, r) : c \in merged }
    BY <2>1
  <2> QED
    BY <2>2 DEF CspInjections
<1>6. PrepareElemhideEmulationData(snapshot, r) = PrepareElemhideEmulationData(merged, r)
  <2> DEFINE Document(c) == FindBySpecialFilter(c, "document", r, r.sitekey)
             Elemhide(c) == FindBySpecialFilter(c, "elemhide", r, r.sitekey)
             Running(s) == { c \in s : ~Document(c) }
             Hiding(s) == { c \in Running(s) : ~Elemhide(c) }
  <2>1. \A c \in snapshot : (Document(c) <=> Document(One(c))) /\ (Elemhide(c) <=> Elemhide(One(c)))
    BY <1>1, SameSpecialFilter
  <2>2. \A c \in snapshot :
          /\ GetElementHideSelectors(c, r) = GetElementHideSelectors(One(c), r)
          /\ GetElementHideEmulationSelectors(c, r) = GetElementHideEmulationSelectors(One(c), r)
          /\ GenerateSnippets(c, r) = GenerateSnippets(One(c), r)
    BY <1>1, SameHiding
  <2>3. \A s : PrepareElemhideEmulationData(s, r) =
                 [ stylesheet  |-> UNION { GetElementHideSelectors(c, r) : c \in Hiding(s) },
                   elemhide_js |-> UNION { GetElementHideEmulationSelectors(c, r) : c \in Hiding(s) },
                   snippet_js  |-> UNION { GenerateSnippets(c, r) : c \in Running(s) } ]
    BY DEF PrepareElemhideEmulationData
  <2> HIDE DEF Document, Elemhide
  <2>4. Running(merged) = { One(c) : c \in Running(snapshot) }
    BY <2>1
  <2>5. Hiding(merged) = { One(c) : c \in Hiding(snapshot) }
    BY <2>1
  <2>6. Running(snapshot) \subseteq snapshot /\ Hiding(snapshot) \subseteq snapshot
    OBVIOUS
  <2> HIDE DEF Running, Hiding, merged
  <2>7. { GetElementHideSelectors(c, r) : c \in Hiding(snapshot) }
          = { GetElementHideSelectors(c, r) : c \in Hiding(merged) }
    <3>1. { GetElementHideSelectors(c, r) : c \in Hiding(snapshot) }
            = { GetElementHideSelectors(c, r) : c \in { One(c) : c \in Hiding(snapshot) } }
      BY <2>2, <2>6
    <3> QED
      BY <2>5, <3>1
  <2>8. { GetElementHideEmulationSelectors(c, r) : c \in Hiding(snapshot) }
          = { GetElementHideEmulationSelectors(c, r) : c \in Hiding(merged) }
    <3>1. { GetElementHideEmulationSelectors(c, r) : c \in Hiding(snapshot) }
            = { GetElementHideEmulationSelectors(c, r) : c \in { One(c) : c \in Hiding(snapshot) } }
      BY <2>2, <2>6
    <3> QED
      BY <2>5, <3>1
  <2>9. { GenerateSnippets(c, r) : c \in Running(snapshot) }
          = { GenerateSnippets(c, r) : c \in Running(merged) }
    <3>1. { GenerateSnippets(c, r) : c \in Running(snapshot) }
            = { GenerateSnippets(c, r) : c \in { One(c) : c \in Running(snapshot) } }
      BY <2>2, <2>6
    <3> QED
      BY <2>4, <3>1
  <2> QED
    BY <2>3, <2>7, <2>8, <2>9
<1>7. Decisions(snapshot, r) = Decisions(merged, r)
  <2> HIDE DEF merged
  <2> QED
    BY <1>2, <1>3, <1>4, <1>5, <1>6 DEF Decisions
<1> QED
  BY <1>7 DEF One

(* The lists of a configuration form one set of rules.                       *)
LEMMA OneRuleset == TypeOK /\ WellFiled => ListsFormOneRuleset
<1> SUFFICES ASSUME TypeOK, WellFiled, \A p \in Written : IsIndexable(p), NEW r \in Request
             PROVE  \A d, e \in { Decisions(s, r) : s \in {Snapshot, { {Merged(c)} : c \in Snapshot }} } :
                      d = e
  BY DEF ListsFormOneRuleset
<1>1. ASSUME NEW l \in List
      PROVE  Files(lists[l], FiltersOf(lists[l])) /\ AreIndexable(FiltersOf(lists[l]))
  <2>1. ASSUME NEW f \in FiltersOf(lists[l])
        PROVE  /\ IsFilter(f)
               /\ IsUrlFilter(f) =>
                    \E line \in UrlFilter : f.pattern = line.pattern /\ IsIndexable(line.pattern)
    <3>1. PICK line \in lines[l] : f = Parsed(line) /\ f # Nothing
      BY DEF WellFiled
    <3>2. line \in Line
      BY DEF TypeOK
    <3> QED
      BY <3>1, <3>2, ParsedIsFilter DEF Written
  <2> QED
    BY <2>1 DEF AreIndexable, WellFiled
<1>2. \A c \in Snapshot : \A list \in c : \E l \in List : list = lists[l]
  BY DEF Snapshot
<1>3. \A c \in Snapshot : SameRules(c, {Merged(c)})
  BY <1>1, <1>2, MergedRules
<1> DEFINE merged == { {Merged(c)} : c \in Snapshot }
<1>4. Decisions(Snapshot, r) = Decisions(merged, r)
  BY <1>3, SameDecisions
<1> HIDE DEF merged
<1>5. \A d, e \in { Decisions(s, r) : s \in {Snapshot, merged} } : d = e
  BY <1>4
<1> QED
  BY <1>5 DEF merged

(* It makes no difference in which list of a configuration a filter is, in   *)
(* which order it was converted or under which keyword it is filed.          *)
THEOREM ListsAreOneRuleset == Spec => []ListsFormOneRuleset
BY OneRuleset, TypeCorrect, FiledCorrectly, PTL

-----------------------------------------------------------------------------
(* Options mean what they say.                                             *)

\* The options that are neither for types nor for exceptions.
OtherOption == {"match-case", "popup", "third-party", "rewrite", "domain", "sitekey", "csp", "header"}

\* Whether an option is accepted with a text.
IsAcceptedWith(key, text) ==
  /\ key \in OtherOption \cup ContentType \cup ExceptionType
  /\ key = "rewrite" => text \in Rewrite
  /\ key \in {"domain", "sitekey"} => text # EmptyText
  /\ key = "csp" => text \notin InvalidCsp

\* What an option changes in what has been read.
Changes(o, option, text, next) ==
  /\ next.valid
  /\ next.value = IF option.key = "header" THEN Unescaped[text] ELSE text
  /\ next.match_case = IF option.key = "match-case" THEN ~option.inverse ELSE o.match_case
  /\ next.popup = IF option.key = "popup" THEN TRUE ELSE o.popup
  /\ next.third_party = IF option.key = "third-party"
                        THEN IF option.inverse THEN "FirstPartyOnly" ELSE "ThirdPartyOnly"
                        ELSE o.third_party
  /\ next.rewrite = IF option.key = "rewrite" THEN text ELSE o.rewrite
  /\ next.csp = IF option.key = "csp" THEN text ELSE o.csp
  /\ next.headers = IF option.key = "header" THEN Unescaped[text] ELSE o.headers
  /\ next.domains = IF option.key = "domain" THEN DomainsIn[text] ELSE o.domains
  /\ next.sitekeys = IF option.key = "sitekey" THEN SitekeysIn[text] ELSE o.sitekeys
  /\ next.types = IF option.key \in ContentType THEN WithType(o.types, option.key, option.inverse) ELSE o.types
  /\ next.subresource = IF option.key \in ContentType THEN TRUE ELSE o.subresource
  /\ next.exceptions = IF option.key \in ExceptionType THEN o.exceptions \cup {option.key} ELSE o.exceptions

(* An option is accepted or not, and changes nothing but what it is for.     *)
LEMMA ReadOptionChanges ==
  ASSUME NEW o \in ReadOptions, NEW option \in UrlFilterOption
  PROVE  LET next == ReadOption(o, option)
             text == IF option.value = Nothing THEN o.value ELSE option.value
         IN  /\ next.valid <=> o.valid /\ IsAcceptedWith(option.key, text)
             /\ next.valid => Changes(o, option, text, next)
<1> DEFINE v == IF option.value = Nothing THEN o.value ELSE option.value
           read == [o EXCEPT !.value = v]
           next == ReadOption(o, option)
           failed == [o EXCEPT !.valid = FALSE]
           key == option.key
           Good(x) == /\ x.valid <=> o.valid /\ IsAcceptedWith(key, v)
                      /\ x.valid => Changes(o, option, v, x)
<1>1. /\ option.inverse \in BOOLEAN /\ o.valid \in BOOLEAN
      /\ key \in {"match-case", "popup", "third-party", "rewrite", "domain", "sitekey", "csp", "header"}
           => key \notin ContentType /\ key \notin ExceptionType
      /\ key \in ContentType => key \notin ExceptionType
  BY ContentTypeAssumption DEF UrlFilterOption, ReadOptions, ExceptionType
<1>2. ASSUME ~o.valid PROVE Good(next)
  <2>1. next = o
    BY <1>2 DEF ReadOption
  <2> HIDE DEF next
  <2> QED
    BY <1>2, <2>1
<1> HIDE DEF v
<1>3. ASSUME o.valid /\ key = "match-case" PROVE Good(next)
  <2>1. next = [read EXCEPT !.match_case = ~option.inverse]
    BY <1>3, ContentTypeAssumption DEF ReadOption, v, ExceptionType
  <2> HIDE DEF next
  <2> QED
    BY <1>1, <1>3, <2>1 DEF ReadOptions, Changes, IsAcceptedWith, OtherOption
<1>4. ASSUME o.valid /\ key = "popup" PROVE Good(next)
  <2>1. next = [read EXCEPT !.popup = TRUE]
    BY <1>4, ContentTypeAssumption DEF ReadOption, v, ExceptionType
  <2> HIDE DEF next
  <2> QED
    BY <1>1, <1>4, <2>1 DEF ReadOptions, Changes, IsAcceptedWith, OtherOption
<1>5. ASSUME o.valid /\ key = "third-party" PROVE Good(next)
  <2>1. next = [read EXCEPT !.third_party = IF option.inverse THEN "FirstPartyOnly" ELSE "ThirdPartyOnly"]
    BY <1>5, ContentTypeAssumption DEF ReadOption, v, ExceptionType
  <2> HIDE DEF next
  <2> QED
    BY <1>1, <1>5, <2>1 DEF ReadOptions, Changes, IsAcceptedWith, OtherOption
<1>6. ASSUME o.valid /\ key = "rewrite" PROVE Good(next)
  <2>1. next = IF v \in Rewrite THEN [read EXCEPT !.rewrite = v] ELSE failed
    BY <1>6, ContentTypeAssumption DEF ReadOption, v, ExceptionType
  <2> HIDE DEF next
  <2> QED
    BY <1>1, <1>6, <2>1 DEF ReadOptions, Changes, IsAcceptedWith, OtherOption
<1>7. ASSUME o.valid /\ key = "domain" PROVE Good(next)
  <2>1. next = IF v # EmptyText THEN [read EXCEPT !.domains = DomainsIn[v]] ELSE failed
    BY <1>7, ContentTypeAssumption DEF ReadOption, v, ExceptionType
  <2> HIDE DEF next
  <2> QED
    BY <1>1, <1>7, <2>1 DEF ReadOptions, Changes, IsAcceptedWith, OtherOption
<1>8. ASSUME o.valid /\ key = "sitekey" PROVE Good(next)
  <2>1. next = IF v # EmptyText THEN [read EXCEPT !.sitekeys = SitekeysIn[v]] ELSE failed
    BY <1>8, ContentTypeAssumption DEF ReadOption, v, ExceptionType
  <2> HIDE DEF next
  <2> QED
    BY <1>1, <1>8, <2>1 DEF ReadOptions, Changes, IsAcceptedWith, OtherOption
<1>9. ASSUME o.valid /\ key = "csp" PROVE Good(next)
  <2>1. next = IF v \notin InvalidCsp THEN [read EXCEPT !.csp = v] ELSE failed
    BY <1>9, ContentTypeAssumption DEF ReadOption, v, ExceptionType
  <2> HIDE DEF next
  <2> QED
    BY <1>1, <1>9, <2>1 DEF ReadOptions, Changes, IsAcceptedWith, OtherOption
<1>10. ASSUME o.valid /\ key = "header" PROVE Good(next)
  <2>1. next = [read EXCEPT !.headers = Unescaped[v], !.value = Unescaped[v]]
    BY <1>10, ContentTypeAssumption DEF ReadOption, v, ExceptionType
  <2> HIDE DEF next
  <2> QED
    BY <1>1, <1>10, <2>1 DEF ReadOptions, Changes, IsAcceptedWith, OtherOption
<1>11. ASSUME o.valid /\ key \in ContentType PROVE Good(next)
  <2>1. next = [read EXCEPT !.types = WithType(@, key, option.inverse), !.subresource = TRUE]
    BY <1>11, ContentTypeAssumption DEF ReadOption, v, ExceptionType
  <2> HIDE DEF next
  <2> QED
    BY <1>1, <1>11, <2>1 DEF ReadOptions, Changes, IsAcceptedWith, OtherOption
<1>12. ASSUME o.valid /\ key \in ExceptionType PROVE Good(next)
  <2>1. next = [read EXCEPT !.exceptions = @ \cup {key}]
    BY <1>12, ContentTypeAssumption DEF ReadOption, v, ExceptionType
  <2> HIDE DEF next
  <2> QED
    BY <1>1, <1>12, <2>1 DEF ReadOptions, Changes, IsAcceptedWith, OtherOption
<1>13. ASSUME o.valid /\ key \notin OtherOption \cup ContentType \cup ExceptionType PROVE Good(next)
  <2>1. next = failed
    BY <1>13 DEF ReadOption, OtherOption
  <2> HIDE DEF next
  <2> QED
    BY <1>1, <1>13, <2>1 DEF ReadOptions, IsAcceptedWith
<1>14. Good(next)
  <2> HIDE DEF Good, next
  <2> QED
    BY <1>2, <1>3, <1>4, <1>5, <1>6, <1>7, <1>8, <1>9, <1>10, <1>11, <1>12, <1>13 DEF OtherOption
<1> QED
  BY <1>14 DEF v

(* That is what the reference says of an option.                             *)
LEMMA MeaningfulIsAccepted ==
  ASSUME NEW option
  PROVE  IsMeaningful(option) <=> IsAcceptedWith(option.key, ValueOf(option))
<1> DEFINE key == option.key
           text == ValueOf(option)
<1>1. CASE key = "rewrite"
  <2>1. IsMeaningful(option) <=> text \in Rewrite
    BY <1>1 DEF IsMeaningful
  <2>2. IsAcceptedWith(key, text) <=> text \in Rewrite
    BY <1>1 DEF IsAcceptedWith, OtherOption
  <2> QED
    BY <2>1, <2>2
<1>2. CASE key \in {"domain", "sitekey"}
  <2>1. IsMeaningful(option) <=> text # EmptyText
    BY <1>2 DEF IsMeaningful
  <2>2. IsAcceptedWith(key, text) <=> text # EmptyText
    BY <1>2 DEF IsAcceptedWith, OtherOption
  <2> QED
    BY <2>1, <2>2
<1>3. CASE key = "csp"
  <2>1. IsMeaningful(option) <=> text \notin InvalidCsp
    BY <1>3 DEF IsMeaningful
  <2>2. IsAcceptedWith(key, text) <=> text \notin InvalidCsp
    BY <1>3 DEF IsAcceptedWith, OtherOption
  <2> QED
    BY <2>1, <2>2
<1>4. CASE key \notin {"rewrite", "domain", "sitekey", "csp"}
  <2> DEFINE known == ContentType \cup ExceptionType \cup {"match-case", "popup", "third-party", "header"}
  <2>1. IsMeaningful(option) <=> key \in known
    BY <1>4 DEF IsMeaningful
  <2>2. IsAcceptedWith(key, text) <=> key \in OtherOption \cup ContentType \cup ExceptionType
    BY <1>4 DEF IsAcceptedWith
  <2>3. key \in OtherOption <=> key \in {"match-case", "popup", "third-party", "header"}
    BY <1>4 DEF OtherOption
  <2> QED
    BY <2>1, <2>2, <2>3
<1> QED
  BY <1>1, <1>2, <1>3, <1>4

\* What has been read is what the options of a set say, whatever their order.
Means(read, o) ==
  /\ o.match_case <=> \E x \in read : x.key = "match-case" /\ ~x.inverse
  /\ o.popup <=> \E x \in read : x.key = "popup"
  /\ \A x \in read : x.key = "third-party" =>
       o.third_party = IF x.inverse THEN "FirstPartyOnly" ELSE "ThirdPartyOnly"
  /\ (\A x \in read : x.key # "third-party") => o.third_party = "Ignore"
  /\ \A x \in read : x.key = "rewrite" => o.rewrite = ValueOf(x)
  /\ (\A x \in read : x.key # "rewrite") => o.rewrite = Nothing
  /\ \A x \in read : x.key = "csp" => o.csp = ValueOf(x)
  /\ (\A x \in read : x.key # "csp") => o.csp = Nothing
  /\ \A x \in read : x.key = "header" => o.headers = Unescaped[ValueOf(x)]
  /\ (\A x \in read : x.key # "header") => o.headers = Nothing
  /\ \A x \in read : x.key = "domain" => o.domains = DomainsIn[ValueOf(x)]
  /\ (\A x \in read : x.key # "domain") => o.domains = {}
  /\ \A x \in read : x.key = "sitekey" => o.sitekeys = SitekeysIn[ValueOf(x)]
  /\ (\A x \in read : x.key # "sitekey") => o.sitekeys = {}
  /\ \A e : e \in o.exceptions <=> e \in ExceptionType /\ \E x \in read : x.key = e
  /\ o.subresource <=> \E x \in read : x.key \in ContentType
  /\ (\A x \in read : x.value = Nothing) => o.value = EmptyText

(* It stays so with one more option of another kind.                         *)
LEMMA OneMoreMeans ==
  ASSUME NEW read, NEW o \in ReadOptions, NEW option \in UrlFilterOption, NEW text, NEW next \in ReadOptions,
         Means(read, o), Changes(o, option, text, next),
         \A x \in read : x.key # option.key,
         option.key \in NeedsValue => text = ValueOf(option),
         (\A x \in read \cup {option} : x.value = Nothing) => text = EmptyText
  PROVE  Means(read \cup {option}, next)
<1> DEFINE all == read \cup {option}
           key == option.key
<1>0. /\ \A x \in all : x = option \/ x \in read
      /\ option \in all
      /\ \A x \in read : x \in all
  OBVIOUS
<1>1. option.inverse \in BOOLEAN
      /\ o.match_case \in BOOLEAN /\ o.popup \in BOOLEAN /\ o.subresource \in BOOLEAN
      /\ next.match_case \in BOOLEAN /\ next.popup \in BOOLEAN /\ next.subresource \in BOOLEAN
  BY DEF ReadOptions, UrlFilterOption
<1>2. /\ key = "rewrite" => text = ValueOf(option)
      /\ key = "csp" => text = ValueOf(option)
      /\ key = "header" => text = ValueOf(option)
      /\ key = "domain" => text = ValueOf(option)
      /\ key = "sitekey" => text = ValueOf(option)
  BY DEF NeedsValue
<1> HIDE DEF all
<1>3. next.match_case <=> \E x \in all : x.key = "match-case" /\ ~x.inverse
  BY <1>0, <1>1 DEF Means, Changes
<1>4. next.popup <=> \E x \in all : x.key = "popup"
  BY <1>0, <1>1 DEF Means, Changes
<1>5. /\ \A x \in all : x.key = "third-party" =>
            next.third_party = IF x.inverse THEN "FirstPartyOnly" ELSE "ThirdPartyOnly"
      /\ (\A x \in all : x.key # "third-party") => next.third_party = "Ignore"
  BY <1>0, <1>1 DEF Means, Changes
<1>6. /\ \A x \in all : x.key = "rewrite" => next.rewrite = ValueOf(x)
      /\ (\A x \in all : x.key # "rewrite") => next.rewrite = Nothing
  BY <1>0, <1>2 DEF Means, Changes
<1>7. /\ \A x \in all : x.key = "csp" => next.csp = ValueOf(x)
      /\ (\A x \in all : x.key # "csp") => next.csp = Nothing
  BY <1>0, <1>2 DEF Means, Changes
<1>8. /\ \A x \in all : x.key = "header" => next.headers = Unescaped[ValueOf(x)]
      /\ (\A x \in all : x.key # "header") => next.headers = Nothing
  BY <1>0, <1>2 DEF Means, Changes
<1>9. /\ \A x \in all : x.key = "domain" => next.domains = DomainsIn[ValueOf(x)]
      /\ (\A x \in all : x.key # "domain") => next.domains = {}
  BY <1>0, <1>2 DEF Means, Changes
<1>10. /\ \A x \in all : x.key = "sitekey" => next.sitekeys = SitekeysIn[ValueOf(x)]
       /\ (\A x \in all : x.key # "sitekey") => next.sitekeys = {}
  BY <1>0, <1>2 DEF Means, Changes
<1>11. \A e : e \in next.exceptions <=> e \in ExceptionType /\ \E x \in all : x.key = e
  BY <1>0 DEF Means, Changes
<1>12. next.subresource <=> \E x \in all : x.key \in ContentType
  BY <1>0, <1>1 DEF Means, Changes
<1>13. (\A x \in all : x.value = Nothing) => next.value = EmptyText
  BY TextAssumption DEF Changes, all
<1>14. Means(all, next)
  BY <1>3, <1>4, <1>5, <1>6, <1>7, <1>8, <1>9, <1>10, <1>11, <1>12, <1>13 DEF Means
<1> QED
  BY <1>14 DEF all

\* The types that the options of a set include and exclude.
Included(read) == { x.key : x \in { y \in read : y.key \in ContentType /\ ~y.inverse } }

Excluded(read) == { x.key : x \in { y \in read : y.key \in ContentType /\ y.inverse } }

\* The types that they say, if the first is excluded or not.
TypesNamed(read, excludes) ==
  IF \A x \in read : x.key \notin ContentType THEN {}
  ELSE IF excludes THEN Default \ Excluded(read) ELSE Included(read)

\* How the types change with one more option.
TypesGrow(read, excludes, option, then) ==
  LET types == TypesNamed(read, excludes)
      all == read \cup {option}
  IN  /\ TypesNamed(all, then) =
           IF option.key \in ContentType THEN WithType(types, option.key, option.inverse) ELSE types
      /\ then => \E x \in all : x.key \in ContentType
      /\ ~then /\ (\E x \in all : x.key \in ContentType) => Included(all) # {}

(* They do so if the option is of another kind.                              *)
LEMMA OneMoreType ==
  ASSUME NEW read, read \subseteq UrlFilterOption, NEW option \in UrlFilterOption,
         \A x \in read : x.key # option.key,
         NEW excludes \in BOOLEAN, NEW then \in BOOLEAN,
         then <=> \/ excludes
                  \/ /\ option.key \in ContentType /\ option.inverse
                     /\ \A x \in read : x.key \notin ContentType,
         excludes => \E x \in read : x.key \in ContentType,
         ~excludes /\ (\E x \in read : x.key \in ContentType) => Included(read) # {}
  PROVE  TypesGrow(read, excludes, option, then)
<1> DEFINE types == TypesNamed(read, excludes)
           all == read \cup {option}
           key == option.key
<1>0. /\ \A x \in all : x = option \/ x \in read
      /\ option \in all
      /\ \A x \in read : x \in all
  OBVIOUS
<1>1. option.inverse \in BOOLEAN
  BY DEF UrlFilterOption
<1>2. \A some, k :
        /\ k \in Included(some) <=> k \in ContentType /\ \E x \in some : x.key = k /\ ~x.inverse
        /\ k \in Excluded(some) <=> k \in ContentType /\ \E x \in some : x.key = k /\ x.inverse
  BY DEF Included, Excluded
<1>3. key \notin Included(read) /\ key \notin Excluded(read)
  BY <1>2
<1> HIDE DEF all
<1>4. CASE key \notin ContentType
  <2>1. (\A k : k \in Included(all) <=> k \in Included(read))
        /\ \A k : k \in Excluded(all) <=> k \in Excluded(read)
    BY <1>0, <1>2, <1>4
  <2>2. Included(all) = Included(read) /\ Excluded(all) = Excluded(read)
    BY <2>1
  <2>3. (\A x \in all : x.key \notin ContentType) <=> \A x \in read : x.key \notin ContentType
    BY <1>0, <1>4
  <2>4. then <=> excludes
    BY <1>4
  <2> QED
    BY <1>0, <1>4, <2>2, <2>3, <2>4 DEF all, TypesGrow, TypesNamed
<1>5. CASE key \in ContentType
  <2>1. ~(\A x \in all : x.key \notin ContentType)
    BY <1>0, <1>5
  <2>2. CASE option.inverse
    <3>1. (\A k : k \in Included(all) <=> k \in Included(read))
          /\ \A k : k \in Excluded(all) <=> k \in Excluded(read) \/ k = key
      BY <1>0, <1>2, <1>5, <2>2
    <3>2. Included(all) = Included(read) /\ Excluded(all) = Excluded(read) \cup {key}
      BY <3>1
    <3>3. CASE \A x \in read : x.key \notin ContentType
      <4>1. then /\ types = {} /\ Excluded(read) = {}
        BY <1>2, <1>5, <2>2, <3>3 DEF TypesNamed
      <4> QED
        BY <1>0, <1>5, <2>1, <2>2, <3>2, <4>1 DEF TypesGrow, TypesNamed, WithType, all
    <3>4. CASE excludes /\ \E x \in read : x.key \in ContentType
      <4>1. then /\ types = Default \ Excluded(read) /\ Unnamed \in types
        BY <1>2, <3>4, ContentTypeAssumption DEF TypesNamed, Default
      <4> QED
        BY <1>0, <1>5, <2>1, <2>2, <3>2, <4>1 DEF TypesGrow, TypesNamed, WithType, all
    <3>5. CASE ~excludes /\ \E x \in read : x.key \in ContentType
      <4>1. ~then /\ types = Included(read) /\ types # {} /\ key \notin types
        BY <1>3, <3>5 DEF TypesNamed
      <4> QED
        BY <1>0, <1>5, <2>1, <2>2, <3>2, <4>1 DEF TypesGrow, TypesNamed, WithType, all
    <3> QED
      BY <3>3, <3>4, <3>5
  <2>3. CASE ~option.inverse
    <3>1. (\A k : k \in Included(all) <=> k \in Included(read) \/ k = key)
          /\ \A k : k \in Excluded(all) <=> k \in Excluded(read)
      BY <1>0, <1>2, <1>5, <2>3
    <3>2. Included(all) = Included(read) \cup {key} /\ Excluded(all) = Excluded(read)
      BY <3>1
    <3>3. CASE \A x \in read : x.key \notin ContentType
      <4>1. ~then /\ types = {} /\ Included(read) = {}
        BY <1>2, <2>3, <3>3 DEF TypesNamed
      <4> QED
        BY <1>0, <1>5, <2>1, <2>3, <3>2, <4>1 DEF TypesGrow, TypesNamed, WithType, all
    <3>4. CASE excludes /\ \E x \in read : x.key \in ContentType
      <4>1. then /\ types = Default \ Excluded(read) /\ key \in types
        BY <1>3, <1>5, <3>4 DEF TypesNamed, Default
      <4> QED
        BY <1>0, <1>5, <2>1, <2>3, <3>2, <4>1 DEF TypesGrow, TypesNamed, WithType, all
    <3>5. CASE ~excludes /\ \E x \in read : x.key \in ContentType
      <4>1. ~then /\ types = Included(read)
        BY <3>5 DEF TypesNamed
      <4> QED
        BY <1>0, <1>5, <2>1, <2>3, <3>2, <4>1 DEF TypesGrow, TypesNamed, WithType, all
    <3> QED
      BY <3>3, <3>4, <3>5
  <2> QED
    BY <2>2, <2>3
<1> QED
  BY <1>4, <1>5

\* The first n options, and whether the first type in them is excluded.
First(options, n) == { options[i] : i \in 1..n }

FirstExcludes(options, n) ==
  \E i \in 1..n : /\ options[i].key \in ContentType /\ options[i].inverse
                  /\ \A j \in 1..(i - 1) : options[j].key \notin ContentType

\* What has been read of some options is accepted if each of them is meaningful,
\* and is then what they say.
ReadRight(read, excludes, o) ==
  /\ o \in ReadOptions
  /\ o.valid <=> \A x \in read : IsMeaningful(x)
  /\ o.valid =>
       /\ Means(read, o)
       /\ o.types = TypesNamed(read, excludes)
       /\ excludes => \E x \in read : x.key \in ContentType
       /\ ~excludes /\ (\E x \in read : x.key \in ContentType) => Included(read) # {}

(* With one more option of another kind it still is.                         *)
LEMMA OneMoreRead ==
  ASSUME NEW read, read \subseteq UrlFilterOption, NEW excludes \in BOOLEAN, NEW o,
         ReadRight(read, excludes, o), NEW option \in UrlFilterOption, NEW then \in BOOLEAN,
         \A x \in read : x.key # option.key,
         option.key \in NeedsValue /\ option.value = Nothing => \A x \in read : x.value = Nothing,
         then <=> \/ excludes
                  \/ /\ option.key \in ContentType /\ option.inverse
                     /\ \A x \in read : x.key \notin ContentType
  PROVE  ReadRight(read \cup {option}, then, ReadOption(o, option))
<1> DEFINE next == ReadOption(o, option)
           text == IF option.value = Nothing THEN o.value ELSE option.value
           all == read \cup {option}
<1>1. o \in ReadOptions /\ o.valid \in BOOLEAN
  BY DEF ReadRight, ReadOptions
<1>2. next \in ReadOptions /\ next.valid \in BOOLEAN
  <2>1. next \in ReadOptions
    BY <1>1, ReadOptionTyped
  <2> HIDE DEF next
  <2> QED
    BY <2>1 DEF ReadOptions
<1>3. /\ next.valid <=> o.valid /\ IsAcceptedWith(option.key, text)
      /\ next.valid => Changes(o, option, text, next)
  BY <1>1, ReadOptionChanges
<1>4. ASSUME o.valid PROVE option.key \in NeedsValue => text = ValueOf(option)
  BY <1>4 DEF ReadRight, Means, ValueOf
<1>5. ASSUME o.valid, \A x \in read \cup {option} : x.value = Nothing PROVE text = EmptyText
  BY <1>5 DEF ReadRight, Means
<1> HIDE DEF next, text
<1>6. ASSUME o.valid
      PROVE  IsAcceptedWith(option.key, text) <=> IsMeaningful(option)
  <2>1. IsMeaningful(option) <=> IsAcceptedWith(option.key, ValueOf(option))
    BY MeaningfulIsAccepted
  <2>2. CASE option.key \in NeedsValue
    BY <1>4, <1>6, <2>1, <2>2
  <2>3. CASE option.key \notin NeedsValue
    BY <2>1, <2>3 DEF IsAcceptedWith, NeedsValue
  <2> QED
    BY <2>2, <2>3
<1>7. next.valid <=> \A x \in all : IsMeaningful(x)
  BY <1>1, <1>2, <1>3, <1>6 DEF ReadRight
<1>8. ASSUME next.valid PROVE Means(all, next)
  <2>1. o.valid /\ Means(read, o) /\ Changes(o, option, text, next)
    BY <1>1, <1>3, <1>8 DEF ReadRight
  <2>2. option.key \in NeedsValue => text = ValueOf(option)
    BY <1>4, <2>1
  <2>3. (\A x \in read \cup {option} : x.value = Nothing) => text = EmptyText
    BY <1>5, <2>1
  <2> QED
    BY <1>1, <1>2, <2>1, <2>2, <2>3, OneMoreMeans
<1>9. ASSUME next.valid
      PROVE  /\ next.types = TypesNamed(all, then)
             /\ then => \E x \in all : x.key \in ContentType
             /\ ~then /\ (\E x \in all : x.key \in ContentType) => Included(all) # {}
  <2>1. o.valid /\ Changes(o, option, text, next)
    BY <1>1, <1>3, <1>9
  <2>2. /\ o.types = TypesNamed(read, excludes)
        /\ excludes => \E x \in read : x.key \in ContentType
        /\ ~excludes /\ (\E x \in read : x.key \in ContentType) => Included(read) # {}
    BY <2>1 DEF ReadRight
  <2>3. /\ TypesNamed(all, then) =
             IF option.key \in ContentType
             THEN WithType(TypesNamed(read, excludes), option.key, option.inverse)
             ELSE TypesNamed(read, excludes)
        /\ then => \E x \in all : x.key \in ContentType
        /\ ~then /\ (\E x \in all : x.key \in ContentType) => Included(all) # {}
    <3>1. TypesGrow(read, excludes, option, then)
      BY <2>2, OneMoreType
    <3> QED
      BY <3>1 DEF TypesGrow
  <2>4. next.types =
          IF option.key \in ContentType THEN WithType(o.types, option.key, option.inverse) ELSE o.types
    BY <2>1 DEF Changes
  <2> QED
    BY <2>2, <2>3, <2>4
<1>10. ReadRight(all, then, next)
  <2> HIDE DEF all
  <2> QED
    BY <1>2, <1>7, <1>8, <1>9 DEF ReadRight
<1> QED
  BY <1>10 DEF next

(* So all options are read right, if none is there twice and none that lacks *)
(* its value comes after another value.                                      *)
LEMMA AllReadRight ==
  ASSUME NEW options \in Seq(UrlFilterOption), IsUnambiguous(options)
  PROVE  ReadRight(First(options, Len(options)), FirstExcludes(options, Len(options)),
                   Reading(options)[Len(options)])
<1> DEFINE Right(n) == ReadRight(First(options, n), FirstExcludes(options, n), Reading(options)[n])
           S == { n \in Nat : n <= Len(options) => Right(n) }
<1>1. /\ Reading(options)[0] = Unread
      /\ \A n \in 1..Len(options) :
           Reading(options)[n] = ReadOption(Reading(options)[n - 1], options[n])
  BY ReadingDef
<1>2. 0 \in S
  <2>1. First(options, 0) = {} /\ ~FirstExcludes(options, 0)
    BY DEF First, FirstExcludes
  <2>2. Unread \in ReadOptions
    BY TextAssumption DEF ReadOptions, Unread
  <2>3. Unread.valid /\ Means({}, Unread) /\ Unread.types = TypesNamed({}, FALSE)
    BY DEF Unread, Means, TypesNamed
  <2>4. Right(0)
    BY <1>1, <2>1, <2>2, <2>3 DEF ReadRight, TypesNamed
  <2> HIDE DEF Right
  <2> QED
    BY <2>4
<1>3. ASSUME NEW n \in Nat, n \in S PROVE n + 1 \in S
  <2>1. SUFFICES ASSUME n + 1 <= Len(options) PROVE Right(n + 1)
    OBVIOUS
  <2> DEFINE option == options[n + 1]
             read == First(options, n)
             excludes == FirstExcludes(options, n)
             then == FirstExcludes(options, n + 1)
             o == Reading(options)[n]
  <2>2. ReadRight(read, excludes, o) /\ option \in UrlFilterOption
    BY <1>3, <2>1
  <2>3. Reading(options)[n + 1] = ReadOption(o, option)
    BY <1>1, <2>1
  <2>4. read \subseteq UrlFilterOption /\ First(options, n + 1) = read \cup {option}
    BY <2>1 DEF First
  <2>5. excludes \in BOOLEAN /\ then \in BOOLEAN
    BY DEF FirstExcludes
  <2>6. /\ \A x \in read : x.key # option.key
        /\ option.key \in NeedsValue /\ option.value = Nothing => \A x \in read : x.value = Nothing
    <3>1. n + 1 \in DOMAIN options /\ \A j \in 1..n : j \in 1..((n + 1) - 1)
      BY <2>1
    <3>2. \A j \in 1..n :
            /\ options[n + 1].key # options[j].key
            /\ options[n + 1].key \in NeedsValue /\ options[n + 1].value = Nothing => options[j].value = Nothing
      BY <3>1 DEF IsUnambiguous
    <3> QED
      BY <3>2 DEF First
  <2>7. then <=> \/ excludes
                 \/ /\ option.key \in ContentType /\ option.inverse
                    /\ \A x \in read : x.key \notin ContentType
    <3>1. (\A x \in read : x.key \notin ContentType) <=> \A j \in 1..((n + 1) - 1) : options[j].key \notin ContentType
      BY DEF First
    <3>2. \A i \in 1..(n + 1) : i \in 1..n \/ i = n + 1
      OBVIOUS
    <3>3. n + 1 \in 1..(n + 1) /\ \A i \in 1..n : i \in 1..(n + 1)
      OBVIOUS
    <3> HIDE DEF read
    <3> QED
      BY <3>1, <3>2, <3>3 DEF FirstExcludes
  <2> HIDE DEF read, excludes, then, o, option
  <2>8. ReadRight(read \cup {option}, then, ReadOption(o, option))
    BY <2>2, <2>4, <2>5, <2>6, <2>7, OneMoreRead
  <2> QED
    BY <2>3, <2>4, <2>8 DEF then
<1>4. Len(options) \in S
  <2> HIDE DEF S
  <2> QED
    BY <1>2, <1>3, NatInductionOverSet
<1> QED
  BY <1>4

\* What the reference says of what is parsed from options.
ParsedRight(options, all) ==
  LET o == ParseOptions(options)
      types_named == \E x \in all : x.key \in ContentType
  IN  /\ o.valid <=> \A x \in all : IsMeaningful(x)
      /\ o.valid =>
           /\ Means(all, [o EXCEPT !.subresource = types_named])
           /\ o.types = IF ~types_named \/ FirstExcludes(options, Len(options))
                        THEN Default \ Excluded(all) ELSE Included(all)
           /\ o.subresource <=>
                types_named \/ \A x \in all : x.key \in {"match-case", "third-party", "domain", "sitekey"}
           /\ o.match_case \in BOOLEAN /\ o.popup \in BOOLEAN
           /\ o.exceptions \subseteq ExceptionType

(* What is parsed from the options is that, ...                              *)
LEMMA ParsedOptionsMean ==
  ASSUME NEW options \in Seq(UrlFilterOption), IsUnambiguous(options),
         NEW all, all = First(options, Len(options))
  PROVE  ParsedRight(options, all)
<1> DEFINE o == ParseOptions(options)
           r == Reading(options)[Len(options)]
           excludes == FirstExcludes(options, Len(options))
           named == \E x \in all : x.key \in ContentType
           unused == r.exceptions = {} /\ ~r.popup /\ {r.csp, r.rewrite, r.headers} = {Nothing}
<1>1. ReadRight(all, excludes, r)
  BY AllReadRight
<1>2. o = [r EXCEPT !.subresource = @ \/ unused,
                    !.types = IF @ = {} THEN Default ELSE @]
  BY DEF ParseOptions
<1>3. all \subseteq UrlFilterOption
  BY DEF First
<1> HIDE DEF o, r, excludes
<1>4. r \in ReadOptions
  BY <1>1 DEF ReadRight
<1>5. /\ o.valid = r.valid /\ o.match_case = r.match_case /\ o.popup = r.popup
      /\ o.third_party = r.third_party /\ o.exceptions = r.exceptions
      /\ o.rewrite = r.rewrite /\ o.csp = r.csp /\ o.headers = r.headers
      /\ o.domains = r.domains /\ o.sitekeys = r.sitekeys /\ o.value = r.value
      /\ o.subresource = (r.subresource \/ unused)
      /\ o.types = IF r.types = {} THEN Default ELSE r.types
  BY <1>2, <1>4 DEF ReadOptions
<1>6. /\ r.valid \in BOOLEAN /\ r.match_case \in BOOLEAN /\ r.popup \in BOOLEAN
      /\ r.subresource \in BOOLEAN /\ r.exceptions \subseteq ExceptionType
  BY <1>4 DEF ReadOptions
<1>7. o.valid <=> \A x \in all : IsMeaningful(x)
  BY <1>1, <1>5 DEF ReadRight
<1>8. ASSUME o.valid PROVE Means(all, [o EXCEPT !.subresource = named])
  <2>1. Means(all, r)
    BY <1>1, <1>5, <1>8 DEF ReadRight
  <2>2. r.subresource = named
    BY <1>6, <2>1 DEF Means
  <2>3. [o EXCEPT !.subresource = named] = [r EXCEPT !.types = o.types]
    BY <1>2, <1>4, <2>2 DEF ReadOptions
  <2> DEFINE p == [r EXCEPT !.types = o.types]
  <2>4. /\ p.match_case = r.match_case /\ p.popup = r.popup
        /\ p.third_party = r.third_party /\ p.exceptions = r.exceptions
        /\ p.rewrite = r.rewrite /\ p.csp = r.csp /\ p.headers = r.headers
        /\ p.domains = r.domains /\ p.sitekeys = r.sitekeys /\ p.value = r.value
        /\ p.subresource = r.subresource
    BY <1>4 DEF ReadOptions
  <2> HIDE DEF p
  <2>5. Means(all, p)
    BY <2>1, <2>4 DEF Means
  <2> QED
    BY <2>3, <2>5 DEF p
<1>9. ASSUME o.valid
      PROVE  o.types = IF ~named \/ excludes
                       THEN Default \ Excluded(all) ELSE Included(all)
  <2>1. /\ r.types = TypesNamed(all, excludes)
        /\ excludes => named
        /\ ~excludes /\ named => Included(all) # {}
    BY <1>1, <1>5, <1>9 DEF ReadRight
  <2>2. CASE ~named
    <3>1. r.types = {} /\ Excluded(all) = {}
      BY <2>1, <2>2 DEF TypesNamed, Excluded
    <3> QED
      BY <1>5, <2>2, <3>1
  <2>3. CASE named /\ excludes
    <3>1. r.types = Default \ Excluded(all)
      BY <2>1, <2>3 DEF TypesNamed
    <3>2. Unnamed \in r.types
      BY <3>1, ContentTypeAssumption DEF Default, Excluded
    <3> QED
      BY <1>5, <2>3, <3>1, <3>2
  <2>4. CASE named /\ ~excludes
    <3>1. r.types = Included(all)
      BY <2>1, <2>4 DEF TypesNamed
    <3> QED
      BY <1>5, <2>1, <2>4, <3>1
  <2> QED
    BY <2>2, <2>3, <2>4
<1>10. ASSUME o.valid
       PROVE  o.subresource <=>
                named \/ \A x \in all : x.key \in {"match-case", "third-party", "domain", "sitekey"}
  <2>1. Means(all, r)
    BY <1>1, <1>5, <1>10 DEF ReadRight
  <2>2. ASSUME NEW x \in all
        PROVE  /\ x.key \in OtherOption \cup ContentType \cup ExceptionType
               /\ ValueOf(x) # Nothing
               /\ Unescaped[ValueOf(x)] # Nothing
    <3>1. IsAcceptedWith(x.key, ValueOf(x))
      BY <1>7, <1>10, MeaningfulIsAccepted
    <3>2. ValueOf(x) \in Text
      BY <1>3, TextAssumption DEF UrlFilterOption, ValueOf
    <3>3. Unescaped[ValueOf(x)] \in Text
      BY <3>2, TextAssumption
    <3> QED
      BY <3>1, <3>2, <3>3, TextAssumption DEF IsAcceptedWith
  <2>3. r.csp = Nothing <=> \A x \in all : x.key # "csp"
    BY <2>1, <2>2 DEF Means
  <2>4. r.rewrite = Nothing <=> \A x \in all : x.key # "rewrite"
    BY <2>1, <2>2 DEF Means
  <2>5. r.headers = Nothing <=> \A x \in all : x.key # "header"
    BY <2>1, <2>2 DEF Means
  <2>6. r.popup <=> \E x \in all : x.key = "popup"
    BY <2>1 DEF Means
  <2>7. r.exceptions = {} <=> \A x \in all : x.key \notin ExceptionType
    BY <2>1 DEF Means
  <2>8. r.subresource <=> named
    BY <2>1 DEF Means
  <2>9. {r.csp, r.rewrite, r.headers} = {Nothing}
          <=> r.csp = Nothing /\ r.rewrite = Nothing /\ r.headers = Nothing
    OBVIOUS
  <2>10. ASSUME ~named
         PROVE  unused <=> \A x \in all : x.key \in {"match-case", "third-party", "domain", "sitekey"}
    <3>1. \A x \in all : x.key \in OtherOption \cup ExceptionType
      BY <2>2, <2>10
    <3>2. OtherOption \cap ExceptionType = {}
      BY DEF OtherOption, ExceptionType
    <3>3. unused <=> \A x \in all : x.key \notin {"csp", "rewrite", "header", "popup"} \cup ExceptionType
      BY <2>3, <2>4, <2>5, <2>6, <2>7, <2>9
    <3> HIDE DEF unused
    <3> QED
      BY <3>1, <3>2, <3>3 DEF OtherOption
  <2> QED
    BY <1>5, <2>8, <2>10
<1> QED
  BY <1>5, <1>6, <1>7, <1>8, <1>9, <1>10 DEF o, excludes, ParsedRight

(* ... for every line of a URL filter.                                       *)
LEMMA LineMeans == TypeOK => OptionsMeanWhatTheySay
<1> SUFFICES ASSUME TypeOK,
                    NEW line \in { x \in UNION { lines[l] : l \in List } :
                                   IsUrlFilter(x) /\ x.options # Nothing /\ IsUnambiguous(x.options) }
             PROVE
    LET options == line.options
        o == ParseOptions(options)
        Keys(inverse) == { p.key : p \in { x \in OptionsOf(line) : x.inverse \in inverse } }
        Has(key) == key \in Keys(BOOLEAN)
        Value(key) == { ValueOf(x) : x \in { y \in OptionsOf(line) : y.key = key } }
        named == Keys(BOOLEAN) \cap ContentType
        firstExcludes == \E i \in DOMAIN options :
          /\ options[i].key \in ContentType /\ options[i].inverse
          /\ \A j \in 1..(i - 1) : options[j].key \notin ContentType
    IN  /\ o.valid <=> \A x \in OptionsOf(line) : IsMeaningful(x)
        /\ o.valid =>
             /\ o.types = IF named = {} \/ firstExcludes
                         THEN Default \ (named \cap Keys({TRUE}))
                         ELSE named \cap Keys({FALSE})
             /\ o.exceptions = Keys(BOOLEAN) \cap ExceptionType
             /\ o.popup = Has("popup")
             /\ o.match_case = ("match-case" \in Keys({FALSE}))
             /\ o.third_party = CASE "third-party" \in Keys({TRUE}) -> "FirstPartyOnly"
                                  [] "third-party" \in Keys({FALSE}) -> "ThirdPartyOnly"
                                  [] OTHER -> "Ignore"
             /\ {o.rewrite} = OrNothing(Value("rewrite"))
             /\ {o.csp} = OrNothing(Value("csp"))
             /\ {o.headers} = OrNothing({ Unescaped[v] : v \in Value("header") })
             /\ o.domains = UNION { DomainsIn[v] : v \in Value("domain") }
             /\ o.sitekeys = UNION { SitekeysIn[v] : v \in Value("sitekey") }
             /\ o.subresource <=>
                  named # {} \/ Keys(BOOLEAN) \subseteq
                                 {"match-case", "third-party", "domain", "sitekey"}
  BY DEF OptionsMeanWhatTheySay
<1> DEFINE options == line.options
           o == ParseOptions(options)
           all == OptionsOf(line)
           Keys(inverse) == { p.key : p \in { x \in all : x.inverse \in inverse } }
           Value(key) == { ValueOf(x) : x \in { y \in all : y.key = key } }
           named == Keys(BOOLEAN) \cap ContentType
           firstExcludes == \E i \in DOMAIN options :
             /\ options[i].key \in ContentType /\ options[i].inverse
             /\ \A j \in 1..(i - 1) : options[j].key \notin ContentType
           valued == [o EXCEPT !.subresource = \E x \in all : x.key \in ContentType]
<1>1. line \in UrlFilter
  <2>1. line \in Line
    BY DEF TypeOK
  <2> QED
    BY <2>1, ContentFilterAssumption DEF Line, IsUrlFilter
<1>2. options \in Seq(UrlFilterOption) /\ IsUnambiguous(options)
  BY <1>1, UrlFilterAssumption
<1>3. all = First(options, Len(options)) /\ all \subseteq UrlFilterOption
  BY <1>2 DEF OptionsOf, ToSet, First
<1>4. firstExcludes <=> FirstExcludes(options, Len(options))
  BY <1>2 DEF FirstExcludes
<1> HIDE DEF options, all, firstExcludes
<1>5. /\ o.valid <=> \A x \in all : IsMeaningful(x)
      /\ o.valid =>
           /\ Means(all, valued)
           /\ o.types = IF (\A x \in all : x.key \notin ContentType) \/ FirstExcludes(options, Len(options))
                        THEN Default \ Excluded(all) ELSE Included(all)
           /\ o.subresource <=>
                \/ \E x \in all : x.key \in ContentType
                \/ \A x \in all : x.key \in {"match-case", "third-party", "domain", "sitekey"}
           /\ o.match_case \in BOOLEAN /\ o.popup \in BOOLEAN
           /\ o.exceptions \subseteq ExceptionType
  <2>1. ParsedRight(options, all)
    BY <1>2, <1>3, ParsedOptionsMean
  <2> QED
    BY <2>1 DEF ParsedRight
<1>6. \A k : /\ k \in Keys(BOOLEAN) <=> \E x \in all : x.key = k
             /\ k \in Keys({TRUE}) <=> \E x \in all : x.key = k /\ x.inverse
             /\ k \in Keys({FALSE}) <=> \E x \in all : x.key = k /\ ~x.inverse
  BY <1>3 DEF UrlFilterOption
<1>7. \A k, v : v \in Value(k) <=> \E x \in all : x.key = k /\ v = ValueOf(x)
  OBVIOUS
<1>9. /\ valued.match_case = o.match_case /\ valued.popup = o.popup
      /\ valued.third_party = o.third_party /\ valued.exceptions = o.exceptions
      /\ valued.rewrite = o.rewrite /\ valued.csp = o.csp /\ valued.headers = o.headers
      /\ valued.domains = o.domains /\ valued.sitekeys = o.sitekeys
  BY DEF ParseOptions
<1> HIDE DEF o, Keys, Value, valued
<1>8. named = {} <=> \A x \in all : x.key \notin ContentType
  BY <1>6
<1>10. ASSUME o.valid
       PROVE  o.types = IF named = {} \/ firstExcludes
                        THEN Default \ (named \cap Keys({TRUE})) ELSE named \cap Keys({FALSE})
  <2>1. \A k : /\ k \in named \cap Keys({TRUE}) <=> k \in Excluded(all)
               /\ k \in named \cap Keys({FALSE}) <=> k \in Included(all)
    BY <1>6 DEF Excluded, Included
  <2>2. named \cap Keys({TRUE}) = Excluded(all) /\ named \cap Keys({FALSE}) = Included(all)
    BY <2>1
  <2> QED
    BY <1>4, <1>5, <1>8, <1>10, <2>2
<1>11. ASSUME o.valid
       PROVE  /\ o.exceptions = Keys(BOOLEAN) \cap ExceptionType
              /\ o.popup = ("popup" \in Keys(BOOLEAN))
              /\ o.match_case = ("match-case" \in Keys({FALSE}))
  <2>1. Means(all, valued)
    BY <1>5, <1>11
  <2>2. \A e : e \in o.exceptions <=> e \in Keys(BOOLEAN) \cap ExceptionType
    BY <1>6, <1>9, <2>1 DEF Means
  <2>3. o.popup <=> "popup" \in Keys(BOOLEAN)
    BY <1>6, <1>9, <2>1 DEF Means
  <2>4. o.match_case <=> "match-case" \in Keys({FALSE})
    BY <1>6, <1>9, <2>1 DEF Means
  <2> QED
    BY <1>5, <1>11, <2>2, <2>3, <2>4
<1>12. ASSUME o.valid
       PROVE  o.third_party = CASE "third-party" \in Keys({TRUE}) -> "FirstPartyOnly"
                                [] "third-party" \in Keys({FALSE}) -> "ThirdPartyOnly"
                                [] OTHER -> "Ignore"
  <2>1. Means(all, valued)
    BY <1>5, <1>12
  <2>2. /\ "third-party" \in Keys({TRUE}) => o.third_party = "FirstPartyOnly"
        /\ "third-party" \in Keys({FALSE}) => o.third_party = "ThirdPartyOnly"
        /\ "third-party" \notin Keys({TRUE}) /\ "third-party" \notin Keys({FALSE}) => o.third_party = "Ignore"
    BY <1>6, <1>9, <2>1 DEF Means
  <2> QED
    BY <2>2
<1>13. ASSUME o.valid
       PROVE  /\ {o.rewrite} = OrNothing(Value("rewrite"))
              /\ {o.csp} = OrNothing(Value("csp"))
              /\ {o.headers} = OrNothing({ Unescaped[v] : v \in Value("header") })
              /\ o.domains = UNION { DomainsIn[v] : v \in Value("domain") }
              /\ o.sitekeys = UNION { SitekeysIn[v] : v \in Value("sitekey") }
  <2>1. Means(all, valued)
    BY <1>5, <1>13
  <2>2. {o.rewrite} = OrNothing(Value("rewrite"))
    <3>1. CASE \E x \in all : x.key = "rewrite"
      <4>1. \A v : v \in Value("rewrite") <=> v = o.rewrite
        BY <1>7, <1>9, <2>1, <3>1 DEF Means
      <4>2. Value("rewrite") = {o.rewrite}
        BY <4>1
      <4> QED
        BY <4>2 DEF OrNothing
    <3>2. CASE \A x \in all : x.key # "rewrite"
      <4>1. Value("rewrite") = {} /\ o.rewrite = Nothing
        BY <1>7, <1>9, <2>1, <3>2 DEF Means
      <4> QED
        BY <4>1 DEF OrNothing
    <3> QED
      BY <3>1, <3>2
  <2>3. {o.csp} = OrNothing(Value("csp"))
    <3>1. CASE \E x \in all : x.key = "csp"
      <4>1. \A v : v \in Value("csp") <=> v = o.csp
        BY <1>7, <1>9, <2>1, <3>1 DEF Means
      <4>2. Value("csp") = {o.csp}
        BY <4>1
      <4> QED
        BY <4>2 DEF OrNothing
    <3>2. CASE \A x \in all : x.key # "csp"
      <4>1. Value("csp") = {} /\ o.csp = Nothing
        BY <1>7, <1>9, <2>1, <3>2 DEF Means
      <4> QED
        BY <4>1 DEF OrNothing
    <3> QED
      BY <3>1, <3>2
  <2>4. {o.headers} = OrNothing({ Unescaped[v] : v \in Value("header") })
    <3>1. CASE \E x \in all : x.key = "header"
      <4>1. \A w : w \in { Unescaped[v] : v \in Value("header") } <=> w = o.headers
        BY <1>7, <1>9, <2>1, <3>1 DEF Means
      <4>2. { Unescaped[v] : v \in Value("header") } = {o.headers}
        BY <4>1
      <4> QED
        BY <4>2 DEF OrNothing
    <3>2. CASE \A x \in all : x.key # "header"
      <4>1. { Unescaped[v] : v \in Value("header") } = {} /\ o.headers = Nothing
        BY <1>7, <1>9, <2>1, <3>2 DEF Means
      <4> QED
        BY <4>1 DEF OrNothing
    <3> QED
      BY <3>1, <3>2
  <2>5. o.domains = UNION { DomainsIn[v] : v \in Value("domain") }
    BY <1>7, <1>9, <2>1 DEF Means
  <2>6. o.sitekeys = UNION { SitekeysIn[v] : v \in Value("sitekey") }
    BY <1>7, <1>9, <2>1 DEF Means
  <2> QED
    BY <2>2, <2>3, <2>4, <2>5, <2>6
<1>14. ASSUME o.valid
       PROVE  o.subresource <=>
                named # {} \/ Keys(BOOLEAN) \subseteq {"match-case", "third-party", "domain", "sitekey"}
  BY <1>5, <1>6, <1>8, <1>14
<1> QED
  BY <1>5, <1>10, <1>11, <1>12, <1>13, <1>14 DEF o, Keys, Value, firstExcludes, options, all

(* A list of options is accepted if each option could stand alone, and each  *)
(* then means what it says wherever it stands.                               *)
THEOREM OptionsMean == Spec => []OptionsMeanWhatTheySay
BY LineMeans, TypeCorrect, PTL

-----------------------------------------------------------------------------
(* A plain search with wildcards.                                          *)

(* The positions behind each character have a value.                         *)
LEMMA ReachedBehindDef ==
  ASSUME NEW pattern \in Seq(Character), NEW text, NEW from, NEW s \in 1..(Len(pattern) + 1)
  PROVE  LET behind == ReachedBehind(text, from, pattern, s)
         IN  behind = [ n \in (s - 1)..Len(pattern) |->
                          IF n = s - 1 THEN from ELSE Reached(text, behind[n - 1], pattern[n]) ]
<1> DEFINE a == s - 1
           At(f, n) == IF n = a THEN from ELSE Reached(text, f[n - 1], pattern[n])
           Is(f, m) == f = [ n \in a..(a + m) |-> At(f, n) ]
           S == { m \in Nat : \E f : Is(f, m) }
<1>0. a \in Nat /\ Len(pattern) - a \in Nat /\ a + (Len(pattern) - a) = Len(pattern)
  OBVIOUS
<1> HIDE DEF a
<1>1. 0 \in S
  <2>1. Is([n \in a..(a + 0) |-> from], 0)
    BY <1>0
  <2> QED
    BY <2>1
<1>2. ASSUME NEW m \in Nat, m \in S PROVE m + 1 \in S
  <2>1. PICK f : Is(f, m)
    BY <1>2
  <2> DEFINE k == a + (m + 1)
             g == [ n \in a..k |-> IF n = k THEN Reached(text, f[k - 1], pattern[k]) ELSE f[n] ]
  <2>2. k - 1 = a + m /\ k - 1 \in a..k /\ k # a /\ k \in a..k
    BY <1>0
  <2>3. ASSUME NEW n \in a..k PROVE g[n] = At(g, n)
    <3>1. CASE n = k
      <4>1. g[k - 1] = f[k - 1]
        BY <1>0, <2>2
      <4> QED
        BY <1>0, <2>2, <3>1, <4>1
    <3>2. CASE n # k
      <4>1. n \in a..(a + m)
        BY <1>0, <3>2
      <4>2. f[n] = At(f, n)
        BY <2>1, <4>1
      <4>3. n # a => n - 1 \in a..k /\ n - 1 # k
        BY <1>0
      <4>4. n # a => g[n - 1] = f[n - 1]
        BY <4>3
      <4> QED
        BY <3>2, <4>2, <4>4
    <3> QED
      BY <3>1, <3>2
  <2>4. Is(g, m + 1)
    BY <2>3
  <2>5. \E h : Is(h, m + 1)
    <3> HIDE DEF g, Is
    <3> QED
      BY <2>4
  <2>6. m + 1 \in Nat
    OBVIOUS
  <2> HIDE DEF Is
  <2> QED
    BY <2>5, <2>6
<1>3. Len(pattern) - a \in S
  <2> HIDE DEF S
  <2> QED
    BY <1>0, <1>1, <1>2, NatInductionOverSet
<1>4. \E f : f = [ n \in a..Len(pattern) |-> At(f, n) ]
  BY <1>0, <1>3
<1> QED
  BY <1>4 DEF ReachedBehind, a

(* The search and the tokens agree on one character.                         *)
LEMMA ReachedMeets ==
  ASSUME NEW pattern \in Seq(Character), NEW text \in Seq(Character),
         NEW s \in 1..Len(pattern),
         pattern[s] = "|" => s = Len(pattern),
         s < Len(pattern) /\ pattern[s] = "*" => pattern[s + 1] # "|",
         NEW from, from \subseteq 1..(Len(text) + 1)
  PROVE  LET begins == NextTokenBeginsInput(pattern, text)
             next == Reached(text, from, pattern[s])
         IN  /\ next \subseteq 1..(Len(text) + 1)
             /\ next \cap begins[s + 1] # {} <=> from \cap begins[s] # {}
<1> DEFINE begins == NextTokenBeginsInput(pattern, text)
           next == Reached(text, from, pattern[s])
           end == Len(text) + 1
           rest == begins[s + 1]
<1>1. rest \subseteq 1..end /\ (s = Len(pattern) => rest = 1..end)
  <2>1. s + 1 \in 1..(Len(pattern) + 1) /\ (s = Len(pattern) => s + 1 > Len(pattern))
    OBVIOUS
  <2> QED
    BY <2>1, BeginsRange
<1>2. end \in Nat /\ end - 1 = Len(text) /\ DOMAIN text = 1..(end - 1) /\ end >= 1
  OBVIOUS
<1>3. CASE pattern[s] = "*"
  <2>1. begins[s] = { i \in 1..end : \E j \in rest : i <= j }
    BY <1>3, WildcardBegins
  <2>2. next = { j \in 1..end : \E i \in from : i <= j }
    BY <1>3 DEF Reached
  <2> HIDE DEF begins, next, end, rest
  <2> QED
    BY <1>1, <2>1, <2>2 DEF begins, next, end, rest
<1>4. CASE pattern[s] = "^"
  <2>1. begins[s] = { i \in DOMAIN text : CharacterIsValidSeparator(text[i]) /\ i + 1 \in rest }
                    \cup (rest \cap {end})
    BY <1>4, SeparatorBegins
  <2>2. next = { i + 1 : i \in { x \in from \ {end} : CharacterIsValidSeparator(text[x]) } }
               \cup (from \cap {end})
    BY <1>4 DEF Reached
  <2> HIDE DEF begins, next, end, rest
  <2>3. \A i \in from : i # end => i \in 1..(end - 1) /\ i + 1 \in 1..end
    BY <1>2 DEF end
  <2>4. next \subseteq 1..end
    BY <1>2, <2>2, <2>3
  <2>5. ASSUME NEW i \in next, i \in rest PROVE from \cap begins[s] # {}
    BY <1>2, <2>1, <2>2, <2>3, <2>5
  <2>6. ASSUME NEW i \in from, i \in begins[s] PROVE next \cap rest # {}
    <3>1. CASE i = end
      BY <1>2, <2>1, <2>2, <2>6, <3>1
    <3>2. CASE i # end
      <4>1. CharacterIsValidSeparator(text[i]) /\ i + 1 \in rest
        BY <1>2, <2>1, <2>6, <3>2
      <4>2. i + 1 \in next
        BY <2>2, <2>6, <3>2, <4>1
      <4> QED
        BY <4>1, <4>2
    <3> QED
      BY <3>1, <3>2
  <2> QED
    BY <2>4, <2>5, <2>6 DEF begins, next, end, rest
<1>5. CASE pattern[s] = "|"
  <2>1. begins[s] = {end} /\ rest = 1..end
    BY <1>1, <1>5, AnchorBegins
  <2>2. next = from \cap {end}
    BY <1>5 DEF Reached
  <2> QED
    BY <1>2, <2>1, <2>2
<1>6. CASE pattern[s] \notin Special
  <2>1. begins[s] = { i \in DOMAIN text : text[i] = pattern[s] /\ i + 1 \in rest }
    BY <1>6, CharacterBegins
  <2>2. next = { i + 1 : i \in { x \in from \ {end} : text[x] = pattern[s] } }
    BY <1>6 DEF Reached, Special
  <2> HIDE DEF begins, next, end, rest
  <2>3. \A i \in from : i # end => i \in 1..(end - 1) /\ i + 1 \in 1..end
    BY <1>2 DEF end
  <2>4. next \subseteq 1..end
    BY <1>2, <2>2, <2>3
  <2>5. ASSUME NEW i \in next, i \in rest PROVE from \cap begins[s] # {}
    BY <1>2, <2>1, <2>2, <2>3, <2>5
  <2>6. ASSUME NEW i \in from, i \in begins[s] PROVE next \cap rest # {}
    <3>1. i # end /\ text[i] = pattern[s] /\ i + 1 \in rest
      BY <1>2, <2>1, <2>6
    <3>2. i + 1 \in next
      BY <2>2, <2>6, <3>1
    <3> QED
      BY <3>1, <3>2
  <2> QED
    BY <2>4, <2>5, <2>6 DEF begins, next, end, rest
<1> QED
  BY <1>3, <1>4, <1>5, <1>6 DEF Special

(* From s on, the search matches from the places the tokens match.           *)
LEMMA GlobMeans ==
  ASSUME NEW pattern \in Seq(Character), NEW text \in Seq(Character),
         NEW s \in 1..(Len(pattern) + 1), HasNoAnchorFrom(pattern, s),
         NEW from, from \subseteq 1..(Len(text) + 1)
  PROVE  Glob(text, from, pattern, s) <=> from \cap NextTokenBeginsInput(pattern, text)[s] # {}
<1> DEFINE begins == NextTokenBeginsInput(pattern, text)
           behind == ReachedBehind(text, from, pattern, s)
           L == Len(pattern)
           end == Len(text) + 1
           Meets(n) == /\ behind[n] \subseteq 1..end
                       /\ behind[n] \cap begins[n + 1] # {} <=> from \cap begins[s] # {}
           S == { d \in Nat : (s - 1) + d <= L => Meets((s - 1) + d) }
<1>0. L \in Nat /\ s - 1 \in Nat /\ L - (s - 1) \in Nat /\ (s - 1) + (L - (s - 1)) = L
  OBVIOUS
<1>1. \A n \in (s - 1)..L :
        behind[n] = IF n = s - 1 THEN from ELSE Reached(text, behind[n - 1], pattern[n])
  <2>1. behind = [ n \in (s - 1)..L |->
                     IF n = s - 1 THEN from ELSE Reached(text, behind[n - 1], pattern[n]) ]
    BY ReachedBehindDef
  <2> HIDE DEF behind
  <2> QED
    BY <2>1
<1> HIDE DEF begins, behind, L, end
<1>2. 0 \in S
  <2>1. s - 1 \in (s - 1)..L /\ (s - 1) + 0 = s - 1 /\ (s - 1) + 1 = s
    BY <1>0
  <2>2. behind[s - 1] = from
    BY <1>1, <2>1
  <2>3. from \subseteq 1..end
    BY DEF end
  <2> QED
    BY <2>1, <2>2, <2>3
<1>3. ASSUME NEW d \in Nat, d \in S PROVE d + 1 \in S
  <2> DEFINE n == (s - 1) + (d + 1)
  <2>1. SUFFICES ASSUME n <= L PROVE Meets(n)
    OBVIOUS
  <2>2. /\ n \in 1..L /\ n \in (s - 1)..L /\ n # s - 1 /\ n \in s..L
        /\ n - 1 = (s - 1) + d /\ n - 1 <= L /\ (n - 1) + 1 = n
    BY <1>0, <2>1
  <2> HIDE DEF n
  <2>3. Meets(n - 1)
    BY <1>3, <2>2
  <2>4. behind[n] = Reached(text, behind[n - 1], pattern[n])
    BY <1>1, <2>2
  <2>5. /\ behind[n] \subseteq 1..end
        /\ behind[n] \cap begins[n + 1] # {} <=> behind[n - 1] \cap begins[n] # {}
    <3>1. /\ pattern[n] = "|" => n = L
          /\ n < L /\ pattern[n] = "*" => pattern[n + 1] # "|"
      BY <2>2 DEF HasNoAnchorFrom, L
    <3>2. behind[n - 1] \subseteq 1..(Len(text) + 1)
      BY <2>3 DEF end
    <3>3. n \in 1..Len(pattern) /\ (n = L <=> n = Len(pattern)) /\ (n < L <=> n < Len(pattern))
      BY <2>2 DEF L
    <3> DEFINE f == behind[n - 1]
    <3> HIDE DEF f
    <3>4. LET next == Reached(text, f, pattern[n])
          IN  /\ next \subseteq 1..(Len(text) + 1)
              /\ next \cap NextTokenBeginsInput(pattern, text)[n + 1] # {}
                   <=> f \cap NextTokenBeginsInput(pattern, text)[n] # {}
      BY <3>1, <3>2, <3>3, ReachedMeets DEF f
    <3> QED
      BY <2>4, <3>4 DEF begins, end, f
  <2> QED
    BY <2>2, <2>3, <2>5
<1>4. Meets(L)
  <2>1. L - (s - 1) \in S
    <3> HIDE DEF S
    <3> QED
      BY <1>0, <1>2, <1>3, NatInductionOverSet
  <2> QED
    BY <1>0, <2>1
<1>5. begins[L + 1] = 1..end
  <2>1. Len(pattern) + 1 \in 1..(Len(pattern) + 1) /\ Len(pattern) + 1 > Len(pattern)
    BY <1>0 DEF L
  <2> QED
    BY <2>1, BeginsRange DEF begins, L, end
<1>6. Glob(text, from, pattern, s) <=> behind[L] # {}
  BY DEF Glob, behind, L
<1>7. behind[L] \cap begins[L + 1] = behind[L]
  BY <1>4, <1>5
<1> QED
  BY <1>4, <1>6, <1>7 DEF begins

(* Searched for anywhere, a pattern is found if its first token is, or the   *)
(* one behind its first wildcards.                                           *)
LEMMA FoundAnywhere ==
  ASSUME NEW pattern \in Seq(Character), NEW text \in Seq(Character),
         NEW s \in 1..(Len(pattern) + 1), HasNoAnchorFrom(pattern, s),
         s <= Len(pattern) => pattern[s] # "|"
  PROVE  LET begins == NextTokenBeginsInput(pattern, text)
             first == IF s <= Len(pattern) /\ pattern[s] = "*" THEN TokenEnd(pattern, s) ELSE s
         IN  /\ Glob(text, 1..(Len(text) + 1), pattern, s)
                  <=> FindNextTokenInInput(begins, pattern, text, first) # {}
             /\ first = s => FindNextTokenInInput(begins, pattern, text, s) = begins[s]
<1> DEFINE begins == NextTokenBeginsInput(pattern, text)
           end == Len(text) + 1
           Found(x) == FindNextTokenInInput(begins, pattern, text, x)
<1>1. begins[s] \subseteq 1..end
  BY BeginsRange
<1>2. Glob(text, 1..end, pattern, s) <=> begins[s] # {}
  <2>1. Glob(text, 1..end, pattern, s) <=> (1..end) \cap begins[s] # {}
    BY GlobMeans
  <2> HIDE DEF begins, end
  <2> QED
    BY <1>1, <2>1
<1>3. CASE s <= Len(pattern) /\ pattern[s] = "*"
  <2> DEFINE next == TokenEnd(pattern, s)
  <2>1. next \in (s + 1)..(Len(pattern) + 1)
    BY <1>3, TokenEndProperties
  <2>2. Found(next) \subseteq 1..end
    <3>1. next \in 1..(Len(pattern) + 1)
      BY <2>1
    <3> QED
      BY <3>1, BeginsRange
  <2>3. begins[s] = { i \in 1..end : \E j \in Found(next) : i <= j }
    <3>1. begins[s] = TokensBeginInput(begins, pattern, text, s)
      BY BeginsDef
    <3> HIDE DEF begins
    <3> QED
      BY <1>3, <3>1 DEF TokensBeginInput
  <2>4. \A j \in 1..end : j <= j
    OBVIOUS
  <2>5. begins[s] # {} <=> Found(next) # {}
    <3> HIDE DEF begins, next, Found, end
    <3> QED
      BY <2>2, <2>3, <2>4
  <2> QED
    BY <1>2, <1>3, <2>1, <2>5
<1>4. CASE ~(s <= Len(pattern) /\ pattern[s] = "*")
  <2>1. Found(s) = begins[s]
    <3>1. CASE s <= Len(pattern)
      BY <1>4, <3>1, FindIsBegin DEF IsSingleAnchor
    <3>2. CASE ~ s <= Len(pattern)
      <4>1. s > Len(pattern)
        BY <3>2
      <4> QED
        BY <4>1, BeginsRange
    <3> QED
      BY <3>1, <3>2
  <2> QED
    BY <1>2, <1>4, <2>1
<1> QED
  BY <1>3, <1>4

(* A text is the start of another that has its characters there.             *)
LEMMA PrefixMeaning ==
  ASSUME NEW s \in Seq(Character), NEW t \in Seq(Character), Len(s) > 0
  PROVE  IsPrefix(s, t) <=> Len(s) <= Len(t) /\ \A x \in 1..Len(s) : s[x] = t[x]
<1> DEFINE n == Len(s)
<1>0. n \in Nat /\ n > 0 /\ Len(t) \in Nat
  OBVIOUS
<1>1. SUFFICES ASSUME n <= Len(t)
               PROVE  SubSeq(s, 1, n) = SubSeq(t, 1, n) <=> \A x \in 1..n : s[x] = t[x]
  BY DEF IsPrefix
<1> DEFINE a == SubSeq(s, 1, n)
           b == SubSeq(t, 1, n)
<1>2. 1 \in Int /\ n \in Int /\ 1 <= n /\ n - 1 + 1 = n /\ \A x \in 1..n : 1 + x - 1 = x
  BY <1>0
<1>3. a \in Seq(Character) /\ Len(a) = n /\ \A x \in 1..n : a[x] = s[x]
  BY <1>2, PartOfText
<1>4. b \in Seq(Character) /\ Len(b) = n /\ \A x \in 1..n : b[x] = t[x]
  <2> HIDE DEF n
  <2> QED
    BY <1>1, <1>2, PartOfText
<1> HIDE DEF a, b, n
<1>5. (\A x \in 1..n : a[x] = b[x]) => a = b
  BY <1>3, <1>4, SeqEqual
<1> QED
  BY <1>3, <1>4, <1>5 DEF a, b

(* What it means to start with two anchors, or two and a wildcard.           *)
LEMMA AnchorsMeaning ==
  ASSUME NEW p \in Seq(Character)
  PROVE  /\ IsPrefix(<<"|", "|">>, p) <=> Len(p) > 1 /\ p[1] = "|" /\ p[2] = "|"
         /\ IsPrefix(<<"|", "|", "*">>, p) <=>
              Len(p) > 2 /\ p[1] = "|" /\ p[2] = "|" /\ p[3] = "*"
<1> DEFINE two == <<"|", "|">>
           three == <<"|", "|", "*">>
<1>1. /\ two \in Seq(Character) /\ Len(two) = 2 /\ two[1] = "|" /\ two[2] = "|"
      /\ three \in Seq(Character) /\ Len(three) = 3
      /\ three[1] = "|" /\ three[2] = "|" /\ three[3] = "*"
  <2>1. "|" \in Character /\ "*" \in Character
    BY DEF Character
  <2> QED
    BY <2>1
<1>2. Len(p) \in Nat
  OBVIOUS
<1> HIDE DEF two, three
<1>3. /\ \A x \in 1..2 : x = 1 \/ x = 2
      /\ \A x \in 1..3 : x = 1 \/ x = 2 \/ x = 3
  OBVIOUS
<1>4. IsPrefix(two, p) <=> Len(p) > 1 /\ p[1] = "|" /\ p[2] = "|"
  <2>1. IsPrefix(two, p) <=> 2 <= Len(p) /\ \A x \in 1..2 : two[x] = p[x]
    <3>1. two \in Seq(Character) /\ Len(two) > 0
      BY <1>1
    <3>2. IsPrefix(two, p) <=> Len(two) <= Len(p) /\ \A x \in 1..Len(two) : two[x] = p[x]
      BY <3>1, PrefixMeaning
    <3> QED
      BY <1>1, <3>2
  <2>2. (\A x \in 1..2 : two[x] = p[x]) <=> p[1] = "|" /\ p[2] = "|"
    BY <1>1, <1>3
  <2> QED
    BY <1>2, <2>1, <2>2
<1>5. IsPrefix(three, p) <=> Len(p) > 2 /\ p[1] = "|" /\ p[2] = "|" /\ p[3] = "*"
  <2>1. IsPrefix(three, p) <=> 3 <= Len(p) /\ \A x \in 1..3 : three[x] = p[x]
    <3>1. three \in Seq(Character) /\ Len(three) > 0
      BY <1>1
    <3>2. IsPrefix(three, p) <=> Len(three) <= Len(p) /\ \A x \in 1..Len(three) : three[x] = p[x]
      BY <3>1, PrefixMeaning
    <3> QED
      BY <1>1, <3>2
  <2>2. (\A x \in 1..3 : three[x] = p[x]) <=> p[1] = "|" /\ p[2] = "|" /\ p[3] = "*"
    BY <1>1, <1>3
  <2> QED
    BY <1>2, <2>1, <2>2
<1> QED
  BY <1>4, <1>5 DEF two, three

(* What does not start with a slash is at a valid start of a host if it is   *)
(* where the host or a label of it starts, or in the scheme.                 *)
LEMMA HostPlaces ==
  ASSUME NEW url, url.host \in Seq(Character), \A x \in DOMAIN url.host : url.host[x] # "/",
         url.path \in Seq(Character), url.path = <<>> \/ url.path[1] = "/",
         NEW i \in 1..Len(SpecOf(url)), SpecOf(url)[i] # "/"
  PROVE  IsValidStartOfHost(i - 1, url) <=> i <= 7 \/ i \in HostStarts(url)
<1> DEFINE text == SpecOf(url)
           m == Len(url.host)
           n == i - 1
           candidate == SubSeq(text, 8, n)
<1>1. /\ text \in Seq(Character) /\ Len(text) = 7 + m + Len(url.path)
      /\ \A x \in 1..m : text[7 + x] = url.host[x]
      /\ \A x \in 1..Len(url.path) : text[7 + m + x] = url.path[x]
  BY SpecCharacters
<1>2. Len(Scheme) = 4 /\ m \in Nat /\ Len(url.path) \in Nat
  BY SchemeCharacters
<1>3. /\ \A x \in 8..(7 + m) : text[x] # "/"
      /\ i # 8 + m
      /\ 8 + m <= Len(text) => text[8 + m] = "/"
  <2>1. ASSUME NEW x \in 8..(7 + m) PROVE text[x] # "/"
    <3>1. x - 7 \in 1..m /\ 7 + (x - 7) = x
      BY <1>2
    <3>2. url.host[x - 7] # "/"
      BY <3>1
    <3> QED
      BY <1>1, <3>1, <3>2
  <2>2. ASSUME 8 + m <= Len(text) PROVE text[8 + m] = "/"
    <3> DEFINE k == Len(url.path)
               L == Len(text)
    <3>0. L = 7 + m + k /\ 8 + m <= L /\ m \in Nat /\ k \in Nat
      BY <1>1, <1>2, <2>2
    <3> HIDE DEF m, k, L
    <3>1. 1 \in 1..k /\ 7 + m + 1 = 8 + m
      BY <3>0
    <3>2. url.path[1] = "/"
      BY <3>1 DEF k
    <3> QED
      BY <1>1, <3>1, <3>2 DEF k, m
  <2> QED
    BY <2>1, <2>2
<1> HIDE DEF text
<1>4. i \in 1..Len(text) /\ n \in Nat /\ n = i - 1
  BY DEF text
<1>5. i \in HostStarts(url) <=> i \in 8..(7 + m) /\ (i = 8 \/ text[n] = ".")
  BY <1>2, <1>4 DEF HostStarts, text
<1>6. IsValidStartOfHost(n, url) <=>
        \/ n < 8
        \/ candidate = url.host
        \/ candidate[Len(candidate)] = "." /\ ~ \E x \in 1..Len(candidate) : candidate[x] = "/"
  BY <1>2 DEF IsValidStartOfHost, text, Last, Contains
<1> HIDE DEF m, n
<1>7. CASE i <= 8
  <2>1. n < 8 /\ (i = 8 => i \in 8..(7 + m))
    BY <1>2, <1>3, <1>4, <1>7
  <2> QED
    BY <1>4, <1>5, <1>6, <1>7, <2>1 DEF n
<1>8. CASE i > 8
  <2>1. /\ candidate \in Seq(Character) /\ Len(candidate) = n - 7
        /\ \A x \in 1..(n - 7) : candidate[x] = text[7 + x]
    <3>1. 8 \in Int /\ n \in Int /\ 1 <= 8 /\ 8 <= n /\ n <= Len(text) /\ n - 8 + 1 = n - 7
          /\ \A x \in 1..(n - 7) : 8 + x - 1 = 7 + x
      BY <1>4, <1>8
    <3> QED
      BY <1>1, <3>1, PartOfText
  <2> HIDE DEF candidate
  <2>2. n - 7 \in 1..(n - 7) /\ 7 + (n - 7) = n
    BY <1>4, <1>8
  <2>3. candidate # url.host
    BY <1>2, <1>3, <1>4, <2>1 DEF m
  <2>4. candidate[Len(candidate)] = text[n]
    BY <2>1, <2>2
  <2>5. (\E x \in 1..Len(candidate) : candidate[x] = "/") <=> i > 7 + m
    <3>1. ASSUME i > 7 + m PROVE \E x \in 1..Len(candidate) : candidate[x] = "/"
      <4>1. m + 1 \in 1..(n - 7) /\ 7 + (m + 1) = 8 + m /\ 8 + m <= Len(text)
        BY <1>2, <1>3, <1>4, <3>1
      <4>2. candidate[m + 1] = text[7 + (m + 1)]
        BY <2>1, <4>1
      <4>3. candidate[m + 1] = "/"
        BY <1>3, <4>1, <4>2
      <4> QED
        BY <2>1, <4>1, <4>3
    <3>2. ASSUME ~ i > 7 + m, NEW x \in 1..Len(candidate) PROVE candidate[x] # "/"
      <4>1. x \in 1..(n - 7) /\ 7 + x \in 8..(7 + m)
        BY <1>2, <1>4, <2>1, <3>2
      <4> QED
        BY <1>3, <2>1, <4>1
    <3> QED
      BY <3>1, <3>2
  <2>6. IsValidStartOfHost(n, url) <=> text[n] = "." /\ ~ i > 7 + m
    BY <1>4, <1>6, <1>8, <2>3, <2>4, <2>5
  <2>7. i \in HostStarts(url) <=> ~ i > 7 + m /\ text[n] = "."
    BY <1>2, <1>4, <1>5, <1>8
  <2> QED
    BY <1>4, <1>8, <2>6, <2>7 DEF n
<1> QED
  BY <1>4, <1>7, <1>8

(* A regular pattern has no anchor behind those it starts with but the last. *)
LEMMA RegularBehindAnchors ==
  ASSUME NEW p \in Seq(Character), IsRegular(p), NEW s \in {1, 2, 3},
         s <= 2 /\ s <= Len(p) => p[s] # "|"
  PROVE  HasNoAnchorFrom(p, s)
<1>1. SUFFICES ASSUME NEW x \in s..Len(p)
               PROVE  /\ p[x] = "|" => x = Len(p)
                      /\ x < Len(p) /\ p[x] = "*" => p[x + 1] # "|"
  BY DEF HasNoAnchorFrom
<1>2. Len(p) \in Nat /\ x \in 1..Len(p) /\ DOMAIN p = 1..Len(p)
  BY SMTT(30)
<1>3. \A y \in 1..Len(p) : p[y] = "|" => y = 1 \/ y = Len(p) \/ (y = 2 /\ p[1] = "|")
  BY <1>2, ZenonT(30) DEF IsRegular
<1>4. ASSUME p[x] = "|" PROVE x = Len(p)
  <2>1. x = 1 => s = 1
    BY <1>1, <1>2
  <2>2. x = 2 => s \in {1, 2}
    BY <1>1, <1>2
  <2>3. x # 1 /\ (p[1] = "|" => x # 2)
    BY <1>2, <1>4, <2>1, <2>2
  <2> QED
    BY <1>2, <1>3, <1>4, <2>3
<1>5. ASSUME x < Len(p), p[x] = "*", p[x + 1] = "|" PROVE FALSE
  <2>1. x + 1 \in 1..Len(p) /\ x + 1 # 1 /\ (x + 1 = 2 => x = 1)
    BY <1>2, <1>5
  <2>2. x + 1 = Len(p)
    BY <1>3, <1>5, <2>1
  <2>3. Len(p) > 1 /\ Len(p) - 1 = x
    <3> DEFINE L == Len(p)
    <3>1. L \in Nat /\ x \in 1..L /\ x + 1 = L
      BY <1>2, <2>2
    <3> HIDE DEF L
    <3>2. L > 1 /\ L - 1 = x
      BY <3>1
    <3> QED
      BY <3>2, ZenonT(30) DEF L
  <2>4. Last(p) = "|"
    BY <1>5, <2>2 DEF Last
  <2> QED
    BY <1>5, <2>3, <2>4 DEF IsRegular
<1> QED
  BY <1>4, <1>5

\* What MatchesLikeGlob says of a pattern that is not too long, and an address.
MatchesAsSearched(p, u) ==
  ~(IsFoundInUrl(p, u) <=> GlobMatches(p, u)) =>
    /\ IsHostAnchored(p)
    /\ \/ GlobMatches(p, u) /\ FoundBeforeHost(p, u)
       \/ FoundInScheme(p, u)

(* Patterns that are not anchored match what is found anywhere.              *)
LEMMA UnanchoredMatches ==
  ASSUME NEW p \in Seq(Character), IsRegular(p), Len(p) > 0 => p[1] # "|",
         NEW u, SpecOf(u) \in Seq(Character)
  PROVE  IsFoundInUrl(p, u) <=> GlobMatches(p, u)
<1> DEFINE text == SpecOf(u)
           begins == NextTokenBeginsInput(p, text)
           Found(s) == FindNextTokenInInput(begins, p, text, s)
           second == TokenEnd(p, 1)
           first == IF 1 <= Len(p) /\ p[1] = "*" THEN second ELSE 1
<1>1. Len(p) \in Nat /\ (p # <<>> <=> Len(p) > 0)
  OBVIOUS
<1>2. ~IsPrefix(<<"|", "|">>, p) /\ ~IsPrefix(<<"|", "|", "*">>, p) /\ ~(p # <<>> /\ p[1] = "|")
  BY <1>1, AnchorsMeaning
<1>3. GlobMatches(p, u) <=> Glob(text, 1..(Len(text) + 1), p, 1)
  BY <1>2, Zenon DEF GlobMatches, IsHostAnchored
<1>4. Glob(text, 1..(Len(text) + 1), p, 1) <=> Found(first) # {}
  <2>1. HasNoAnchorFrom(p, 1)
    <3>1. 1 \in {1, 2, 3} /\ (1 <= 2 /\ 1 <= Len(p) => p[1] # "|")
      BY <1>1
    <3> QED
      BY <3>1, RegularBehindAnchors
  <2>2. 1 \in 1..(Len(p) + 1) /\ (1 <= Len(p) => p[1] # "|")
    BY <1>1
  <2> QED
    BY <2>1, <2>2, FoundAnywhere
<1>5. IsFoundInUrl(p, u) <=>
        IF 1 <= Len(p) /\ p[1] = "*" THEN Found(second) # {} ELSE Found(1) # {}
  <2>1. ~(p # <<>> /\ p[1] = "|") /\ 0 # 1 /\ 0 # 2 /\ 0 \notin {1, 2}
    BY <1>2
  <2> QED
    BY <2>1 DEF IsFoundInUrl, AnchorsOf, SearchedFrom
<1>6. IsFoundInUrl(p, u) <=> GlobMatches(p, u)
  <2> HIDE DEF text, begins, second, Found
  <2> QED
    BY <1>3, <1>4, <1>5
<1> QED
  BY <1>6

(* A pattern with a single anchor in front matches what starts like it.      *)
LEMMA AnchoredMatches ==
  ASSUME NEW p \in Seq(Character), IsRegular(p), Len(p) > 0, p[1] = "|", Len(p) > 1 => p[2] # "|",
         NEW u, SpecOf(u) \in Seq(Character)
  PROVE  IsFoundInUrl(p, u) <=> GlobMatches(p, u)
<1> DEFINE text == SpecOf(u)
           begins == NextTokenBeginsInput(p, text)
<1>1. Len(p) \in Nat /\ p # <<>> /\ 1 \in 1..Len(p)
  OBVIOUS
<1>2. ~IsPrefix(<<"|", "|">>, p) /\ ~IsPrefix(<<"|", "|", "*">>, p)
  BY <1>1, AnchorsMeaning
<1>3. GlobMatches(p, u) <=> Glob(text, {1}, p, 2)
  BY <1>1, <1>2, Zenon DEF GlobMatches, IsHostAnchored
<1>4. Glob(text, {1}, p, 2) <=> 1 \in begins[2]
  <2>1. HasNoAnchorFrom(p, 2)
    <3>1. 2 \in {1, 2, 3} /\ (2 <= 2 /\ 2 <= Len(p) => p[2] # "|")
      BY <1>1
    <3> QED
      BY <3>1, RegularBehindAnchors
  <2>2. 2 \in 1..(Len(p) + 1) /\ {1} \subseteq 1..(Len(text) + 1)
    BY <1>1
  <2>3. Glob(text, {1}, p, 2) <=> {1} \cap begins[2] # {}
    BY <2>1, <2>2, GlobMeans
  <2> QED
    BY <2>3
<1>5. TokenEnd(p, 1) = 2
  BY <1>1, TokenEndOfRest DEF Continues, Special
<1>6. IsFoundInUrl(p, u) <=> 1 \in begins[2]
  <2>1. p # <<>> /\ p[1] = "|" /\ TokenEnd(p, 1) - 1 = 1 /\ 1 \in {1, 2} /\ 1 # 2
    BY <1>1, <1>5
  <2> QED
    BY <2>1 DEF IsFoundInUrl, AnchorsOf, SearchedFrom
<1> QED
  BY <1>3, <1>4, <1>6

(* A pair of anchors in front is one token.                                  *)
LEMMA TwoAnchors ==
  ASSUME NEW p \in Seq(Character), Len(p) > 2, p[1] = "|", p[2] = "|", p[3] # "|"
  PROVE  TokenEnd(p, 1) = 3
<1>1. Len(p) \in Nat /\ 1 \in 1..Len(p) /\ 2 \in 1..Len(p) /\ 1 < Len(p) /\ 2 < Len(p)
      /\ 1 + 1 = 2 /\ 2 + 1 = 3
  OBVIOUS
<1>2. Continues(p[1], p[2]) /\ ~Continues(p[2], p[3])
  BY DEF Continues, Special
<1>3. TokenEnd(p, 1) = TokenEnd(p, 2)
  BY <1>1, <1>2, TokenEndOfRest
<1>4. TokenEnd(p, 2) = 3
  BY <1>1, <1>2, TokenEndOfRest
<1> QED
  BY <1>3, <1>4

(* A host anchor before wildcards is no anchor.                              *)
LEMMA AnchoredWildcardMatches ==
  ASSUME NEW p \in Seq(Character), IsRegular(p), Len(p) > 2, p[1] = "|", p[2] = "|", p[3] = "*",
         NEW u, SpecOf(u) \in Seq(Character)
  PROVE  IsFoundInUrl(p, u) <=> GlobMatches(p, u)
<1> DEFINE text == SpecOf(u)
           begins == NextTokenBeginsInput(p, text)
           Found(s) == FindNextTokenInInput(begins, p, text, s)
<1>1. Len(p) \in Nat /\ p # <<>> /\ 3 \in 1..(Len(p) + 1) /\ 3 <= Len(p)
  OBVIOUS
<1>2. IsPrefix(<<"|", "|">>, p) /\ IsPrefix(<<"|", "|", "*">>, p)
  BY <1>1, AnchorsMeaning
<1>3. GlobMatches(p, u) <=> Glob(text, 1..(Len(text) + 1), p, 3)
  BY <1>1, <1>2, Zenon DEF GlobMatches, IsHostAnchored
<1>4. Glob(text, 1..(Len(text) + 1), p, 3) <=> Found(TokenEnd(p, 3)) # {}
  <2>1. HasNoAnchorFrom(p, 3)
    <3>1. 3 \in {1, 2, 3} /\ ~ 3 <= 2
      OBVIOUS
    <3> QED
      BY <3>1, RegularBehindAnchors
  <2> QED
    BY <1>1, <2>1, FoundAnywhere
<1>5. TokenEnd(p, 1) = 3
  BY <1>1, TwoAnchors
<1>6. IsFoundInUrl(p, u) <=> Found(TokenEnd(p, 3)) # {}
  <2>1. AnchorsOf(p) = 2
    BY <1>1, <1>5 DEF AnchorsOf
  <2>2. SearchedFrom(p) = TokenEnd(p, 3)
    BY <1>1, <2>1 DEF SearchedFrom
  <2>3. TokenEnd(p, 3) # 3
    <3>1. 3 \in 1..Len(p)
      BY <1>1
    <3> QED
      BY <3>1, TokenEndProperties
  <2> QED
    BY <2>1, <2>2, <2>3 DEF IsFoundInUrl
<1> QED
  BY <1>3, <1>4, <1>6

(* A pattern anchored at the host matches if the first place where its rest  *)
(* is found is the start of the host or of a label of it, or in the scheme.  *)
LEMMA HostAnchoredMatches ==
  ASSUME NEW p \in Seq(Character), Len(p) > 2, p[1] = "|", p[2] = "|", p[3] \notin {"*", "|", "^", "/"},
         IsRegular(p), NEW u, u.host \in Seq(Character), \A x \in DOMAIN u.host : u.host[x] # "/",
         u.path \in Seq(Character), u.path = <<>> \/ u.path[1] = "/"
  PROVE  MatchesAsSearched(p, u)
<1> DEFINE text == SpecOf(u)
           begins == NextTokenBeginsInput(p, text)
           Found(s) == FindNextTokenInInput(begins, p, text, s)
           places == begins[3]
           L == Len(text)
           IsFirst(i) == \A j \in places : i <= j
<1>0. text \in Seq(Character) /\ L \in Nat /\ L >= 7 + Len(u.host) /\ Len(u.host) \in Nat
  <2>1. /\ text \in Seq(Character) /\ L = 7 + Len(u.host) + Len(u.path)
    BY SpecCharacters
  <2> DEFINE m == Len(u.host)
             n == Len(u.path)
  <2>2. m \in Nat /\ n \in Nat
    OBVIOUS
  <2> HIDE DEF m, n, text, L
  <2>3. L = 7 + m + n => L \in Nat /\ L >= 7 + m
    BY <2>2
  <2> QED
    BY <2>1, <2>2, <2>3 DEF m, n
<1>1. Len(p) \in Nat /\ p # <<>> /\ 3 \in 1..Len(p) /\ 3 \in 1..(Len(p) + 1) /\ 3 <= Len(p)
  OBVIOUS
<1>2. IsPrefix(<<"|", "|">>, p) /\ ~IsPrefix(<<"|", "|", "*">>, p) /\ IsHostAnchored(p)
  BY <1>1, AnchorsMeaning DEF IsHostAnchored
<1>3. HasNoAnchorFrom(p, 3)
  <2>1. 3 \in {1, 2, 3} /\ ~ 3 <= 2
    OBVIOUS
  <2> QED
    BY <2>1, RegularBehindAnchors
<1>4. ASSUME NEW from, from \subseteq 1..(L + 1)
      PROVE  Glob(text, from, p, 3) <=> from \cap places # {}
  BY <1>0, <1>1, <1>3, <1>4, GlobMeans
<1>5. Len(Scheme) = 4
  BY SchemeCharacters
<1>6. HostStarts(u) \subseteq 1..L
  BY <1>0, <1>5 DEF HostStarts
<1>7. GlobMatches(p, u) <=> HostStarts(u) \cap places # {}
  <2>1. GlobMatches(p, u) <=> Glob(text, HostStarts(u), p, 3)
    BY <1>2, Zenon DEF GlobMatches
  <2>2. HostStarts(u) \subseteq 1..(L + 1)
    <3> HIDE DEF text
    <3> QED
      BY <1>0, <1>6
  <2> QED
    BY <1>4, <2>1, <2>2
<1>8. places = { i \in places : i \in 1..L /\ text[i] # "/" }
  <2>1. ASSUME NEW i \in places PROVE i \in 1..L /\ text[i] # "/"
    <3>1. CASE p[3] \in Special
      BY <1>1, <3>1 DEF Special
    <3>2. CASE p[3] \notin Special
      <4>1. places = { k \in DOMAIN text : text[k] = p[3] /\ k + 1 \in begins[3 + 1] }
        BY <1>0, <1>1, <3>2, CharacterBegins
      <4>2. DOMAIN text = 1..L
        BY <1>0
      <4> HIDE DEF places, text, begins
      <4> QED
        BY <4>1, <4>2
    <3> QED
      BY <3>1, <3>2
  <2> HIDE DEF places
  <2> QED
    BY <2>1
<1>9. IsFoundInUrl(p, u) <=>
        \E i \in places : IsFirst(i) /\ IsValidStartOfHost(i - 1, u)
  <2>1. p # <<>> /\ p[1] = "|" /\ TokenEnd(p, 1) - 1 = 2 /\ 2 \in {1, 2} /\ 1 # 2
    BY <1>1, TwoAnchors
  <2>2. Found(3) = places
    BY <1>0, <1>1, <1>3, FoundAnywhere
  <2>3. \A i : Skipped(p, text, 3, i) = i - 1
    BY <1>1 DEF Skipped
  <2>4. IsFoundInUrl(p, u) <=>
          \E i \in Found(3) : /\ \A j \in Found(3) : i <= j
                              /\ IsValidStartOfHost(Skipped(p, text, 3, i), u)
    BY <1>1, <2>1 DEF IsFoundInUrl, AnchorsOf, SearchedFrom
  <2> HIDE DEF places, text, begins, Found
  <2> QED
    BY <2>2, <2>3, <2>4
<1>10. ASSUME NEW i \in places
       PROVE  IsValidStartOfHost(i - 1, u) <=> i <= 7 \/ i \in HostStarts(u)
  <2>1. i \in 1..L /\ text[i] # "/"
    BY <1>8
  <2> QED
    BY <2>1, HostPlaces
<1>11. ASSUME NEW i \in 1..L PROVE Glob(text, {i}, p, 3) <=> i \in places
  <2>1. {i} \subseteq 1..(L + 1)
    BY <1>0
  <2> HIDE DEF places, text, begins, L, Found, IsFirst
  <2>2. Glob(text, {i}, p, 3) <=> {i} \cap places # {}
    BY <1>4, <2>1, Zenon
  <2>3. {i} \cap places # {} <=> i \in places
    OBVIOUS
  <2> QED
    BY <2>2, <2>3
<1>12. \A i \in places : i \in 1..L
  BY <1>8
<1>13. FoundInScheme(p, u) <=> \E i \in places : i <= 7
  <2>1. 1..7 \subseteq 1..L
    <3> HIDE DEF text
    <3> QED
      BY <1>0
  <2>2. FoundInScheme(p, u) <=> \E i \in 1..7 : Glob(text, {i}, p, 3)
    BY <1>5 DEF FoundInScheme
  <2> HIDE DEF places, text, L
  <2>3. ASSUME NEW i \in 1..7 PROVE Glob(text, {i}, p, 3) <=> i \in places
    BY <1>11, <2>1
  <2>4. ASSUME NEW i \in places, i <= 7 PROVE i \in 1..7
    <3>1. i \in 1..L
      BY <1>12
    <3>2. L \in Nat
      BY <1>0
    <3> QED
      BY <2>4, <3>1, <3>2
  <2>5. \A i \in 1..7 : i <= 7
    OBVIOUS
  <2> QED
    BY <2>2, <2>3, <2>4, <2>5
<1>14. FoundBeforeHost(p, u) <=>
         \E j \in HostStarts(u), i \in places : i \notin HostStarts(u) /\ i < j
  <2>1. FoundBeforeHost(p, u) <=>
          \E j \in HostStarts(u), i \in (1..L) \ HostStarts(u) : i < j /\ Glob(text, {i}, p, 3)
    BY DEF FoundBeforeHost
  <2> HIDE DEF places, text
  <2> QED
    BY <1>11, <1>12, <2>1
<1> HIDE DEF places, text
<1>15. ASSUME places # {} PROVE \E i \in places : IsFirst(i)
  <2>1. places \subseteq Nat
    BY <1>0, <1>12
  <2> QED
    BY <1>15, <2>1, SmallestOf
<1>16. ASSUME IsFoundInUrl(p, u), ~GlobMatches(p, u) PROVE FoundInScheme(p, u)
  BY <1>7, <1>9, <1>10, <1>13, <1>16
<1>17. ASSUME ~IsFoundInUrl(p, u), GlobMatches(p, u) PROVE FoundBeforeHost(p, u)
  <2>1. PICK j \in HostStarts(u) : j \in places
    BY <1>7, <1>17
  <2>2. PICK i \in places : IsFirst(i)
    BY <1>15, <2>1
  <2>3. i \notin HostStarts(u)
    BY <1>9, <1>10, <1>17, <2>2
  <2>4. i <= j /\ i # j /\ i \in Nat /\ j \in Nat
    BY <1>0, <1>12, <2>1, <2>2, <2>3
  <2>5. i < j
    BY <2>4
  <2> QED
    BY <1>14, <2>1, <2>3, <2>5
<1> QED
  BY <1>2, <1>16, <1>17 DEF MatchesAsSearched

(* All regular patterns are matched as they are searched for.                *)
LEMMA RegularMatches ==
  ASSUME NEW p \in Seq(Character), IsRegular(p), NEW u, u.host \in Seq(Character),
         \A x \in DOMAIN u.host : u.host[x] # "/",
         u.path \in Seq(Character), u.path = <<>> \/ u.path[1] = "/"
  PROVE  MatchesAsSearched(p, u)
<1>1. Len(p) \in Nat /\ SpecOf(u) \in Seq(Character)
  <2>1. SpecOf(u) \in Seq(Character)
    BY SpecCharacters
  <2> QED
    BY <2>1
<1>2. CASE Len(p) > 0 => p[1] # "|"
  BY <1>1, <1>2, UnanchoredMatches DEF MatchesAsSearched
<1>3. CASE Len(p) > 0 /\ p[1] = "|" /\ (Len(p) > 1 => p[2] # "|")
  BY <1>1, <1>3, AnchoredMatches DEF MatchesAsSearched
<1>4. CASE Len(p) > 1 /\ p[1] = "|" /\ p[2] = "|"
  <2>1. Len(p) > 2 /\ p[3] \notin {"|", "^", "/"}
    BY <1>4, AnchorsMeaning DEF IsRegular
  <2>2. CASE p[3] = "*"
    BY <1>1, <1>4, <2>1, <2>2, AnchoredWildcardMatches DEF MatchesAsSearched
  <2>3. CASE p[3] # "*"
    <3>1. p[3] \notin {"*", "|", "^", "/"}
      BY <2>1, <2>3
    <3> QED
      BY <1>4, <2>1, <3>1, HostAnchoredMatches
  <2> QED
    BY <2>2, <2>3
<1> QED
  BY <1>1, <1>2, <1>3, <1>4

(* The parts behind a token are those of the pattern without it.             *)
LEMMA PartsBehind ==
  ASSUME NEW p \in Seq(Character), NEW s \in 1..Len(p)
  PROVE  PartsFrom(p, s) = {s} \cup PartsFrom(p, TokenEnd(p, s))
<1> DEFINE e == TokenEnd(p, s)
<1>1. /\ e \in (s + 1)..(Len(p) + 1)
      /\ \A x \in (s + 1)..(e - 1) : Continues(p[x - 1], p[x])
      /\ e <= Len(p) => ~Continues(p[e - 1], p[e])
  BY TokenEndProperties
<1> HIDE DEF e
<1>2. ASSUME NEW t \in PartsFrom(p, s), t # s PROVE t \in PartsFrom(p, e)
  <2>1. t \in (s + 1)..Len(p) /\ ~Continues(p[t - 1], p[t])
    BY <1>2 DEF PartsFrom
  <2>2. ~ t <= e - 1
    BY <1>1, <2>1
  <2> QED
    BY <1>1, <2>1, <2>2 DEF PartsFrom
<1>3. ASSUME NEW t \in PartsFrom(p, e) PROVE t \in PartsFrom(p, s)
  BY <1>1, <1>3 DEF PartsFrom
<1>4. s \in PartsFrom(p, s)
  BY DEF PartsFrom
<1> QED
  BY <1>2, <1>3, <1>4 DEF e

(* The calls for the end of a pattern.                                       *)
CallsAtEnd(p) ==
  CASE Last(p) = "*" -> 2 [] Last(p) = "|" -> 0 [] OTHER -> 1

(* Behind the anchors in front, a match takes a call for each token, and     *)
(* those for the end.                                                        *)
LEMMA CallsAreParts ==
  ASSUME NEW p \in Seq(Character), NEW s \in 1..Len(p), HasNoAnchorFrom(p, s)
  PROVE  /\ IsFiniteSet(PartsFrom(p, s))
         /\ CallsFrom(p)[s] = Cardinality(PartsFrom(p, s)) + CallsAtEnd(p)
<1> DEFINE L == Len(p)
           calls == CallsFrom(p)
           Is(t) == /\ IsFiniteSet(PartsFrom(p, t))
                    /\ calls[t] = Cardinality(PartsFrom(p, t)) + CallsAtEnd(p)
           S == { n \in Nat : \A t \in s..L : L - t <= n => Is(t) }
<1>0. L \in Nat /\ L >= 1 /\ calls[L + 1] = 1
  <2>1. calls[L + 1] = CallsToBegin(calls, p, L + 1)
    <3>1. L + 1 \in 1..(L + 1)
      OBVIOUS
    <3> QED
      BY <3>1, CallsDef
  <2> HIDE DEF calls
  <2>2. CallsToBegin(calls, p, L + 1) = 1
    BY DEF CallsToBegin
  <2> QED
    BY <2>1, <2>2
<1>1. ASSUME NEW t \in s..L, TokenEnd(p, t) <= L => Is(TokenEnd(p, t))
      PROVE  Is(t)
  <2> DEFINE e == TokenEnd(p, t)
             rest == PartsFrom(p, e)
  <2>1. /\ t \in 1..L
        /\ e \in (t + 1)..(L + 1)
        /\ e <= L => ~Continues(p[e - 1], p[e])
    BY <1>1, TokenEndProperties
  <2>2. p[t] = "|" => t = L
    BY <1>1 DEF HasNoAnchorFrom
  <2>3. PartsFrom(p, t) = {t} \cup rest /\ t \notin rest
    <3>1. PartsFrom(p, t) = {t} \cup rest
      BY <2>1, PartsBehind
    <3>2. t \notin rest
      BY <2>1 DEF PartsFrom
    <3> QED
      BY <3>1, <3>2
  <2>4. calls[t] = CallsToBegin(calls, p, t)
    <3>1. t \in 1..(L + 1)
      BY <2>1
    <3> QED
      BY <3>1, CallsDef
  <2>5. \/ p[t] \notin Special /\ p[e - 1] \notin Special
        \/ p[e - 1] = p[t]
    <3>1. e - 1 \in t..(e - 1)
      BY <2>1
    <3> QED
      BY <2>1, <3>1, TokenUniform
  <2> HIDE DEF e, rest, calls
  <2>6. CASE e = L + 1
    <3>1. rest = {}
      BY <2>6 DEF rest, PartsFrom
    <3>2. PartsFrom(p, t) = {t}
      BY <2>3, <3>1
    <3>3. IsFiniteSet(PartsFrom(p, t)) /\ Cardinality(PartsFrom(p, t)) = 1
      BY <3>2, FS_Singleton
    <3>4. Last(p) = p[e - 1]
      BY <1>0, <2>6 DEF Last
    <3>5. CASE p[t] = "*"
      <4>1. CallsToFind(calls, p, e) = 2
        BY <1>0, <2>6 DEF CallsToFind
      <4>2. calls[t] = 3
        BY <2>1, <2>4, <3>5, <4>1 DEF CallsToBegin, e
      <4>3. CallsAtEnd(p) = 2
        BY <2>5, <3>4, <3>5 DEF CallsAtEnd, Special
      <4> QED
        BY <3>3, <4>2, <4>3
    <3>6. CASE p[t] = "|"
      <4>1. e = t + 1
        BY <2>1, <2>2, <2>6, <3>6
      <4>2. calls[t] = 1
        BY <2>1, <2>4, <3>6, <4>1 DEF CallsToBegin, e
      <4>3. CallsAtEnd(p) = 0
        BY <2>5, <3>4, <3>6 DEF CallsAtEnd, Special
      <4> QED
        BY <3>3, <4>2, <4>3
    <3>7. CASE p[t] \notin {"*", "|"}
      <4>1. calls[t] = 1 + calls[e]
        BY <2>1, <2>4, <3>7 DEF CallsToBegin, e
      <4>2. CallsAtEnd(p) = 1
        BY <2>5, <3>4, <3>7 DEF CallsAtEnd, Special
      <4> QED
        BY <1>0, <2>6, <3>3, <4>1, <4>2
    <3> QED
      BY <3>5, <3>6, <3>7
  <2>7. CASE e <= L
    <3>1. IsFiniteSet(rest) /\ calls[e] = Cardinality(rest) + CallsAtEnd(p)
      BY <1>1, <2>7 DEF e, rest, calls
    <3>2. /\ IsFiniteSet(PartsFrom(p, t))
          /\ Cardinality(PartsFrom(p, t)) = Cardinality(rest) + 1
      BY <2>3, <3>1, FS_AddElement
    <3>3. Cardinality(rest) \in Nat /\ CallsAtEnd(p) \in Nat
      BY <3>1, FS_CardinalityType DEF CallsAtEnd
    <3>4. p[t] # "|"
      BY <2>1, <2>2, <2>7
    <3>5. calls[t] = 1 + calls[e]
      <4>1. CASE p[t] # "*"
        BY <2>1, <2>4, <3>4, <4>1 DEF CallsToBegin, e
      <4>2. CASE p[t] = "*"
        <5>1. p[e - 1] = "*" /\ e - 1 \in s..L /\ e - 1 < L /\ e - 1 + 1 = e
          BY <2>1, <2>5, <2>7, <4>2 DEF Special
        <5>2. p[e] # "*" /\ p[e] # "|"
          <6>1. p[e] # "|"
            BY <5>1 DEF HasNoAnchorFrom
          <6>2. ~Continues(p[e - 1], p[e])
            BY <2>1, <2>7
          <6> QED
            BY <5>1, <6>1, <6>2 DEF Continues
        <5>3. calls[e] = 1 + calls[TokenEnd(p, e)]
          <6>1. calls[e] = CallsToBegin(calls, p, e)
            <7>1. e \in 1..(L + 1)
              BY <2>1
            <7> QED
              BY <7>1, CallsDef DEF calls
          <6> QED
            BY <2>1, <2>7, <5>2, <6>1 DEF CallsToBegin
        <5>4. CallsToFind(calls, p, e) = calls[e]
          BY <2>7, <5>3 DEF CallsToFind
        <5>5. calls[t] = 1 + CallsToFind(calls, p, e)
          BY <2>1, <2>4, <4>2 DEF CallsToBegin, e
        <5> QED
          BY <5>4, <5>5
      <4> QED
        BY <4>1, <4>2
    <3> QED
      BY <3>1, <3>2, <3>3, <3>5
  <2> QED
    BY <1>0, <2>1, <2>6, <2>7
<1>2. 0 \in S
  <2>1. ASSUME NEW t \in s..L, L - t <= 0 PROVE Is(t)
    <3>1. t = L
      BY <1>0, <2>1
    <3>2. TokenEnd(p, t) \in (t + 1)..(L + 1)
      <4>1. t \in 1..L
        BY <1>0, <3>1
      <4> QED
        BY <4>1, TokenEndProperties
    <3>3. ~ TokenEnd(p, t) <= L
      BY <1>0, <3>1, <3>2
    <3> QED
      BY <1>1, <3>3
  <2> HIDE DEF Is
  <2> QED
    BY <2>1
<1>3. ASSUME NEW n \in Nat, n \in S PROVE n + 1 \in S
  <2>1. ASSUME NEW t \in s..L, L - t <= n + 1 PROVE Is(t)
    <3>1. t \in 1..L
      BY <1>0
    <3>2. TokenEnd(p, t) \in (t + 1)..(L + 1)
      BY <3>1, TokenEndProperties
    <3>3. TokenEnd(p, t) <= L => TokenEnd(p, t) \in s..L /\ L - TokenEnd(p, t) <= n
      BY <1>0, <2>1, <3>2
    <3>4. TokenEnd(p, t) <= L => Is(TokenEnd(p, t))
      <4> HIDE DEF Is
      <4> QED
        BY <1>3, <3>3
    <3> QED
      BY <1>1, <3>4
  <2> HIDE DEF Is
  <2> QED
    BY <2>1
<1>4. L \in S /\ L - s <= L
  <2>1. L \in Nat /\ L - s <= L
    BY <1>0
  <2> HIDE DEF S
  <2> QED
    BY <1>2, <1>3, <2>1, NatInductionOverSet
<1>5. Is(s)
  <2> HIDE DEF Is
  <2> QED
    BY <1>0, <1>4
<1> QED
  BY <1>5

(* Where a regular pattern starts is behind its anchor, or from where it is  *)
(* searched; there is then no wildcard and no anchor.                        *)
LEMMA StartMeaning ==
  ASSUME NEW p \in Seq(Character), IsRegular(p)
  PROVE  /\ StartOf(p) \in 1..(Len(p) + 1)
         /\ HasNoAnchorFrom(p, StartOf(p))
         /\ AnchorsOf(p) = 1 => StartOf(p) = 2 /\ (Len(p) = 1 => Last(p) = "|")
         /\ AnchorsOf(p) # 1 =>
              /\ StartOf(p) = SearchedFrom(p)
              /\ IF StartOf(p) <= Len(p) THEN p[StartOf(p)] \notin {"*", "|"}
                 ELSE p = <<>> \/ Last(p) = "*"
<1> DEFINE L == Len(p)
           IsStart(s) ==
             /\ IsPrefix(<<"|", "|">>, p) => s > 2
             /\ p # <<>> /\ p[1] = "|" => s > 1
             /\ s <= Len(p) /\ p[s] = "*" => p[1] = "|" /\ s = 2
<1>1. L \in Nat /\ (p # <<>> <=> L > 0)
  OBVIOUS
<1>2. IsPrefix(<<"|", "|">>, p) <=> L > 1 /\ p[1] = "|" /\ p[2] = "|"
  BY AnchorsMeaning
<1>3. ASSUME NEW a \in 1..(L + 1), IsStart(a), \A t \in 1..(a - 1) : ~IsStart(t)
      PROVE  StartOf(p) = a
  <2>1. StartOf(p) = CHOOSE s \in 1..(L + 1) : IsStart(s) /\ \A t \in 1..(s - 1) : ~IsStart(t)
    BY DEF StartOf
  <2> HIDE DEF IsStart
  <2>2. ASSUME NEW s \in 1..(L + 1), IsStart(s), \A t \in 1..(s - 1) : ~IsStart(t)
        PROVE  s = a
    <3>1. ~ s < a
      BY <1>1, <1>3, <2>2
    <3>2. ~ a < s
      BY <1>1, <1>3, <2>2
    <3> QED
      BY <1>1, <3>1, <3>2
  <2> HIDE DEF L
  <2> QED
    BY <1>3, <2>1, <2>2
<1>4. ASSUME NEW s \in 1..L, p[s] = "*", HasNoAnchorFrom(p, s)
      PROVE  /\ TokenEnd(p, s) \in (s + 1)..(L + 1)
             /\ \A t \in s..(TokenEnd(p, s) - 1) : p[t] = "*"
             /\ IF TokenEnd(p, s) <= L THEN p[TokenEnd(p, s)] \notin {"*", "|"} ELSE Last(p) = "*"
             /\ HasNoAnchorFrom(p, TokenEnd(p, s))
  <2> DEFINE e == TokenEnd(p, s)
  <2>1. e \in (s + 1)..(L + 1) /\ (e <= L => ~Continues(p[e - 1], p[e]))
    BY TokenEndProperties
  <2>2. \A t \in s..(e - 1) : p[t] = "*"
    BY <1>4, TokenUniform DEF Special
  <2> HIDE DEF e
  <2>3. p[e - 1] = "*" /\ e - 1 \in s..L /\ (e - 1) + 1 = e
    BY <2>1, <2>2
  <2>4. e <= L => p[e] \notin {"*", "|"}
    <3>1. ASSUME e <= L PROVE p[e] # "|"
      <4>1. e - 1 < L
        BY <1>1, <2>1, <3>1
      <4> QED
        BY <1>4, <2>3, <4>1 DEF HasNoAnchorFrom
    <3>2. ASSUME e <= L PROVE p[e] # "*"
      BY <2>1, <2>3, <3>2 DEF Continues
    <3> QED
      BY <3>1, <3>2
  <2>5. e > L => Last(p) = "*"
    <3>1. e > L => e - 1 = L
      BY <1>1, <2>1
    <3> QED
      BY <2>3, <3>1 DEF Last
  <2>6. HasNoAnchorFrom(p, e)
    BY <1>4, <2>1 DEF HasNoAnchorFrom
  <2> QED
    BY <1>1, <2>1, <2>2, <2>4, <2>5, <2>6 DEF e
<1>5. CASE L > 0 => p[1] # "|"
  <2>1. AnchorsOf(p) = 0
    BY <1>1, <1>5 DEF AnchorsOf
  <2>2. HasNoAnchorFrom(p, 1)
    <3>1. 1 \in {1, 2, 3} /\ (1 <= 2 /\ 1 <= Len(p) => p[1] # "|")
      BY <1>1, <1>5
    <3> QED
      BY <3>1, RegularBehindAnchors
  <2>3. CASE L > 0 /\ p[1] = "*"
    <3> DEFINE e == TokenEnd(p, 1)
    <3>1. 1 \in 1..L
      BY <1>1, <2>3
    <3>2. /\ e \in 2..(L + 1)
          /\ \A t \in 1..(e - 1) : p[t] = "*"
          /\ IF e <= L THEN p[e] \notin {"*", "|"} ELSE Last(p) = "*"
          /\ HasNoAnchorFrom(p, e)
      BY <1>4, <2>2, <2>3, <3>1
    <3>3. SearchedFrom(p) = e
      BY <1>1, <2>1, <2>3 DEF SearchedFrom
    <3> HIDE DEF e
    <3>4. StartOf(p) = e
      <4>1. e \in 1..(L + 1)
        BY <3>2
      <4>2. IsStart(e)
        BY <1>1, <1>2, <1>5, <3>2
      <4>3. \A t \in 1..(e - 1) : ~IsStart(t)
        BY <1>1, <1>5, <2>3, <3>2
      <4> QED
        BY <1>3, <4>1, <4>2, <4>3
    <3> QED
      BY <1>1, <2>1, <3>2, <3>3, <3>4
  <2>4. CASE ~(L > 0 /\ p[1] = "*")
    <3>1. SearchedFrom(p) = 1
      BY <1>1, <2>1, <2>4 DEF SearchedFrom
    <3>2. StartOf(p) = 1
      <4>1. 1 \in 1..(L + 1) /\ IsStart(1) /\ \A t \in 1..(1 - 1) : ~IsStart(t)
        BY <1>1, <1>2, <1>5, <2>4
      <4> QED
        BY <1>3, <4>1
    <3> QED
      BY <1>1, <1>5, <2>1, <2>2, <2>4, <3>1, <3>2
  <2> QED
    BY <2>3, <2>4
<1>6. CASE L > 0 /\ p[1] = "|" /\ (L > 1 => p[2] # "|")
  <2>1. AnchorsOf(p) = 1
    <3>1. TokenEnd(p, 1) = 2
      <4>1. 1 \in 1..L
        BY <1>1, <1>6
      <4> QED
        BY <1>1, <1>6, <4>1, TokenEndOfRest DEF Continues, Special
    <3> QED
      BY <1>1, <1>6, <3>1 DEF AnchorsOf
  <2>2. HasNoAnchorFrom(p, 2)
    <3>1. 2 \in {1, 2, 3} /\ (2 <= 2 /\ 2 <= Len(p) => p[2] # "|")
      BY <1>1, <1>6
    <3> QED
      BY <3>1, RegularBehindAnchors
  <2>3. StartOf(p) = 2
    <3>1. 2 \in 1..(L + 1) /\ IsStart(2) /\ \A t \in 1..(2 - 1) : ~IsStart(t)
      BY <1>1, <1>2, <1>6
    <3> QED
      BY <1>3, <3>1
  <2>4. L = 1 => Last(p) = "|"
    BY <1>6 DEF Last
  <2> QED
    BY <1>1, <1>6, <2>1, <2>2, <2>3, <2>4
<1>7. CASE L > 1 /\ p[1] = "|" /\ p[2] = "|"
  <2>1. L > 2 /\ p[3] # "|" /\ 3 \in 1..L
    BY <1>1, <1>2, <1>7 DEF IsRegular
  <2>2. AnchorsOf(p) = 2
    BY <1>1, <1>7, <2>1, TwoAnchors DEF AnchorsOf
  <2>3. HasNoAnchorFrom(p, 3)
    <3>1. 3 \in {1, 2, 3} /\ ~ 3 <= 2
      OBVIOUS
    <3> QED
      BY <3>1, RegularBehindAnchors
  <2>4. CASE p[3] = "*"
    <3> DEFINE e == TokenEnd(p, 3)
    <3>1. /\ e \in 4..(L + 1)
          /\ \A t \in 3..(e - 1) : p[t] = "*"
          /\ IF e <= L THEN p[e] \notin {"*", "|"} ELSE Last(p) = "*"
          /\ HasNoAnchorFrom(p, e)
      BY <1>4, <2>1, <2>3, <2>4
    <3>2. SearchedFrom(p) = e
      BY <2>1, <2>2, <2>4 DEF SearchedFrom
    <3> HIDE DEF e
    <3>3. StartOf(p) = e
      <4>1. e \in 1..(L + 1)
        BY <3>1
      <4>2. IsStart(e)
        BY <1>1, <1>7, <3>1
      <4>3. \A t \in 1..(e - 1) : ~IsStart(t)
        <5>1. ASSUME NEW t \in 1..(e - 1), t > 2 PROVE t \in 3..(e - 1) /\ t <= L /\ t # 2
          BY <1>1, <3>1, <5>1
        <5> QED
          BY <1>2, <1>7, <3>1, <5>1
      <4> QED
        BY <1>3, <4>1, <4>2, <4>3
    <3> QED
      BY <2>2, <3>1, <3>2, <3>3
  <2>5. CASE p[3] # "*"
    <3>1. SearchedFrom(p) = 3
      BY <2>2, <2>5 DEF SearchedFrom
    <3>2. StartOf(p) = 3
      <4>1. 3 \in 1..(L + 1) /\ IsStart(3)
        BY <1>1, <1>7, <2>1, <2>5
      <4>2. \A t \in 1..(3 - 1) : ~IsStart(t)
        BY <1>2, <1>7
      <4> QED
        BY <1>3, <4>1, <4>2
    <3> QED
      BY <1>1, <2>1, <2>2, <2>3, <2>5, <3>1, <3>2
  <2> QED
    BY <2>4, <2>5
<1> QED
  BY <1>1, <1>5, <1>6, <1>7

(* A match of a regular pattern takes as many calls as the pattern is long.  *)
LEMMA CallsAreLength ==
  ASSUME NEW p \in Seq(Character), IsRegular(p)
  PROVE  CallsToMatch(p) = LengthOf(p)
<1> DEFINE L == Len(p)
           start == StartOf(p)
           calls == CallsFrom(p)
           parts == PartsFrom(p, start)
<1>1. L \in Nat /\ (p # <<>> <=> L > 0)
  OBVIOUS
<1>2. /\ start \in 1..(L + 1)
      /\ HasNoAnchorFrom(p, start)
      /\ AnchorsOf(p) = 1 => start = 2 /\ (L = 1 => Last(p) = "|")
      /\ AnchorsOf(p) # 1 =>
           /\ start = SearchedFrom(p)
           /\ IF start <= L THEN p[start] \notin {"*", "|"} ELSE p = <<>> \/ Last(p) = "*"
  BY StartMeaning
<1>3. calls[start] = CallsToBegin(calls, p, start)
  <2> HIDE DEF start
  <2> QED
    BY <1>2, CallsDef
<1>4. /\ LengthOf(p) = Cardinality(parts) +
           CASE p = <<>> \/ Last(p) = "*" -> 2
             [] p # <<>> /\ Last(p) = "|" /\ start <= L -> 0
             [] OTHER -> 1
      /\ CallsToMatch(p) = IF AnchorsOf(p) = 1 THEN calls[2]
                           ELSE CallsToFind(calls, p, SearchedFrom(p))
  BY Zenon DEF LengthOf, CallsToMatch
<1> HIDE DEF start
<1>5. CASE start <= L
  <2>1. calls[start] = Cardinality(parts) + CallsAtEnd(p)
    <3>1. start \in 1..L
      BY <1>1, <1>2, <1>5
    <3> QED
      BY <1>2, <3>1, CallsAreParts
  <2> HIDE DEF calls, parts
  <2>2. LengthOf(p) = calls[start]
    <3>1. p # <<>>
      BY <1>1, <1>2, <1>5
    <3> QED
      BY <1>4, <1>5, <2>1, <3>1 DEF CallsAtEnd
  <2>3. CASE AnchorsOf(p) = 1
    BY <1>2, <1>4, <2>2, <2>3
  <2>4. CASE AnchorsOf(p) # 1
    <3>1. calls[start] = 1 + calls[TokenEnd(p, start)]
      BY <1>1, <1>2, <1>3, <1>5, <2>4 DEF CallsToBegin
    <3> QED
      BY <1>2, <1>4, <1>5, <2>2, <2>4, <3>1 DEF CallsToFind
  <2> QED
    BY <2>3, <2>4
<1>6. CASE start > L
  <2>1. parts = {} /\ Cardinality(parts) = 0
    <3>1. parts = {}
      BY <1>1, <1>2, <1>6 DEF PartsFrom
    <3> QED
      BY <3>1, FS_EmptySet
  <2> HIDE DEF calls, parts
  <2>2. calls[start] = 1 /\ ~ start <= L
    BY <1>1, <1>2, <1>3, <1>6 DEF CallsToBegin
  <2>3. CASE AnchorsOf(p) = 1
    <3>1. L = 1 /\ Last(p) = "|" /\ p # <<>>
      <4>1. L > 0
        BY <1>1, <2>3 DEF AnchorsOf
      <4>2. L \in Nat /\ start = 2
        BY <1>1, <1>2, <2>3
      <4>3. L = 1
        <5> HIDE DEF L
        <5> QED
          BY <1>6, <4>1, <4>2
      <4> QED
        BY <1>1, <1>2, <2>3, <4>3
    <3> QED
      BY <1>2, <1>4, <2>1, <2>2, <2>3, <3>1
  <2>4. CASE AnchorsOf(p) # 1
    <3>1. CallsToMatch(p) = 2
      BY <1>2, <1>4, <2>2, <2>4 DEF CallsToFind
    <3> QED
      BY <1>2, <1>4, <2>1, <2>2, <2>4, <3>1
  <2> QED
    BY <2>3, <2>4
<1> QED
  BY <1>1, <1>2, <1>5, <1>6

(* What a pattern that makes sense to a plain search and is not too long     *)
(* matches is what that finds, but for anchors at the host; one that is too  *)
(* long matches nothing.  In every state.                                    *)
THEOREM PatternsMatchLikeGlob == Spec => []MatchesLikeGlob
<1>1. TypeOK => MatchesLikeGlob
  <2>1. SUFFICES ASSUME TypeOK, NEW p \in Written, NEW u \in Url, IsRegular(p)
                 PROVE  /\ Matches[p][u] <=> IsFoundInUrl(p, u) /\ LengthOf(p) <= kMaxRecursionDepth
                        /\ MatchesAsSearched(p, u)
    BY DEF MatchesLikeGlob, MatchesAsSearched
  <2>2. PICK line \in UrlFilter : p = line.pattern
    <3>1. PICK line \in Line : IsUrlFilter(line) /\ p = line.pattern
      BY <2>1 DEF Written, TypeOK
    <3>2. line \in UrlFilter
      BY <3>1, ContentFilterAssumption DEF Line, IsUrlFilter
    <3> QED
      BY <3>1, <3>2
  <2>3. Matches[p][u] = DoesPatternMatchUrl(p, u)
    <3>1. p \in { f.pattern : f \in UrlFilter }
      BY <2>2
    <3>2. Matches[p] = [ x \in Url |-> DoesPatternMatchUrl(p, x) ]
      BY <3>1 DEF Matches
    <3> QED
      BY <3>2, Zenon
  <2>4. p \in Seq(Character) /\ u.host \in Seq(Character) /\ u.path \in Seq(Character)
    <3>1. p \in Seq(STRING) /\ u.host \in Seq(STRING) /\ u.path \in Seq(STRING)
      BY <2>2, UrlFilterAssumption, UrlAssumption
    <3>2. Seq(STRING) \subseteq Seq(Character)
      BY SeqMonotonic DEF Character
    <3> QED
      BY <3>1, <3>2
  <2>5. (\A x \in DOMAIN u.host : u.host[x] # "/") /\ (u.path = <<>> \/ u.path[1] = "/")
    BY UrlAssumption
  <2>6. CallsToMatch(p) = LengthOf(p)
    BY <2>1, <2>4, CallsAreLength
  <2>7. MatchesAsSearched(p, u)
    BY <2>1, <2>4, <2>5, RegularMatches
  <2> QED
    BY <2>3, <2>6, <2>7 DEF DoesPatternMatchUrl
<1> QED
  BY <1>1, TypeCorrect, PTL
=============================================================================
