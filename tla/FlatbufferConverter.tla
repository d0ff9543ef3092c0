------------------------- MODULE FlatbufferConverter -------------------------
(***************************************************************************)
(* FlatbufferConverter and FlatbufferSerializer: lists are written line by *)
(* line; each is parsed and filed in the indices it belongs to, and what   *)
(* is written is classified with.                                          *)
(***************************************************************************)
EXTENDS ResourceClassifier

CONSTANTS
  ContentFilter,   \* the lines of element hiding and snippet filters
  List,            \* the lists
  Privileged,      \* the lists that may have header filters
  OwnerOf,         \* the configuration of each list
  Request,         \* the requests that are classified
  MaxLines         \* bound on the lines of all lists

ASSUME ContentFilterAssumption ==
  \A line \in ContentFilter :
    /\ "pattern" \notin DOMAIN line
    /\ line.type \in {"ElemHide", "ElemHideException", "ElemHideEmulation", "Snippet"}
    /\ line.domains \in SUBSET Seq(STRING) /\ IsFiniteSet(line.domains)

ASSUME RequestAssumption == \A r \in Request : r.url \in Url /\ r.frames \in Seq(Url)

VARIABLES
  lines,   \* the lines of each list that have been read
  lists    \* what is written of each list

converter_vars == <<lines, lists>>

Line == UrlFilter \cup ContentFilter

IsUrlFilter(line) == "pattern" \in DOMAIN line

-----------------------------------------------------------------------------
\* Of the keywords of a pattern the one with the fewest filters so far, of
\* those the longest, and of those the first; <<>> for a pattern without one.
FindCandidateKeyword(list, index, pattern) ==
  LET Keyword(place) == SubSeq(pattern, place[1], place[2])
      Size(place) == Cardinality(Filed(list, index, Keyword(place)))
      Length(place) == place[2] - place[1]
      Better(p, q) ==
        \/ Size(p) < Size(q)
        \/ Size(p) = Size(q) /\ Length(p) > Length(q)
        \/ Size(p) = Size(q) /\ Length(p) = Length(q) /\ p[1] <= q[1]
      places == KeywordPlaces(pattern)
  IN  IF places = {} THEN <<>>
      ELSE Keyword(CHOOSE p \in places : \A q \in places : Better(p, q))

\* The indices of a filter.  A header filter is that only, and an exception is
\* filed as one whatever the filter is.
IndicesOf(filter) ==
  LET uses == (IF filter.popup THEN {"popup"} ELSE {})
              \cup (IF filter.csp # Nothing THEN {"csp"} ELSE {})
              \cup (IF filter.rewrite # Nothing THEN {"rewrite"} ELSE {})
              \cup (IF filter.subresource THEN {"subresource"} ELSE {})
  IN  IF filter.headers # Nothing THEN {<<"header", filter.allowing>>}
      ELSE (uses \X {filter.allowing}) \cup (filter.exceptions \X {TRUE})

SerializeUrlFilter(list, filter, allow_privileged) ==
  IF filter.headers # Nothing /\ ~allow_privileged THEN list
  ELSE list \cup
       { [ index |-> index, filter |-> filter,
           key |-> FindCandidateKeyword(list, index, filter.pattern) ] :
         index \in IndicesOf(filter) }

\* A filter without domains is for all of them.
SerializeContentFilter(list, filter) ==
  list \cup { [ index |-> <<filter.type>>, key |-> k, filter |-> filter ] :
                k \in IF filter.include = {} THEN {<<>>} ELSE filter.include }

SerializeSnippetFilter(list, filter, allow_privileged) ==
  IF ~allow_privileged THEN list
  ELSE list \cup { [ index |-> <<filter.type>>, key |-> k, filter |-> filter ] :
                     k \in filter.include }

Serialize(list, filter, allow_privileged) ==
  CASE IsUrlFilter(filter) -> SerializeUrlFilter(list, filter, allow_privileged)
    [] ~IsUrlFilter(filter) /\ filter.type = "Snippet" ->
         SerializeSnippetFilter(list, filter, allow_privileged)
    [] ~IsUrlFilter(filter) /\ filter.type # "Snippet" -> SerializeContentFilter(list, filter)

ConvertFilter(list, line, allow_privileged) ==
  LET filter == IF IsUrlFilter(line) THEN ParseUrlFilter(line) ELSE ParseContentFilter(line)
  IN  IF filter = Nothing THEN list ELSE Serialize(list, filter, allow_privileged)

FiltersOf(list) == { e.filter : e \in list }

\* The next line of a list is converted.
Convert(l) ==
  /\ FoldSet(LAMBDA x, n : n + Cardinality(lines[x]), 0, List) < MaxLines
  /\ \E line \in Line \ lines[l] :
       /\ lines' = [lines EXCEPT ![l] = @ \cup {line}]
       /\ lists' = [lists EXCEPT ![l] = ConvertFilter(@, line, l \in Privileged)]

Init ==
  /\ lines = [l \in List |-> {}]
  /\ lists = [l \in List |-> {}]

Next == \E l \in List : Convert(l)

Spec == Init /\ [][Next]_converter_vars

-----------------------------------------------------------------------------
\* The lists of each configuration; all that have any are enabled.
Snapshot == { { lists[l] : l \in { x \in List : OwnerOf[x] = c } } : c \in { OwnerOf[x] : x \in List } }

\* All lists of a collection in one.
Merged(collection) ==
  UNION { Serialize({}, filter, TRUE) : filter \in UNION { FiltersOf(list) : list \in collection } }

Decisions(snapshot, r) ==
  [ request |-> ClassifyRequest(snapshot, r), popup |-> ClassifyPopup(snapshot, r),
    response |-> ClassifyResponse(snapshot, r), csp |-> CspInjections(snapshot, r),
    hidden |-> PrepareElemhideEmulationData(snapshot, r) ]

\* The patterns written in the lists.
Written == { f.pattern : f \in { x \in UNION { lines[l] : l \in List } : IsUrlFilter(x) } }

\* Two kinds of patterns cannot be relied on to be found by their words: behind
\* a single anchor in its middle a pattern is not compared with the address, and
\* one anchored at the host may be found in the middle of the scheme.
\* (pattern_matcher.cc:149, :56)
IsIndexable(p) ==
  /\ \A i \in 2..(Len(p) - 1) : p[i] = "|" => "|" \in {p[i - 1], p[i + 1]}
  /\ \A place \in KeywordPlaces(p) : place[1] = 3 /\ p[2] = "|" =>
       \A i \in 2..Len(Scheme) : SubSeq(p, 3, place[2]) # SubSeq(Scheme, i, Len(Scheme))

\* The lists of a configuration form one set of rules: it makes no difference in
\* which list a filter is, in which order it was converted or under which
\* keyword it is filed.  (classifier and collection look through the lists one
\* by one, and more than once: resource_classifier_impl.cc:59, :114, :194,
\* subscription_collection_impl.cc:285, :344, element_hider_impl.cc:133)
ListsFormOneRuleset ==
  (\A p \in Written : IsIndexable(p)) =>
    \A r \in Request :
      \A d, e \in { Decisions(s, r) : s \in {Snapshot, { {Merged(c)} : c \in Snapshot }} } : d = e

OptionsOf(line) == IF line.options = Nothing THEN {} ELSE ToSet(line.options)

IsException(line) ==
  IF IsUrlFilter(line) THEN line.allowing ELSE line.type = "ElemHideException"

\* Nothing is blocked or hidden then that is not now.
OnlyUnblocks(line, r, now, then) ==
  LET hidden == PrepareElemhideEmulationData(now, r)
      hidden_then == PrepareElemhideEmulationData(then, r)
      Makes(kind) == IsUrlFilter(line) /\ \E option \in OptionsOf(line) : option.key = kind
  IN  /\ ClassifyRequest(then, r) = Blocked => ClassifyRequest(now, r) = Blocked
      /\ ClassifyPopup(then, r) = Blocked => ClassifyPopup(now, r) = Blocked
      /\ CspInjections(then, r) \subseteq CspInjections(now, r)
      /\ ~Makes("rewrite") => Rewrites(then, r) \subseteq Rewrites(now, r) \cup {Nothing}
      /\ ~Makes("genericblock") =>
           (ClassifyResponse(then, r) = Blocked => ClassifyResponse(now, r) = Blocked)
      /\ hidden_then.snippet_js \subseteq hidden.snippet_js
      /\ hidden_then.elemhide_js \subseteq hidden.elemhide_js
      /\ ~Makes("generichide") => hidden_then.stylesheet \subseteq hidden.stylesheet

\* An exception in any list blocks and hides nothing that was not.  Three kinds
\* are different: after a genericblock exception allowing header filters are not
\* searched for, after a generichide exception generic exceptions from element
\* hiding are not, and an exception from a rewrite may be found before one from
\* another, which then counts for nothing.  (resource_classifier_impl.cc:210,
\* installed_subscription_impl.cc:174, :282)
ExceptionsOnlyUnblock ==
  [][ \A l \in List : \A line \in lines'[l] \ lines[l] : IsException(line) =>
        \A r \in Request, now \in {Snapshot}, then \in {Snapshot'} :
          OnlyUnblocks(line, r, now, then) ]_converter_vars

-----------------------------------------------------------------------------
\* A reference for options, for lists in which none is there twice and none that
\* lacks its value comes after another value.
NeedsValue == {"rewrite", "domain", "sitekey", "csp", "header"}

IsUnambiguous(options) ==
  \A i \in DOMAIN options : \A j \in 1..(i - 1) :
    /\ options[i].key # options[j].key
    /\ options[i].key \in NeedsValue /\ options[i].value = Nothing => options[j].value = Nothing

ValueOf(option) == IF option.value = Nothing THEN EmptyText ELSE option.value

IsMeaningful(option) ==
  CASE option.key = "rewrite" -> ValueOf(option) \in Rewrite
    [] option.key \in {"domain", "sitekey"} -> ValueOf(option) # EmptyText
    [] option.key = "csp" -> ValueOf(option) \notin InvalidCsp
    [] OTHER -> option.key \in ContentType \cup ExceptionType \cup
                  {"match-case", "popup", "third-party", "header"}

\* A list of options is accepted if each option could stand alone, and each then
\* means what it says wherever it stands.  Only the types depend on their order:
\* if the first excludes one, all others are included.  (url_filter_options.cc:47)
OptionsMeanWhatTheySay ==
  \A line \in { x \in UNION { lines[l] : l \in List } :
                IsUrlFilter(x) /\ x.options # Nothing /\ IsUnambiguous(x.options) } :
    LET options == line.options
        o == ParseOptions(options)
        Keys(inverse) == { p.key : p \in { x \in OptionsOf(line) : x.inverse \in inverse } }
        Has(key) == key \in Keys(BOOLEAN)
        Value(key) == { ValueOf(x) : x \in { y \in OptionsOf(line) : y.key = key } }
        named == Keys(BOOLEAN) \cap ContentType
        firstExcludes == \E i \in DOMAIN options :
          /\ options[i].key \in ContentType /\ options[i].inverse
          /\ \A j \in 1..(i - 1) : options[j].key \notin ContentType
    IN  /\ o.valid <=> \A x \in OptionsOf(line) : IsMeaningful(x)
        /\ o.valid =>
             /\ o.types = IF named = {} \/ firstExcludes
                         THEN Default \ (named \cap Keys({TRUE}))
                         ELSE named \cap Keys({FALSE})
             /\ o.exceptions = Keys(BOOLEAN) \cap ExceptionType
             /\ o.popup = Has("popup")
             /\ o.match_case = ("match-case" \in Keys({FALSE}))
             /\ o.third_party = CASE "third-party" \in Keys({TRUE}) -> "FirstPartyOnly"
                                  [] "third-party" \in Keys({FALSE}) -> "ThirdPartyOnly"
                                  [] OTHER -> "Ignore"
             /\ {o.rewrite} = OrNothing(Value("rewrite"))
             /\ {o.csp} = OrNothing(Value("csp"))
             /\ {o.headers} = OrNothing({ Unescaped[v] : v \in Value("header") })
             /\ o.domains = UNION { DomainsIn[v] : v \in Value("domain") }
             /\ o.sitekeys = UNION { SitekeysIn[v] : v \in Value("sitekey") }
             /\ o.subresource <=>
                  named # {} \/ Keys(BOOLEAN) \subseteq
                                 {"match-case", "third-party", "domain", "sitekey"}

-----------------------------------------------------------------------------
\* A reference for patterns: the positions reached in a text, from a set of
\* positions, by one character of a pattern.
Reached(text, from, c) ==
  LET end == Len(text) + 1
  IN  CASE c = "*" -> { j \in 1..end : \E i \in from : i <= j }
        [] c = "^" -> { i + 1 : i \in { x \in from \ {end} : CharacterIsValidSeparator(text[x]) } }
                      \cup (from \cap {end})
        [] c = "|" -> from \cap {end}
        [] OTHER -> { i + 1 : i \in { x \in from \ {end} : text[x] = c } }

\* The positions reached behind each character of a pattern, from its s-th on.
ReachedBehind(text, from, pattern, s) ==
  LET behind[n \in (s - 1)..Len(pattern)] ==
        IF n = s - 1 THEN from ELSE Reached(text, behind[n - 1], pattern[n])
  IN  behind

Glob(text, from, pattern, s) == ReachedBehind(text, from, pattern, s)[Len(pattern)] # {}

\* Where the host of a URL and the labels in it start.
HostStarts(url) ==
  LET start == Len(Scheme) + 4
  IN  { i \in start..(start + Len(url.host) - 1) : i = start \/ SpecOf(url)[i - 1] = "." }

IsHostAnchored(p) == IsPrefix(<<"|", "|">>, p) /\ ~IsPrefix(<<"|", "|", "*">>, p)

GlobMatches(p, url) ==
  LET text == SpecOf(url)
      anywhere == 1..(Len(text) + 1)
  IN  CASE IsHostAnchored(p) -> Glob(text, HostStarts(url), p, 3)
        [] IsPrefix(<<"|", "|", "*">>, p) -> Glob(text, anywhere, p, 3)
        [] p # <<>> /\ p[1] = "|" /\ ~IsPrefix(<<"|", "|">>, p) -> Glob(text, {1}, p, 2)
        [] OTHER -> Glob(text, anywhere, p, 1)

\* The rest of a host-anchored pattern is also found before a label of the host,
\* and not at the start of another.
FoundBeforeHost(p, url) ==
  \E j \in HostStarts(url), i \in (1..Len(SpecOf(url))) \ HostStarts(url) :
    i < j /\ Glob(SpecOf(url), {i}, p, 3)

FoundInScheme(p, url) == \E i \in 1..(Len(Scheme) + 3) : Glob(SpecOf(url), {i}, p, 3)

\* Anchors are at the ends of the pattern, the one at its end does not follow a
\* wildcard, which would look for a "|" then, and what is anchored at the host
\* does not start with what a host cannot start with. (pattern_matcher.cc:149,
\* :167)
IsRegular(p) ==
  /\ \A i \in DOMAIN p : p[i] = "|" => i \in {1, Len(p)} \/ (i = 2 /\ p[1] = "|")
  /\ Len(p) > 1 /\ Last(p) = "|" => p[Len(p) - 1] # "*"
  /\ IsPrefix(<<"|", "|">>, p) => Len(p) > 2 /\ p[3] \notin {"|", "^", "/"}

\* Where a regular pattern starts, behind its anchors in front and wildcards that
\* make no difference.
StartOf(p) ==
  LET IsStart(s) ==
        /\ IsPrefix(<<"|", "|">>, p) => s > 2
        /\ p # <<>> /\ p[1] = "|" => s > 1
        /\ s <= Len(p) /\ p[s] = "*" => p[1] = "|" /\ s = 2
  IN  CHOOSE s \in 1..(Len(p) + 1) : IsStart(s) /\ \A t \in 1..(s - 1) : ~IsStart(t)

\* The parts of a pattern from s on, each by where it starts: words, separators,
\* runs of wildcards and anchors.
PartsFrom(p, s) == { t \in s..Len(p) : t > s => ~Continues(p[t - 1], p[t]) }

\* How long a regular pattern is: its parts, and the end if there is no anchor.
\* An end that nothing but wildcards is before has to be found first.
LengthOf(p) ==
  Cardinality(PartsFrom(p, StartOf(p))) +
  CASE p = <<>> \/ Last(p) = "*" -> 2
    [] p # <<>> /\ Last(p) = "|" /\ StartOf(p) <= Len(p) -> 0
    [] OTHER -> 1

\* A pattern matches what a plain search with wildcards finds, and nothing else,
\* if it is not too long, and no address if it is.  One that is anchored at the
\* host is different: only the first place where the rest of it is found is
\* looked at, so it may miss an address, and any place in the scheme will do.
\* (pattern_matcher.cc:31, :56, :223; test DeepRecursion)
MatchesLikeGlob ==
  \A p \in Written, u \in Url :
    IsRegular(p) /\ ~(Matches[p][u] <=> GlobMatches(p, u) /\ LengthOf(p) <= kMaxRecursionDepth) =>
      /\ IsHostAnchored(p)
      /\ \/ GlobMatches(p, u) /\ FoundBeforeHost(p, u)
         \/ FoundInScheme(p, u)

\* Every filter that matches an address is found for it: whichever of its
\* keywords it is filed under is a keyword of the address.
\* (flatbuffer_serializer.cc:326, filter_keyword_extractor.cc:26,
\* url_keyword_extractor.cc:35)
KeywordIndexComplete ==
  \A p \in Written, u \in Url : IsIndexable(p) /\ Matches[p][u] =>
    \A place \in KeywordPlaces(p) : SubSeq(p, place[1], place[2]) \in Keywords[u]
=============================================================================
