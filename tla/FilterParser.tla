----------------------------- MODULE FilterParser -----------------------------
(***************************************************************************)
(* UrlFilter, UrlFilterOptions, DomainOption, ContentFilter and            *)
(* SnippetFilter: a line of a list becomes a filter, or none.              *)
(*                                                                         *)
(* The line of a URL filter says whether it starts with @@ (`allowing`),   *)
(* its `pattern`, and the `options` after the $, in order.  An option has  *)
(* a key, whether a ~ precedes it (`inverse`), and the text after its =.   *)
(* What a text means depends on the key it stands with, so a text is a     *)
(* model value and the constants say how it is read.  Case, white space    *)
(* and regular expressions are left out.                                   *)
(***************************************************************************)
EXTENDS Naturals, Sequences, SequencesExt

CONSTANTS
  ContentType,   \* the content types that have a name
  Unnamed,       \* stands for the bits of ContentType::Default without one
  Nothing,       \* an option, a text or a filter that is not there
  EmptyText,     \* the text without characters
  Rewrite,       \* texts that name a resource
  InvalidCsp,    \* texts that are no policy
  DomainsIn,     \* the domains in each text, those to be excluded with a ~
  SitekeysIn,    \* the site keys in each text
  Unescaped,     \* each text as ParseHeaders leaves it
  ExcludeSymbols \* ~, and what follows kExcludeSymbol in memory

Default == ContentType \cup {Unnamed}

\* The texts, and the options that can be written with them.
Text == DOMAIN DomainsIn

UrlFilterOption == [key : STRING, inverse : BOOLEAN, value : Text \cup {Nothing}]

ASSUME TextAssumption ==
  /\ EmptyText \in Text /\ Nothing \notin Text
  /\ DomainsIn \in [Text -> SUBSET Seq(STRING)]
  /\ Unescaped \in [Text -> Text] /\ Unescaped[EmptyText] = EmptyText

-----------------------------------------------------------------------------
(* DomainOption.                                                           *)

IsExcluded(domain) == domain # <<>> /\ domain[1] = "~"

IncludeDomains(domains) == { d \in domains : ~ IsExcluded(d) }

\* RemoveChars is given a pointer to the symbol as if it were a string.
ExcludeDomains(domains) ==
  { SelectSeq(d, LAMBDA c : c \notin ExcludeSymbols) : d \in { x \in domains : IsExcluded(x) } }

Localhost == <<"l", "o", "c", "a", "l", "h", "o", "s", "t">>

\* In spite of its name, true of a domain that has no subdomain.
HasSubdomainOrLocalhost(domain) == domain # Localhost /\ "." \notin ToSet(domain)

RemoveDomainsWithNoSubdomain(domains) == { d \in domains : ~HasSubdomainOrLocalhost(d) }

-----------------------------------------------------------------------------
(* UrlFilterOptions::FromString.  `value` is its local variable, which an  *)
(* option without a = leaves as it was.                                    *)

Unread ==
  [ match_case |-> FALSE, popup |-> FALSE, subresource |-> FALSE, third_party |-> "Ignore",
    types |-> {}, exceptions |-> {}, rewrite |-> Nothing, csp |-> Nothing, headers |-> Nothing,
    domains |-> {}, sitekeys |-> {}, value |-> EmptyText, valid |-> TRUE ]

ExceptionType == {"document", "genericblock", "elemhide", "generichide"}

ASSUME ContentTypeAssumption ==
  /\ Unnamed \notin ContentType
  /\ ContentType \cap ({"match-case", "popup", "third-party", "rewrite", "domain", "sitekey", "csp",
                        "header"} \cup ExceptionType) = {}

\* Faulty: types are taken out of those named so far.
ExcludedFromNamed(types, type, inverse) ==
  IF inverse THEN types \ {type} ELSE types \cup {type}

\* No types yet means that none was named, or that the last was taken back.
WithType(types, type, inverse) ==
  IF inverse THEN (IF types = {} THEN Default ELSE types) \ {type} ELSE types \cup {type}

ReadOption(o, option) ==
  LET value == IF option.value = Nothing THEN o.value ELSE option.value
      read == [o EXCEPT !.value = value]
      ReadIf(valid, result) == IF valid THEN result ELSE [o EXCEPT !.valid = FALSE]
  IN  IF ~ o.valid THEN o ELSE
      CASE option.key = "match-case" -> [read EXCEPT !.match_case = ~ option.inverse]
        [] option.key = "popup" -> [read EXCEPT !.popup = TRUE]
        [] option.key = "third-party" ->
             [read EXCEPT !.third_party =
                IF option.inverse THEN "FirstPartyOnly" ELSE "ThirdPartyOnly"]
        [] option.key = "rewrite" -> ReadIf(value \in Rewrite, [read EXCEPT !.rewrite = value])
        [] option.key = "domain" ->
             ReadIf(value # EmptyText, [read EXCEPT !.domains = DomainsIn[value]])
        [] option.key = "sitekey" ->
             ReadIf(value # EmptyText, [read EXCEPT !.sitekeys = SitekeysIn[value]])
        [] option.key = "csp" -> ReadIf(value \notin InvalidCsp, [read EXCEPT !.csp = value])
        [] option.key = "header" ->
             [read EXCEPT !.headers = Unescaped[value], !.value = Unescaped[value]]
        [] option.key \in ContentType ->
             [read EXCEPT !.types = WithType(@, option.key, option.inverse), !.subresource = TRUE]
        [] option.key \in ExceptionType -> [read EXCEPT !.exceptions = @ \cup {option.key}]
        [] OTHER -> [o EXCEPT !.valid = FALSE]

\* What has been read after the first n options, for each n.
Reading(options) ==
  LET reading[n \in 0..Len(options)] ==
        IF n = 0 THEN Unread ELSE ReadOption(reading[n - 1], options[n])
  IN  reading

\* A filter is for resources if it names a type, or nothing else to be for.
ParseOptions(options) ==
  LET o == Reading(options)[Len(options)]
  IN  [o EXCEPT
         !.subresource = @ \/ /\ o.exceptions = {}
                              /\ ~ o.popup
                              /\ {o.csp, o.rewrite, o.headers} = {Nothing},
         !.types = IF @ = {} THEN Default ELSE @]

-----------------------------------------------------------------------------
(* UrlFilter::FromString.                                                  *)

\* A resource may be rewritten for certain domains only.
IsInvalidRewrite(pattern, o) ==
  /\ o.rewrite # Nothing
  /\ \/ IncludeDomains(o.domains) = {}
     \/ o.third_party = "ThirdPartyOnly"
     \/ ~ IsPrefix(<<"|", "|">>, pattern) /\ pattern \notin {<<"*">>, <<>>}

ParseUrlFilter(line) ==
  LET o == ParseOptions(IF line.options = Nothing THEN <<>> ELSE line.options)
  IN  IF \/ ~ o.valid
         \/ ~ line.allowing /\ EmptyText \in {o.csp, o.headers}
         \/ ~ line.allowing /\ ~ o.subresource /\ o.exceptions # {}
         \/ line.pattern = <<>> /\ line.options = Nothing
         \/ IsInvalidRewrite(line.pattern, o)
      THEN Nothing
      ELSE [ allowing |-> line.allowing, pattern |-> line.pattern, popup |-> o.popup,
             subresource |-> o.subresource, third_party |-> o.third_party, types |-> o.types,
             exceptions |-> o.exceptions, rewrite |-> o.rewrite, csp |-> o.csp,
             headers |-> o.headers, sitekeys |-> o.sitekeys,
             include |-> IncludeDomains(o.domains), exclude |-> ExcludeDomains(o.domains) ]

-----------------------------------------------------------------------------
(* ContentFilter::FromString and SnippetFilter::FromString.  The line has  *)
(* the domains before its separator and the selector or script after it.   *)
(* Selectors for scripts, and snippets, are for domains with a dot only.   *)

NeedsSubdomain(type) == type \in {"ElemHideEmulation", "Snippet"}

ParseContentFilter(line) ==
  LET Kept(domains) ==
        IF NeedsSubdomain(line.type) THEN RemoveDomainsWithNoSubdomain(domains) ELSE domains
      include == Kept(IncludeDomains(line.domains))
  IN  IF \/ line.selector = EmptyText
         \/ NeedsSubdomain(line.type) /\ include = {}
      THEN Nothing
      ELSE [ type |-> line.type, selector |-> line.selector, include |-> include,
             exclude |-> Kept(ExcludeDomains(line.domains)) ]
=============================================================================
