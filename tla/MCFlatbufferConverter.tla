------------------------ MODULE MCFlatbufferConverter ------------------------
(* Lines, addresses and requests for FlatbufferConverter.                    *)
EXTENDS FlatbufferConverter

CONSTANTS easylist, custom, own, adblock, other,
          blank_js, blank_css, policy, bad_policy, on_page, not_in_frame, signed_by, escaped, header, header_value, key

ab == <<"a", "b">>
dot == <<".">>
slash == <<"/">>
MCWord == {"a", "b", "h", "t", "p"}

\* A host with the same word as a label and at the end of another, a host that
\* starts with it and one without it; a path where it starts a longer word.
Hosts == {<<"b">>, ab \o dot \o <<"b">>, <<"b", "a", "b">> \o dot \o ab}
Paths == {slash, slash \o ab \o <<"b">> \o slash \o <<"b">>, slash \o <<"a", "_", "b">> \o slash \o ab}

MCPatternUrl == [host : Hosts, path : Paths]

\* An advertisement on a page, in a frame of it from another site, or opened by
\* the page.
page == [host |-> <<"a">> \o dot \o <<"b">>, path |-> slash]
frame == [host |-> <<"b", "a", "b">> \o dot \o ab, path |-> slash]
ad == [host |-> ab \o dot \o <<"b">>, path |-> slash \o ab \o <<"b">> \o slash]

MCUrl == {page, frame, ad}

\* The part of a host after its dots.
MCSiteOf ==
  [ h \in Hosts \cup {page.host} |->
      CHOOSE d \in Subdomains(h) : \A e \in Subdomains(h) : Len(d) <= Len(e) ]

-----------------------------------------------------------------------------
\* The texts of options and what is in them.
MCText == {EmptyText, blank_js, blank_css, policy, bad_policy, on_page, not_in_frame, signed_by, escaped, header}
MCInvalidCsp == {bad_policy}
MCRewrite == {blank_js, blank_css}
MCDomainsIn ==
  [ t \in MCText |-> CASE t = on_page -> {page.host}
                       [] t = not_in_frame -> {<<"~">> \o frame.host}
                       [] t \notin {on_page, not_in_frame} -> {} ]
MCSitekeysIn == [ t \in MCText |-> IF t = signed_by THEN {key} ELSE {} ]
MCUnescaped == [ t \in MCText |-> IF t = escaped THEN header ELSE t ]
MCHeaderIn == [ t \in MCText |-> [name |-> header, value |-> AnyValue] ]

Option(name) == [key |-> name, inverse |-> FALSE, value |-> Nothing]
Excluding(name) == [key |-> name, inverse |-> TRUE, value |-> Nothing]
With(name, text) == [key |-> name, inverse |-> FALSE, value |-> text]

UrlLine(allowing, pattern, options) ==
  [allowing |-> allowing, pattern |-> pattern, options |-> options]

-----------------------------------------------------------------------------
\* Pieces that are put together to patterns of at most four pieces between
\* anchors.  `**`, `*|` and a host anchor before anything but a letter or a
\* wildcard are left out.
Piece == {<<"*">>, <<"^">>, dot, slash, <<"_">>, ab, <<"b">>}
Middle == { FlattenSeq(s) : s \in UNION { [1..n -> Piece] : n \in 0..4 } }
Start == {<<>>, <<"|">>, <<"|", "|">>}
End == {<<>>, <<"|">>}

WellFormed(start, middle, end) ==
  /\ \A i \in 1..(Len(middle) - 1) : ~(middle[i] = "*" /\ middle[i + 1] = "*")
  /\ end # <<>> => middle # <<>> /\ Last(middle) # "*"
  /\ start = <<"|", "|">> => middle # <<>> /\ middle[1] \in {"a", "b", "*"}

MCPattern ==
  { t[1] \o t[2] \o t[3] : t \in
      { t \in Start \X Middle \X End : WellFormed(t[1], t[2], t[3]) } }

\* Every option, with what it may have and without, in lists of up to three.
MCOption ==
  { Option(name) : name \in {"match-case", "popup", "third-party", "script", "image", "document",
                             "genericblock", "rewrite", "domain", "sitekey", "csp", "header",
                             "unknown"} }
  \cup { Excluding(name) : name \in {"match-case", "third-party", "script", "image"} }
  \cup { With("rewrite", blank_js), With("rewrite", policy), With("domain", on_page),
         With("domain", EmptyText), With("sitekey", signed_by), With("csp", policy),
         With("csp", bad_policy), With("header", escaped) }

PatternLine == { UrlLine(FALSE, p, Nothing) : p \in MCPattern }
OptionLine == { UrlLine(FALSE, <<"b">>, s) : s \in UNION { [1..n -> MCOption] : n \in 1..3 } }
MCPatternFilter == PatternLine \cup OptionLine

-----------------------------------------------------------------------------
MCOwnerOf == [l \in List |-> IF l = own THEN other ELSE adblock]

Asked(url, frames, sitekey) ==
  [ url |-> url, frames |-> frames, type |-> "script", sitekey |-> sitekey,
    headers |-> {[name |-> header, value |-> header_value]} ]

MCRequest ==
  {Asked(ad, <<page>>, NoSitekey), Asked(ad, <<frame, page>>, NoSitekey), Asked(ad, <<page>>, key),
   Asked(page, <<>>, NoSitekey)}

\* Filters for the advertisement, whose address has two keywords, and for the
\* page, for all domains or for some.
AdFilter(allowing, options) == UrlLine(allowing, <<"|", "|">> \o ad.host \o ad.path, options)
ForAds == <<Option("script"), Option("popup"), With("csp", policy)>>
HeaderFilter(allowing, options) == UrlLine(allowing, <<>>, <<With("header", header)>> \o options)
OnPage == With("domain", on_page)

MCUrlFilter ==
  { AdFilter(FALSE, ForAds), AdFilter(FALSE, ForAds \o <<Excluding("third-party"), OnPage>>),
    AdFilter(TRUE, ForAds \o <<With("domain", not_in_frame)>>),
    UrlLine(TRUE, <<>>, <<Option("csp"), Option("script"), Option("popup"), With("sitekey", signed_by)>>),
    AdFilter(FALSE, <<With("rewrite", blank_js), OnPage>>),
    AdFilter(TRUE, <<With("rewrite", blank_js), OnPage>>),
    UrlLine(FALSE, <<"*">>, <<With("rewrite", blank_css), OnPage>>),
    HeaderFilter(FALSE, <<>>), HeaderFilter(FALSE, <<OnPage>>), HeaderFilter(TRUE, <<>>) }
  \cup { UrlLine(TRUE, <<"|", "|">> \o page.host \o <<"^">>, <<Option(kind)>>) : kind \in ExceptionType }

ContentLine(type, domains) == [type |-> type, selector |-> "ad", domains |-> domains]

MCContentFilter ==
  { ContentLine("ElemHide", {}), ContentLine("ElemHide", {page.host}),
    ContentLine("ElemHideException", {}), ContentLine("ElemHideException", {page.host}),
    ContentLine("ElemHideEmulation", {page.host, <<"b">>}), ContentLine("Snippet", {page.host}) }
=============================================================================
