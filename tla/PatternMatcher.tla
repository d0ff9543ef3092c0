---------------------------- MODULE PatternMatcher ----------------------------
(***************************************************************************)
(* Whether a filter pattern matches a URL, and the keywords under which a  *)
(* pattern is indexed and looked up.  Both are sequences of characters in  *)
(* lower case.  Regular expressions are left out.                          *)
(***************************************************************************)
EXTENDS Integers, Sequences, SequencesExt

CONSTANTS
  Word,                \* the letters, digits and "%" that occur in patterns and URLs
  kMaxRecursionDepth   \* how many calls may be nested

ASSUME RecursionAssumption == kMaxRecursionDepth \in Nat

Scheme == <<"h", "t", "t", "p">>

\* A URL is its host and its path, each a sequence of characters.
SpecOf(url) == Scheme \o <<":", "/", "/">> \o url.host \o url.path

BadKeywords ==
  {Scheme, Append(Scheme, "s"), <<"c", "o", "m">>, <<"j", "s">>}

IsBadKeyword(word) == word \in BadKeywords \/ Len(word) < 2

\* Words that start at i and end at j, neither of which could be extended.
IsWholeWord(text, i, j) ==
  /\ \A k \in i..j : text[k] \in Word
  /\ i > 1 => text[i - 1] \notin Word
  /\ j < Len(text) => text[j + 1] \notin Word

\* The keywords UrlKeywordExtractor returns for a URL, without their order.
UrlKeywords(url) ==
  LET text == SpecOf(url)
  IN  { SubSeq(text, w[1], w[2]) : w \in
          { w \in (DOMAIN text) \X (DOMAIN text) :
              /\ w[1] <= w[2]
              /\ IsWholeWord(text, w[1], w[2])
              /\ ~IsBadKeyword(SubSeq(text, w[1], w[2])) } }

\* Faulty: a word at the end of the pattern is a keyword as well.
KeywordsToTheEnd(pattern) ==
  { w \in (2..Len(pattern)) \X (2..Len(pattern)) :
      /\ w[1] <= w[2]
      /\ IsWholeWord(pattern, w[1], w[2])
      /\ pattern[w[1] - 1] # "*"
      /\ w[2] < Len(pattern) => pattern[w[2] + 1] # "*"
      /\ ~IsBadKeyword(SubSeq(pattern, w[1], w[2])) }

\* Where FilterKeywordExtractor finds the keywords of a pattern: a word needs
\* a character before and behind it that ends the word in every URL.
KeywordPlaces(pattern) ==
  { w \in (2..Len(pattern)) \X (2..(Len(pattern) - 1)) :
      /\ w[1] <= w[2]
      /\ IsWholeWord(pattern, w[1], w[2])
      /\ pattern[w[1] - 1] # "*"
      /\ pattern[w[2] + 1] # "*"
      /\ ~IsBadKeyword(SubSeq(pattern, w[1], w[2])) }

-----------------------------------------------------------------------------
Special == {"*", "^", "|"}

ASSUME WordAssumption ==
  /\ Word \cap (Special \cup {":", "/", "."}) = {}
  /\ \A i \in DOMAIN Scheme : Scheme[i] \in Word

\* A run of wildcards is one token, a run of anchors is another, a separator
\* is a token of its own; any other token reaches to the next special character.
Continues(previous, c) ==
  \/ c \in {"*", "|"} /\ previous = c
  \/ c \notin Special /\ previous \notin Special

\* Where the token ends that starts at s.
TokenEnd(pattern, s) ==
  CHOOSE e \in (s + 1)..(Len(pattern) + 1) :
    /\ \A x \in (s + 1)..(e - 1) : Continues(pattern[x - 1], pattern[x])
    /\ e <= Len(pattern) => ~Continues(pattern[e - 1], pattern[e])

CharacterIsValidSeparator(c) == c \notin Word \cup {"_", "-", ".", "%"}

StartsWith(input, i, token) ==
  /\ i + Len(token) - 1 <= Len(input)
  /\ SubSeq(input, i, i + Len(token) - 1) = token

\* Faulty: only the first occurrence of the token is tried.
FirstOccurrence(begins, pattern, input, s) ==
  LET next == TokenEnd(pattern, s)
      token == SubSeq(pattern, s, next - 1)
      places == { i \in DOMAIN input : StartsWith(input, i, token) }
  IN  IF s > Len(pattern) THEN 1..(Len(input) + 1)
      ELSE { i \in places : /\ \A j \in places : i <= j
                            /\ i + Len(token) \in begins[next] }

\* The positions at which the token from s on is found, where the tokens behind
\* it match what follows: begins[s] has the positions from which on the tokens
\* from s on match.  The end of the input is a separator.
FindNextTokenInInput(begins, pattern, input, s) ==
  LET end == Len(input) + 1
      next == TokenEnd(pattern, s)
      token == SubSeq(pattern, s, next - 1)
      rest == begins[next]
  IN  CASE s > Len(pattern) -> 1..end
        [] s <= Len(pattern) /\ pattern[s] = "^" ->
             { i \in DOMAIN input : CharacterIsValidSeparator(input[i]) /\ i + 1 \in rest }
             \cup (rest \cap {end})
        [] s <= Len(pattern) /\ pattern[s] # "^" ->
             { i \in DOMAIN input : StartsWith(input, i, token) /\ i + Len(token) \in rest }

\* The positions at which the tokens from s on match: a run of wildcards skips to
\* where the next token is found, and a single anchor is the end of the input.
TokensBeginInput(begins, pattern, input, s) ==
  LET end == Len(input) + 1
      next == TokenEnd(pattern, s)
      found == FindNextTokenInInput(begins, pattern, input, next)
  IN  CASE s > Len(pattern) -> 1..end
        [] s <= Len(pattern) /\ pattern[s] = "*" -> { i \in 1..end : \E j \in found : i <= j }
        [] s <= Len(pattern) /\ pattern[s] = "|" /\ next = s + 1 -> {end}
        [] OTHER -> FindNextTokenInInput(begins, pattern, input, s)

\* For each place in the pattern, where the tokens from there on match.
NextTokenBeginsInput(pattern, input) ==
  LET begins[s \in 1..(Len(pattern) + 1)] == TokensBeginInput(begins, pattern, input, s)
  IN  begins

\* Whether a host, or a label of it, starts behind the first `n` characters.
IsValidStartOfHost(n, url) ==
  LET start == Len(Scheme) + 4
      candidate == SubSeq(SpecOf(url), start, n)
  IN  \/ n < start
      \/ candidate = url.host
      \/ Last(candidate) = "." /\ ~Contains(candidate, "/")

\* How many characters are skipped to reach a token: a separator, which has to
\* be reached for its own sake, is one of them.
Skipped(pattern, input, s, i) ==
  IF s <= Len(pattern) /\ pattern[s] = "^" /\ i <= Len(input) THEN i ELSE i - 1

\* How many anchors a pattern starts with.
AnchorsOf(pattern) ==
  IF pattern # <<>> /\ pattern[1] = "|" THEN TokenEnd(pattern, 1) - 1 ELSE 0

\* Where the search for a pattern starts: behind a host anchor and behind the
\* wildcards that follow or are in front.
SearchedFrom(pattern) ==
  LET first == IF AnchorsOf(pattern) = 2 THEN 3 ELSE 1
  IN  IF first <= Len(pattern) /\ pattern[first] = "*" THEN TokenEnd(pattern, first) ELSE first

\* How many nested calls it takes to find the tokens from s on: the token, if
\* there is one, is behind the first, and the next begins what follows.
CallsToFind(calls, pattern, s) ==
  1 + calls[IF s <= Len(pattern) THEN TokenEnd(pattern, s) ELSE s]

\* How many it takes to match the tokens from s on.  The one that reaches the end
\* of the pattern, or an anchor, calls no other.
CallsToBegin(calls, pattern, s) ==
  CASE s > Len(pattern) -> 1
    [] s <= Len(pattern) /\ pattern[s] = "*" -> 1 + CallsToFind(calls, pattern, TokenEnd(pattern, s))
    [] s <= Len(pattern) /\ pattern[s] = "|" /\ TokenEnd(pattern, s) = s + 1 -> 1
    [] OTHER -> 1 + calls[TokenEnd(pattern, s)]

CallsFrom(pattern) ==
  LET calls[s \in 1..(Len(pattern) + 1)] == CallsToBegin(calls, pattern, s)
  IN  calls

\* How many nested calls it takes to match a pattern, whatever the URL: every
\* match comes from the same calls, and each is one deeper than its caller.
CallsToMatch(pattern) ==
  LET calls == CallsFrom(pattern)
  IN  IF AnchorsOf(pattern) = 1 THEN calls[2]
      ELSE CallsToFind(calls, pattern, SearchedFrom(pattern))

\* Wildcards in front are passed over, and of the places where the rest of a
\* pattern anchored at the host is found only the first one counts.
IsFoundInUrl(pattern, url) ==
  LET input == SpecOf(url)
      begins == NextTokenBeginsInput(pattern, input)
      found == FindNextTokenInInput(begins, pattern, input, SearchedFrom(pattern))
  IN  CASE AnchorsOf(pattern) = 1 -> 1 \in begins[2]
        [] AnchorsOf(pattern) = 2 /\ SearchedFrom(pattern) = 3 ->
             \E i \in found : /\ \A j \in found : i <= j
                              /\ IsValidStartOfHost(Skipped(pattern, input, 3, i), url)
        [] OTHER -> found # {}

\* A call that is nested too deep finds nothing, so that a pattern that takes
\* more calls matches no URL.
DoesPatternMatchUrl(pattern, url) ==
  IsFoundInUrl(pattern, url) /\ CallsToMatch(pattern) <= kMaxRecursionDepth
=============================================================================
