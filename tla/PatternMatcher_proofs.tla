------------------------ MODULE PatternMatcher_proofs ------------------------
(***************************************************************************)
(* Induction over numbers for recursive functions, and what a pattern that *)
(* matches an address says of the words in both.                           *)
(***************************************************************************)
EXTENDS PatternMatcher, WellFoundedInduction, SequenceTheorems, TLAPS

\* The characters of patterns and addresses, among them those of a scheme and
\* those that are special.
Character == STRING \cup {"h", "t", "p", ":", "/", "*", "|"}

(* A set with 0 and the successor of each of its numbers has all of them.    *)
LEMMA NatInductionOverSet ==
  ASSUME NEW S, 0 \in S, \A n \in Nat : n \in S => n + 1 \in S
  PROVE  Nat \subseteq S
<1> DEFINE R == { p \in Nat \X Nat : p[1] < p[2] }
           T == Nat \ S
<1> SUFFICES ASSUME T # {} PROVE FALSE
  OBVIOUS
<1>1. IsWellFoundedOn(R, Nat)
  BY NatLessThanWellFounded DEF OpToRel
<1>2. PICK x \in T : \A y \in T : <<y, x>> \notin R
  <2>1. T \subseteq Nat
    OBVIOUS
  <2> HIDE DEF T, R
  <2> QED
    BY <1>1, <2>1, WFMin
<1>3. x - 1 \in T /\ <<x - 1, x>> \in R
  OBVIOUS
<1> QED
  BY <1>2, <1>3

(* A set of numbers has a smallest one.                                      *)
LEMMA SmallestOf ==
  ASSUME NEW S, S \subseteq Nat, S # {}
  PROVE  \E m \in S : \A n \in S : m <= n
<1> DEFINE R == { p \in Nat \X Nat : p[1] < p[2] }
<1>1. IsWellFoundedOn(R, Nat)
  BY NatLessThanWellFounded DEF OpToRel
<1>2. PICK m \in S : \A n \in S : <<n, m>> \notin R
  <2> HIDE DEF R
  <2> QED
    BY <1>1, WFMin
<1>3. ASSUME NEW n \in S PROVE m <= n
  <2>1. ~ n < m
    BY <1>2
  <2> QED
    BY <2>1
<1> QED
  BY <1>3

-----------------------------------------------------------------------------
(* Texts.                                                                  *)

(* The characters of two texts put together.                                 *)
LEMMA Concatenated ==
  ASSUME NEW s \in Seq(Character), NEW t \in Seq(Character)
  PROVE  /\ s \o t \in Seq(Character)
         /\ Len(s \o t) = Len(s) + Len(t)
         /\ \A x \in 1..Len(s) : (s \o t)[x] = s[x]
         /\ \A x \in 1..Len(t) : (s \o t)[Len(s) + x] = t[x]
  OBVIOUS

(* The characters of a part of a text.                                       *)
LEMMA PartOfText ==
  ASSUME NEW s \in Seq(Character), NEW i \in Int, NEW j \in Int, 1 <= i, i <= j, j <= Len(s)
  PROVE  /\ SubSeq(s, i, j) \in Seq(Character)
         /\ Len(SubSeq(s, i, j)) = j - i + 1
         /\ \A x \in 1..(j - i + 1) : SubSeq(s, i, j)[x] = s[i + x - 1]
<1>1. \A x \in i..j : s[x] \in Character
  OBVIOUS
<1> QED
  BY <1>1, SubSeqProperties

-----------------------------------------------------------------------------
(* Tokens.                                                                 *)

(* Every token has an end, and there the next one starts.                    *)
LEMMA TokenEndProperties ==
  ASSUME NEW pattern \in Seq(Character), NEW s \in 1..Len(pattern)
  PROVE  LET e == TokenEnd(pattern, s)
         IN  /\ e \in (s + 1)..(Len(pattern) + 1)
             /\ \A x \in (s + 1)..(e - 1) : Continues(pattern[x - 1], pattern[x])
             /\ e <= Len(pattern) => ~Continues(pattern[e - 1], pattern[e])
<1> DEFINE S == { e \in (s + 1)..(Len(pattern) + 1) :
                    e <= Len(pattern) => ~Continues(pattern[e - 1], pattern[e]) }
<1>1. Len(pattern) + 1 \in S
  OBVIOUS
<1>2. PICK m \in S : \A e \in S : m <= e
  <2>1. S \subseteq Nat /\ S # {}
    BY <1>1
  <2> HIDE DEF S
  <2> QED
    BY <2>1, SmallestOf
<1>3. \A x \in (s + 1)..(m - 1) : Continues(pattern[x - 1], pattern[x])
  BY <1>2
<1> QED
  BY <1>2, <1>3 DEF TokenEnd

(* All characters of a token are alike: ordinary ones, or the first one.     *)
LEMMA TokenUniform ==
  ASSUME NEW pattern \in Seq(Character), NEW s \in 1..Len(pattern),
         NEW x \in s..(TokenEnd(pattern, s) - 1)
  PROVE  \/ pattern[s] \notin Special /\ pattern[x] \notin Special
         \/ pattern[x] = pattern[s]
<1> DEFINE Alike(y) == \/ pattern[s] \notin Special /\ pattern[y] \notin Special
                       \/ pattern[y] = pattern[s]
           S == { n \in Nat : s + n < TokenEnd(pattern, s) => Alike(s + n) }
<1>1. 0 \in S
  OBVIOUS
<1>2. ASSUME NEW n \in Nat, n \in S PROVE n + 1 \in S
  <2>1. SUFFICES ASSUME s + n + 1 < TokenEnd(pattern, s) PROVE Alike(s + n + 1)
    OBVIOUS
  <2>2. Continues(pattern[s + n], pattern[s + n + 1])
    <3>1. s + n + 1 \in (s + 1)..(TokenEnd(pattern, s) - 1)
      BY <2>1, TokenEndProperties
    <3> QED
      BY <3>1, TokenEndProperties
  <2>3. Alike(s + n)
    BY <1>2, <2>1, TokenEndProperties
  <2> QED
    BY <2>2, <2>3 DEF Continues, Special
<1>3. x - s \in S
  <2>1. x - s \in Nat
    BY TokenEndProperties
  <2> HIDE DEF S
  <2> QED
    BY <1>1, <1>2, <2>1, NatInductionOverSet
<1> QED
  BY <1>3, TokenEndProperties

-----------------------------------------------------------------------------
(* The recursion over the tokens has a value.                              *)

(* What the tokens from s on match depends on later tokens only.             *)
LEMMA FindLocal ==
  ASSUME NEW pattern \in Seq(Character), NEW input, NEW s \in 1..(Len(pattern) + 1), NEW f, NEW g,
         \A x \in (s + 1)..(Len(pattern) + 1) : f[x] = g[x]
  PROVE  FindNextTokenInInput(f, pattern, input, s) = FindNextTokenInInput(g, pattern, input, s)
<1>1. CASE s > Len(pattern)
  BY <1>1 DEF FindNextTokenInInput
<1>2. CASE s <= Len(pattern)
  <2>1. TokenEnd(pattern, s) \in (s + 1)..(Len(pattern) + 1)
    BY <1>2, TokenEndProperties
  <2>2. f[TokenEnd(pattern, s)] = g[TokenEnd(pattern, s)]
    BY <2>1
  <2> QED
    BY <1>2, <2>2 DEF FindNextTokenInInput
<1> QED
  BY <1>1, <1>2

(* The same with the skipping of wildcards.                                  *)
LEMMA BeginLocal ==
  ASSUME NEW pattern \in Seq(Character), NEW input, NEW s \in 1..(Len(pattern) + 1), NEW f, NEW g,
         \A x \in (s + 1)..(Len(pattern) + 1) : f[x] = g[x]
  PROVE  TokensBeginInput(f, pattern, input, s) = TokensBeginInput(g, pattern, input, s)
<1>1. CASE s > Len(pattern)
  BY <1>1 DEF TokensBeginInput
<1>2. CASE s <= Len(pattern)
  <2>1. TokenEnd(pattern, s) \in (s + 1)..(Len(pattern) + 1)
    BY <1>2, TokenEndProperties
  <2>2. FindNextTokenInInput(f, pattern, input, TokenEnd(pattern, s))
          = FindNextTokenInInput(g, pattern, input, TokenEnd(pattern, s))
    BY <2>1, FindLocal
  <2>3. FindNextTokenInInput(f, pattern, input, s) = FindNextTokenInInput(g, pattern, input, s)
    BY FindLocal
  <2> QED
    BY <1>2, <2>2, <2>3 DEF TokensBeginInput
<1> QED
  BY <1>1, <1>2

(* Each place in a pattern begins the input where its tokens say.            *)
LEMMA BeginsDef ==
  ASSUME NEW pattern \in Seq(Character), NEW input
  PROVE  LET begins == NextTokenBeginsInput(pattern, input)
         IN  begins = [ s \in 1..(Len(pattern) + 1) |-> TokensBeginInput(begins, pattern, input, s) ]
<1> DEFINE n == Len(pattern) + 1
           Is(f, m) == f = [ s \in (n - m)..n |-> TokensBeginInput(f, pattern, input, s) ]
           S == { m \in Nat : m < n => \E f : Is(f, m) }
<1>1. n \in Nat /\ n > 0
  OBVIOUS
<1>2. 0 \in S
  <2> DEFINE g == [ s \in n..n |-> TokensBeginInput(<<>>, pattern, input, s) ]
  <2>1. TokensBeginInput(g, pattern, input, n) = TokensBeginInput(<<>>, pattern, input, n)
    BY BeginLocal
  <2>2. Is(g, 0)
    <3>1. g = [ s \in n..n |-> TokensBeginInput(g, pattern, input, s) ]
      <4>1. \A s \in n..n : s = n
        OBVIOUS
      <4>2. \A s \in n..n : g[s] = TokensBeginInput(g, pattern, input, s)
        BY <2>1, <4>1
      <4> HIDE DEF n
      <4> QED
        BY <4>2
    <3> QED
      BY <3>1
  <2>3. \E h : Is(h, 0)
    <3> HIDE DEF g, Is
    <3> QED
      BY <2>2
  <2> QED
    BY <2>3
<1>3. ASSUME NEW m \in Nat, m \in S PROVE m + 1 \in S
  <2> SUFFICES ASSUME m + 1 < n PROVE \E h : Is(h, m + 1)
    OBVIOUS
  <2>1. PICK f : Is(f, m)
    BY <1>3
  <2> DEFINE k == n - (m + 1)
             g == [ s \in k..n |-> IF s = k THEN TokensBeginInput(f, pattern, input, k) ELSE f[s] ]
  <2>2. k \in 1..n /\ \A s \in k..n : s # k => s \in (n - m)..n
    OBVIOUS
  <2>3. \A x \in (k + 1)..n : f[x] = g[x]
    BY <2>2
  <2>4. ASSUME NEW s \in k..n
        PROVE  g[s] = TokensBeginInput(g, pattern, input, s)
    <3>1. TokensBeginInput(f, pattern, input, s) = TokensBeginInput(g, pattern, input, s)
      <4>1. \A x \in (s + 1)..(Len(pattern) + 1) : f[x] = g[x]
        BY <2>3
      <4>2. s \in 1..(Len(pattern) + 1)
        BY <2>2
      <4> HIDE DEF g, k
      <4> QED
        BY <4>1, <4>2, BeginLocal
    <3>2. CASE s = k
      BY <3>1, <3>2
    <3>3. CASE s # k
      <4>1. f[s] = TokensBeginInput(f, pattern, input, s)
        BY <2>1, <2>2, <3>3
      <4> QED
        BY <3>1, <3>3, <4>1
    <3> QED
      BY <3>2, <3>3
  <2>5. Is(g, m + 1)
    BY <2>4
  <2> HIDE DEF g, Is
  <2> QED
    BY <2>5
<1>4. n - 1 \in S
  <2> HIDE DEF S
  <2> QED
    BY <1>1, <1>2, <1>3, NatInductionOverSet
<1>5. \E f : f = [ s \in 1..n |-> TokensBeginInput(f, pattern, input, s) ]
  BY <1>1, <1>4
<1> QED
  BY <1>5 DEF NextTokenBeginsInput

-----------------------------------------------------------------------------
(* What a match says of the characters.                                    *)

(* A single anchor, which is the end of the input wherever it stands.        *)
IsSingleAnchor(pattern, s) == pattern[s] = "|" /\ TokenEnd(pattern, s) = s + 1

(* A token is found where its characters are.                                *)
LEMMA StartsWithToken ==
  ASSUME NEW pattern \in Seq(Character), NEW input \in Seq(Character),
         NEW s \in 1..Len(pattern), NEW e \in (s + 1)..(Len(pattern) + 1), NEW i \in 1..Len(input),
         StartsWith(input, i, SubSeq(pattern, s, e - 1))
  PROVE  /\ Len(SubSeq(pattern, s, e - 1)) = e - s
         /\ i + (e - s) <= Len(input) + 1
         /\ \A x \in s..(e - 1) : input[i + (x - s)] = pattern[x]
<1> DEFINE token == SubSeq(pattern, s, e - 1)
<1>1. /\ Len(token) = e - s
      /\ \A x \in 1..(e - s) : token[x] = pattern[s + x - 1]
  <2>1. /\ s \in Int /\ e - 1 \in Int /\ 1 <= s /\ s <= e - 1 /\ e - 1 <= Len(pattern)
        /\ (e - 1) - s + 1 = e - s
    OBVIOUS
  <2> QED
    BY <2>1, PartOfText
<1> HIDE DEF token
<1>2. i + (e - s) - 1 <= Len(input) /\ SubSeq(input, i, i + (e - s) - 1) = token
  BY <1>1 DEF StartsWith, token
<1>3. \A x \in 1..(e - s) : SubSeq(input, i, i + (e - s) - 1)[x] = input[i + x - 1]
  BY <1>2, SubSeqProperties
<1>4. ASSUME NEW x \in s..(e - 1) PROVE input[i + (x - s)] = pattern[x]
  <2>1. x - s + 1 \in 1..(e - s)
    OBVIOUS
  <2>2. token[x - s + 1] = pattern[x] /\ token[x - s + 1] = input[i + (x - s)]
    BY <1>1, <1>2, <1>3, <2>1
  <2> QED
    BY <2>2
<1> QED
  BY <1>1, <1>2, <1>4, SMTT(30) DEF token

(* Behind a run of wildcards the next token is searched for as such.         *)
LEMMA FindIsBegin ==
  ASSUME NEW pattern \in Seq(Character), NEW input, NEW s \in 1..Len(pattern),
         pattern[s] # "*", ~IsSingleAnchor(pattern, s)
  PROVE  LET begins == NextTokenBeginsInput(pattern, input)
         IN  FindNextTokenInInput(begins, pattern, input, s) = begins[s]
<1> DEFINE begins == NextTokenBeginsInput(pattern, input)
<1>1. begins[s] = TokensBeginInput(begins, pattern, input, s)
  BY BeginsDef
<1> HIDE DEF begins
<1>2. TokensBeginInput(begins, pattern, input, s) = FindNextTokenInInput(begins, pattern, input, s)
  BY DEF TokensBeginInput, IsSingleAnchor
<1> QED
  BY <1>1, <1>2 DEF begins

(* What it means for the tokens from s on to match at i.                     *)
LEMMA BeginsMeaning ==
  ASSUME NEW pattern \in Seq(Character), NEW input \in Seq(Character), NEW s \in 1..Len(pattern),
         ~IsSingleAnchor(pattern, s), NEW i \in NextTokenBeginsInput(pattern, input)[s]
  PROVE  LET begins == NextTokenBeginsInput(pattern, input)
             next == TokenEnd(pattern, s)
         IN  \/ /\ pattern[s] = "*"
                /\ \E j \in FindNextTokenInInput(begins, pattern, input, next) : i <= j
             \/ /\ pattern[s] = "^"
                /\ \/ /\ i \in 1..Len(input)
                      /\ CharacterIsValidSeparator(input[i])
                      /\ i + 1 \in begins[next]
                   \/ i = Len(input) + 1 /\ i \in begins[next]
             \/ /\ pattern[s] \notin {"*", "^"}
                /\ i \in 1..Len(input)
                /\ i + (next - s) <= Len(input) + 1
                /\ \A x \in s..(next - 1) : input[i + (x - s)] = pattern[x]
                /\ i + (next - s) \in begins[next]
<1> DEFINE begins == NextTokenBeginsInput(pattern, input)
           next == TokenEnd(pattern, s)
<1>1. begins[s] = TokensBeginInput(begins, pattern, input, s)
  BY BeginsDef
<1>2. next \in (s + 1)..(Len(pattern) + 1)
  BY TokenEndProperties
<1> HIDE DEF begins
<1>3. CASE pattern[s] = "*"
  BY <1>1, <1>3 DEF TokensBeginInput, begins
<1>4. CASE pattern[s] # "*"
  <2>1. i \in FindNextTokenInInput(begins, pattern, input, s)
    BY <1>4, FindIsBegin DEF begins
  <2>2. CASE pattern[s] = "^"
    BY <2>1, <2>2 DEF FindNextTokenInInput, begins
  <2>3. CASE pattern[s] # "^"
    <3> DEFINE token == SubSeq(pattern, s, next - 1)
    <3>1. FindNextTokenInInput(begins, pattern, input, s)
            = { k \in DOMAIN input : StartsWith(input, k, token) /\ k + Len(token) \in begins[next] }
      <4>1. s <= Len(pattern) /\ ~ s > Len(pattern)
        OBVIOUS
      <4> QED
        BY <2>3, <4>1, Zenon DEF FindNextTokenInInput
    <3>2. i \in DOMAIN input /\ StartsWith(input, i, token) /\ i + Len(token) \in begins[next]
      <4> HIDE DEF token, next
      <4> QED
        BY <2>1, <3>1
    <3> HIDE DEF next
    <3>3. /\ i \in 1..Len(input)
          /\ Len(token) = next - s
          /\ i + (next - s) <= Len(input) + 1
          /\ \A x \in s..(next - 1) : input[i + (x - s)] = pattern[x]
      BY <1>2, <3>2, StartsWithToken, SMTT(30)
    <3> HIDE DEF token
    <3> QED
      BY <1>4, <2>3, <3>2, <3>3 DEF begins, next
  <2> QED
    BY <2>2, <2>3
<1> QED
  BY <1>3, <1>4

-----------------------------------------------------------------------------
(* Where the keywords of a pattern are in an address it matches.           *)

\* The word at w of the pattern is a whole word of the input that starts at k.
OccursAsWord(pattern, w, input, k) ==
  LET last == k + (w[2] - w[1])
  IN  /\ k \in 1..Len(input) /\ last <= Len(input)
      /\ \A x \in w[1]..w[2] : input[k + (x - w[1])] = pattern[x]
      /\ k > 1 => input[k - 1] \notin Word
      /\ last < Len(input) => input[last + 1] \notin Word

(* The characters of a keyword and around it.                                *)
LEMMA KeywordCharacters ==
  ASSUME NEW pattern \in Seq(Character), NEW w \in KeywordPlaces(pattern)
  PROVE  /\ w[1] \in 2..Len(pattern) /\ w[2] \in w[1]..(Len(pattern) - 1)
         /\ \A x \in w[1]..w[2] : pattern[x] \in Word /\ pattern[x] \notin Special
         /\ pattern[w[1] - 1] \notin Word /\ pattern[w[1] - 1] # "*"
         /\ pattern[w[2] + 1] \notin Word /\ pattern[w[2] + 1] # "*"
         /\ ~IsBadKeyword(SubSeq(pattern, w[1], w[2]))
<1>1. /\ w[1] \in 2..Len(pattern) /\ w[2] \in 2..(Len(pattern) - 1) /\ w[1] <= w[2]
      /\ IsWholeWord(pattern, w[1], w[2])
      /\ pattern[w[1] - 1] # "*" /\ pattern[w[2] + 1] # "*"
      /\ ~IsBadKeyword(SubSeq(pattern, w[1], w[2]))
  BY DEF KeywordPlaces
<1>2. /\ \A x \in w[1]..w[2] : pattern[x] \in Word
      /\ pattern[w[1] - 1] \notin Word
      /\ pattern[w[2] + 1] \notin Word
  BY <1>1 DEF IsWholeWord
<1>3. \A c \in Word : c \notin Special
  BY WordAssumption
<1> QED
  BY <1>1, <1>2, <1>3

(* A keyword that is a whole word of an address is a keyword of it.          *)
LEMMA WordIsUrlKeyword ==
  ASSUME NEW pattern \in Seq(Character), NEW w \in KeywordPlaces(pattern), NEW url,
         SpecOf(url) \in Seq(Character), NEW k, OccursAsWord(pattern, w, SpecOf(url), k)
  PROVE  SubSeq(pattern, w[1], w[2]) \in UrlKeywords(url)
<1> DEFINE text == SpecOf(url)
           last == k + (w[2] - w[1])
           word == SubSeq(pattern, w[1], w[2])
<1>1. /\ w[1] \in 2..Len(pattern) /\ w[2] \in w[1]..(Len(pattern) - 1)
      /\ \A x \in w[1]..w[2] : pattern[x] \in Word
      /\ ~IsBadKeyword(word)
  BY KeywordCharacters
<1>2. /\ text \in Seq(Character)
      /\ k \in 1..Len(text) /\ last <= Len(text)
      /\ \A x \in w[1]..w[2] : text[k + (x - w[1])] = pattern[x]
      /\ k > 1 => text[k - 1] \notin Word
      /\ last < Len(text) => text[last + 1] \notin Word
  BY DEF OccursAsWord
<1> HIDE DEF text
<1>3. last \in k..Len(text)
  BY <1>1, <1>2
<1>4. IsWholeWord(text, k, last)
  <2>1. ASSUME NEW y \in k..last PROVE text[y] \in Word
    <3>1. y - k + w[1] \in w[1]..w[2]
      BY <1>1, <1>2
    <3>2. text[k + ((y - k + w[1]) - w[1])] = pattern[y - k + w[1]]
      BY <1>2, <3>1
    <3>3. k + ((y - k + w[1]) - w[1]) = y
      BY <1>1, <1>2
    <3> QED
      BY <1>1, <3>1, <3>2, <3>3
  <2> QED
    BY <1>2, <2>1 DEF IsWholeWord
<1>5. SubSeq(text, k, last) = word
  <2>1. /\ SubSeq(text, k, last) \in Seq(Character)
        /\ Len(SubSeq(text, k, last)) = last - k + 1
        /\ \A x \in 1..(last - k + 1) : SubSeq(text, k, last)[x] = text[k + x - 1]
    <3>1. \A x \in k..last : text[x] \in Character
      BY <1>2, <1>3
    <3> QED
      BY <1>2, <1>3, <3>1, SubSeqProperties
  <2>2. /\ word \in Seq(Character)
        /\ Len(word) = w[2] - w[1] + 1
        /\ \A x \in 1..(w[2] - w[1] + 1) : word[x] = pattern[w[1] + x - 1]
    <3>1. \A x \in w[1]..w[2] : pattern[x] \in Character
      BY <1>1
    <3> QED
      BY <1>1, <3>1, SubSeqProperties, SMTT(30)
  <2>3. ASSUME NEW x \in 1..(w[2] - w[1] + 1)
        PROVE  text[k + x - 1] = pattern[w[1] + x - 1]
    <3>1. w[1] + x - 1 \in w[1]..w[2]
      BY <1>1
    <3>2. text[k + ((w[1] + x - 1) - w[1])] = pattern[w[1] + x - 1]
      BY <1>2, <3>1
    <3>3. k + ((w[1] + x - 1) - w[1]) = k + x - 1
      BY <1>1, <1>2
    <3> QED
      BY <3>2, <3>3
  <2>4. last - k + 1 = w[2] - w[1] + 1
    BY <1>1, <1>2
  <2> HIDE DEF word, last
  <2> QED
    BY <2>1, <2>2, <2>3, <2>4, SeqEqual
<1>6. <<k, last>> \in (DOMAIN text) \X (DOMAIN text) /\ k <= last
  BY <1>2, <1>3
<1>7. SubSeq(text, k, last) \in UrlKeywords(url)
  <2> DEFINE Good == { v \in (DOMAIN text) \X (DOMAIN text) :
                         /\ v[1] <= v[2]
                         /\ IsWholeWord(text, v[1], v[2])
                         /\ ~IsBadKeyword(SubSeq(text, v[1], v[2])) }
  <2>1. <<k, last>> \in Good
    BY <1>1, <1>4, <1>5, <1>6
  <2>2. UrlKeywords(url) = { SubSeq(text, v[1], v[2]) : v \in Good }
    BY DEF UrlKeywords, text
  <2>3. \E v \in Good : SubSeq(text, k, last) = SubSeq(text, v[1], v[2])
    <3>1. SubSeq(text, k, last) = SubSeq(text, <<k, last>>[1], <<k, last>>[2])
      OBVIOUS
    <3> HIDE DEF Good, last
    <3> QED
      BY <2>1, <3>1
  <2> HIDE DEF Good, last
  <2> QED
    BY <2>2, <2>3
<1> QED
  BY <1>5, <1>7

(* The token with a keyword reaches to its end at least.                     *)
LEMMA TokenWithKeyword ==
  ASSUME NEW pattern \in Seq(Character), NEW w \in KeywordPlaces(pattern), NEW s \in 1..w[1],
         TokenEnd(pattern, s) > w[1]
  PROVE  /\ TokenEnd(pattern, s) \in (w[2] + 1)..(Len(pattern) + 1)
         /\ pattern[s] \notin Special
         /\ TokenEnd(pattern, s) = w[2] + 1 => pattern[w[2] + 1] \in {"^", "|"}
<1> DEFINE next == TokenEnd(pattern, s)
<1>1. /\ w[1] \in 2..Len(pattern) /\ w[2] \in w[1]..(Len(pattern) - 1)
      /\ \A x \in w[1]..w[2] : pattern[x] \notin Special
      /\ pattern[w[2] + 1] # "*"
  BY KeywordCharacters
<1>2. s \in 1..Len(pattern)
  BY <1>1
<1>3. /\ next \in (s + 1)..(Len(pattern) + 1)
      /\ next <= Len(pattern) => ~Continues(pattern[next - 1], pattern[next])
  BY <1>2, TokenEndProperties
<1>4. pattern[s] \notin Special
  <2>1. w[1] \in s..(TokenEnd(pattern, s) - 1)
    BY <1>1, <1>3
  <2> QED
    BY <1>1, <1>2, <2>1, TokenUniform
<1> HIDE DEF next
<1>5. next > w[2]
  <2>1. SUFFICES ASSUME next <= w[2] PROVE FALSE
    BY <1>1, <1>3
  <2>2. next - 1 \in w[1]..w[2] /\ next \in w[1]..w[2] /\ next <= Len(pattern)
    BY <1>1, <1>3, <2>1 DEF next
  <2> QED
    BY <1>1, <1>3, <2>2 DEF Continues
<1>6. next = w[2] + 1 => pattern[w[2] + 1] \in {"^", "|"}
  <2>1. SUFFICES ASSUME next = w[2] + 1 PROVE pattern[w[2] + 1] \in {"^", "|"}
    OBVIOUS
  <2>2. ~Continues(pattern[w[2]], pattern[w[2] + 1]) /\ pattern[w[2]] \notin Special
    BY <1>1, <1>3, <2>1
  <2> QED
    BY <1>1, <2>2 DEF Continues, Special
<1> QED
  BY <1>1, <1>3, <1>4, <1>5, <1>6 DEF next

(* Where the token with a keyword matches, the keyword is, and its last      *)
(* character is the last of a word.                                          *)
LEMMA KeywordInToken ==
  ASSUME NEW pattern \in Seq(Character), NEW input \in Seq(Character), NEW w \in KeywordPlaces(pattern),
         NEW s \in 1..w[1], TokenEnd(pattern, s) > w[1],
         NEW i \in NextTokenBeginsInput(pattern, input)[s]
  PROVE  LET k == i + (w[1] - s)
         IN  /\ i \in 1..Len(input)
             /\ s = w[1] /\ (i > 1 => input[i - 1] \notin Word) => OccursAsWord(pattern, w, input, k)
             /\ s # w[1] => OccursAsWord(pattern, w, input, k)
             /\ k + (w[2] - w[1]) <= Len(input)
             /\ \A x \in w[1]..w[2] : input[k + (x - w[1])] = pattern[x]
             /\ k + (w[2] - w[1]) < Len(input) => input[k + (w[2] - w[1]) + 1] \notin Word
<1> DEFINE begins == NextTokenBeginsInput(pattern, input)
           next == TokenEnd(pattern, s)
           a == w[1]
           b == w[2]
           L == Len(input)
           k == i + (a - s)
           last == k + (b - a)
<1>1. /\ a \in 2..Len(pattern) /\ b \in a..(Len(pattern) - 1)
      /\ \A x \in a..b : pattern[x] \in Word /\ pattern[x] \notin Special
      /\ pattern[a - 1] \notin Word
      /\ pattern[b + 1] \notin Word
  BY KeywordCharacters
<1>2. /\ next \in (b + 1)..(Len(pattern) + 1)
      /\ pattern[s] \notin Special
      /\ next = b + 1 => pattern[b + 1] \in {"^", "|"}
  BY TokenWithKeyword
<1>3. s \in 1..Len(pattern)
  BY <1>1
<1>4. /\ i \in 1..Len(input)
      /\ i + (next - s) <= Len(input) + 1
      /\ \A x \in s..(next - 1) : input[i + (x - s)] = pattern[x]
      /\ i + (next - s) \in begins[next]
  <2>1. ~IsSingleAnchor(pattern, s) /\ pattern[s] \notin {"*", "^"}
    BY <1>2 DEF IsSingleAnchor, Special
  <2> QED
    BY <1>3, <2>1, BeginsMeaning
<1>0. /\ L \in Nat /\ s \in Nat /\ i \in Nat /\ a \in Nat /\ b \in Nat /\ next \in Nat /\ Len(pattern) \in Nat
      /\ 1 <= s /\ s <= a /\ a <= b /\ b < next /\ b < Len(pattern) /\ next <= Len(pattern) + 1
      /\ 1 <= i /\ i <= L /\ i + (next - s) <= L + 1
  <2>1. Len(pattern) \in Nat /\ L \in Nat
    OBVIOUS
  <2>2. a \in Nat /\ b \in Nat /\ a <= b /\ b < Len(pattern) /\ s \in Nat /\ 1 <= s /\ s <= a
    <3> HIDE DEF b
    <3> QED
      BY <1>1, <2>1
  <2>3. next \in Nat /\ b < next /\ next <= Len(pattern) + 1
    <3> HIDE DEF b, next
    <3> QED
      BY <1>2, <2>1, <2>2
  <2> HIDE DEF a, b, next
  <2> QED
    BY <1>4, <2>1, <2>2, <2>3
<1> HIDE DEF begins, next, a, b, L
<1>5. /\ k \in 1..L /\ last <= L /\ last \in Nat
      /\ last + 1 = i + ((b + 1) - s) /\ k - 1 = i + ((a - 1) - s)
      /\ \A x \in a..b : x \in s..(next - 1) /\ k + (x - a) = i + (x - s)
      /\ s = a => k = i
  BY <1>0
<1> HIDE DEF k, last
<1>6. ASSUME NEW x \in a..b PROVE input[k + (x - a)] = pattern[x]
  BY <1>4, <1>5
<1>7. ASSUME s # a PROVE input[k - 1] \notin Word
  <2>1. a - 1 \in s..(next - 1)
    BY <1>0, <1>7
  <2> QED
    BY <1>1, <1>4, <1>5, <2>1
<1>8. ASSUME last < L PROVE input[last + 1] \notin Word
  <2>1. CASE next > b + 1
    <3>1. b + 1 \in s..(next - 1)
      BY <1>0, <2>1
    <3> QED
      BY <1>1, <1>4, <1>5, <3>1
  <2>2. CASE next = b + 1
    <3>1. next \in 1..Len(pattern) /\ last + 1 \in begins[next]
      <4>1. next \in 1..Len(pattern)
        BY <1>0, <2>2
      <4>2. last + 1 = i + (next - s)
        BY <1>5, <2>2
      <4> QED
        BY <1>4, <4>1, <4>2
    <3>2. CASE IsSingleAnchor(pattern, next)
      <4>1. begins[next] = TokensBeginInput(begins, pattern, input, next)
        BY <3>1, BeginsDef DEF begins
      <4>2. TokensBeginInput(begins, pattern, input, next) = {L + 1}
        BY <3>1, <3>2 DEF TokensBeginInput, IsSingleAnchor, L
      <4> QED
        BY <1>0, <1>5, <1>8, <3>1, <4>1, <4>2
    <3>3. CASE ~IsSingleAnchor(pattern, next)
      <4>1. pattern[next] \in {"^", "|"}
        BY <1>2, <2>2
      <4>2. CASE pattern[next] = "^"
        <5>1. CharacterIsValidSeparator(input[last + 1]) \/ last + 1 = L + 1
          BY <3>1, <3>3, <4>2, BeginsMeaning DEF begins, L
        <5>2. CharacterIsValidSeparator(input[last + 1])
          BY <1>0, <1>5, <1>8, <5>1
        <5> QED
          BY <5>2 DEF CharacterIsValidSeparator
      <4>3. CASE pattern[next] = "|"
        <5> DEFINE after == TokenEnd(pattern, next)
        <5>1. after \in (next + 1)..(Len(pattern) + 1)
          BY <3>1, TokenEndProperties
        <5>2. \A x \in next..(after - 1) : input[last + 1 + (x - next)] = pattern[x]
          <6>1. pattern[next] # "*" /\ pattern[next] # "^"
            BY <4>3
          <6> QED
            BY <3>1, <3>3, <6>1, BeginsMeaning DEF begins
        <5> HIDE DEF after
        <5>3. next \in next..(after - 1) /\ last + 1 + (next - next) = last + 1
          BY <1>0, <1>5, <5>1
        <5>4. input[last + 1] = "|"
          BY <4>3, <5>2, <5>3
        <5> QED
          BY <5>4, WordAssumption DEF Special
      <4> QED
        BY <4>1, <4>2, <4>3
    <3> QED
      BY <3>2, <3>3
  <2> QED
    BY <1>0, <2>1, <2>2
<1> QED
  BY <1>4, <1>5, <1>6, <1>7, <1>8 DEF OccursAsWord, k, last, a, b, L

\* Behind a single anchor in its middle a pattern is not compared with the input.
HasNoMiddleAnchor(pattern) ==
  \A i \in 2..(Len(pattern) - 1) : pattern[i] = "|" => "|" \in {pattern[i - 1], pattern[i + 1]}

(* A token before a keyword that does not reach it is followed by one that   *)
(* is compared with the input.                                               *)
LEMMA TokenBeforeKeyword ==
  ASSUME NEW pattern \in Seq(Character), HasNoMiddleAnchor(pattern), NEW w \in KeywordPlaces(pattern),
         NEW s \in 1..w[1], TokenEnd(pattern, s) <= w[1]
  PROVE  LET next == TokenEnd(pattern, s)
         IN  /\ next \in (s + 1)..w[1]
             /\ ~IsSingleAnchor(pattern, next)
             /\ pattern[s] = "*" => next # w[1] /\ pattern[next] # "*"
<1> DEFINE next == TokenEnd(pattern, s)
           a == w[1]
<1>1. /\ a \in 2..(Len(pattern) - 1)
      /\ pattern[a] \notin Special
      /\ pattern[a - 1] # "*"
  <2>1. /\ w[1] \in 2..Len(pattern) /\ w[2] \in w[1]..(Len(pattern) - 1)
        /\ \A x \in w[1]..w[2] : pattern[x] \notin Special
        /\ pattern[w[1] - 1] # "*"
    BY KeywordCharacters
  <2>2. w[1] \in w[1]..w[2]
    BY <2>1
  <2> QED
    BY <2>1, <2>2
<1>2. s \in 1..Len(pattern)
  BY <1>1
<1>3. /\ next \in (s + 1)..(Len(pattern) + 1)
      /\ next <= Len(pattern) => ~Continues(pattern[next - 1], pattern[next])
  BY <1>2, TokenEndProperties
<1> HIDE DEF next, a
<1>4. next \in (s + 1)..a /\ next <= Len(pattern) /\ next \in 2..(Len(pattern) - 1)
  BY <1>1, <1>2, <1>3 DEF next, a
<1>5. ~IsSingleAnchor(pattern, next)
  <2>1. SUFFICES ASSUME pattern[next] = "|", TokenEnd(pattern, next) = next + 1 PROVE FALSE
    BY DEF IsSingleAnchor
  <2>2. pattern[next - 1] # "|"
    BY <1>3, <1>4, <2>1 DEF Continues
  <2>3. ~Continues(pattern[next], pattern[next + 1])
    <3>1. next \in 1..Len(pattern) /\ next + 1 <= Len(pattern) /\ next + 1 - 1 = next
      BY <1>4
    <3> QED
      BY <2>1, <3>1, TokenEndProperties
  <2>4. pattern[next + 1] # "|"
    BY <2>1, <2>3 DEF Continues
  <2> QED
    BY <1>4, <2>1, <2>2, <2>4 DEF HasNoMiddleAnchor
<1>6. ASSUME pattern[s] = "*" PROVE next # a /\ pattern[next] # "*"
  <2>1. pattern[next - 1] = "*"
    <3>1. next - 1 \in s..(TokenEnd(pattern, s) - 1)
      BY <1>2, <1>4 DEF next
    <3> QED
      BY <1>2, <1>6, <3>1, TokenUniform DEF Special
  <2>2. pattern[next] # "*"
    BY <1>3, <1>4, <2>1 DEF Continues
  <2> QED
    BY <1>1, <2>1, <2>2
<1> QED
  BY <1>4, <1>5, <1>6 DEF next, a

(* Where the tokens from s on match, the keyword behind them is found as a   *)
(* word.                                                                     *)
LEMMA KeywordFollows ==
  ASSUME NEW pattern \in Seq(Character), NEW input \in Seq(Character), HasNoMiddleAnchor(pattern),
         NEW w \in KeywordPlaces(pattern), NEW s \in 1..w[1], ~IsSingleAnchor(pattern, s),
         NEW i \in NextTokenBeginsInput(pattern, input)[s],
         s = w[1] /\ i > 1 /\ i <= Len(input) => input[i - 1] \notin Word
  PROVE  \E k : OccursAsWord(pattern, w, input, k)
<1> DEFINE begins == NextTokenBeginsInput(pattern, input)
           a == w[1]
           Found == \E k : OccursAsWord(pattern, w, input, k)
           WordMayStart(x, j) == x = a /\ j > 1 /\ j <= Len(input) => input[j - 1] \notin Word
           Follows(x) == ~IsSingleAnchor(pattern, x) =>
                           \A j \in begins[x] : WordMayStart(x, j) => Found
           S == { d \in Nat : \A x \in 1..a : x + d >= a => Follows(x) }
<1>1. /\ a \in 2..(Len(pattern) - 1)
      /\ pattern[a - 1] \notin Word
  <2>1. /\ w[1] \in 2..Len(pattern) /\ w[2] \in w[1]..(Len(pattern) - 1)
        /\ pattern[w[1] - 1] \notin Word
    BY KeywordCharacters
  <2> QED
    BY <2>1
<1> HIDE DEF begins, Found
<1>2. ASSUME NEW x \in 1..a, TokenEnd(pattern, x) > a, NEW j \in begins[x], WordMayStart(x, j)
      PROVE  Found
  <2>1. /\ j \in 1..Len(input)
        /\ x = w[1] /\ (j > 1 => input[j - 1] \notin Word)
             => OccursAsWord(pattern, w, input, j + (w[1] - x))
        /\ x # w[1] => OccursAsWord(pattern, w, input, j + (w[1] - x))
    BY <1>2, KeywordInToken DEF begins
  <2>2. OccursAsWord(pattern, w, input, j + (w[1] - x))
    BY <1>2, <2>1
  <2> QED
    BY <2>2 DEF Found
<1>3. 0 \in S
  <2>1. ASSUME NEW x \in 1..a, x + 0 >= a PROVE Follows(x)
    <3>1. x = a /\ x \in 1..Len(pattern)
      BY <1>1, <2>1
    <3>2. TokenEnd(pattern, x) > a
      BY <3>1, TokenEndProperties
    <3> HIDE DEF WordMayStart, a
    <3> QED
      BY <1>2, <3>2
  <2> HIDE DEF Follows
  <2> QED
    BY <2>1
<1>4. ASSUME NEW d \in Nat, d \in S PROVE d + 1 \in S
  <2>1. SUFFICES ASSUME NEW x \in 1..a, x + (d + 1) >= a, ~IsSingleAnchor(pattern, x),
                        NEW j \in begins[x], WordMayStart(x, j)
                 PROVE  Found
    OBVIOUS
  <2> DEFINE next == TokenEnd(pattern, x)
  <2>2. x \in 1..Len(pattern)
    BY <1>1
  <2>3. CASE next > a
    <3> HIDE DEF WordMayStart, a
    <3> QED
      BY <1>2, <2>1, <2>3
  <2>4. CASE next <= a
    <3>1. /\ next \in (x + 1)..a
          /\ ~IsSingleAnchor(pattern, next)
          /\ pattern[x] = "*" => next # a /\ pattern[next] # "*"
      BY <2>4, TokenBeforeKeyword
    <3> HIDE DEF next, a
    <3>2. next \in 1..a /\ next + d >= a /\ next \in 1..Len(pattern) /\ a \in Nat /\ next \in Nat
      BY <1>1, <2>1, <3>1
    <3>3. ASSUME NEW n \in begins[next], WordMayStart(next, n) PROVE Found
      BY <1>4, <3>1, <3>2, <3>3
    <3>4. CASE pattern[x] = "*"
      <4>1. PICK n \in FindNextTokenInInput(begins, pattern, input, next) : TRUE
        BY <2>1, <2>2, <3>4, BeginsMeaning DEF begins, next
      <4>2. n \in begins[next]
        BY <3>1, <3>2, <3>4, <4>1, FindIsBegin DEF begins
      <4> QED
        BY <3>1, <3>3, <3>4, <4>2
    <3>5. CASE pattern[x] = "^"
      <4>1. \/ /\ j \in 1..Len(input)
               /\ CharacterIsValidSeparator(input[j])
               /\ j + 1 \in begins[next]
            \/ j = Len(input) + 1 /\ j \in begins[next]
        BY <2>1, <2>2, <3>5, BeginsMeaning DEF begins, next
      <4>2. CASE j = Len(input) + 1 /\ j \in begins[next]
        BY <3>3, <4>2
      <4>3. CASE /\ j \in 1..Len(input)
                 /\ CharacterIsValidSeparator(input[j])
                 /\ j + 1 \in begins[next]
        <5>1. input[j] \notin Word
          BY <4>3, Zenon DEF CharacterIsValidSeparator
        <5>2. j + 1 - 1 = j
          BY <4>3
        <5> QED
          BY <3>3, <4>3, <5>1, <5>2
      <4> QED
        BY <4>1, <4>2, <4>3
    <3>6. CASE pattern[x] \notin {"*", "^"}
      <4>1. /\ j \in 1..Len(input)
            /\ \A y \in x..(next - 1) : input[j + (y - x)] = pattern[y]
            /\ j + (next - x) \in begins[next]
        BY <2>1, <2>2, <3>6, BeginsMeaning DEF begins, next
      <4>2. input[j + (next - x) - 1] = pattern[next - 1]
        <5>1. next - 1 \in x..(next - 1) /\ j + (next - 1 - x) = j + (next - x) - 1
          BY <2>2, <3>1, <3>2, <4>1
        <5> QED
          BY <4>1, <5>1
      <4> QED
        BY <1>1, <3>3, <4>1, <4>2
    <3> QED
      BY <3>4, <3>5, <3>6
  <2> QED
    <3>1. next \in Int
      BY <2>2, TokenEndProperties
    <3> QED
      BY <1>1, <2>3, <2>4, <3>1
<1>5. a - s \in S
  <2>1. a - s \in Nat
    BY <1>1
  <2> HIDE DEF S
  <2> QED
    BY <1>3, <1>4, <2>1, NatInductionOverSet
<1>6. Follows(s)
  <2>1. s + (a - s) >= a
    BY <1>1
  <2> HIDE DEF Follows, a
  <2> QED
    BY <1>5, <2>1 DEF a
<1> QED
  BY <1>6 DEF begins, Found

(* The characters of a scheme and of what follows it.                        *)
LEMMA SchemeCharacters ==
  LET front == Scheme \o <<":", "/", "/">>
  IN  /\ Scheme \in Seq(Character) /\ Len(Scheme) = 4
      /\ front \in Seq(Character) /\ Len(front) = 7
      /\ \A x \in 1..4 : front[x] = Scheme[x]
      /\ front[5] = ":" /\ front[6] = "/" /\ front[7] = "/"
<1> DEFINE end == <<":", "/", "/">>
<1>1. Scheme \in Seq(Character) /\ Len(Scheme) = 4
  <2>1. "h" \in Character /\ "t" \in Character /\ "p" \in Character
    BY DEF Character
  <2> QED
    BY <2>1 DEF Scheme
<1>2. /\ end \in Seq(Character) /\ Len(end) = 3
      /\ end[1] = ":" /\ end[2] = "/" /\ end[3] = "/"
  <2>1. ":" \in Character /\ "/" \in Character
    BY DEF Character
  <2> QED
    BY <2>1
<1> HIDE DEF end
<1> DEFINE front == Scheme \o end
<1>3. /\ front \in Seq(Character) /\ Len(front) = Len(Scheme) + Len(end)
      /\ \A x \in 1..Len(Scheme) : front[x] = Scheme[x]
      /\ \A x \in 1..Len(end) : front[Len(Scheme) + x] = end[x]
  BY <1>1, <1>2, Concatenated
<1> HIDE DEF front
<1>4. /\ Len(front) = 7
      /\ \A x \in 1..4 : front[x] = Scheme[x]
      /\ front[5] = ":" /\ front[6] = "/" /\ front[7] = "/"
  <2>1. front[4 + 1] = end[1] /\ front[4 + 2] = end[2] /\ front[4 + 3] = end[3]
    BY <1>1, <1>2, <1>3
  <2> QED
    BY <1>1, <1>2, <1>3, <2>1
<1> QED
  BY <1>1, <1>3, <1>4 DEF front, end

(* The characters of an address.                                             *)
LEMMA SpecCharacters ==
  ASSUME NEW url, url.host \in Seq(Character), url.path \in Seq(Character)
  PROVE  LET text == SpecOf(url)
             start == 7 + Len(url.host)
         IN  /\ text \in Seq(Character)
             /\ Len(text) = start + Len(url.path)
             /\ \A x \in 1..4 : text[x] = Scheme[x]
             /\ text[5] = ":" /\ text[6] = "/" /\ text[7] = "/"
             /\ \A x \in 1..Len(url.host) : text[7 + x] = url.host[x]
             /\ \A x \in 1..Len(url.path) : text[start + x] = url.path[x]
<1> DEFINE front == Scheme \o <<":", "/", "/">>
           host == url.host
           path == url.path
           middle == front \o host
           m == Len(host)
           n == Len(path)
           text == middle \o path
<1>1. /\ front \in Seq(Character) /\ Len(front) = 7
      /\ \A x \in 1..4 : front[x] = Scheme[x]
      /\ front[5] = ":" /\ front[6] = "/" /\ front[7] = "/"
  BY SchemeCharacters
<1>2. m \in Nat /\ n \in Nat /\ host \in Seq(Character) /\ path \in Seq(Character)
  OBVIOUS
<1> HIDE DEF front, host, path
<1>3. /\ middle \in Seq(Character) /\ Len(middle) = 7 + m
      /\ \A x \in 1..7 : middle[x] = front[x]
      /\ \A x \in 1..m : middle[7 + x] = host[x]
  <2>1. /\ middle \in Seq(Character) /\ Len(middle) = Len(front) + Len(host)
        /\ \A x \in 1..Len(front) : middle[x] = front[x]
        /\ \A x \in 1..Len(host) : middle[Len(front) + x] = host[x]
    BY <1>1, <1>2, Concatenated
  <2> HIDE DEF middle
  <2> QED
    BY <1>1, <2>1
<1> HIDE DEF middle
<1>4. /\ text \in Seq(Character) /\ Len(text) = 7 + m + n
      /\ \A x \in 1..(7 + m) : text[x] = middle[x]
      /\ \A x \in 1..n : text[7 + m + x] = path[x]
  <2>1. /\ text \in Seq(Character) /\ Len(text) = Len(middle) + Len(path)
        /\ \A x \in 1..Len(middle) : text[x] = middle[x]
        /\ \A x \in 1..Len(path) : text[Len(middle) + x] = path[x]
    BY <1>2, <1>3, Concatenated
  <2> HIDE DEF text
  <2> QED
    BY <1>3, <2>1
<1> HIDE DEF text, m, n
<1>5. \A x \in 1..7 : text[x] = front[x]
  BY <1>2, <1>3, <1>4
<1>6. text[5] = ":" /\ text[6] = "/" /\ text[7] = "/" /\ \A x \in 1..4 : text[x] = Scheme[x]
  BY <1>1, <1>5
<1>7. ASSUME NEW x \in 1..m PROVE text[7 + x] = host[x]
  <2>1. 7 + x \in 1..(7 + m)
    BY <1>2
  <2> QED
    BY <1>3, <1>4, <2>1
<1>8. SpecOf(url) = text
  BY DEF SpecOf, text, middle, front, host, path
<1> HIDE DEF SpecOf
<1> QED
  BY <1>4, <1>6, <1>7, <1>8 DEF m, n, host, path

(* The same for a keyword with which its token begins.                       *)
LEMMA KeywordBeginsToken ==
  ASSUME NEW pattern \in Seq(Character), NEW input \in Seq(Character), NEW w \in KeywordPlaces(pattern),
         NEW i \in NextTokenBeginsInput(pattern, input)[w[1]]
  PROVE  /\ i \in 1..Len(input)
         /\ (i > 1 => input[i - 1] \notin Word) => OccursAsWord(pattern, w, input, i)
         /\ i + (w[2] - w[1]) <= Len(input)
         /\ \A x \in w[1]..w[2] : input[i + (x - w[1])] = pattern[x]
         /\ i + (w[2] - w[1]) < Len(input) => input[i + (w[2] - w[1]) + 1] \notin Word
<1>1. w[1] \in 1..w[1] /\ w[1] \in 1..Len(pattern) /\ w[1] - w[1] = 0
  BY KeywordCharacters
<1>2. TokenEnd(pattern, w[1]) > w[1]
  BY <1>1, TokenEndProperties
<1> DEFINE k == i + (w[1] - w[1])
<1>3. /\ i \in 1..Len(input)
      /\ (i > 1 => input[i - 1] \notin Word) => OccursAsWord(pattern, w, input, k)
      /\ k + (w[2] - w[1]) <= Len(input)
      /\ \A x \in w[1]..w[2] : input[k + (x - w[1])] = pattern[x]
      /\ k + (w[2] - w[1]) < Len(input) => input[k + (w[2] - w[1]) + 1] \notin Word
  BY <1>1, <1>2, KeywordInToken
<1>4. k = i
  BY <1>1, <1>3
<1> HIDE DEF k
<1> QED
  BY <1>3, <1>4

\* A keyword behind a host anchor that is not the end of the scheme.
IsNoEndOfScheme(pattern, w) ==
  w[1] = 3 /\ pattern[2] = "|" =>
    \A i \in 2..Len(Scheme) : SubSeq(pattern, 3, w[2]) # SubSeq(Scheme, i, Len(Scheme))

(* A keyword that follows a host anchor immediately is found as a word.      *)
LEMMA KeywordOfHost ==
  ASSUME NEW pattern \in Seq(Character), NEW w \in KeywordPlaces(pattern), NEW url,
         url.host \in Seq(Character), url.path \in Seq(Character),
         url.path = <<>> \/ url.path[1] = "/",
         w[1] = 3, pattern[2] = "|", IsNoEndOfScheme(pattern, w),
         NEW i \in NextTokenBeginsInput(pattern, SpecOf(url))[3],
         IsValidStartOfHost(i - 1, url)
  PROVE  OccursAsWord(pattern, w, SpecOf(url), i)
<1> DEFINE text == SpecOf(url)
           b == w[2]
           last == i + (b - 3)
           m == Len(url.host)
           n == Len(url.path)
<1>1. /\ text \in Seq(Character)
      /\ Len(text) = 7 + m + n
      /\ \A x \in 1..4 : text[x] = Scheme[x]
      /\ text[5] = ":" /\ text[6] = "/" /\ text[7] = "/"
      /\ \A x \in 1..n : text[7 + m + x] = url.path[x]
  BY SpecCharacters
<1>2. m \in Nat /\ n \in Nat /\ (n >= 1 => url.path[1] = "/")
  OBVIOUS
<1>3. /\ 3 \in 2..Len(pattern) /\ b \in 3..(Len(pattern) - 1)
      /\ \A x \in 3..b : pattern[x] \in Word
  BY KeywordCharacters
<1> HIDE DEF text, b, m, n
<1>4. /\ i \in 1..Len(text)
      /\ (i > 1 => text[i - 1] \notin Word) => OccursAsWord(pattern, w, text, i)
      /\ last <= Len(text)
      /\ \A x \in 3..b : text[i + (x - 3)] = pattern[x]
      /\ last < Len(text) => text[last + 1] \notin Word
  <2>1. i \in NextTokenBeginsInput(pattern, text)[w[1]]
    BY DEF text
  <2>2. /\ i \in 1..Len(text)
        /\ (i > 1 => text[i - 1] \notin Word) => OccursAsWord(pattern, w, text, i)
        /\ i + (w[2] - w[1]) <= Len(text)
        /\ \A x \in w[1]..w[2] : text[i + (x - w[1])] = pattern[x]
        /\ i + (w[2] - w[1]) < Len(text) => text[i + (w[2] - w[1]) + 1] \notin Word
    BY <1>1, <2>1, KeywordBeginsToken, Zenon
  <2> QED
    BY <2>2 DEF b
<1> HIDE DEF last
<1>5. ":" \notin Word /\ "/" \notin Word /\ "." \notin Word /\ \A x \in 1..4 : Scheme[x] \in Word
  <2>1. DOMAIN Scheme = 1..4
    BY SchemeCharacters
  <2> QED
    BY <2>1, WordAssumption
<1>6. /\ last \in Nat /\ i \in Nat /\ b \in Nat /\ 3 <= b /\ i <= last /\ 1 <= i /\ i <= Len(text)
      /\ last = i + (b - 3)
  <2>1. Len(text) \in Nat
    BY <1>1
  <2> QED
    BY <1>3, <1>4, <2>1 DEF last
<1>7. SUFFICES ASSUME i > 1 PROVE text[i - 1] \notin Word
  BY <1>4 DEF text
<1>8. ASSUME NEW y \in i..last PROVE text[y] \in Word
  <2>1. y - i + 3 \in 3..b /\ i + ((y - i + 3) - 3) = y
    BY <1>6
  <2>2. text[i + ((y - i + 3) - 3)] = pattern[y - i + 3]
    BY <1>4, <2>1
  <2> QED
    BY <1>3, <2>1, <2>2
<1>9. CASE i <= 5
  <2>1. last <= 4
    <3>1. 5 \notin i..last
      BY <1>1, <1>5, <1>8
    <3> QED
      BY <1>6, <1>9, <3>1
  <2>2. last >= 4
    <3>1. SUFFICES ASSUME last < 4 PROVE FALSE
      BY <1>6
    <3>2. last + 1 \in 1..4 /\ last < Len(text)
      BY <1>1, <1>2, <1>6, <3>1
    <3> QED
      BY <1>1, <1>4, <1>5, <3>2
  <2>3. i \in 2..4 /\ b = 7 - i
    BY <1>6, <1>7, <2>1, <2>2
  <2>4. SubSeq(pattern, 3, b) = SubSeq(Scheme, i, 4)
    <3>1. /\ SubSeq(pattern, 3, b) \in Seq(Character)
          /\ Len(SubSeq(pattern, 3, b)) = 5 - i
          /\ \A x \in 1..(5 - i) : SubSeq(pattern, 3, b)[x] = pattern[3 + x - 1]
      <4>1. 1 <= 3 /\ b \in Int /\ 3 <= b /\ b <= Len(pattern) /\ b - 3 + 1 = 5 - i
        BY <1>3, <2>3
      <4> QED
        BY <4>1, PartOfText
    <3>2. /\ SubSeq(Scheme, i, 4) \in Seq(Character)
          /\ Len(SubSeq(Scheme, i, 4)) = 5 - i
          /\ \A x \in 1..(5 - i) : SubSeq(Scheme, i, 4)[x] = Scheme[i + x - 1]
      <4>1. i \in Int /\ 1 <= i /\ i <= 4 /\ 4 - i + 1 = 5 - i
        BY <2>3
      <4> QED
        BY <4>1, PartOfText, SchemeCharacters
    <3>3. ASSUME NEW x \in 1..(5 - i) PROVE pattern[3 + x - 1] = Scheme[i + x - 1]
      <4>1. 3 + x - 1 \in 3..b /\ i + x - 1 \in 1..4 /\ i + ((3 + x - 1) - 3) = i + x - 1
        BY <2>3
      <4> QED
        BY <1>1, <1>4, <4>1
    <3> DEFINE one == SubSeq(pattern, 3, b)
               two == SubSeq(Scheme, i, 4)
    <3>4. /\ one \in Seq(Character) /\ two \in Seq(Character) /\ Len(one) = Len(two)
          /\ \A x \in 1..Len(one) : one[x] = two[x]
      BY <3>1, <3>2, <3>3
    <3> HIDE DEF one, two
    <3>5. one = two
      BY <3>4, SeqEqual
    <3> QED
      BY <3>5 DEF one, two
  <2> QED
    <3>1. i \in 2..Len(Scheme) /\ Len(Scheme) = 4
      BY <2>3, SchemeCharacters
    <3> QED
      BY <2>4, <3>1 DEF IsNoEndOfScheme, b
<1>10. CASE i \in 6..8
  <2>1. i - 1 = 5 \/ i - 1 = 6 \/ i - 1 = 7
    BY <1>10
  <2> QED
    BY <1>1, <1>5, <2>1
<1>11. CASE i > 8
  <2> DEFINE candidate == SubSeq(text, 8, i - 1)
  <2>1. /\ Len(candidate) = i - 8
        /\ \A x \in 1..(i - 8) : candidate[x] = text[8 + x - 1]
    <3>1. 8 \in Int /\ i - 1 \in Int /\ 8 <= i - 1 /\ (i - 1) - 8 + 1 = i - 8
      BY <1>6, <1>11
    <3>2. \A x \in 8..(i - 1) : text[x] \in Character
      <4>1. \A x \in 8..(i - 1) : x \in 1..Len(text)
        BY <1>4
      <4> QED
        BY <1>1, <4>1
    <3> QED
      BY <3>1, <3>2, SubSeqProperties
  <2>2. candidate = url.host \/ Last(candidate) = "."
    <3>1. Len(Scheme) + 4 = 8
      BY SchemeCharacters
    <3>2. ~ i - 1 < 8
      BY <1>6, <1>11
    <3> QED
      BY <3>1, <3>2 DEF IsValidStartOfHost, text
  <2> HIDE DEF candidate
  <2>3. CASE candidate = url.host
    <3>1. m = i - 8
      BY <2>1, <2>3 DEF m
    <3>2. n >= 1
      BY <1>1, <1>2, <1>6, <3>1
    <3>3. text[i] = "/"
      <4>1. 1 \in 1..n /\ 7 + m + 1 = i
        BY <1>2, <1>6, <3>1, <3>2
      <4> QED
        BY <1>1, <1>2, <3>2, <4>1
    <3>4. i \in i..last
      BY <1>6
    <3> QED
      BY <1>5, <1>8, <3>3, <3>4
  <2>4. CASE Last(candidate) = "."
    <3>1. Last(candidate) = candidate[i - 8]
      BY <2>1 DEF Last
    <3>2. candidate[i - 8] = text[i - 1]
      <4>1. i - 8 \in 1..(i - 8) /\ 8 + (i - 8) - 1 = i - 1
        BY <1>6, <1>11
      <4> QED
        BY <2>1, <4>1
    <3> QED
      BY <1>5, <2>4, <3>1, <3>2
  <2> QED
    BY <2>2, <2>3, <2>4
<1> QED
  BY <1>6, <1>9, <1>10, <1>11, SMTT(30)

(* What a pattern matches has the pattern's keywords among its own, unless   *)
(* it is not compared with it or found in the middle of the scheme.          *)
LEMMA MatchHasKeywords ==
  ASSUME NEW pattern \in Seq(Character), HasNoMiddleAnchor(pattern), NEW w \in KeywordPlaces(pattern),
         IsNoEndOfScheme(pattern, w), NEW url, url.host \in Seq(Character), url.path \in Seq(Character),
         url.path = <<>> \/ url.path[1] = "/", IsFoundInUrl(pattern, url)
  PROVE  SubSeq(pattern, w[1], w[2]) \in UrlKeywords(url)
<1> DEFINE input == SpecOf(url)
           begins == NextTokenBeginsInput(pattern, input)
           Found(s) == FindNextTokenInInput(begins, pattern, input, s)
           second == TokenEnd(pattern, 1)
           a == w[1]
           Occurs == \E k : OccursAsWord(pattern, w, input, k)
<1>1. input \in Seq(Character)
  BY SpecCharacters
<1>2. /\ a \in 2..(Len(pattern) - 1)
      /\ pattern[a] \notin Special
      /\ pattern[a - 1] # "*"
  <2>1. /\ w[1] \in 2..Len(pattern) /\ w[2] \in w[1]..(Len(pattern) - 1)
        /\ \A x \in w[1]..w[2] : pattern[x] \notin Special
        /\ pattern[w[1] - 1] # "*"
    BY KeywordCharacters
  <2>2. w[1] \in w[1]..w[2]
    BY <2>1
  <2> QED
    BY <2>1, <2>2
<1>3. 1 \in 1..Len(pattern) /\ 1 \in 1..a /\ a \in Nat
  BY <1>2
<1>4. /\ second \in 2..(Len(pattern) + 1)
      /\ second <= Len(pattern) => ~Continues(pattern[second - 1], pattern[second])
      /\ \A x \in 2..(second - 1) : Continues(pattern[x - 1], pattern[x])
  BY <1>3, TokenEndProperties
<1> HIDE DEF input, begins, second, a, Occurs
<1>5. ASSUME NEW s \in 1..a, ~IsSingleAnchor(pattern, s), NEW i \in begins[s],
             s = a /\ i > 1 /\ i <= Len(input) => input[i - 1] \notin Word
      PROVE  Occurs
  BY <1>1, <1>5, KeywordFollows DEF begins, a, Occurs
<1>6. ASSUME NEW s \in 1..(a - 1), pattern[s] # "*", ~IsSingleAnchor(pattern, s), NEW i \in Found(s)
      PROVE  Occurs
  <2>1. s \in 1..a /\ s # a /\ s \in 1..Len(pattern)
    BY <1>2, <1>6
  <2>2. i \in begins[s]
    BY <1>6, <2>1, FindIsBegin DEF begins
  <2> QED
    BY <1>5, <1>6, <2>1, <2>2
<1>7. ASSUME NEW s \in 1..(a - 1), pattern[s] = "*", NEW i \in Found(TokenEnd(pattern, s))
      PROVE  Occurs
  <2> DEFINE next == TokenEnd(pattern, s)
  <2>1. s \in 1..a /\ s \in 1..Len(pattern)
    BY <1>2
  <2>2. next <= a
    <3>1. SUFFICES ASSUME next > a PROVE FALSE
      BY <1>2, <2>1, TokenEndProperties
    <3>2. pattern[s] \notin Special
      BY <2>1, <3>1, TokenWithKeyword DEF a
    <3> QED
      BY <1>7, <3>2 DEF Special
  <2>3. /\ next \in (s + 1)..a
        /\ ~IsSingleAnchor(pattern, next)
        /\ next # a /\ pattern[next] # "*"
    BY <1>7, <2>1, <2>2, TokenBeforeKeyword DEF a
  <2>4. next \in 1..(a - 1)
    BY <1>3, <2>3
  <2> HIDE DEF next
  <2> QED
    BY <1>6, <1>7, <2>3, <2>4 DEF next
<1>0. SUFFICES Occurs
  BY <1>1, WordIsUrlKeyword DEF Occurs, input
<1>8. CASE pattern[1] = "|" /\ second = 2
  <2>1. 1 \in begins[2]
    <3>1. pattern # <<>> /\ second - 1 = 1 /\ second - 1 # 2 /\ second - 1 \in {1, 2}
      BY <1>3, <1>8
    <3> QED
      BY <1>8, <3>1, Zenon DEF IsFoundInUrl, AnchorsOf, SearchedFrom, begins, input, second
  <2>2. ~IsSingleAnchor(pattern, 2)
    BY <1>2, <1>4, <1>8 DEF IsSingleAnchor, Continues
  <2>3. 2 \in 1..a
    BY <1>2
  <2> QED
    BY <1>5, <2>1, <2>2, <2>3
<1>9. CASE pattern[1] = "|" /\ second = 3
  <2>1. pattern # <<>> /\ second - 1 = 2
    BY <1>3, <1>9
  <2>2. pattern[2] = "|"
    <3>1. 2 \in 2..(second - 1)
      BY <1>9
    <3>2. Continues(pattern[2 - 1], pattern[2])
      BY <1>4, <3>1
    <3> QED
      BY <1>9, <3>2 DEF Continues, Special
  <2>3. a >= 3 /\ 3 <= Len(pattern)
    BY <1>2, <2>2 DEF Special
  <2>4. CASE pattern[3] = "*"
    <3>1. Found(TokenEnd(pattern, 3)) # {}
      BY <1>9, <2>1, <2>3, <2>4 DEF IsFoundInUrl, AnchorsOf, SearchedFrom, begins, input, second
    <3>2. 3 \in 1..(a - 1)
      BY <1>2, <2>3, <2>4 DEF Special
    <3> QED
      BY <1>7, <2>4, <3>1, <3>2
  <2>5. CASE pattern[3] # "*"
    <3>1. PICK i \in Found(3) : IsValidStartOfHost(Skipped(pattern, input, 3, i), url)
      <4>1. second - 1 # 1
        BY <2>1
      <4> QED
        BY <1>9, <2>1, <2>5, <4>1, Zenon DEF IsFoundInUrl, AnchorsOf, SearchedFrom, begins, input, second
    <3>2. ~IsSingleAnchor(pattern, 3)
      BY <1>4, <1>9, <2>2, <2>3 DEF IsSingleAnchor, Continues
    <3>3. CASE a > 3
      <4>1. 3 \in 1..(a - 1)
        BY <1>3, <3>3
      <4> QED
        BY <1>6, <2>5, <3>1, <3>2, <4>1
    <3>4. CASE a = 3
      <4>1. i \in NextTokenBeginsInput(pattern, SpecOf(url))[3]
        <5>1. 3 \in 1..Len(pattern)
          BY <1>2, <3>4
        <5> QED
          BY <2>5, <3>1, <3>2, <5>1, FindIsBegin DEF begins, input
      <4>2. Skipped(pattern, input, 3, i) = i - 1
        <5>1. pattern[3] # "^"
          BY <1>2, <3>4 DEF Special
        <5> QED
          BY <5>1 DEF Skipped
      <4>3. IsValidStartOfHost(i - 1, url)
        BY <3>1, <4>2
      <4>4. OccursAsWord(pattern, w, SpecOf(url), i)
        BY <2>2, <3>4, <4>1, <4>3, KeywordOfHost DEF a
      <4> QED
        BY <4>4 DEF Occurs, input
    <3> QED
      BY <1>3, <2>3, <3>3, <3>4
  <2> QED
    BY <2>4, <2>5
<1>10. CASE ~(pattern[1] = "|" /\ second \in {2, 3})
  <2> DEFINE anchors == IF pattern # <<>> /\ pattern[1] = "|" THEN second - 1 ELSE 0
  <2>1. anchors \notin {1, 2} /\ 1 <= Len(pattern)
    BY <1>3, <1>4, <1>10
  <2>2. 1 \in 1..(a - 1)
    BY <1>2
  <2>3. CASE pattern[1] = "*"
    <3>1. Found(second) # {}
      BY <2>1, <2>3 DEF IsFoundInUrl, AnchorsOf, SearchedFrom, begins, input, second
    <3> QED
      BY <1>7, <2>2, <2>3, <3>1 DEF second
  <2>4. CASE pattern[1] # "*"
    <3>1. Found(1) # {}
      BY <2>1, <2>4 DEF IsFoundInUrl, AnchorsOf, SearchedFrom, begins, input, second
    <3>2. ~IsSingleAnchor(pattern, 1)
      BY <1>10 DEF IsSingleAnchor, second
    <3> QED
      BY <1>6, <2>2, <2>4, <3>1, <3>2
  <2> QED
    BY <2>3, <2>4
<1> QED
  BY <1>8, <1>9, <1>10

-----------------------------------------------------------------------------
(* The recursion over the tokens, one character at a time.                   *)

(* A token has one end.                                                      *)
LEMMA TokenEndUnique ==
  ASSUME NEW pattern \in Seq(Character), NEW s \in 1..Len(pattern),
         NEW e \in (s + 1)..(Len(pattern) + 1),
         \A x \in (s + 1)..(e - 1) : Continues(pattern[x - 1], pattern[x]),
         e <= Len(pattern) => ~Continues(pattern[e - 1], pattern[e])
  PROVE  TokenEnd(pattern, s) = e
<1> DEFINE t == TokenEnd(pattern, s)
<1>1. /\ t \in (s + 1)..(Len(pattern) + 1)
      /\ \A x \in (s + 1)..(t - 1) : Continues(pattern[x - 1], pattern[x])
      /\ t <= Len(pattern) => ~Continues(pattern[t - 1], pattern[t])
  BY TokenEndProperties
<1> HIDE DEF t
<1>2. ~ t < e
  BY <1>1
<1>3. ~ e < t
  BY <1>1
<1> QED
  BY <1>1, <1>2, <1>3 DEF t

(* A token that goes on behind its first character ends where the rest does. *)
LEMMA TokenEndOfRest ==
  ASSUME NEW pattern \in Seq(Character), NEW s \in 1..Len(pattern)
  PROVE  IF s < Len(pattern) /\ Continues(pattern[s], pattern[s + 1])
         THEN TokenEnd(pattern, s) = TokenEnd(pattern, s + 1)
         ELSE TokenEnd(pattern, s) = s + 1
<1>1. CASE s < Len(pattern) /\ Continues(pattern[s], pattern[s + 1])
  <2> DEFINE t == TokenEnd(pattern, s + 1)
  <2>1. /\ t \in (s + 2)..(Len(pattern) + 1)
        /\ \A x \in (s + 2)..(t - 1) : Continues(pattern[x - 1], pattern[x])
        /\ t <= Len(pattern) => ~Continues(pattern[t - 1], pattern[t])
    <3>1. s + 1 \in 1..Len(pattern) /\ s + 1 + 1 = s + 2
      BY <1>1
    <3> QED
      BY <3>1, TokenEndProperties
  <2> HIDE DEF t
  <2>2. \A x \in (s + 1)..(t - 1) : Continues(pattern[x - 1], pattern[x])
    BY <1>1, <2>1
  <2>3. TokenEnd(pattern, s) = t
    BY <2>1, <2>2, TokenEndUnique
  <2> QED
    BY <1>1, <2>3 DEF t
<1>2. CASE ~(s < Len(pattern) /\ Continues(pattern[s], pattern[s + 1]))
  BY <1>2, TokenEndUnique
<1> QED
  BY <1>1, <1>2

(* A part of a pattern is found where its characters are, and nowhere else.  *)
LEMMA StartsWithMeaning ==
  ASSUME NEW pattern \in Seq(Character), NEW input \in Seq(Character),
         NEW s \in 1..Len(pattern), NEW e \in (s + 1)..(Len(pattern) + 1), NEW i \in 1..Len(input)
  PROVE  /\ Len(SubSeq(pattern, s, e - 1)) = e - s
         /\ StartsWith(input, i, SubSeq(pattern, s, e - 1)) <=>
              /\ i + (e - s) <= Len(input) + 1
              /\ \A x \in s..(e - 1) : input[i + (x - s)] = pattern[x]
<1> DEFINE token == SubSeq(pattern, s, e - 1)
           n == e - s
<1>1. /\ token \in Seq(Character) /\ Len(token) = n
      /\ \A x \in 1..n : token[x] = pattern[s + x - 1]
  <2>1. /\ s \in Int /\ e - 1 \in Int /\ 1 <= s /\ s <= e - 1 /\ e - 1 <= Len(pattern)
        /\ (e - 1) - s + 1 = n
    OBVIOUS
  <2> QED
    BY <2>1, PartOfText
<1>2. ASSUME i + n <= Len(input) + 1, \A x \in s..(e - 1) : input[i + (x - s)] = pattern[x]
      PROVE  StartsWith(input, i, token)
  <2> DEFINE part == SubSeq(input, i, i + n - 1)
  <2>1. /\ part \in Seq(Character) /\ Len(part) = n
        /\ \A x \in 1..n : part[x] = input[i + x - 1]
    <3>1. /\ i \in Int /\ i + n - 1 \in Int /\ 1 <= i /\ i <= i + n - 1 /\ i + n - 1 <= Len(input)
          /\ (i + n - 1) - i + 1 = n
      BY <1>2
    <3> QED
      BY <3>1, PartOfText
  <2>2. ASSUME NEW x \in 1..n PROVE part[x] = token[x]
    <3>1. s + x - 1 \in s..(e - 1) /\ i + ((s + x - 1) - s) = i + x - 1
      OBVIOUS
    <3>2. input[i + x - 1] = pattern[s + x - 1]
      BY <1>2, <3>1
    <3> HIDE DEF part, token
    <3> QED
      BY <1>1, <2>1, <3>2
  <2>3. n \in Nat /\ i + n - 1 <= Len(input)
    BY <1>2
  <2> HIDE DEF part, token, n
  <2>4. part = token
    BY <1>1, <2>1, <2>2, <2>3, SeqEqual
  <2> QED
    BY <1>1, <2>3, <2>4 DEF StartsWith, part
<1>3. ASSUME StartsWith(input, i, token)
      PROVE  i + n <= Len(input) + 1 /\ \A x \in s..(e - 1) : input[i + (x - s)] = pattern[x]
  BY <1>3, StartsWithToken
<1> QED
  BY <1>1, <1>2, <1>3

(* Where a literal token and those behind it match.                          *)
LEMMA LiteralBegins ==
  ASSUME NEW pattern \in Seq(Character), NEW input \in Seq(Character),
         NEW s \in 1..Len(pattern), pattern[s] \notin Special, NEW i
  PROVE  LET begins == NextTokenBeginsInput(pattern, input)
             next == TokenEnd(pattern, s)
         IN  i \in begins[s] <=>
               /\ i \in 1..Len(input)
               /\ i + (next - s) <= Len(input) + 1
               /\ \A x \in s..(next - 1) : input[i + (x - s)] = pattern[x]
               /\ i + (next - s) \in begins[next]
<1> DEFINE begins == NextTokenBeginsInput(pattern, input)
           next == TokenEnd(pattern, s)
           token == SubSeq(pattern, s, next - 1)
<1>1. begins[s] = FindNextTokenInInput(begins, pattern, input, s)
  BY FindIsBegin DEF IsSingleAnchor, Special
<1>2. next \in (s + 1)..(Len(pattern) + 1)
  BY TokenEndProperties
<1>3. FindNextTokenInInput(begins, pattern, input, s)
        = { k \in DOMAIN input : StartsWith(input, k, token) /\ k + Len(token) \in begins[next] }
  <2>1. s <= Len(pattern) /\ ~ s > Len(pattern) /\ pattern[s] # "^"
    BY DEF Special
  <2> QED
    BY <2>1, Zenon DEF FindNextTokenInInput
<1>4. DOMAIN input = 1..Len(input)
  OBVIOUS
<1>5. i \in begins[s] <=>
        i \in 1..Len(input) /\ StartsWith(input, i, token) /\ i + Len(token) \in begins[next]
  <2> HIDE DEF begins, next, token
  <2> QED
    BY <1>1, <1>3, <1>4
<1> HIDE DEF next, begins
<1>6. ASSUME i \in 1..Len(input)
      PROVE  /\ Len(token) = next - s
             /\ StartsWith(input, i, token) <=>
                  /\ i + (next - s) <= Len(input) + 1
                  /\ \A x \in s..(next - 1) : input[i + (x - s)] = pattern[x]
  BY <1>2, <1>6, StartsWithMeaning
<1> HIDE DEF token
<1> QED
  BY <1>5, <1>6 DEF next, begins

(* The places at which something matches are places of the input or its end. *)
LEMMA BeginsRange ==
  ASSUME NEW pattern \in Seq(Character), NEW input \in Seq(Character), NEW s \in 1..(Len(pattern) + 1)
  PROVE  LET begins == NextTokenBeginsInput(pattern, input)
         IN  /\ begins[s] \subseteq 1..(Len(input) + 1)
             /\ FindNextTokenInInput(begins, pattern, input, s) \subseteq 1..(Len(input) + 1)
             /\ s > Len(pattern) =>
                  /\ begins[s] = 1..(Len(input) + 1)
                  /\ FindNextTokenInInput(begins, pattern, input, s) = begins[s]
<1> DEFINE begins == NextTokenBeginsInput(pattern, input)
           end == Len(input) + 1
<1>1. begins[s] = TokensBeginInput(begins, pattern, input, s)
  BY BeginsDef
<1>2. DOMAIN input \subseteq 1..end /\ end \in 1..end
  OBVIOUS
<1> HIDE DEF begins
<1>3. CASE s > Len(pattern)
  BY <1>1, <1>3 DEF TokensBeginInput, FindNextTokenInInput, begins
<1>4. CASE s <= Len(pattern)
  <2>1. FindNextTokenInInput(begins, pattern, input, s) \subseteq 1..end
    <3>1. CASE pattern[s] = "^"
      BY <1>2, <1>4, <3>1 DEF FindNextTokenInInput
    <3>2. CASE pattern[s] # "^"
      BY <1>2, <1>4, <3>2 DEF FindNextTokenInInput
    <3> QED
      BY <3>1, <3>2
  <2>2. TokensBeginInput(begins, pattern, input, s) \subseteq 1..end
    <3>1. ~ s > Len(pattern)
      BY <1>4
    <3>2. CASE pattern[s] = "*"
      BY <1>2, <3>1, <3>2 DEF TokensBeginInput
    <3>3. CASE pattern[s] = "|" /\ TokenEnd(pattern, s) = s + 1
      BY <1>2, <3>1, <3>3 DEF TokensBeginInput
    <3>4. CASE pattern[s] # "*" /\ ~(pattern[s] = "|" /\ TokenEnd(pattern, s) = s + 1)
      BY <2>1, <3>1, <3>4 DEF TokensBeginInput
    <3> QED
      BY <3>2, <3>3, <3>4
  <2> QED
    BY <1>1, <1>4, <2>1, <2>2 DEF begins
<1> QED
  BY <1>3, <1>4

\* From s on a pattern has no anchor but at its end, and none behind a wildcard.
HasNoAnchorFrom(pattern, s) ==
  \A x \in s..Len(pattern) :
    /\ pattern[x] = "|" => x = Len(pattern)
    /\ x < Len(pattern) /\ pattern[x] = "*" => pattern[x + 1] # "|"

(* Behind wildcards something is found that matches what is behind one more. *)
LEMMA WildcardBegins ==
  ASSUME NEW pattern \in Seq(Character), NEW input \in Seq(Character),
         NEW s \in 1..Len(pattern), pattern[s] = "*", s < Len(pattern) => pattern[s + 1] # "|"
  PROVE  LET begins == NextTokenBeginsInput(pattern, input)
         IN  begins[s] = { i \in 1..(Len(input) + 1) : \E j \in begins[s + 1] : i <= j }
<1> DEFINE begins == NextTokenBeginsInput(pattern, input)
           end == Len(input) + 1
           Found(x) == FindNextTokenInInput(begins, pattern, input, x)
           Before(F) == { i \in 1..end : \E j \in F : i <= j }
<1>0. end \in Nat
  OBVIOUS
<1>1. ASSUME NEW x \in 1..Len(pattern), pattern[x] = "*"
      PROVE  begins[x] = Before(Found(TokenEnd(pattern, x)))
  <2>1. begins[x] = TokensBeginInput(begins, pattern, input, x)
    BY BeginsDef
  <2> HIDE DEF begins
  <2> QED
    BY <1>1, <2>1 DEF TokensBeginInput
<1>2. CASE s < Len(pattern) /\ pattern[s + 1] = "*"
  <2>1. TokenEnd(pattern, s) = TokenEnd(pattern, s + 1)
    BY <1>2, TokenEndOfRest DEF Continues
  <2> DEFINE F == Found(TokenEnd(pattern, s))
  <2>2. begins[s] = Before(F) /\ begins[s + 1] = Before(F)
    BY <1>1, <1>2, <2>1
  <2>3. F \subseteq 1..end
    <3>1. TokenEnd(pattern, s) \in 1..(Len(pattern) + 1)
      BY TokenEndProperties
    <3> QED
      BY <3>1, BeginsRange
  <2> HIDE DEF F, begins, end
  <2>4. ASSUME NEW i \in 1..end
        PROVE  (\E j \in F : i <= j) <=> (\E k \in Before(F) : i <= k)
    <3>1. ASSUME NEW j \in F, i <= j PROVE j \in Before(F) /\ i <= j
      <4>1. j \in 1..end
        BY <2>3
      <4> QED
        BY <1>0, <3>1, <4>1
    <3>2. ASSUME NEW k \in Before(F), i <= k PROVE \E j \in F : i <= j
      <4>1. PICK j \in F : k <= j
        OBVIOUS
      <4>2. j \in 1..end
        BY <2>3
      <4> QED
        BY <1>0, <3>2, <4>1, <4>2
    <3> QED
      BY <3>1, <3>2
  <2>5. Before(F) = Before(Before(F))
    BY <2>4
  <2> QED
    BY <2>2, <2>5 DEF begins, end
<1>3. CASE ~(s < Len(pattern) /\ pattern[s + 1] = "*")
  <2>1. TokenEnd(pattern, s) = s + 1
    BY <1>3, TokenEndOfRest DEF Continues, Special
  <2>2. Found(s + 1) = begins[s + 1]
    <3>1. CASE s = Len(pattern)
      <4>1. s + 1 \in 1..(Len(pattern) + 1) /\ s + 1 > Len(pattern)
        BY <3>1
      <4> QED
        BY <4>1, BeginsRange
    <3>2. CASE s # Len(pattern)
      <4>1. s + 1 \in 1..Len(pattern) /\ pattern[s + 1] # "*" /\ ~IsSingleAnchor(pattern, s + 1)
        BY <1>3, <3>2 DEF IsSingleAnchor
      <4> QED
        BY <4>1, FindIsBegin
    <3> QED
      BY <3>1, <3>2
  <2> QED
    BY <1>1, <2>1, <2>2
<1> QED
  BY <1>2, <1>3

(* A separator matches one character or the end of the input.                *)
LEMMA SeparatorBegins ==
  ASSUME NEW pattern \in Seq(Character), NEW input \in Seq(Character),
         NEW s \in 1..Len(pattern), pattern[s] = "^"
  PROVE  LET begins == NextTokenBeginsInput(pattern, input)
         IN  begins[s] = { i \in DOMAIN input : CharacterIsValidSeparator(input[i])
                                                /\ i + 1 \in begins[s + 1] }
                         \cup (begins[s + 1] \cap {Len(input) + 1})
<1> DEFINE begins == NextTokenBeginsInput(pattern, input)
<1>1. begins[s] = FindNextTokenInInput(begins, pattern, input, s)
  BY FindIsBegin DEF IsSingleAnchor
<1>2. TokenEnd(pattern, s) = s + 1
  BY TokenEndOfRest DEF Continues, Special
<1> HIDE DEF begins
<1> QED
  BY <1>1, <1>2 DEF FindNextTokenInInput, begins

(* An ordinary character matches itself.                                     *)
LEMMA CharacterBegins ==
  ASSUME NEW pattern \in Seq(Character), NEW input \in Seq(Character),
         NEW s \in 1..Len(pattern), pattern[s] \notin Special
  PROVE  LET begins == NextTokenBeginsInput(pattern, input)
         IN  begins[s] = { i \in DOMAIN input : input[i] = pattern[s] /\ i + 1 \in begins[s + 1] }
<1> DEFINE begins == NextTokenBeginsInput(pattern, input)
           next == TokenEnd(pattern, s)
           L == Len(input)
           Same(i, x) == input[i + (x - s)] = pattern[x]
<1>1. \A i : i \in begins[s] <=>
        /\ i \in 1..L
        /\ i + (next - s) <= L + 1
        /\ \A x \in s..(next - 1) : Same(i, x)
        /\ i + (next - s) \in begins[next]
  BY LiteralBegins
<1>2. next \in (s + 1)..(Len(pattern) + 1)
  BY TokenEndProperties
<1>3. DOMAIN input = 1..L /\ L \in Nat
  OBVIOUS
<1>4. CASE s < Len(pattern) /\ Continues(pattern[s], pattern[s + 1])
  <2>1. TokenEnd(pattern, s + 1) = next /\ s + 1 \in 1..Len(pattern) /\ pattern[s + 1] \notin Special
    BY <1>4, TokenEndOfRest DEF Continues, Special
  <2>2. next \in (s + 2)..(Len(pattern) + 1)
    BY <2>1, TokenEndProperties
  <2>3. \A i : i + 1 \in begins[s + 1] <=>
          /\ i + 1 \in 1..L
          /\ (i + 1) + (next - (s + 1)) <= L + 1
          /\ \A x \in (s + 1)..(next - 1) : input[(i + 1) + (x - (s + 1))] = pattern[x]
          /\ (i + 1) + (next - (s + 1)) \in begins[next]
    <3> DEFINE after == TokenEnd(pattern, s + 1)
               r == s + 1
    <3>1. \A k : k \in begins[r] <=>
            /\ k \in 1..L
            /\ k + (after - r) <= L + 1
            /\ \A x \in r..(after - 1) : input[k + (x - r)] = pattern[x]
            /\ k + (after - r) \in begins[after]
      BY <2>1, LiteralBegins
    <3> HIDE DEF begins, next, after, r, L
    <3>2. after = next
      BY <2>1 DEF after
    <3>3. r = s + 1
      BY DEF r
    <3> QED
      BY <3>1, <3>2, <3>3
  <2> HIDE DEF begins, next, L
  <2>4. ASSUME NEW i \in 1..L
        PROVE  i \in begins[s] <=> input[i] = pattern[s] /\ i + 1 \in begins[s + 1]
    <3>1. /\ (i + 1) + (next - (s + 1)) = i + (next - s)
          /\ \A x \in (s + 1)..(next - 1) : (i + 1) + (x - (s + 1)) = i + (x - s)
          /\ i + (next - s) <= L + 1 => i + 1 \in 1..L
      BY <1>3, <2>2
    <3>2. i + 1 \in begins[s + 1] <=>
            /\ i + (next - s) <= L + 1
            /\ \A x \in (s + 1)..(next - 1) : Same(i, x)
            /\ i + (next - s) \in begins[next]
      BY <2>3, <3>1
    <3>3. (\A x \in s..(next - 1) : Same(i, x)) <=>
            input[i] = pattern[s] /\ \A x \in (s + 1)..(next - 1) : Same(i, x)
      <4>1. i + (s - s) = i
        OBVIOUS
      <4>2. \A x \in s..(next - 1) : x = s \/ x \in (s + 1)..(next - 1)
        BY <2>2
      <4>3. s \in s..(next - 1) /\ \A x \in (s + 1)..(next - 1) : x \in s..(next - 1)
        BY <2>2
      <4> QED
        BY <4>1, <4>2, <4>3
    <3> HIDE DEF Same
    <3> QED
      BY <1>1, <3>2, <3>3
  <2> HIDE DEF Same
  <2>5. \A i \in begins[s] : i \in 1..L
    BY <1>1
  <2> QED
    BY <1>3, <2>4, <2>5 DEF begins
<1>5. CASE ~(s < Len(pattern) /\ Continues(pattern[s], pattern[s + 1]))
  <2>1. next = s + 1
    BY <1>5, TokenEndOfRest
  <2> HIDE DEF begins, next, L
  <2>2. ASSUME NEW i \in 1..L
        PROVE  i \in begins[s] <=> input[i] = pattern[s] /\ i + 1 \in begins[s + 1]
    <3>1. /\ i + (next - s) = i + 1 /\ i + 1 <= L + 1
          /\ \A x \in s..(next - 1) : x = s
          /\ s \in s..(next - 1) /\ i + (s - s) = i
      BY <1>3, <2>1
    <3> QED
      BY <1>1, <2>1, <3>1
  <2>3. \A i \in begins[s] : i \in 1..L
    BY <1>1
  <2> HIDE DEF Same
  <2> QED
    BY <1>3, <2>2, <2>3 DEF begins
<1> QED
  BY <1>4, <1>5

(* An anchor at the end of a pattern is the end of the input.                *)
LEMMA AnchorBegins ==
  ASSUME NEW pattern \in Seq(Character), NEW input \in Seq(Character),
         NEW s \in 1..Len(pattern), pattern[s] = "|", s = Len(pattern)
  PROVE  NextTokenBeginsInput(pattern, input)[s] = {Len(input) + 1}
<1> DEFINE begins == NextTokenBeginsInput(pattern, input)
<1>1. begins[s] = TokensBeginInput(begins, pattern, input, s)
  BY BeginsDef
<1>2. TokenEnd(pattern, s) = s + 1
  BY TokenEndOfRest
<1> HIDE DEF begins
<1> QED
  BY <1>1, <1>2 DEF TokensBeginInput, begins

-----------------------------------------------------------------------------
(* The calls a match takes.                                                  *)

(* How many calls the tokens from s on take depends on later tokens only.    *)
LEMMA CallsLocal ==
  ASSUME NEW pattern \in Seq(Character), NEW s \in 1..(Len(pattern) + 1), NEW f, NEW g,
         \A x \in (s + 1)..(Len(pattern) + 1) : f[x] = g[x]
  PROVE  CallsToBegin(f, pattern, s) = CallsToBegin(g, pattern, s)
<1> DEFINE n == Len(pattern) + 1
           e == TokenEnd(pattern, s)
<1>1. CASE s > Len(pattern)
  BY <1>1 DEF CallsToBegin
<1>2. CASE s <= Len(pattern)
  <2>1. e \in (s + 1)..n /\ f[e] = g[e]
    BY <1>2, TokenEndProperties
  <2>2. CallsToFind(f, pattern, e) = CallsToFind(g, pattern, e)
    <3>1. CASE e <= Len(pattern)
      <4>1. TokenEnd(pattern, e) \in (e + 1)..n
        BY <2>1, <3>1, TokenEndProperties
      <4>2. TokenEnd(pattern, e) \in (s + 1)..n
        BY <2>1, <4>1
      <4> HIDE DEF e
      <4> QED
        BY <3>1, <4>2 DEF CallsToFind
    <3>2. CASE ~ e <= Len(pattern)
      BY <2>1, <3>2 DEF CallsToFind
    <3> QED
      BY <3>1, <3>2
  <2> QED
    BY <1>2, <2>1, <2>2 DEF CallsToBegin
<1> QED
  BY <1>1, <1>2

(* The calls from each place in a pattern are those its tokens take.         *)
LEMMA CallsDef ==
  ASSUME NEW pattern \in Seq(Character)
  PROVE  LET calls == CallsFrom(pattern)
         IN  calls = [ s \in 1..(Len(pattern) + 1) |-> CallsToBegin(calls, pattern, s) ]
<1> DEFINE n == Len(pattern) + 1
           Is(f, m) == f = [ s \in (n - m)..n |-> CallsToBegin(f, pattern, s) ]
           S == { m \in Nat : m < n => \E f : Is(f, m) }
<1>1. n \in Nat /\ n > 0
  OBVIOUS
<1>2. 0 \in S
  <2> DEFINE g == [ s \in n..n |-> 1 ]
  <2>1. \A s \in n..n : s = n /\ s > Len(pattern)
    OBVIOUS
  <2>2. \A s \in n..n : CallsToBegin(g, pattern, s) = 1
    BY <2>1 DEF CallsToBegin
  <2>3. \E h : Is(h, 0)
    <3>1. Is(g, 0)
      BY <2>2
    <3> HIDE DEF g, Is
    <3> QED
      BY <3>1
  <2> QED
    BY <2>3
<1>3. ASSUME NEW m \in Nat, m \in S PROVE m + 1 \in S
  <2> SUFFICES ASSUME m + 1 < n PROVE \E h : Is(h, m + 1)
    OBVIOUS
  <2>1. PICK f : Is(f, m)
    BY <1>3
  <2> DEFINE k == n - (m + 1)
             g == [ s \in k..n |-> IF s = k THEN CallsToBegin(f, pattern, k) ELSE f[s] ]
  <2>2. k \in 1..n /\ \A s \in k..n : s # k => s \in (n - m)..n
    OBVIOUS
  <2>3. \A x \in (k + 1)..n : f[x] = g[x]
    BY <2>2
  <2>4. ASSUME NEW s \in k..n
        PROVE  g[s] = CallsToBegin(g, pattern, s)
    <3>1. CallsToBegin(f, pattern, s) = CallsToBegin(g, pattern, s)
      <4>1. \A x \in (s + 1)..(Len(pattern) + 1) : f[x] = g[x]
        BY <2>3
      <4>2. s \in 1..(Len(pattern) + 1)
        BY <2>2
      <4> HIDE DEF g, k
      <4> QED
        BY <4>1, <4>2, CallsLocal
    <3>2. CASE s = k
      BY <3>1, <3>2
    <3>3. CASE s # k
      <4>1. f[s] = CallsToBegin(f, pattern, s)
        BY <2>1, <2>2, <3>3
      <4> QED
        BY <3>1, <3>3, <4>1
    <3> QED
      BY <3>2, <3>3
  <2>5. Is(g, m + 1)
    BY <2>4
  <2> HIDE DEF g, Is
  <2> QED
    BY <2>5
<1>4. n - 1 \in S
  <2> HIDE DEF S
  <2> QED
    BY <1>1, <1>2, <1>3, NatInductionOverSet
<1>5. \E f : f = [ s \in 1..n |-> CallsToBegin(f, pattern, s) ]
  BY <1>1, <1>4
<1> QED
  BY <1>5 DEF CallsFrom
=============================================================================
