------------------------- MODULE StoredTexts_proofs -------------------------
(***************************************************************************)
(* The parser of StoredObjects reads what the asJSON methods write: every  *)
(* value, list and field, wherever it stands in a text, and the fields of  *)
(* an object.  It does not read a time that is quoted twice, nor an object *)
(* without the name of its type.                                           *)
(*                                                                         *)
(* The texts and the lists in them are of any length.  The recursion of    *)
(* the parser is by the depth of its calls, which suffices when it is more *)
(* than what is left of the text.                                          *)
(***************************************************************************)
EXTENDS StoredObjects, WellFoundedInduction, TLAPS

(***************************************************************************)
(* Recursion.                                                              *)
(***************************************************************************)

\* The order by which numbers are well-founded, as a set of pairs.
Less == {pair \in Nat \X Nat : pair[1] < pair[2]}

LEMMA LessIsWellFounded == IsWellFoundedOn(Less, Nat)
BY NatLessThanWellFounded, Zenon DEF OpToRel, Less

\* Induction over the numbers, as a fact about sets.
LEMMA Induction ==
    ASSUME NEW S, S \subseteq Nat, 0 \in S, \A n \in S : n + 1 \in S
    PROVE  S = Nat
<1> DEFINE T == Nat \ S
<1> SUFFICES ASSUME T # {} PROVE FALSE
    OBVIOUS
<1>1. PICK x \in T : \A y \in T : <<y, x>> \notin Less
    BY LessIsWellFounded, WFMin
<1>2. x - 1 \in T
    OBVIOUS
<1>3. <<x - 1, x>> \in Less
    BY DEF Less
<1> QED BY <1>1, <1>2, <1>3

\* What the calls return that nest deeper than the text is long.
EndOfText ==
    LET End == [pos \in Nat |-> At(Nothing, pos)]
    IN [value |-> End, comma_value |-> End, comma_field |-> End]

\* The calls that may nest one deeper.
OneDeeper(calls, text) ==
    [value       |-> [pos \in Nat |-> parseJSON_value(calls, text, pos)],
     comma_value |-> [pos \in Nat |-> parseJSON_comma_value(calls, text, pos)],
     comma_field |-> [pos \in Nat |-> parseJSON_comma_field(calls, text, pos)]]

\* Calls(text), which is a function defined by recursion, is that function.
LEMMA CallsEquation ==
    ASSUME NEW text
    PROVE  /\ Calls(text)[0] = EndOfText
           /\ \A n \in Nat : Calls(text)[n + 1] = OneDeeper(Calls(text)[n], text)
<1> DEFINE F(n, q) == IF n = 0 THEN EndOfText ELSE OneDeeper(q[n - 1], text)
           S == {n \in Nat : \E q : q = [i \in 0 .. n |-> F(i, q)]}
           Q(n) == CHOOSE q : q = [i \in 0 .. n |-> F(i, q)]
           f == [n \in Nat |-> Q(n)[n]]
<1>1. S = Nat
  <2>1. 0 \in S
    <3> DEFINE q == [i \in 0 .. 0 |-> EndOfText]
    <3>1. q = [i \in 0 .. 0 |-> F(i, q)]
        OBVIOUS
    <3> QED BY <3>1, Zenon
  <2>2. ASSUME NEW n \in S PROVE n + 1 \in S
    <3>1. PICK q : q = [i \in 0 .. n |-> F(i, q)]
        OBVIOUS
    <3> DEFINE r == [i \in 0 .. n + 1 |-> IF i <= n THEN q[i] ELSE OneDeeper(q[n], text)]
    <3>2. ASSUME NEW i \in 0 .. n + 1 PROVE r[i] = F(i, r)
        BY <3>1
    <3>3. r = [i \in 0 .. n + 1 |-> F(i, r)]
        BY <3>2
    <3>4. n + 1 \in Nat
        OBVIOUS
    <3> HIDE DEF r, F
    <3> QED BY <3>3, <3>4, Zenon
  <2> QED BY <2>1, <2>2, Induction
<1>2. ASSUME NEW n \in Nat PROVE Q(n) = [i \in 0 .. n |-> F(i, Q(n))]
    BY <1>1, Zenon
<1>3. ASSUME NEW n \in Nat PROVE Q(n + 1)[n] = Q(n)[n]
  <2> DEFINE R == {i \in Nat : i <= n => Q(n + 1)[i] = Q(n)[i]}
  <2> HIDE DEF Q
  <2>1. 0 \in R
      BY <1>2
  <2>2. ASSUME NEW i \in R PROVE i + 1 \in R
      BY <1>2
  <2>3. R = Nat
      BY <2>1, <2>2, Induction
  <2> QED BY <2>3
<1>4. ASSUME NEW n \in Nat PROVE f[n] = F(n, f)
  <2> HIDE DEF Q
  <2> QED BY <1>2, <1>3
<1>5. f = [n \in Nat |-> F(n, f)]
    BY <1>4
<1>6. Calls(text) = [n \in Nat |-> F(n, Calls(text))]
  <2> HIDE DEF f
  <2> QED BY <1>5 DEF Calls, EndOfText, OneDeeper
<1> QED BY <1>6

\* Two texts with a comma between them.
AndThen(text1, text2) == text1 \o <<",">> \o text2

\* Joined(texts) is made by appending one text after the other.
LEMMA JoinedEquation ==
    ASSUME NEW texts, Len(texts) \in Nat
    PROVE  \E f : /\ Joined(texts) = f[Len(texts)]
                  /\ f[0] = <<>>
                  /\ f[1] = texts[1]
                  /\ \A n \in Nat \ {0} : f[n + 1] = AndThen(f[n], texts[n + 1])
<1> DEFINE Next1(x, n) == IF n = 1 THEN texts[1] ELSE AndThen(x, texts[n])
           F(n, q) == IF n = 0 THEN <<>> ELSE Next1(q[n - 1], n)
           S == {n \in Nat : \E q : q = [i \in 0 .. n |-> F(i, q)]}
           Q(n) == CHOOSE q : q = [i \in 0 .. n |-> F(i, q)]
           f == [n \in Nat |-> Q(n)[n]]
           joined == CHOOSE j : j = [n \in Nat |-> F(n, j)]
<1> HIDE DEF Next1
<1>1. S = Nat
  <2>1. 0 \in S
    <3> DEFINE q == [i \in 0 .. 0 |-> <<>>]
    <3>1. q = [i \in 0 .. 0 |-> F(i, q)]
        OBVIOUS
    <3> QED BY <3>1, Zenon
  <2>2. ASSUME NEW n \in S PROVE n + 1 \in S
    <3>1. PICK q : q = [i \in 0 .. n |-> F(i, q)]
        OBVIOUS
    <3> DEFINE r == [i \in 0 .. n + 1 |-> IF i <= n THEN q[i] ELSE Next1(q[n], n + 1)]
    <3>2. ASSUME NEW i \in 0 .. n + 1 PROVE r[i] = F(i, r)
        BY <3>1
    <3>3. r = [i \in 0 .. n + 1 |-> F(i, r)]
        BY <3>2
    <3>4. n + 1 \in Nat
        OBVIOUS
    <3> HIDE DEF r, F
    <3> QED BY <3>3, <3>4, Zenon
  <2> QED BY <2>1, <2>2, Induction
<1>2. ASSUME NEW n \in Nat PROVE Q(n) = [i \in 0 .. n |-> F(i, Q(n))]
    BY <1>1, Zenon
<1>3. ASSUME NEW n \in Nat PROVE Q(n + 1)[n] = Q(n)[n]
  <2> DEFINE R == {i \in Nat : i <= n => Q(n + 1)[i] = Q(n)[i]}
  <2> HIDE DEF Q
  <2>1. 0 \in R
      BY <1>2
  <2>2. ASSUME NEW i \in R PROVE i + 1 \in R
      BY <1>2
  <2>3. R = Nat
      BY <2>1, <2>2, Induction
  <2> QED BY <2>3
<1>4. ASSUME NEW n \in Nat PROVE f[n] = F(n, f)
  <2> HIDE DEF Q
  <2>1. CASE n = 0
      BY <2>1, <1>2
  <2>2. CASE n # 0
    <3>1. n - 1 \in Nat /\ (n - 1) + 1 = n
        BY <2>2
    <3>2. Q(n)[n - 1] = Q(n - 1)[n - 1]
        BY <3>1, <1>3
    <3>3. Q(n)[n] = Next1(Q(n)[n - 1], n)
        BY <2>2, <1>2
    <3>4. f[n] = Q(n)[n] /\ f[n - 1] = Q(n - 1)[n - 1]
        BY <3>1
    <3> QED BY <2>2, <3>2, <3>3, <3>4
  <2> QED BY <2>1, <2>2
<1>5. f = [n \in Nat |-> F(n, f)]
  <2> DEFINE g == [n \in Nat |-> F(n, f)]
  <2>1. \A n \in Nat : f[n] = g[n]
    <3> HIDE DEF f
    <3> QED BY <1>4
  <2>2. DOMAIN f = Nat /\ DOMAIN g = Nat
      OBVIOUS
  <2> QED BY <2>1, <2>2, Zenon
<1>6. joined = [n \in Nat |-> F(n, joined)]
  <2> HIDE DEF f
  <2> QED BY <1>5
<1>7. Joined(texts) = joined[Len(texts)]
    BY DEF Joined, Next1, AndThen
<1>8. /\ joined[0] = <<>>
      /\ joined[1] = texts[1]
      /\ \A n \in Nat \ {0} : joined[n + 1] = AndThen(joined[n], texts[n + 1])
  <2> HIDE DEF joined
  <2>1. \A n \in Nat : joined[n] = F(n, joined)
      BY <1>6
  <2>2. ASSUME NEW n \in Nat PROVE joined[n + 1] = Next1(joined[n], n + 1)
    <3>1. n + 1 \in Nat /\ n + 1 # 0 /\ (n + 1) - 1 = n
        OBVIOUS
    <3> QED BY <3>1, <2>1
  <2>3. joined[0] = <<>> /\ joined[0 + 1] = Next1(joined[0], 0 + 1)
      BY <2>1, <2>2
  <2>4. joined[1] = texts[1]
    <3>1. joined[1] = Next1(joined[0], 1)
        BY <2>3
    <3> QED BY <3>1 DEF Next1
  <2>5. ASSUME NEW n \in Nat \ {0}
        PROVE  joined[n + 1] = AndThen(joined[n], texts[n + 1])
    <3>1. n + 1 # 1
        OBVIOUS
    <3>2. joined[n + 1] = Next1(joined[n], n + 1)
        BY <2>2
    <3> HIDE DEF joined
    <3> QED BY <3>1, <3>2, Zenon DEF Next1
  <2> QED BY <2>3, <2>4, <2>5
<1> HIDE DEF joined
<1> QED BY <1>7, <1>8

(***************************************************************************)
(* Sequences, whatever their elements.                                     *)
(***************************************************************************)

IsSeq(s) == \E S : s \in Seq(S)

\* A sequence has a length and is a function of the numbers up to it.
LEMMA SeqLen ==
    ASSUME NEW s, IsSeq(s)
    PROVE  /\ Len(s) \in Nat /\ DOMAIN s = 1 .. Len(s)
           /\ Len(s) = 0 <=> s = <<>>
BY DEF IsSeq

\* The elements of a concatenation are those of its parts.
LEMMA SeqConcat ==
    ASSUME NEW a, NEW b, IsSeq(a), IsSeq(b)
    PROVE  /\ IsSeq(a \o b) /\ Len(a \o b) = Len(a) + Len(b)
           /\ \A i \in 1 .. Len(a) : (a \o b)[i] = a[i]
           /\ \A i \in 1 .. Len(b) : (a \o b)[Len(a) + i] = b[i]
<1>1. PICK S : a \in Seq(S)
    BY DEF IsSeq
<1>2. PICK T : b \in Seq(T)
    BY DEF IsSeq
<1>3. a \in Seq(S \cup T) /\ b \in Seq(S \cup T)
    BY <1>1, <1>2
<1>4. a \o b \in Seq(S \cup T)
    BY <1>3
<1>5. IsSeq(a \o b)
    BY <1>4, Zenon DEF IsSeq
<1> QED BY <1>3, <1>5

\* Tuples are sequences.
LEMMA SeqOne ==
    ASSUME NEW x
    PROVE  IsSeq(<<x>>)
<1>1. <<x>> \in Seq({x})
    OBVIOUS
<1> QED BY <1>1, Zenon DEF IsSeq

LEMMA SeqTwo ==
    ASSUME NEW x, NEW y
    PROVE  IsSeq(<<x, y>>)
<1>1. <<x, y>> \in Seq({x, y})
    OBVIOUS
<1> QED BY <1>1, Zenon DEF IsSeq

LEMMA SeqThree ==
    ASSUME NEW x, NEW y, NEW z
    PROVE  IsSeq(<<x, y, z>>)
<1>1. <<x, y, z>> \in Seq({x, y, z})
    OBVIOUS
<1> QED BY <1>1, Zenon DEF IsSeq

LEMMA SeqFive ==
    ASSUME NEW a, NEW b, NEW c, NEW d, NEW e
    PROVE  IsSeq(<<a, b, c, d, e>>)
<1>1. <<a, b, c, d, e>> \in Seq({a, b, c, d, e})
    OBVIOUS
<1> QED BY <1>1, Zenon DEF IsSeq

LEMMA SeqEmpty == IsSeq(<<>>)
<1>1. <<>> \in Seq({})
    OBVIOUS
<1> QED BY <1>1, Zenon DEF IsSeq

\* A function of the numbers up to n is a sequence.
LEMMA SeqFunction ==
    ASSUME NEW n \in Nat, NEW f, f = [i \in 1 .. n |-> f[i]]
    PROVE  IsSeq(f) /\ Len(f) = n
<1> DEFINE S == {f[i] : i \in 1 .. n}
<1>1. f \in [1 .. n -> S]
    OBVIOUS
<1>2. f \in Seq(S) /\ Len(f) = n
    BY <1>1
<1> QED BY <1>2, Zenon DEF IsSeq

\* Sequences with the same elements are the same.
LEMMA SequencesEqual ==
    ASSUME NEW a, NEW b, IsSeq(a), IsSeq(b), Len(a) = Len(b),
           \A i \in 1 .. Len(a) : a[i] = b[i]
    PROVE  a = b
<1>1. PICK S : a \in Seq(S)
    BY DEF IsSeq
<1>2. PICK T : b \in Seq(T)
    BY DEF IsSeq
<1>3. a = [i \in 1 .. Len(a) |-> a[i]]
    BY <1>1
<1>4. b = [i \in 1 .. Len(a) |-> b[i]]
    BY <1>2
<1>5. [i \in 1 .. Len(a) |-> a[i]] = [i \in 1 .. Len(a) |-> b[i]]
    OBVIOUS
<1> QED BY <1>3, <1>4, <1>5, Zenon

(***************************************************************************)
(* Pieces of texts.                                                        *)
(***************************************************************************)

\* The text holds the piece from the position on.
Holds(text, pos, piece) ==
    /\ pos \in Nat \ {0}
    /\ pos + Len(piece) <= Len(text) + 1
    /\ \A i \in 1 .. Len(piece) : text[pos + i - 1] = piece[i]

\* A text that holds a concatenation holds its parts.
LEMMA HoldsConcat ==
    ASSUME NEW text, IsSeq(text), NEW pos, NEW a, NEW b, IsSeq(a), IsSeq(b),
           Holds(text, pos, a \o b)
    PROVE  Holds(text, pos, a) /\ Holds(text, pos + Len(a), b)
<1>1. Len(a \o b) = Len(a) + Len(b) /\ Len(a) \in Nat /\ Len(b) \in Nat
    OBVIOUS
<1>2. \A i \in 1 .. Len(a) : (a \o b)[i] = a[i]
    OBVIOUS
<1>3. \A i \in 1 .. Len(b) : (a \o b)[Len(a) + i] = b[i]
    OBVIOUS
<1>4. Holds(text, pos, a)
    BY <1>1, <1>2 DEF Holds
<1>5. ASSUME NEW i \in 1 .. Len(b) PROVE text[(pos + Len(a)) + i - 1] = b[i]
  <2>1. Len(a) + i \in 1 .. Len(a \o b)
      BY <1>1
  <2>2. text[pos + (Len(a) + i) - 1] = (a \o b)[Len(a) + i]
      BY <2>1 DEF Holds
  <2>3. pos + (Len(a) + i) - 1 = (pos + Len(a)) + i - 1
      BY <1>1 DEF Holds
  <2> QED BY <1>3, <2>2, <2>3
<1> QED BY <1>1, <1>4, <1>5 DEF Holds

\* The token that a text holds is the one that is found.
LEMMA HoldsToken ==
    ASSUME NEW text, IsSeq(text), NEW pos, NEW x, Holds(text, pos, <<x>>)
    PROVE  /\ pos \in Nat \ {0} /\ pos <= Len(text)
           /\ text[pos] = x
           /\ findNextToken(text, pos) = x
<1>1. Len(<<x>>) = 1 /\ <<x>>[1] = x /\ Len(text) \in Nat
    OBVIOUS
<1>2. pos \in Nat \ {0} /\ pos + 1 <= Len(text) + 1 /\ text[pos + 1 - 1] = x
    BY <1>1 DEF Holds
<1>3. pos + 1 - 1 = pos /\ pos <= Len(text) /\ ~(pos > Len(text))
    BY <1>1, <1>2
<1>4. findNextToken(text, pos) = text[pos]
    BY <1>3, Zenon DEF findNextToken
<1> QED BY <1>2, <1>3, <1>4

\* The same of two tokens, and of three.
LEMMA HoldsTokens2 ==
    ASSUME NEW text, IsSeq(text), NEW pos, NEW x, NEW y, Holds(text, pos, <<x, y>>)
    PROVE  /\ pos \in Nat \ {0} /\ pos + 1 <= Len(text)
           /\ text[pos] = x /\ text[pos + 1] = y
<1>1. Len(<<x, y>>) = 2 /\ <<x, y>>[1] = x /\ <<x, y>>[2] = y /\ Len(text) \in Nat
    OBVIOUS
<1>2. /\ pos \in Nat \ {0} /\ pos + 2 <= Len(text) + 1
      /\ text[pos + 1 - 1] = x /\ text[pos + 2 - 1] = y
    BY <1>1 DEF Holds
<1>3. pos + 1 - 1 = pos /\ pos + 2 - 1 = pos + 1 /\ pos + 1 <= Len(text)
    BY <1>1, <1>2
<1> QED BY <1>2, <1>3

LEMMA HoldsTokens3 ==
    ASSUME NEW text, IsSeq(text), NEW pos, NEW x, NEW y, NEW z,
           Holds(text, pos, <<x, y, z>>)
    PROVE  /\ pos \in Nat \ {0} /\ pos + 2 <= Len(text)
           /\ text[pos] = x /\ text[pos + 1] = y /\ text[pos + 2] = z
<1> DEFINE xyz == <<x, y, z>>
<1>1. Len(xyz) = 3 /\ xyz[1] = x /\ xyz[2] = y /\ xyz[3] = z /\ Len(text) \in Nat
    OBVIOUS
<1> HIDE DEF xyz
<1>2. /\ pos \in Nat \ {0} /\ pos + 3 <= Len(text) + 1
      /\ text[pos + 1 - 1] = x /\ text[pos + 2 - 1] = y /\ text[pos + 3 - 1] = z
    BY <1>1, Holds(text, pos, xyz) DEF Holds
<1>3. /\ pos + 1 - 1 = pos /\ pos + 2 - 1 = pos + 1 /\ pos + 3 - 1 = pos + 2
      /\ pos + 2 <= Len(text)
    BY <1>1, <1>2
<1> QED BY <1>2, <1>3

\* The first such token is found.
LEMMA PositionFound ==
    ASSUME NEW text, IsSeq(text), NEW token, NEW pos \in Nat \ {0}, NEW q \in pos .. Len(text),
           text[q] = token, \A r \in pos .. q - 1 : text[r] # token
    PROVE  PositionOf(token, text, pos) = q
<1> DEFINE found == {p \in pos .. Len(text) : text[p] = token}
<1>1. q \in found /\ \A r \in found : q <= r
    OBVIOUS
<1>2. \A p \in found : (\A r \in found : p <= r) => p = q
    BY <1>1
<1> HIDE DEF found
<1>3. (CHOOSE p \in found : \A r \in found : p <= r) = q
    BY <1>1, <1>2
<1> QED BY <1>1, <1>3 DEF PositionOf, found

\* A string that may be put in quotes.
Plain(s) == s # Quote /\ DecodeStringFromJSON(s) = s

\* A string in quotes is two or three tokens.
LEMMA QuotedType ==
    ASSUME NEW s
    PROVE  /\ IsSeq(Quoted(s))
           /\ Len(Quoted(s)) \in {2, 3}
           /\ Quoted(s)[1] = Quote
           /\ Quoted(s) # <<>>
<1>1. CASE s = ""
  <2>1. Quoted(s) = <<Quote, Quote>>
      BY <1>1 DEF Quoted
  <2>2. Len(Quoted(s)) = 2 /\ Quoted(s)[1] = Quote /\ Quoted(s) # <<>>
      BY <2>1
  <2>3. Len(Quoted(s)) \in {2, 3}
      BY <2>2
  <2> QED BY <1>1, <2>1, <2>2, <2>3, SeqTwo, Zenon
<1>2. CASE s # ""
  <2>1. Quoted(s) = <<Quote, s, Quote>>
      BY <1>2 DEF Quoted
  <2>2. Len(Quoted(s)) = 3 /\ Quoted(s)[1] = Quote /\ Quoted(s) # <<>>
      BY <2>1
  <2>3. Len(Quoted(s)) \in {2, 3}
      BY <2>2
  <2> QED BY <1>2, <2>1, <2>2, <2>3, SeqThree, Zenon
<1> QED BY <1>1, <1>2

\* The string between two quotes.
LEMMA QuotedAt ==
    ASSUME NEW text, IsSeq(text), NEW pos, NEW s, s # Quote,
           Holds(text, pos, Quoted(s))
    PROVE  LET close == pos + Len(Quoted(s)) - 1
           IN /\ pos \in Nat \ {0} /\ close \in Nat /\ close <= Len(text)
              /\ findNextToken(text, pos) = Quote
              /\ PositionOf(Quote, text, pos) = pos
              /\ PositionOf(Quote, text, pos + 1) = close
              /\ Between(text, pos, close) = s
<1> DEFINE close == pos + Len(Quoted(s)) - 1
<1>1. CASE s = ""
  <2>1. /\ pos \in Nat \ {0} /\ close = pos + 1 /\ close <= Len(text)
        /\ text[pos] = Quote /\ text[pos + 1] = Quote
    <3>1. Quoted(s) = <<Quote, Quote>>
        BY <1>1 DEF Quoted
    <3> QED BY <3>1, HoldsTokens2
  <2>2. PositionOf(Quote, text, pos) = pos
      BY <2>1, PositionFound
  <2>3. PositionOf(Quote, text, pos + 1) = pos + 1
      BY <2>1, PositionFound
  <2>4. ~(pos > Len(text)) /\ close \in Nat
      BY <2>1
  <2>5. findNextToken(text, pos) = Quote
      BY <2>1, <2>4, Zenon DEF findNextToken
  <2>6. Between(text, pos, close) = s
      BY <1>1, <2>1, Zenon DEF Between
  <2> QED BY <2>1, <2>2, <2>3, <2>4, <2>5, <2>6
<1>2. CASE s # ""
  <2>1. /\ pos \in Nat \ {0} /\ close = pos + 2 /\ close <= Len(text)
        /\ text[pos] = Quote /\ text[pos + 1] = s /\ text[pos + 2] = Quote
    <3>1. Quoted(s) = <<Quote, s, Quote>>
        BY <1>2 DEF Quoted
    <3> QED BY <3>1, HoldsTokens3
  <2>2. PositionOf(Quote, text, pos) = pos
      BY <2>1, PositionFound
  <2>3. PositionOf(Quote, text, pos + 1) = pos + 2
    <3>1. pos + 2 \in (pos + 1) .. Len(text)
        BY <2>1
    <3>2. \A r \in (pos + 1) .. (pos + 2) - 1 : text[r] # Quote
        BY <2>1
    <3> QED BY <2>1, <3>1, <3>2, PositionFound
  <2>4. ~(pos > Len(text)) /\ close \in Nat /\ close # pos + 1
      BY <2>1
  <2>5. findNextToken(text, pos) = Quote
      BY <2>1, <2>4, Zenon DEF findNextToken
  <2>6. Between(text, pos, close) = s
      BY <2>1, <2>4, Zenon DEF Between
  <2> QED BY <2>1, <2>2, <2>3, <2>4, <2>5, <2>6
<1> QED BY <1>1, <1>2

\* A simple value is the first of its kinds that is found.
LEMMA FirstOfFour ==
    ASSUME NEW text, NEW pos, NEW i \in 1 .. 4, NEW tries,
           tries = <<parseJSON_number(text, pos), parseJSON_string_value(text, pos),
                     parseJSON_bool_value(text, pos), parseJSON_time_value(text, pos)>>,
           tries[i].value.type # Nothing.type,
           \A j \in 1 .. i - 1 : tries[j].value.type = Nothing.type
    PROVE  parseJSON_simple_value(text, pos) = tries[i]
<1> DEFINE hits == {j \in 1 .. 4 : tries[j].value.type # Nothing.type}
<1>1. i \in hits /\ \A j \in hits : i <= j
    OBVIOUS
<1>2. ASSUME NEW k \in hits, \A j \in hits : k <= j PROVE k = i
    BY <1>1, <1>2
<1> HIDE DEF hits
<1>3. (CHOOSE k \in hits : \A j \in hits : k <= j) = i
    BY <1>1, <1>2
<1>4. hits # {}
    BY <1>1
<1>5. parseJSON_simple_value(text, pos)
        = IF hits = {} THEN At(Failure, pos)
          ELSE tries[CHOOSE k \in hits : \A j \in hits : k <= j]
    BY DEF parseJSON_simple_value, hits
<1> QED BY <1>3, <1>4, <1>5, Zenon

\* A byte is read as the byte.
LEMMA NumberAt ==
    ASSUME NEW text, NEW pos, NEW b \in Bytes, findNextToken(text, pos) = ToString(b)
    PROVE  parseJSON_number(text, pos) = At(Value(Int_, b), pos + 1)
<1> DEFINE numbers == {c \in Bytes : ToString(c) = findNextToken(text, pos)}
<1>1. b \in numbers /\ \A c \in numbers : c = b
    BY NumeralsDiffer
<1>2. numbers # {} /\ (CHOOSE c \in numbers : TRUE) = b
  <2> HIDE DEF numbers
  <2> QED BY <1>1
<1> QED BY <1>2, Zenon DEF parseJSON_number

\* What is not the numeral of a byte is not read as a number.
LEMMA NoNumberAt ==
    ASSUME NEW text, NEW pos, \A b \in Bytes : ToString(b) # findNextToken(text, pos)
    PROVE  parseJSON_number(text, pos) = At(Nothing, pos)
<1>1. {b \in Bytes : ToString(b) = findNextToken(text, pos)} = {}
    OBVIOUS
<1> QED BY <1>1, Zenon DEF parseJSON_number

\* Every value that is found, or fails, differs from one that is not there.
LEMMA SimpleTypes ==
    ASSUME NEW x, NEW pos
    PROVE  /\ At(Nothing, pos).value.type = Nothing.type
           /\ At(Value(String, x), pos).value.type # Nothing.type
           /\ At(Value(Int_, x), pos).value.type # Nothing.type
           /\ At(Value(Bool, x), pos).value.type # Nothing.type
           /\ At(Value(Time, x), pos).value.type # Nothing.type
           /\ At(Failure, pos).value.type # Nothing.type
BY DEF At, Value, Nothing, Failure, String, Int_, Bool, Time

\* A byte is a simple value.
LEMMA SimpleNumber ==
    ASSUME NEW text, NEW pos, NEW b \in Bytes, findNextToken(text, pos) = ToString(b)
    PROVE  parseJSON_simple_value(text, pos) = At(Value(Int_, b), pos + 1)
<1> DEFINE tries == <<parseJSON_number(text, pos), parseJSON_string_value(text, pos),
                     parseJSON_bool_value(text, pos), parseJSON_time_value(text, pos)>>
<1>1. tries[1] = At(Value(Int_, b), pos + 1)
    BY NumberAt
<1>2. tries[1].value.type # Nothing.type
    BY <1>1, SimpleTypes
<1>3. \A j \in 1 .. 1 - 1 : tries[j].value.type = Nothing.type
    OBVIOUS
<1>4. parseJSON_simple_value(text, pos) = tries[1]
  <2>1. tries = <<parseJSON_number(text, pos), parseJSON_string_value(text, pos),
                  parseJSON_bool_value(text, pos), parseJSON_time_value(text, pos)>>
      OBVIOUS
  <2>2. 1 \in 1 .. 4
      OBVIOUS
  <2> HIDE DEF tries
  <2> QED BY <2>1, <2>2, <1>2, <1>3, FirstOfFour
<1> QED BY <1>1, <1>4

\* A string in quotes is a simple value.
LEMMA SimpleString ==
    ASSUME NEW text, IsSeq(text), NEW pos, NEW s, Plain(s), Holds(text, pos, Quoted(s))
    PROVE  parseJSON_simple_value(text, pos) = At(Value(String, s), pos + Len(Quoted(s)))
<1> DEFINE tries == <<parseJSON_number(text, pos), parseJSON_string_value(text, pos),
                     parseJSON_bool_value(text, pos), parseJSON_time_value(text, pos)>>
           close == pos + Len(Quoted(s)) - 1
<1>1. /\ pos \in Nat \ {0} /\ close \in Nat /\ findNextToken(text, pos) = Quote
      /\ PositionOf(Quote, text, pos + 1) = close
      /\ Between(text, pos, close) = s
    BY QuotedAt DEF Plain
<1>2. close # 0 /\ close + 1 = pos + Len(Quoted(s))
    BY <1>1, QuotedType
<1>3. parseJSON_string_value(text, pos) = At(Value(String, s), pos + Len(Quoted(s)))
  <2> HIDE DEF close
  <2> QED BY <1>1, <1>2, Zenon DEF parseJSON_string_value, Plain
<1>4. tries[1] = At(Nothing, pos)
    BY <1>1, NoNumberAt, NumeralsDiffer
<1>5. tries[2] = At(Value(String, s), pos + Len(Quoted(s)))
    BY <1>3
<1>6. tries[2].value.type # Nothing.type
    BY <1>5, SimpleTypes
<1>7. \A j \in 1 .. 2 - 1 : tries[j].value.type = Nothing.type
    BY <1>4, SimpleTypes
<1>8. parseJSON_simple_value(text, pos) = tries[2]
  <2>1. tries = <<parseJSON_number(text, pos), parseJSON_string_value(text, pos),
                  parseJSON_bool_value(text, pos), parseJSON_time_value(text, pos)>>
      OBVIOUS
  <2>2. 2 \in 1 .. 4
      OBVIOUS
  <2> HIDE DEF tries
  <2> QED BY <2>1, <2>2, <1>6, <1>7, FirstOfFour
<1> QED BY <1>5, <1>8

\* No string is found where there is no quote.
LEMMA NoStringAt ==
    ASSUME NEW text, NEW pos, findNextToken(text, pos) # Quote
    PROVE  parseJSON_string_value(text, pos) = At(Nothing, pos)
BY Zenon DEF parseJSON_string_value

\* true and false are simple values.
LEMMA SimpleBool ==
    ASSUME NEW text, NEW pos, NEW b \in BOOLEAN,
           findNextToken(text, pos) = IF b THEN "true" ELSE "false"
    PROVE  parseJSON_simple_value(text, pos) = At(Value(Bool, b), pos + 1)
<1> DEFINE tries == <<parseJSON_number(text, pos), parseJSON_string_value(text, pos),
                     parseJSON_bool_value(text, pos), parseJSON_time_value(text, pos)>>
           token == findNextToken(text, pos)
<1>1. \/ token = "true" /\ b = TRUE
      \/ token = "false" /\ b = FALSE
  <2>1. CASE b
    <3>1. b = TRUE
        BY <2>1
    <3>2. token = "true"
        BY <2>1, Zenon
    <3> QED BY <3>1, <3>2
  <2>2. CASE ~b
      BY <2>2
  <2> QED BY <2>1, <2>2
<1>2. token # Quote /\ \A c \in Bytes : ToString(c) # token
    BY <1>1, NumeralsDiffer DEF Quote
<1>3. parseJSON_bool_value(text, pos) = At(Value(Bool, b), pos + 1)
  <2>1. CASE token = "true" /\ b = TRUE
      BY <2>1, Zenon DEF parseJSON_bool_value
  <2>2. CASE token = "false" /\ b = FALSE
    <3>1. token # "true"
        BY <2>2
    <3> QED BY <2>2, <3>1, Zenon DEF parseJSON_bool_value
  <2> QED BY <1>1, <2>1, <2>2
<1>4. /\ tries[1] = At(Nothing, pos) /\ tries[2] = At(Nothing, pos)
      /\ tries[3] = At(Value(Bool, b), pos + 1)
    BY <1>2, <1>3, NoNumberAt, NoStringAt
<1>5. tries[3].value.type # Nothing.type
    BY <1>4, SimpleTypes
<1>6. \A j \in 1 .. 3 - 1 : tries[j].value.type = Nothing.type
    BY <1>4, SimpleTypes
<1>7. parseJSON_simple_value(text, pos) = tries[3]
  <2>1. tries = <<parseJSON_number(text, pos), parseJSON_string_value(text, pos),
                  parseJSON_bool_value(text, pos), parseJSON_time_value(text, pos)>>
      OBVIOUS
  <2>2. 3 \in 1 .. 4
      OBVIOUS
  <2> HIDE DEF tries
  <2> QED BY <2>1, <2>2, <1>5, <1>6, FirstOfFour
<1> QED BY <1>4, <1>7

\* After the word time, only a time is looked for.
LEMMA FourthOfFour ==
    ASSUME NEW text, NEW pos, findNextToken(text, pos) = "time",
           parseJSON_time_value(text, pos).value.type # Nothing.type
    PROVE  parseJSON_simple_value(text, pos) = parseJSON_time_value(text, pos)
<1> DEFINE tries == <<parseJSON_number(text, pos), parseJSON_string_value(text, pos),
                     parseJSON_bool_value(text, pos), parseJSON_time_value(text, pos)>>
           token == findNextToken(text, pos)
<1>1. /\ token # Quote /\ \A c \in Bytes : ToString(c) # token
      /\ token # "true" /\ token # "false"
    BY NumeralsDiffer DEF Quote
<1>2. parseJSON_bool_value(text, pos) = At(Nothing, pos)
    BY <1>1, Zenon DEF parseJSON_bool_value
<1>3. /\ tries[1] = At(Nothing, pos) /\ tries[2] = At(Nothing, pos)
      /\ tries[3] = At(Nothing, pos) /\ tries[4] = parseJSON_time_value(text, pos)
    BY <1>1, <1>2, NoNumberAt, NoStringAt
<1>4. \A j \in 1 .. 4 - 1 : tries[j].value.type = Nothing.type
    BY <1>3, SimpleTypes
<1>5. parseJSON_simple_value(text, pos) = tries[4]
  <2>1. tries = <<parseJSON_number(text, pos), parseJSON_string_value(text, pos),
                  parseJSON_bool_value(text, pos), parseJSON_time_value(text, pos)>>
      OBVIOUS
  <2>2. 4 \in 1 .. 4 /\ tries[4].value.type # Nothing.type
      BY <1>3
  <2> HIDE DEF tries
  <2> QED BY <2>1, <2>2, <1>4, FirstOfFour
<1> QED BY <1>3, <1>5

\* A time in quotes after the word time is a simple value.
LEMMA SimpleTime ==
    ASSUME NEW text, IsSeq(text), NEW pos, Holds(text, pos, <<"time">> \o Quoted(Date))
    PROVE  parseJSON_simple_value(text, pos)
               = At(Value(Time, Date), pos + 1 + Len(Quoted(Date)))
<1> DEFINE open == pos + 1
           close == open + Len(Quoted(Date)) - 1
<1>1. Holds(text, pos, <<"time">>) /\ Holds(text, open, Quoted(Date))
  <2>1. Len(<<"time">>) = 1
      OBVIOUS
  <2> QED BY <2>1, HoldsConcat, SeqOne, QuotedType
<1>2. pos \in Nat /\ findNextToken(text, pos) = "time"
    BY <1>1, HoldsToken
<1>3. /\ open \in Nat \ {0} /\ close \in Nat
      /\ PositionOf(Quote, text, open) = open
      /\ PositionOf(Quote, text, open + 1) = close
      /\ Between(text, open, close) = Date
    BY <1>1, QuotedAt, DateIsWord
<1>4. close # 0 /\ open # 0 /\ close + 1 = pos + 1 + Len(Quoted(Date))
    BY <1>2, <1>3, QuotedType
<1>5. parseJSON_time_value(text, pos) = At(Value(Time, Date), pos + 1 + Len(Quoted(Date)))
  <2> HIDE DEF close
  <2> QED BY <1>2, <1>3, <1>4, Zenon DEF parseJSON_time_value
<1> QED BY <1>2, <1>5, FourthOfFour, SimpleTypes

\* The time of an event is not read: nothing stands between the first two quotes.
LEMMA SimpleTimeTwiceQuoted ==
    ASSUME NEW text, IsSeq(text), NEW pos, Holds(text, pos, <<"time", Quote, Quote>>)
    PROVE  parseJSON_simple_value(text, pos) = At(Failure, pos)
<1>1. /\ pos \in Nat \ {0} /\ pos + 2 <= Len(text)
      /\ text[pos] = "time" /\ text[pos + 1] = Quote /\ text[pos + 2] = Quote
    BY HoldsTokens3
<1>2. ~(pos > Len(text)) /\ pos + 1 \in Nat \ {0} /\ pos + 2 = (pos + 1) + 1
    BY <1>1 DEF IsSeq
<1>3. findNextToken(text, pos) = "time"
    BY <1>1, <1>2, Zenon DEF findNextToken
<1>4. PositionOf(Quote, text, pos + 1) = pos + 1
    BY <1>1, <1>2, PositionFound
<1>5. PositionOf(Quote, text, pos + 2) = pos + 2
    BY <1>1, <1>2, PositionFound
<1>6. Between(text, pos + 1, pos + 2) # Date
    BY <1>2, DateIsWord, Zenon DEF Between
<1>7. parseJSON_time_value(text, pos) = At(Failure, pos)
    BY <1>2, <1>3, <1>4, <1>5, <1>6, Zenon DEF parseJSON_time_value
<1> QED BY <1>3, <1>7, FourthOfFour, SimpleTypes

(***************************************************************************)
(* Values.                                                                 *)
(***************************************************************************)

\* Wherever the piece stands in a text, and however deep the calls may nest
\* (deep enough for what is left of the text), the value is read, and the
\* position is behind the piece.
Reads(piece, value) ==
    \A text, pos, depth :
        IsSeq(text) /\ Holds(text, pos, piece) /\ depth \in Nat /\ depth + pos > Len(text)
            => Calls(text)[depth].value[pos] = At(value, pos + Len(piece))

\* What may stand in a list, and after the name of a field.
Readable(piece, value) ==
    /\ IsSeq(piece) /\ piece # <<>>
    /\ piece[1] # "]"
    /\ IsValid(value)
    /\ Reads(piece, value)

\* A text that holds a piece has its first token at that position.
LEMMA HoldsFirst ==
    ASSUME NEW text, IsSeq(text), NEW pos, NEW piece, IsSeq(piece), piece # <<>>,
           Holds(text, pos, piece)
    PROVE  /\ pos \in Nat \ {0} /\ pos <= Len(text) /\ Len(text) \in Nat
           /\ Len(piece) \in Nat \ {0}
           /\ findNextToken(text, pos) = piece[1]
<1>1. Len(piece) \in Nat \ {0} /\ Len(text) \in Nat
    BY SeqLen
<1>2. pos \in Nat \ {0} /\ pos <= Len(text) /\ text[pos + 1 - 1] = piece[1] /\ pos + 1 - 1 = pos
    BY <1>1 DEF Holds
<1>3. ~(pos > Len(text))
    BY <1>1, <1>2
<1> QED BY <1>1, <1>2, <1>3, Zenon DEF findNextToken

\* The calls at a depth are made with the calls of the depth below.
LEMMA ValueAt ==
    ASSUME NEW text, NEW depth \in Nat \ {0}, NEW pos \in Nat
    PROVE  /\ Calls(text)[depth].value[pos]
                = parseJSON_value(Calls(text)[depth - 1], text, pos)
           /\ Calls(text)[depth].comma_value[pos]
                = parseJSON_comma_value(Calls(text)[depth - 1], text, pos)
           /\ Calls(text)[depth].comma_field[pos]
                = parseJSON_comma_field(Calls(text)[depth - 1], text, pos)
<1>1. depth - 1 \in Nat /\ (depth - 1) + 1 = depth
    OBVIOUS
<1>2. Calls(text)[depth] = OneDeeper(Calls(text)[depth - 1], text)
    BY <1>1, CallsEquation
<1> QED BY <1>2 DEF OneDeeper

\* A value that is not a list, where the parser finds it.
LEMMA ReadsSimple ==
    ASSUME NEW piece, IsSeq(piece), piece # <<>>, piece[1] # "[", piece[1] # "", NEW value,
           \A text, pos :
               IsSeq(text) /\ Holds(text, pos, piece)
                   => parseJSON_simple_value(text, pos) = At(value, pos + Len(piece))
    PROVE  Reads(piece, value)
<1> SUFFICES ASSUME NEW text, NEW pos, NEW depth, IsSeq(text), Holds(text, pos, piece),
                    depth \in Nat, depth + pos > Len(text)
             PROVE  Calls(text)[depth].value[pos] = At(value, pos + Len(piece))
    BY DEF Reads
<1>1. /\ pos \in Nat \ {0} /\ pos <= Len(text) /\ Len(text) \in Nat
      /\ findNextToken(text, pos) = piece[1]
    BY HoldsFirst
<1>2. depth \in Nat \ {0}
  <2>1. depth \in Nat /\ depth + pos > Len(text)
      OBVIOUS
  <2> QED BY ONLY <1>1, <2>1
<1>3. Calls(text)[depth].value[pos] = parseJSON_value(Calls(text)[depth - 1], text, pos)
    BY <1>1, <1>2, ValueAt
<1>4. @ = parseJSON_simple_value(text, pos)
    BY <1>1, Zenon DEF parseJSON_value
<1> QED BY <1>3, <1>4

\* Strings, booleans, bytes and times can be read.
LEMMA ReadableString ==
    ASSUME NEW s, Plain(s)
    PROVE  Readable(Quoted(s), Value(String, s))
<1>1. /\ IsSeq(Quoted(s)) /\ Quoted(s) # <<>> /\ Quoted(s)[1] = Quote
      /\ Quote \notin {"[", "", "]"}
    BY QuotedType DEF Quote
<1>2. \A text, pos : IsSeq(text) /\ Holds(text, pos, Quoted(s))
          => parseJSON_simple_value(text, pos) = At(Value(String, s), pos + Len(Quoted(s)))
    BY SimpleString
<1>3. Reads(Quoted(s), Value(String, s))
    BY <1>1, <1>2, ReadsSimple
<1>4. IsValid(Value(String, s))
    BY DEF IsValid, Value, String, Nothing, Failure
<1> QED BY <1>1, <1>3, <1>4 DEF Readable

LEMMA ReadableBool ==
    ASSUME NEW b \in BOOLEAN
    PROVE  Readable(BoolToString(b), Value(Bool, b))
<1> DEFINE token == IF b THEN "true" ELSE "false"
<1>1. BoolToString(b) = <<token>> /\ token \notin {"[", "", "]"}
    BY DEF BoolToString
<1> HIDE DEF token
<1>2. /\ IsSeq(<<token>>) /\ <<token>> # <<>> /\ <<token>>[1] = token
      /\ Len(<<token>>) = 1
    BY SeqOne
<1>3. ASSUME NEW text, NEW pos, IsSeq(text), Holds(text, pos, <<token>>)
      PROVE  parseJSON_simple_value(text, pos) = At(Value(Bool, b), pos + Len(<<token>>))
  <2>1. findNextToken(text, pos) = token
      BY <1>3, HoldsToken
  <2> QED BY <1>2, <2>1, SimpleBool DEF token
<1>4. Reads(<<token>>, Value(Bool, b))
    BY <1>1, <1>2, <1>3, ReadsSimple
<1>5. IsValid(Value(Bool, b))
    BY DEF IsValid, Value, Bool, Nothing, Failure
<1> QED BY <1>1, <1>2, <1>4, <1>5 DEF Readable

LEMMA ReadableByte ==
    ASSUME NEW b \in Bytes
    PROVE  Readable(<<ToString(b)>>, Value(Int_, b))
<1> DEFINE token == ToString(b)
<1>1. token \notin {"[", "", "]"}
    BY NumeralsDiffer
<1> HIDE DEF token
<1>2. /\ IsSeq(<<token>>) /\ <<token>> # <<>> /\ <<token>>[1] = token
      /\ Len(<<token>>) = 1
    BY SeqOne
<1>3. ASSUME NEW text, NEW pos, IsSeq(text), Holds(text, pos, <<token>>)
      PROVE  parseJSON_simple_value(text, pos) = At(Value(Int_, b), pos + Len(<<token>>))
  <2>1. findNextToken(text, pos) = token
      BY <1>3, HoldsToken
  <2> QED BY <1>2, <2>1, SimpleNumber DEF token
<1>4. Reads(<<token>>, Value(Int_, b))
    BY <1>1, <1>2, <1>3, ReadsSimple
<1>5. IsValid(Value(Int_, b))
    BY DEF IsValid, Value, Int_, Nothing, Failure
<1> QED BY <1>1, <1>2, <1>4, <1>5 DEF Readable, token

LEMMA ReadableTime ==
    Readable(<<"time">> \o FormatTimeAsJavascriptDate(Date), Value(Time, Date))
<1> DEFINE piece == <<"time">> \o Quoted(Date)
<1>1. /\ IsSeq(<<"time">>) /\ Len(<<"time">>) = 1 /\ <<"time">>[1] = "time"
      /\ IsSeq(Quoted(Date))
    BY SeqOne, QuotedType
<1>2. /\ IsSeq(piece) /\ Len(piece) = 1 + Len(Quoted(Date)) /\ piece[1] = "time"
    BY <1>1, SeqConcat
<1>3. piece # <<>> /\ piece[1] \notin {"[", "", "]"}
    BY <1>1, <1>2, SeqLen
<1>4. ASSUME NEW text, NEW pos, IsSeq(text), Holds(text, pos, piece)
      PROVE  parseJSON_simple_value(text, pos) = At(Value(Time, Date), pos + Len(piece))
  <2>1. parseJSON_simple_value(text, pos) = At(Value(Time, Date), pos + 1 + Len(Quoted(Date)))
      BY <1>4, SimpleTime
  <2>2. pos + 1 + Len(Quoted(Date)) = pos + Len(piece)
      BY <1>1, <1>2, <1>4, SeqLen DEF Holds
  <2> QED BY <2>1, <2>2
<1> HIDE DEF piece
<1>5. Reads(piece, Value(Time, Date))
    BY <1>2, <1>3, <1>4, ReadsSimple
<1>6. IsValid(Value(Time, Date))
    BY DEF IsValid, Value, Time, Nothing, Failure
<1> QED BY <1>2, <1>3, <1>5, <1>6 DEF Readable, piece, FormatTimeAsJavascriptDate

(***************************************************************************)
(* Lists, and where their elements stand in a text.                        *)
(***************************************************************************)

\* Texts.
IsSeqOfSeqs(texts) == IsSeq(texts) /\ \A i \in 1 .. Len(texts) : IsSeq(texts[i])

\* The positions of the texts that a text holds with commas between them.
Layout(text, texts, at) ==
    /\ \A i \in 1 .. Len(texts) : at[i] \in Nat \ {0} /\ Holds(text, at[i], texts[i])
    /\ \A i \in 1 .. Len(texts) - 1 :
           /\ at[i + 1] = at[i] + Len(texts[i]) + 1
           /\ Holds(text, at[i] + Len(texts[i]), <<",">>)

\* Two texts with a comma between them are a text.
LEMMA AndThenType ==
    ASSUME NEW a, NEW b, IsSeq(a), IsSeq(b)
    PROVE  IsSeq(AndThen(a, b)) /\ Len(AndThen(a, b)) = Len(a) + 1 + Len(b)
<1> DEFINE comma == <<",">>
<1>1. IsSeq(comma) /\ Len(comma) = 1
    BY SeqOne
<1> HIDE DEF comma
<1>2. IsSeq(a \o comma) /\ Len(a \o comma) = Len(a) + Len(comma)
    BY <1>1, SeqConcat, Zenon
<1>3. IsSeq((a \o comma) \o b) /\ Len((a \o comma) \o b) = Len(a) + 1 + Len(b)
    BY <1>1, <1>2, SeqConcat
<1>4. AndThen(a, b) = (a \o comma) \o b
    BY DEF AndThen, comma
<1> QED BY <1>3, <1>4

\* Both are held, and the comma between them.
LEMMA AndThenHolds ==
    ASSUME NEW text, IsSeq(text), NEW pos, NEW a, NEW b, IsSeq(a), IsSeq(b),
           Holds(text, pos, AndThen(a, b))
    PROVE  /\ Holds(text, pos, a)
           /\ Holds(text, pos + Len(a), <<",">>)
           /\ Holds(text, pos + Len(a) + 1, b)
<1> DEFINE comma == <<",">>
<1>1. IsSeq(comma) /\ Len(comma) = 1
    BY SeqOne
<1>2. Holds(text, pos, (a \o comma) \o b)
    BY DEF AndThen
<1>3. pos \in Nat
    BY DEF Holds
<1> HIDE DEF comma
<1>4. IsSeq(a \o comma) /\ Len(a \o comma) = Len(a) + Len(comma)
    BY <1>1, SeqConcat, Zenon
<1>5. Holds(text, pos, a \o comma) /\ Holds(text, pos + Len(a \o comma), b)
    BY <1>2, <1>4, HoldsConcat
<1>6. Holds(text, pos, a) /\ Holds(text, pos + Len(a), comma)
    BY <1>1, <1>5, HoldsConcat
<1>7. pos + Len(a \o comma) = pos + Len(a) + 1
    BY <1>1, <1>3, <1>4, SeqLen
<1> QED BY <1>5, <1>6, <1>7 DEF comma

\* The texts are joined one after the other, and each part is a text.
LEMMA JoinedParts ==
    ASSUME NEW texts, IsSeqOfSeqs(texts), texts # <<>>
    PROVE  \E f : /\ Joined(texts) = f[Len(texts)]
                  /\ f[1] = texts[1]
                  /\ \A i \in 1 .. Len(texts) : IsSeq(f[i])
                  /\ \A i \in 1 .. Len(texts) - 1 :
                         /\ f[i + 1] = AndThen(f[i], texts[i + 1])
                         /\ Len(f[i + 1]) = Len(f[i]) + 1 + Len(texts[i + 1])
<1>0. PICK n : n = Len(texts)
    OBVIOUS
<1>1. n \in Nat \ {0}
    BY <1>0, SeqLen DEF IsSeqOfSeqs
<1>2. PICK f : /\ Joined(texts) = f[Len(texts)]
               /\ f[1] = texts[1]
               /\ \A i \in Nat \ {0} : f[i + 1] = AndThen(f[i], texts[i + 1])
    BY <1>0, <1>1, JoinedEquation
<1> DEFINE R == {i \in Nat : i + 1 <= n => IsSeq(f[i + 1])}
<1>3. 0 \in R
    BY <1>1, <1>2 DEF IsSeqOfSeqs
<1>4. ASSUME NEW i \in R PROVE i + 1 \in R
  <2> SUFFICES ASSUME (i + 1) + 1 <= n PROVE IsSeq(f[(i + 1) + 1])
      OBVIOUS
  <2>1. IsSeq(f[i + 1]) /\ i + 1 \in Nat \ {0} /\ (i + 1) + 1 \in 1 .. n
      BY <1>1
  <2>2. IsSeq(texts[(i + 1) + 1])
      BY <1>0, <2>1 DEF IsSeqOfSeqs
  <2>3. f[(i + 1) + 1] = AndThen(f[i + 1], texts[(i + 1) + 1])
      BY <1>2, <2>1
  <2> QED BY <2>1, <2>2, <2>3, AndThenType
<1>5. R = Nat
    BY <1>3, <1>4, Induction
<1>6. ASSUME NEW i \in 1 .. n PROVE IsSeq(f[i])
  <2>1. i - 1 \in Nat /\ (i - 1) + 1 = i /\ i <= n
      BY <1>1
  <2>2. i - 1 \in R
      BY <1>5, <2>1, Zenon
  <2> QED BY <2>1, <2>2
<1>7. ASSUME NEW i \in 1 .. n - 1 PROVE Len(f[i + 1]) = Len(f[i]) + 1 + Len(texts[i + 1])
  <2>1. i \in 1 .. n /\ i \in Nat \ {0} /\ i + 1 \in 1 .. n
      BY <1>1
  <2>2. IsSeq(f[i]) /\ IsSeq(texts[i + 1])
      BY <1>0, <2>1, <1>6 DEF IsSeqOfSeqs
  <2>3. f[i + 1] = AndThen(f[i], texts[i + 1])
      BY <1>2, <2>1
  <2> QED BY <2>2, <2>3, AndThenType
<1>8. ASSUME NEW i \in 1 .. n - 1 PROVE f[i + 1] = AndThen(f[i], texts[i + 1])
    BY <1>1, <1>2
<1> QED BY <1>0, <1>2, <1>6, <1>7, <1>8

\* Texts with commas between them are a text.
LEMMA JoinedType ==
    ASSUME NEW texts, IsSeqOfSeqs(texts)
    PROVE  IsSeq(Joined(texts))
<1>1. CASE texts = <<>>
  <2>1. Len(texts) = 0
      BY <1>1
  <2> QED BY <2>1, JoinedEquation, SeqEmpty
<1>2. CASE texts # <<>>
  <2>1. Len(texts) \in 1 .. Len(texts)
      BY <1>2, SeqLen DEF IsSeqOfSeqs
  <2> QED BY <1>2, <2>1, JoinedParts
<1> QED BY <1>1, <1>2

\* Where each of the texts stands, when a text holds them all.
LEMMA JoinedLayout ==
    ASSUME NEW texts, IsSeqOfSeqs(texts), texts # <<>>, NEW text, IsSeq(text), NEW pos,
           Holds(text, pos, Joined(texts))
    PROVE  \E at : /\ Layout(text, texts, at)
                   /\ at[1] = pos
                   /\ at[Len(texts)] + Len(texts[Len(texts)]) = pos + Len(Joined(texts))
<1>0. PICK n : n = Len(texts)
    OBVIOUS
<1>1. n \in Nat \ {0} /\ pos \in Nat \ {0}
    BY <1>0, SeqLen DEF IsSeqOfSeqs, Holds
<1>2. PICK f : /\ Joined(texts) = f[n]
               /\ f[1] = texts[1]
               /\ \A i \in 1 .. n : IsSeq(f[i])
               /\ \A i \in 1 .. n - 1 :
                      /\ f[i + 1] = AndThen(f[i], texts[i + 1])
                      /\ Len(f[i + 1]) = Len(f[i]) + 1 + Len(texts[i + 1])
    BY <1>0, JoinedParts
<1>3. ASSUME NEW i \in 1 .. n PROVE Len(f[i]) \in Nat /\ Len(texts[i]) \in Nat
    BY <1>0, <1>2, SeqLen DEF IsSeqOfSeqs
<1>4. ASSUME NEW i \in 1 .. n - 1, Holds(text, pos, f[i + 1])
      PROVE  /\ Holds(text, pos, f[i])
             /\ Holds(text, pos + Len(f[i]), <<",">>)
             /\ Holds(text, pos + Len(f[i]) + 1, texts[i + 1])
  <2>1. i \in 1 .. n /\ i + 1 \in 1 .. n
      BY <1>1
  <2>2. IsSeq(f[i]) /\ IsSeq(texts[i + 1])
      BY <1>0, <1>2, <2>1 DEF IsSeqOfSeqs
  <2>3. Holds(text, pos, AndThen(f[i], texts[i + 1]))
      BY <1>2, <1>4
  <2> QED BY <2>2, <2>3, AndThenHolds
<1> DEFINE R == {k \in Nat : k < n => Holds(text, pos, f[n - k])}
<1>5. R = Nat
  <2>1. 0 \in R
      BY <1>1, <1>2
  <2>2. ASSUME NEW k \in R PROVE k + 1 \in R
    <3> SUFFICES ASSUME k + 1 < n PROVE Holds(text, pos, f[n - (k + 1)])
        OBVIOUS
    <3>1. n - (k + 1) \in 1 .. n - 1 /\ (n - (k + 1)) + 1 = n - k
        BY <1>1
    <3>2. Holds(text, pos, f[n - k])
        BY <1>1
    <3> QED BY <1>4, <3>1, <3>2
  <2> QED BY <2>1, <2>2, Induction
<1>6. ASSUME NEW i \in 1 .. n PROVE Holds(text, pos, f[i])
  <2>1. n - i \in Nat /\ n - i < n /\ n - (n - i) = i
      BY <1>1
  <2>2. n - i \in R
      BY <1>5, <2>1, Zenon
  <2> QED BY <2>1, <2>2
<1> DEFINE at == [i \in 1 .. n |-> (pos + Len(f[i])) - Len(texts[i])]
<1>7. at[1] = pos /\ Holds(text, at[1], texts[1])
  <2>1. 1 \in 1 .. n
      BY <1>1
  <2>2. at[1] = (pos + Len(f[1])) - Len(f[1])
      BY <1>2, <2>1
  <2>3. at[1] = pos
      BY <1>1, <1>3, <2>1, <2>2
  <2> QED BY <1>2, <1>6, <2>1, <2>3
<1>8. ASSUME NEW i \in 1 .. n - 1
      PROVE  /\ at[i + 1] = at[i] + Len(texts[i]) + 1
             /\ at[i] + Len(texts[i]) = pos + Len(f[i])
             /\ at[i + 1] = pos + Len(f[i]) + 1
  <2>1. i \in 1 .. n /\ i + 1 \in 1 .. n
      BY <1>1
  <2>2. /\ Len(f[i]) \in Nat /\ Len(texts[i]) \in Nat /\ Len(texts[i + 1]) \in Nat
        /\ Len(f[i + 1]) = Len(f[i]) + 1 + Len(texts[i + 1])
      BY <1>2, <1>3, <2>1
  <2>3. /\ at[i] = (pos + Len(f[i])) - Len(texts[i])
        /\ at[i + 1] = (pos + Len(f[i + 1])) - Len(texts[i + 1])
      BY <2>1
  <2> HIDE DEF at
  <2>4. PICK here, next : here = at[i] /\ next = at[i + 1]
      OBVIOUS
  <2>5. PICK k \in Nat, l \in Nat, m \in Nat :
            k = Len(f[i]) /\ l = Len(texts[i]) /\ m = Len(texts[i + 1])
      BY <2>2
  <2>6. Len(f[i + 1]) = k + 1 + m
      BY <2>2, <2>5
  <2>7. here = (pos + k) - l
      BY <2>3, <2>4, <2>5, Zenon
  <2>8. next = (pos + (k + 1 + m)) - m
      BY <2>3, <2>4, <2>5, <2>6, Zenon
  <2>9. next = here + l + 1 /\ here + l = pos + k /\ next = pos + k + 1
      BY ONLY <1>1, k \in Nat, l \in Nat, m \in Nat, <2>7, <2>8
  <2> QED BY <2>4, <2>5, <2>9, Zenon
<1>9. ASSUME NEW i \in 1 .. n - 1
      PROVE  /\ Holds(text, at[i] + Len(texts[i]), <<",">>)
             /\ Holds(text, at[i + 1], texts[i + 1])
  <2>1. i + 1 \in 1 .. n
      BY <1>1
  <2>2. Holds(text, pos, f[i + 1])
      BY <1>6, <2>1
  <2> QED BY <1>4, <1>8, <2>2
<1>10. ASSUME NEW i \in 1 .. n PROVE at[i] \in Nat \ {0} /\ Holds(text, at[i], texts[i])
  <2>1. CASE i = 1
      BY <1>1, <1>7, <2>1
  <2>2. CASE i # 1
    <3>1. i - 1 \in 1 .. n - 1 /\ (i - 1) + 1 = i
        BY <1>1, <2>2
    <3>2. Holds(text, at[i], texts[i])
        BY <1>9, <3>1
    <3> QED BY <3>2 DEF Holds
  <2> QED BY <2>1, <2>2
<1>11. at[n] + Len(texts[n]) = pos + Len(Joined(texts))
  <2>1. n \in 1 .. n
      BY <1>1
  <2>2. at[n] = (pos + Len(f[n])) - Len(texts[n])
      BY <2>1
  <2> QED BY <1>1, <1>2, <1>3, <2>1, <2>2
<1> HIDE DEF at
<1> QED BY <1>0, <1>7, <1>8, <1>9, <1>10, <1>11 DEF Layout

\* The elements of a list that are left behind the first ones.
Behind(list, k) == [i \in 1 .. Len(list) - k |-> list[k + i]]

\* Nothing is left behind the last element.
LEMMA BehindAll ==
    ASSUME NEW list, IsSeq(list)
    PROVE  Behind(list, Len(list)) = <<>>
<1>1. PICK n \in Nat : n = Len(list)
    BY SeqLen
<1>2. Behind(list, n) = [i \in 1 .. 0 |-> list[n + i]]
    BY <1>1 DEF Behind
<1> DEFINE f == [i \in 1 .. 0 |-> list[n + i]]
<1>3. f = [i \in 1 .. 0 |-> f[i]]
    OBVIOUS
<1> HIDE DEF f
<1>4. IsSeq(f) /\ Len(f) = 0
    BY <1>3, SeqFunction
<1>5. f = <<>>
    BY <1>4, SeqLen
<1> QED BY <1>1, <1>2, <1>5 DEF f

\* What is left behind an element is the next one and what is left behind that.
LEMMA BehindNext ==
    ASSUME NEW list, IsSeq(list), NEW k \in Nat, k < Len(list)
    PROVE  <<list[k + 1]>> \o Behind(list, k + 1) = Behind(list, k)
<1>1. PICK n \in Nat : n = Len(list)
    BY SeqLen
<1> DEFINE one  == <<list[k + 1]>>
           rest == Behind(list, k + 1)
           all  == Behind(list, k)
<1>2. IsSeq(one) /\ Len(one) = 1 /\ one[1] = list[k + 1]
    BY SeqOne
<1>3. /\ IsSeq(rest) /\ Len(rest) = n - (k + 1)
      /\ \A i \in 1 .. n - (k + 1) : rest[i] = list[(k + 1) + i]
  <2>1. n - (k + 1) \in Nat
      BY <1>1
  <2>2. rest = [i \in 1 .. n - (k + 1) |-> list[(k + 1) + i]]
      BY <1>1 DEF Behind
  <2>3. \A i \in 1 .. n - (k + 1) : rest[i] = list[(k + 1) + i]
      BY <2>2
  <2>4. rest = [i \in 1 .. n - (k + 1) |-> rest[i]]
      BY <2>2
  <2> HIDE DEF rest
  <2> QED BY <2>1, <2>3, <2>4, SeqFunction
<1>4. /\ IsSeq(all) /\ Len(all) = n - k
      /\ \A i \in 1 .. n - k : all[i] = list[k + i]
  <2>1. n - k \in Nat
      BY <1>1
  <2>2. all = [i \in 1 .. n - k |-> list[k + i]]
      BY <1>1 DEF Behind
  <2>3. \A i \in 1 .. n - k : all[i] = list[k + i]
      BY <2>2
  <2>4. all = [i \in 1 .. n - k |-> all[i]]
      BY <2>2
  <2> HIDE DEF all
  <2> QED BY <2>1, <2>3, <2>4, SeqFunction
<1> HIDE DEF one, rest, all
<1>5. IsSeq(one) /\ IsSeq(rest)
    BY <1>2, <1>3
<1>6. /\ IsSeq(one \o rest) /\ Len(one \o rest) = Len(one) + Len(rest)
      /\ \A i \in 1 .. Len(one) : (one \o rest)[i] = one[i]
      /\ \A i \in 1 .. Len(rest) : (one \o rest)[Len(one) + i] = rest[i]
    BY ONLY <1>5, SeqConcat
<1>7. Len(one \o rest) = Len(all)
    BY <1>1, <1>2, <1>3, <1>4, <1>6
<1>8. ASSUME NEW i \in 1 .. Len(one \o rest) PROVE (one \o rest)[i] = all[i]
  <2>1. i \in 1 .. n - k
      BY <1>4, <1>7
  <2>2. CASE i = 1
    <3>1. (one \o rest)[1] = one[1]
        BY <1>2, <1>6
    <3> QED BY <1>2, <1>4, <2>1, <2>2, <3>1
  <2>3. CASE i # 1
    <3>1. i - 1 \in 1 .. n - (k + 1) /\ Len(one) + (i - 1) = i /\ (k + 1) + (i - 1) = k + i
        BY <1>1, <1>2, <2>1, <2>3
    <3>2. (one \o rest)[Len(one) + (i - 1)] = rest[i - 1]
        BY <1>3, <1>6, <3>1
    <3> QED BY <1>3, <1>4, <2>1, <3>1, <3>2
  <2> QED BY <2>2, <2>3
<1>9. one \o rest = all
    BY <1>4, <1>6, <1>7, <1>8, SequencesEqual
<1> QED BY <1>9 DEF one, rest, all

\* Before the first element, all are left.
LEMMA BehindNone ==
    ASSUME NEW list, IsSeq(list)
    PROVE  Behind(list, 0) = list
<1>1. PICK n \in Nat : n = Len(list)
    BY SeqLen
<1> DEFINE all == Behind(list, 0)
<1>2. \A i \in 1 .. n : all[i] = list[i]
    BY <1>1 DEF Behind
<1>3. all = [i \in 1 .. n |-> all[i]]
    BY <1>1 DEF Behind
<1> HIDE DEF all
<1>4. IsSeq(all) /\ Len(all) = n
    BY <1>3, SeqFunction
<1>5. all = list
    BY <1>1, <1>2, <1>4, SequencesEqual
<1> QED BY <1>5 DEF all

\* The fields of records.
LEMMA AtFields ==
    ASSUME NEW value, NEW pos
    PROVE  At(value, pos).value = value /\ At(value, pos).pos = pos
BY DEF At

LEMMA ValueFields ==
    ASSUME NEW type_, NEW content
    PROVE  Value(type_, content).type = type_ /\ Value(type_, content).content = content
BY DEF Value

\* The type of a list is no failure, and gives the type of its elements.
LEMMA ListType ==
    ASSUME NEW type_, IsSeq(type_)
    PROVE  /\ ListOf(type_) # Failure.type
           /\ ListOf(type_) # Nothing.type
           /\ Head(ListOf(type_)) = "list"
           /\ Tail(ListOf(type_)) = type_
           /\ IsSeq(ListOf(type_))
<1> DEFINE list == <<"list">>
<1>1. IsSeq(list) /\ Len(list) = 1 /\ list[1] = "list"
    BY SeqOne
<1>2. ListOf(type_) = list \o type_
    BY DEF ListOf
<1> HIDE DEF list
<1>3. /\ IsSeq(list \o type_) /\ Len(list \o type_) = Len(list) + Len(type_)
      /\ \A i \in 1 .. Len(list) : (list \o type_)[i] = list[i]
      /\ \A i \in 1 .. Len(type_) : (list \o type_)[Len(list) + i] = type_[i]
  <2>1. IsSeq(list) /\ IsSeq(type_)
      BY <1>1
  <2> QED BY ONLY <2>1, SeqConcat
<1>4. ListOf(type_)[1] = "list" /\ IsSeq(ListOf(type_)) /\ Len(ListOf(type_)) = 1 + Len(type_)
    BY <1>1, <1>2, <1>3
<1>5. ListOf(type_) # Failure.type /\ ListOf(type_) # Nothing.type
    BY <1>4 DEF Failure, Nothing, Value
<1>6. Head(ListOf(type_)) = "list"
    BY <1>4
<1>7. Tail(ListOf(type_)) = type_
  <2>1. PICK S : ListOf(type_) \in Seq(S)
      BY <1>4 DEF IsSeq
  <2>2. /\ Tail(ListOf(type_)) \in Seq(S) /\ Len(Tail(ListOf(type_))) = Len(type_)
        /\ \A i \in 1 .. Len(type_) : Tail(ListOf(type_))[i] = ListOf(type_)[i + 1]
      BY <1>4, <2>1, SeqLen
  <2>3. IsSeq(Tail(ListOf(type_)))
      BY <2>2, Zenon DEF IsSeq
  <2>4. ASSUME NEW i \in 1 .. Len(type_) PROVE Tail(ListOf(type_))[i] = type_[i]
      BY <1>1, <1>2, <1>3, <2>2, SeqLen
  <2> QED BY <2>2, <2>3, <2>4, SequencesEqual
<1> QED BY <1>4, <1>5, <1>6, <1>7

\* What is read of the rest of a list.
EndsAt(rest, end, content) ==
    ~IsError(rest.value) /\ rest.pos = end /\ rest.value.content = content

\* Where there is no comma the list ends.
LEMMA CommaValueEnds ==
    ASSUME NEW text, NEW pos \in Nat, NEW depth \in Nat \ {0},
           findNextToken(text, pos) # ","
    PROVE  EndsAt(Calls(text)[depth].comma_value[pos], pos, <<>>)
<1>1. PICK r : r = Calls(text)[depth].comma_value[pos]
    OBVIOUS
<1>2. r = At(Nothing, pos)
    BY <1>1, ValueAt, Zenon DEF parseJSON_comma_value
<1>3. Nothing.content = <<>> /\ ~IsError(Nothing)
    BY DEF Nothing, Value, IsError, Failure
<1>4. r.value = Nothing /\ r.pos = pos
    BY <1>2, AtFields
<1>5. EndsAt(r, pos, <<>>)
    BY <1>3, <1>4 DEF EndsAt
<1> QED BY <1>1, <1>5

\* Where there is one, another element is read, and then the rest.
LEMMA CommaValueStep ==
    ASSUME NEW text, IsSeq(text), NEW pos, NEW piece, NEW value, NEW end, NEW content,
           NEW depth \in Nat \ {0}, depth + pos > Len(text),
           Holds(text, pos, <<",">>), Holds(text, pos + 1, piece), Readable(piece, value),
           EndsAt(Calls(text)[depth - 1].comma_value[pos + 1 + Len(piece)], end, content)
    PROVE  EndsAt(Calls(text)[depth].comma_value[pos], end, <<value.content>> \o content)
<1>1. pos \in Nat \ {0} /\ findNextToken(text, pos) = ","
    BY HoldsToken
<1>2. PICK calls : calls = Calls(text)[depth - 1]
    OBVIOUS
<1>3. PICK first : first = calls.value[pos + 1]
    OBVIOUS
<1>4. PICK rest : rest = calls.comma_value[first.pos]
    OBVIOUS
<1>5. first = At(value, pos + 1 + Len(piece))
  <2>1. Len(text) \in Nat /\ depth + pos > Len(text) /\ depth \in Nat \ {0} /\ pos \in Nat
      BY <1>1, SeqLen
  <2>2. depth - 1 \in Nat /\ (depth - 1) + (pos + 1) > Len(text)
      BY ONLY <2>1
  <2> QED BY <1>2, <1>3, <2>2 DEF Readable, Reads
<1>6. first.value = value /\ first.pos = pos + 1 + Len(piece)
    BY <1>5, AtFields
<1>7. IsValid(first.value)
    BY <1>6 DEF Readable
<1>8. EndsAt(rest, end, content)
    BY <1>2, <1>4, <1>6
<1>9. PICK r : r = Calls(text)[depth].comma_value[pos]
    OBVIOUS
<1>10. r = parseJSON_comma_value(calls, text, pos)
    BY <1>1, <1>2, <1>9, ValueAt
<1>11. r = At(Value(ListOf(Interface), <<first.value.content>> \o rest.value.content),
              rest.pos)
  <2>1. ~IsError(rest.value)
      BY <1>8 DEF EndsAt
  <2> QED BY <1>1, <1>3, <1>4, <1>7, <1>10, <2>1, Zenon DEF parseJSON_comma_value
<1>12. PICK list : list = Value(ListOf(Interface), <<value.content>> \o content)
    OBVIOUS
<1>13. r = At(list, end)
    BY <1>6, <1>8, <1>11, <1>12 DEF EndsAt
<1>14. list.content = <<value.content>> \o content /\ ~IsError(list)
  <2>1. ListOf(Interface) # Failure.type
      BY ListType, SeqOne DEF Interface
  <2>2. list.type = ListOf(Interface) /\ list.content = <<value.content>> \o content
      BY <1>12, ValueFields
  <2> QED BY <2>1, <2>2, Zenon DEF IsError
<1>15. r.value = list /\ r.pos = end
    BY <1>13, AtFields
<1>16. EndsAt(r, end, <<value.content>> \o content)
    BY <1>14, <1>15 DEF EndsAt
<1> QED BY <1>9, <1>16

\* Lists are read from their ends: `follow' is what the parser reads of the rest
\* at a depth and a position, and `after' is where each element ends.
LEMMA RestsEnd ==
    ASSUME NEW n \in Nat \ {0}, NEW length \in Nat, NEW after, NEW follow,
           \A i \in 1 .. n : after[i] \in Nat /\ after[i] <= length,
           \A i \in 1 .. n - 1 : after[i] < after[i + 1],
           NEW contents, IsSeq(contents), Len(contents) = n,
           \A depth \in Nat \ {0} : EndsAt(follow[depth][after[n]], after[n], <<>>),
           \A i \in 1 .. n - 1 : \A depth \in Nat \ {0} : \A content :
               /\ depth + after[i] > length
               /\ EndsAt(follow[depth - 1][after[i + 1]], after[n], content)
               => EndsAt(follow[depth][after[i]], after[n], <<contents[i + 1]>> \o content)
    PROVE  \A i \in 1 .. n : \A depth \in Nat :
               depth + after[i] > length
                   => EndsAt(follow[depth][after[i]], after[n], Behind(contents, i))
<1> DEFINE Ends(i) == \A depth \in Nat :
               depth + after[i] > length
                   => EndsAt(follow[depth][after[i]], after[n], Behind(contents, i))
           R == {k \in Nat : k < n => Ends(n - k)}
<1>1. 0 \in R
  <2>1. SUFFICES ASSUME NEW depth \in Nat, depth + after[n] > length
                 PROVE  EndsAt(follow[depth][after[n]], after[n], Behind(contents, n))
      OBVIOUS
  <2>2. depth \in Nat \ {0}
      BY <2>1
  <2>3. Behind(contents, n) = <<>>
      BY BehindAll
  <2> QED BY <2>2, <2>3
<1>2. ASSUME NEW k \in R PROVE k + 1 \in R
  <2>1. SUFFICES ASSUME k + 1 < n PROVE Ends(n - (k + 1))
      OBVIOUS
  <2>2. PICK i \in 1 .. n - 1 : i = n - (k + 1) /\ i + 1 = n - k /\ k \in Nat /\ k < n
      BY <2>1
  <2>3. Ends(i + 1)
      BY <2>2
  <2>4. SUFFICES ASSUME NEW depth \in Nat, depth + after[i] > length
                 PROVE  EndsAt(follow[depth][after[i]], after[n], Behind(contents, i))
      BY <2>2
  <2>5. i \in 1 .. n /\ i + 1 \in 1 .. n
      BY <2>2
  <2>6. depth \in Nat \ {0} /\ depth - 1 \in Nat /\ (depth - 1) + after[i + 1] > length
    <3>1. /\ after[i] \in Nat /\ after[i] <= length
          /\ after[i + 1] \in Nat /\ after[i] < after[i + 1]
        BY <2>5
    <3> QED BY <2>4, <3>1
  <2>7. EndsAt(follow[depth - 1][after[i + 1]], after[n], Behind(contents, i + 1))
      BY <2>3, <2>6
  <2>8. EndsAt(follow[depth][after[i]], after[n], <<contents[i + 1]>> \o Behind(contents, i + 1))
      BY <2>4, <2>6, <2>7
  <2>9. <<contents[i + 1]>> \o Behind(contents, i + 1) = Behind(contents, i)
    <3>1. i \in Nat /\ i < Len(contents)
        BY <2>5
    <3> QED BY <3>1, BehindNext
  <2> QED BY <2>8, <2>9
<1>3. R = Nat
    BY <1>1, <1>2, Induction
<1>4. ASSUME NEW i \in 1 .. n PROVE Ends(i)
  <2>1. n - i \in Nat /\ n - i < n /\ n - (n - i) = i
      OBVIOUS
  <2> HIDE DEF Ends
  <2>2. n - i \in R
      BY <1>3, <2>1, Zenon
  <2> QED BY <2>1, <2>2
<1> QED BY <1>4

\* The texts end at these positions, and a comma follows each one but the last.
Follows(text, texts, n, after) ==
    /\ \A i \in 1 .. n : after[i] \in Nat \ {0} /\ after[i] <= Len(text)
    /\ \A i \in 1 .. n - 1 :
           /\ after[i] < after[i + 1]
           /\ Holds(text, after[i], <<",">>)
           /\ Holds(text, after[i] + 1, texts[i + 1])
           /\ after[i + 1] = after[i] + 1 + Len(texts[i + 1])

\* Texts that stand in a row follow one another.
LEMMA AfterTexts ==
    ASSUME NEW text, IsSeq(text), NEW texts, IsSeqOfSeqs(texts), NEW n \in Nat \ {0},
           n = Len(texts), NEW at, Layout(text, texts, at), NEW after,
           \A i \in 1 .. n : after[i] = at[i] + Len(texts[i]), after[n] <= Len(text)
    PROVE  Follows(text, texts, n, after)
<1>1. ASSUME NEW i \in 1 .. n PROVE after[i] \in Nat \ {0} /\ Len(texts[i]) \in Nat
  <2>1. at[i] \in Nat \ {0} /\ IsSeq(texts[i])
      BY DEF Layout, IsSeqOfSeqs
  <2>2. Len(texts[i]) \in Nat
      BY <2>1, SeqLen
  <2> QED BY <2>1, <2>2
<1>2. ASSUME NEW i \in 1 .. n - 1
      PROVE  /\ Holds(text, after[i], <<",">>)
             /\ Holds(text, after[i] + 1, texts[i + 1])
             /\ after[i + 1] = after[i] + 1 + Len(texts[i + 1])
  <2>1. i \in 1 .. n /\ i + 1 \in 1 .. n
      OBVIOUS
  <2>2. /\ at[i + 1] = at[i] + Len(texts[i]) + 1 /\ Holds(text, at[i] + Len(texts[i]), <<",">>)
        /\ Holds(text, at[i + 1], texts[i + 1])
      BY <2>1 DEF Layout
  <2>3. after[i] = at[i] + Len(texts[i]) /\ after[i + 1] = at[i + 1] + Len(texts[i + 1])
      BY <2>1
  <2> QED BY <2>2, <2>3
<1>3. ASSUME NEW i \in 1 .. n - 1 PROVE after[i] < after[i + 1] /\ after[i] <= Len(text)
  <2>1. i \in 1 .. n /\ i + 1 \in 1 .. n
      OBVIOUS
  <2>2. after[i] \in Nat \ {0} /\ Len(texts[i + 1]) \in Nat
      BY <1>1, <2>1
  <2>3. after[i] <= Len(text)
      BY <1>2, HoldsToken
  <2>4. PICK here, next, l :
            here = after[i] /\ next = after[i + 1] /\ l = Len(texts[i + 1])
      OBVIOUS
  <2>5. here \in Nat /\ l \in Nat /\ next = here + 1 + l
      BY <1>2, <2>2, <2>4
  <2>6. here < next
      BY ONLY <2>5
  <2> QED BY <2>3, <2>4, <2>6
<1>4. ASSUME NEW i \in 1 .. n PROVE after[i] <= Len(text)
  <2>1. i = n \/ i \in 1 .. n - 1
      OBVIOUS
  <2> QED BY <1>3, <2>1
<1> QED BY <1>1, <1>2, <1>3, <1>4 DEF Follows

\* A text between two tokens.
Enclosed(open, middle, close) == <<open>> \o middle \o <<close>>

\* It is a text, two tokens longer.
LEMMA EnclosedType ==
    ASSUME NEW open, NEW middle, NEW close, IsSeq(middle)
    PROVE  /\ IsSeq(Enclosed(open, middle, close))
           /\ Len(Enclosed(open, middle, close)) = Len(middle) + 2
           /\ Enclosed(open, middle, close)[1] = open
<1>1. PICK first, last : first = <<open>> /\ last = <<close>>
    OBVIOUS
<1>2. IsSeq(first) /\ Len(first) = 1 /\ first[1] = open /\ IsSeq(last) /\ Len(last) = 1
    BY <1>1, SeqOne
<1>3. /\ IsSeq(first \o middle) /\ Len(first \o middle) = Len(first) + Len(middle)
      /\ \A i \in 1 .. Len(first) : (first \o middle)[i] = first[i]
    BY <1>2, SeqConcat
<1>4. PICK start : start = first \o middle
    OBVIOUS
<1>5. IsSeq(start) /\ Len(start) = 1 + Len(middle) /\ start[1] = open /\ Len(middle) \in Nat
    BY <1>2, <1>3, <1>4, SeqLen
<1>6. /\ IsSeq(start \o last) /\ Len(start \o last) = Len(start) + Len(last)
      /\ \A i \in 1 .. Len(start) : (start \o last)[i] = start[i]
    BY <1>2, <1>5, SeqConcat
<1>7. Enclosed(open, middle, close) = start \o last
    BY <1>1, <1>4 DEF Enclosed
<1> QED BY <1>2, <1>5, <1>6, <1>7

\* It is held with both tokens.
LEMMA EnclosedHolds ==
    ASSUME NEW text, IsSeq(text), NEW pos, NEW open, NEW middle, NEW close, IsSeq(middle),
           Holds(text, pos, Enclosed(open, middle, close))
    PROVE  /\ Holds(text, pos, <<open>>)
           /\ Holds(text, pos + 1, middle)
           /\ Holds(text, pos + 1 + Len(middle), <<close>>)
<1>1. PICK first, last : first = <<open>> /\ last = <<close>>
    OBVIOUS
<1>2. IsSeq(first) /\ Len(first) = 1 /\ IsSeq(last)
    BY <1>1, SeqOne
<1>3. PICK start : start = first \o middle
    OBVIOUS
<1>4. IsSeq(start) /\ Len(start) = 1 + Len(middle) /\ Len(middle) \in Nat
  <2>1. IsSeq(first \o middle) /\ Len(first \o middle) = Len(first) + Len(middle)
      BY <1>2, SeqConcat
  <2> QED BY <1>2, <1>3, <2>1, SeqLen
<1>5. Enclosed(open, middle, close) = start \o last
    BY <1>1, <1>3 DEF Enclosed
<1>6. Holds(text, pos, start) /\ Holds(text, pos + Len(start), last)
    BY <1>2, <1>4, <1>5, HoldsConcat
<1>7. Holds(text, pos, first) /\ Holds(text, pos + 1, middle)
    BY <1>2, <1>3, <1>6, HoldsConcat
<1>8. pos + Len(start) = pos + 1 + Len(middle)
    BY <1>4, <1>6 DEF Holds
<1> QED BY <1>1, <1>6, <1>7, <1>8

(***************************************************************************)
(* A list is read.                                                         *)
(***************************************************************************)

\* A list is enclosed in brackets.
LEMMA ArrayEnclosed ==
    ASSUME NEW texts
    PROVE  Array(texts) = Enclosed("[", Joined(texts), "]")
BY DEF Array, Enclosed

\* Without texts, there is nothing between the brackets.
LEMMA EmptyArray ==
    ASSUME NEW texts, IsSeq(texts), Len(texts) = 0
    PROVE  Joined(texts) = <<>>
<1>1. Len(texts) \in Nat
    OBVIOUS
<1> QED BY <1>1, JoinedEquation

\* Each text is read as the value, which has the content.
ReadAs(n, texts, values, contents) ==
    /\ \A i \in 1 .. n : Readable(texts[i], values[i]) /\ values[i].content = contents[i]
    /\ IsSeq(contents)
    /\ Len(contents) = n

NoComma(text, pos) == findNextToken(text, pos) # ","

\* The elements behind the first one.
LEMMA CommaValuesRead ==
    ASSUME NEW text, IsSeq(text), NEW texts, NEW n \in Nat \ {0},
           NEW after, Follows(text, texts, n, after), NoComma(text, after[n]),
           NEW values, NEW contents, ReadAs(n, texts, values, contents)
    PROVE  \A depth \in Nat :
               depth + after[1] > Len(text)
                   => EndsAt(Calls(text)[depth].comma_value[after[1]], after[n],
                             Behind(contents, 1))
<1>1. /\ \A i \in 1 .. n : after[i] \in Nat \ {0} /\ after[i] <= Len(text)
      /\ \A i \in 1 .. n - 1 :
             /\ after[i] < after[i + 1]
             /\ Holds(text, after[i], <<",">>)
             /\ Holds(text, after[i] + 1, texts[i + 1])
             /\ after[i + 1] = after[i] + 1 + Len(texts[i + 1])
    BY Zenon DEF Follows
<1>2. PICK follow : \A d \in Nat : follow[d] = Calls(text)[d].comma_value
  <2> DEFINE f == [d \in Nat |-> Calls(text)[d].comma_value]
  <2>1. \A d \in Nat : f[d] = Calls(text)[d].comma_value
      OBVIOUS
  <2> QED BY <2>1, Zenon
<1>3. ASSUME NEW d \in Nat \ {0} PROVE EndsAt(follow[d][after[n]], after[n], <<>>)
  <2>1. n \in 1 .. n
      OBVIOUS
  <2>2. after[n] \in Nat /\ d \in Nat
      BY <1>1, <2>1
  <2> QED BY <1>2, <2>2, CommaValueEnds DEF NoComma
<1>4. ASSUME NEW i \in 1 .. n - 1, NEW d \in Nat \ {0}, NEW content,
             d + after[i] > Len(text),
             EndsAt(follow[d - 1][after[i + 1]], after[n], content)
      PROVE  EndsAt(follow[d][after[i]], after[n], <<contents[i + 1]>> \o content)
  <2>1. d \in Nat /\ d - 1 \in Nat /\ i + 1 \in 1 .. n
      OBVIOUS
  <2>2. Readable(texts[i + 1], values[i + 1]) /\ values[i + 1].content = contents[i + 1]
      BY <2>1 DEF ReadAs
  <2>3. EndsAt(Calls(text)[d - 1].comma_value[after[i] + 1 + Len(texts[i + 1])], after[n],
               content)
      BY <1>1, <1>2, <1>4, <2>1
  <2>4. EndsAt(Calls(text)[d].comma_value[after[i]], after[n],
               <<values[i + 1].content>> \o content)
      BY <1>1, <1>4, <2>2, <2>3, CommaValueStep
  <2> QED BY <1>2, <2>1, <2>2, <2>4
<1>5. PICK length \in Nat : length = Len(text)
    BY SeqLen
<1>6. \A i \in 1 .. n : \A d \in Nat :
          d + after[i] > length => EndsAt(follow[d][after[i]], after[n], Behind(contents, i))
  <2>1. \A i \in 1 .. n : after[i] \in Nat /\ after[i] <= length
      BY <1>1, <1>5
  <2>2. \A i \in 1 .. n - 1 : after[i] < after[i + 1]
      BY <1>1
  <2>3. \A i \in 1 .. n - 1 : \A d \in Nat \ {0} : \A content :
               /\ d + after[i] > length
               /\ EndsAt(follow[d - 1][after[i + 1]], after[n], content)
               => EndsAt(follow[d][after[i]], after[n], <<contents[i + 1]>> \o content)
      BY <1>4, <1>5
  <2> QED BY <1>3, <2>1, <2>2, <2>3, RestsEnd DEF ReadAs
<1>7. 1 \in 1 .. n
    OBVIOUS
<1> QED BY <1>2, <1>5, <1>6, <1>7

\* Joined texts follow one another, up to the end of the whole.
LEMMA JoinedFollows ==
    ASSUME NEW texts, IsSeqOfSeqs(texts), NEW n \in Nat \ {0}, n = Len(texts),
           NEW text, IsSeq(text), NEW pos, Holds(text, pos, Joined(texts)),
           NEW end, end = pos + Len(Joined(texts)), end <= Len(text)
    PROVE  \E after : /\ Follows(text, texts, n, after)
                      /\ Holds(text, pos, texts[1])
                      /\ after[1] = pos + Len(texts[1])
                      /\ after[n] = end
<1>1. texts # <<>>
    BY SeqLen DEF IsSeqOfSeqs
<1>2. PICK at : /\ Layout(text, texts, at)
                /\ at[1] = pos
                /\ at[n] + Len(texts[n]) = end
    BY <1>1, JoinedLayout
<1>3. PICK after : \A i \in 1 .. n : after[i] = at[i] + Len(texts[i])
  <2> DEFINE f == [i \in 1 .. n |-> at[i] + Len(texts[i])]
  <2>1. \A i \in 1 .. n : f[i] = at[i] + Len(texts[i])
      OBVIOUS
  <2> QED BY <2>1, Zenon
<1>4. 1 \in 1 .. n /\ n \in 1 .. n
    OBVIOUS
<1>5. after[n] = end /\ after[n] <= Len(text)
    BY <1>2, <1>3, <1>4
<1>6. Follows(text, texts, n, after)
    BY <1>2, <1>3, <1>5, AfterTexts
<1>7. Holds(text, pos, texts[1])
    BY <1>2, <1>4 DEF Layout
<1> QED BY <1>2, <1>3, <1>4, <1>5, <1>6, <1>7

\* A list with elements is read, if each element is.
LEMMA ReadsArray ==
    ASSUME NEW texts, IsSeqOfSeqs(texts), NEW n \in Nat \ {0}, n = Len(texts),
           NEW values, NEW contents, ReadAs(n, texts, values, contents)
    PROVE  Reads(Array(texts), Value(ListOf(values[1].type), contents))
<1> DEFINE joined == Joined(texts)
           result == Value(ListOf(values[1].type), contents)
<1>1. SUFFICES ASSUME NEW text, NEW pos, NEW depth, IsSeq(text),
                      Holds(text, pos, Array(texts)), depth \in Nat, depth + pos > Len(text)
               PROVE  Calls(text)[depth].value[pos] = At(result, pos + Len(Array(texts)))
    BY DEF Reads
<1>2. IsSeq(joined) /\ Len(joined) \in Nat
    BY JoinedType, SeqLen
<1>3. PICK end : end = pos + 1 + Len(joined)
    OBVIOUS
<1>4. /\ Holds(text, pos, <<"[">>) /\ Holds(text, pos + 1, joined)
      /\ Holds(text, end, <<"]">>)
    BY <1>1, <1>2, <1>3, EnclosedHolds, ArrayEnclosed
<1>5. /\ pos \in Nat \ {0} /\ findNextToken(text, pos) = "["
      /\ end \in Nat \ {0} /\ end <= Len(text) /\ findNextToken(text, end) = "]"
    BY <1>1, <1>4, HoldsToken
<1>6. PICK after : /\ Follows(text, texts, n, after)
                   /\ Holds(text, pos + 1, texts[1])
                   /\ after[1] = pos + 1 + Len(texts[1])
                   /\ after[n] = end
  <2>1. pos + 1 \in Nat \ {0} /\ end = (pos + 1) + Len(Joined(texts)) /\ end <= Len(text)
      BY <1>3, <1>5
  <2>2. Holds(text, pos + 1, Joined(texts))
      BY <1>4
  <2> QED BY <1>1, <2>1, <2>2, JoinedFollows
<1>7. 1 \in 1 .. n /\ depth \in Nat \ {0} /\ depth - 1 \in Nat /\ pos + 1 \in Nat
  <2>1. Len(text) \in Nat /\ pos <= Len(text)
      BY <1>1, <1>4, HoldsToken, SeqLen
  <2>2. depth \in Nat /\ depth + pos > Len(text)
      BY <1>1
  <2> QED BY ONLY <2>1, <2>2, <1>5, n \in Nat \ {0}
<1>8. Readable(texts[1], values[1]) /\ values[1].content = contents[1] /\ IsSeq(contents)
    BY <1>7 DEF ReadAs
<1>9. PICK calls : calls = Calls(text)[depth - 1]
    OBVIOUS
<1>10. PICK first : first = calls.value[pos + 1]
    OBVIOUS
<1>11. PICK rest : rest = calls.comma_value[first.pos]
    OBVIOUS
<1>12. (depth - 1) + (pos + 1) > Len(text)
  <2>1. Len(text) \in Nat /\ depth \in Nat /\ depth + pos > Len(text)
      BY <1>1, SeqLen
  <2> QED BY ONLY <2>1, <1>5
<1>13. first.value = values[1] /\ first.pos = after[1]
  <2>1. first = At(values[1], after[1])
      BY <1>1, <1>6, <1>7, <1>8, <1>9, <1>10, <1>12 DEF Readable, Reads
  <2> QED BY <2>1, AtFields
<1>14. EndsAt(rest, end, Behind(contents, 1))
  <2>1. NoComma(text, end)
      BY <1>5 DEF NoComma
  <2>2. (depth - 1) + after[1] > Len(text)
    <3>1. /\ Len(text) \in Nat /\ Len(texts[1]) \in Nat /\ after[1] = pos + 1 + Len(texts[1])
          /\ depth \in Nat /\ depth + pos > Len(text)
        BY <1>1, <1>6, <1>8, SeqLen DEF Readable
    <3>2. pos \in Nat
        BY <1>5
    <3>3. PICK k, l, m : k = after[1] /\ l = Len(texts[1]) /\ m = Len(text)
        OBVIOUS
    <3>4. m \in Nat /\ l \in Nat /\ k = pos + 1 + l /\ depth \in Nat /\ depth + pos > m
        BY <3>1, <3>3
    <3>5. (depth - 1) + k > m
        BY ONLY <3>2, <3>4
    <3> QED BY <3>3, <3>5
  <2>3. NoComma(text, after[n])
      BY <1>6, <2>1
  <2>4. EndsAt(Calls(text)[depth - 1].comma_value[after[1]], after[n], Behind(contents, 1))
      BY <1>1, <1>6, <1>7, <2>2, <2>3, CommaValuesRead
  <2> QED BY <1>6, <1>9, <1>11, <1>13, <2>4
<1>15. findNextToken(text, pos + 1) # "]"
    BY <1>1, <1>6, <1>8, HoldsFirst DEF Readable
<1>16. <<contents[1]>> \o Behind(contents, 1) = contents
  <2>1. 0 \in Nat /\ 0 < Len(contents) /\ 0 + 1 = 1
      BY DEF ReadAs
  <2>2. <<contents[0 + 1]>> \o Behind(contents, 0 + 1) = Behind(contents, 0)
      BY <1>8, <2>1, BehindNext
  <2> QED BY <1>8, <2>1, <2>2, BehindNone
<1>17. parseJSON_array_value(calls, text, pos)
         = At(Value(ListOf(first.value.type), <<first.value.content>> \o rest.value.content),
              rest.pos + 1)
  <2>1. IsValid(first.value)
      BY <1>8, <1>13 DEF Readable
  <2>2. ~IsError(rest.value) /\ findNextToken(text, rest.pos) = "]"
      BY <1>5, <1>14 DEF EndsAt
  <2> QED BY <1>10, <1>11, <1>15, <2>1, <2>2, Zenon DEF parseJSON_array_value
<1>18. rest.pos + 1 = pos + Len(Array(texts))
  <2>1. Len(Array(texts)) = Len(joined) + 2
      BY <1>2, ArrayEnclosed, EnclosedType
  <2>2. rest.pos = pos + 1 + Len(joined)
      BY <1>3, <1>14 DEF EndsAt
  <2> QED BY <1>2, <1>5, <2>1, <2>2
<1>19. Calls(text)[depth].value[pos] = parseJSON_array_value(calls, text, pos)
  <2>1. Calls(text)[depth].value[pos] = parseJSON_value(calls, text, pos)
      BY <1>5, <1>7, <1>9, ValueAt
  <2>2. findNextToken(text, pos) # ""
      BY <1>5
  <2> QED BY <1>5, <2>1, <2>2, Zenon DEF parseJSON_value
<1>20. <<first.value.content>> \o rest.value.content = contents
    BY <1>8, <1>13, <1>14, <1>16 DEF EndsAt
<1> QED BY <1>13, <1>17, <1>18, <1>19, <1>20

\* The empty list is read as a list of no type.
LEMMA ReadsEmptyArray ==
    ASSUME NEW texts, IsSeq(texts), Len(texts) = 0
    PROVE  Reads(Array(texts), Value(ListOf(Interface), <<>>))
<1> DEFINE result == Value(ListOf(Interface), <<>>)
<1>1. SUFFICES ASSUME NEW text, NEW pos, NEW depth, IsSeq(text),
                      Holds(text, pos, Array(texts)), depth \in Nat, depth + pos > Len(text)
               PROVE  Calls(text)[depth].value[pos] = At(result, pos + Len(Array(texts)))
    BY DEF Reads
<1>2. Joined(texts) = <<>> /\ IsSeq(Joined(texts)) /\ Len(Joined(texts)) = 0
  <2>1. Joined(texts) = <<>>
      BY EmptyArray
  <2> QED BY <2>1, SeqEmpty
<1>3. Holds(text, pos, <<"[">>) /\ Holds(text, pos + 1 + 0, <<"]">>)
    BY <1>1, <1>2, EnclosedHolds, ArrayEnclosed
<1>4. pos \in Nat \ {0} /\ pos <= Len(text) /\ findNextToken(text, pos) = "["
    BY <1>1, <1>3, HoldsToken
<1>5. findNextToken(text, pos + 1) = "]"
  <2>1. pos + 1 + 0 = pos + 1
      BY <1>4
  <2> QED BY <1>1, <1>3, <2>1, HoldsToken
<1>6. depth \in Nat \ {0}
  <2>1. Len(text) \in Nat /\ depth \in Nat /\ depth + pos > Len(text)
      BY <1>1, SeqLen
  <2>2. pos \in Nat /\ pos <= Len(text)
      BY <1>4
  <2> QED BY ONLY <2>1, <2>2
<1>7. PICK calls : calls = Calls(text)[depth - 1]
    OBVIOUS
<1>8. Calls(text)[depth].value[pos] = parseJSON_value(calls, text, pos)
    BY <1>4, <1>6, <1>7, ValueAt
<1>9. parseJSON_value(calls, text, pos) = parseJSON_array_value(calls, text, pos)
  <2>1. findNextToken(text, pos) # ""
      BY <1>4
  <2> QED BY <1>4, <2>1, Zenon DEF parseJSON_value
<1>10. parseJSON_array_value(calls, text, pos) = At(result, pos + 2)
    BY <1>5, Zenon DEF parseJSON_array_value
<1>11. pos + 2 = pos + Len(Array(texts))
    BY <1>2, <1>4, ArrayEnclosed, EnclosedType
<1> QED BY <1>8, <1>9, <1>10, <1>11

\* A list, as the parser returns it.
ListValue(type_, list) ==
    Value(ListOf(IF list = <<>> THEN Interface ELSE type_), list)

\* A list can be read wherever a value can, if each element can.
LEMMA ReadableArray ==
    ASSUME NEW list, IsSeq(list), NEW texts, IsSeq(texts), Len(texts) = Len(list),
           NEW type_, IsSeq(type_),
           \A i \in 1 .. Len(list) : Readable(texts[i], Value(type_, list[i]))
    PROVE  Readable(Array(texts), ListValue(type_, list))
<1>1. PICK n \in Nat : n = Len(list)
    BY SeqLen
<1>2. IsSeqOfSeqs(texts)
    BY DEF Readable, IsSeqOfSeqs
<1>3. Reads(Array(texts), ListValue(type_, list))
  <2>1. CASE n = 0
    <3>1. list = <<>> /\ Len(texts) = 0
        BY <1>1, <2>1, SeqLen
    <3>2. ListValue(type_, list) = Value(ListOf(Interface), <<>>)
        BY <3>1, Zenon DEF ListValue
    <3> QED BY <3>1, <3>2, ReadsEmptyArray
  <2>2. CASE n # 0
    <3>1. PICK values : values = [i \in 1 .. n |-> Value(type_, list[i])]
        OBVIOUS
    <3>2. ASSUME NEW i \in 1 .. n
          PROVE  /\ values[i] = Value(type_, list[i])
                 /\ values[i].type = type_ /\ values[i].content = list[i]
      <4>1. values[i] = Value(type_, list[i])
          BY <3>1
      <4> QED BY <4>1, ValueFields
    <3>3. ReadAs(n, texts, values, list)
        BY <1>1, <3>2 DEF ReadAs
    <3>4. n \in Nat \ {0} /\ n = Len(texts) /\ 1 \in 1 .. n /\ list # <<>>
        BY <1>1, <2>2, SeqLen
    <3>5. Reads(Array(texts), Value(ListOf(values[1].type), list))
        BY <1>2, <3>3, <3>4, ReadsArray
    <3>6. values[1].type = type_
        BY <3>2, <3>4
    <3>7. ListValue(type_, list) = Value(ListOf(type_), list)
        BY <3>4, Zenon DEF ListValue
    <3> QED BY <3>5, <3>6, <3>7
  <2> QED BY <2>1, <2>2
<1>4. IsValid(ListValue(type_, list))
  <2>1. PICK element : element = IF list = <<>> THEN Interface ELSE type_
      OBVIOUS
  <2>2. IsSeq(element)
      BY <2>1, SeqOne, Zenon DEF Interface
  <2>3. ListOf(element) \notin {Nothing.type, Failure.type}
      BY <2>2, ListType
  <2>4. ListValue(type_, list) = Value(ListOf(element), list)
      BY <2>1, Zenon DEF ListValue
  <2>5. ListValue(type_, list).type = ListOf(element)
      BY <2>4, ValueFields
  <2> QED BY <2>3, <2>5, Zenon DEF IsValid
<1>5. IsSeq(Joined(texts))
    BY <1>2, JoinedType
<1>6. /\ IsSeq(Array(texts)) /\ Array(texts)[1] = "[" /\ Array(texts) # <<>>
  <2>1. /\ IsSeq(Array(texts)) /\ Array(texts)[1] = "["
        /\ Len(Array(texts)) = Len(Joined(texts)) + 2
      BY <1>5, EnclosedType, ArrayEnclosed
  <2> QED BY <1>5, <2>1, SeqLen
<1> QED BY <1>3, <1>4, <1>6 DEF Readable

(***************************************************************************)
(* Fields.                                                                 *)
(***************************************************************************)

\* What may stand between braces: wherever it stands in a text, the value of
\* the field is read.
ReadableField(field, value) ==
    /\ IsSeq(field) /\ field # <<>>
    /\ IsValid(value)
    /\ \A text, pos, depth :
           IsSeq(text) /\ Holds(text, pos, field) /\ depth \in Nat /\ depth + pos > Len(text)
               => parseJSON_field(Calls(text)[depth], text, pos) = At(value, pos + Len(field))

\* A field is a text.
LEMMA FieldType ==
    ASSUME NEW name, NEW piece, IsSeq(piece)
    PROVE  /\ IsSeq(Field(name, piece)) /\ Field(name, piece) # <<>>
           /\ Len(Field(name, piece)) = Len(Quoted(name)) + 1 + Len(piece)
<1>1. PICK colon, quoted : colon = <<":">> /\ quoted = Quoted(name)
    OBVIOUS
<1>2. IsSeq(colon) /\ Len(colon) = 1 /\ IsSeq(quoted)
    BY <1>1, SeqOne, QuotedType
<1>3. PICK start : start = quoted \o colon
    OBVIOUS
<1>4. IsSeq(start) /\ Len(start) = Len(quoted) + 1
  <2>1. IsSeq(quoted \o colon) /\ Len(quoted \o colon) = Len(quoted) + Len(colon)
      BY <1>2, SeqConcat
  <2> QED BY <1>2, <1>3, <2>1
<1>5. IsSeq(start \o piece) /\ Len(start \o piece) = Len(start) + Len(piece)
    BY <1>4, SeqConcat
<1>6. Field(name, piece) = start \o piece
    BY <1>1, <1>3 DEF Field
<1>7. Len(quoted) \in Nat /\ Len(piece) \in Nat
    BY <1>2, SeqLen
<1>8. start \o piece # <<>>
    BY <1>4, <1>5, <1>7, SeqLen
<1> QED BY <1>1, <1>4, <1>5, <1>6, <1>8

\* A field is held with its name, the colon and its value.
LEMMA FieldHolds ==
    ASSUME NEW text, IsSeq(text), NEW pos, NEW name, NEW piece, IsSeq(piece),
           Holds(text, pos, Field(name, piece))
    PROVE  /\ Holds(text, pos, Quoted(name))
           /\ Holds(text, pos + Len(Quoted(name)), <<":">>)
           /\ Holds(text, pos + Len(Quoted(name)) + 1, piece)
<1>1. PICK colon, quoted : colon = <<":">> /\ quoted = Quoted(name)
    OBVIOUS
<1>2. IsSeq(colon) /\ Len(colon) = 1 /\ IsSeq(quoted)
    BY <1>1, SeqOne, QuotedType
<1>3. PICK start : start = quoted \o colon
    OBVIOUS
<1>4. IsSeq(start) /\ Len(start) = Len(quoted) + 1 /\ Len(quoted) \in Nat
  <2>1. IsSeq(quoted \o colon) /\ Len(quoted \o colon) = Len(quoted) + Len(colon)
      BY <1>2, SeqConcat
  <2> QED BY <1>2, <1>3, <2>1, SeqLen
<1>5. Field(name, piece) = start \o piece
    BY <1>1, <1>3 DEF Field
<1>6. Holds(text, pos, start) /\ Holds(text, pos + Len(start), piece)
    BY <1>4, <1>5, HoldsConcat
<1>7. Holds(text, pos, quoted) /\ Holds(text, pos + Len(quoted), colon)
    BY <1>2, <1>3, <1>6, HoldsConcat
<1>8. pos + Len(start) = pos + Len(quoted) + 1
    BY <1>4, <1>6 DEF Holds
<1> QED BY <1>1, <1>6, <1>7, <1>8

\* A name that may be put in quotes.
IsName(name) == name # "" /\ name # Quote

\* The name of a field, between its quotes, and the colon behind it.
LEMMA NameAt ==
    ASSUME NEW text, IsSeq(text), NEW pos, NEW name, IsName(name),
           Holds(text, pos, Quoted(name)), Holds(text, pos + Len(Quoted(name)), <<":">>)
    PROVE  /\ pos \in Nat \ {0} /\ Len(Quoted(name)) = 3 /\ pos + 3 <= Len(text)
           /\ findNextToken(text, pos) = Quote
           /\ PositionOf(Quote, text, pos) = pos
           /\ PositionOf(Quote, text, pos + 1) = pos + 2
           /\ Between(text, pos, pos + 2) = name
           /\ findNextToken(text, pos + 3) = ":"
           /\ PositionOf(":", text, pos + 2) = pos + 3
<1>1. Quoted(name) = <<Quote, name, Quote>> /\ Len(Quoted(name)) = 3
  <2>1. Quoted(name) = <<Quote, name, Quote>>
      BY Zenon DEF Quoted, IsName
  <2> QED BY <2>1
<1>2. /\ pos \in Nat \ {0}
      /\ findNextToken(text, pos) = Quote
      /\ PositionOf(Quote, text, pos) = pos
      /\ PositionOf(Quote, text, pos + 1) = pos + 3 - 1
      /\ Between(text, pos, pos + 3 - 1) = name
    BY <1>1, QuotedAt DEF IsName
<1>3. pos \in Nat \ {0} /\ pos + 3 - 1 = pos + 2 /\ pos + 2 \in Nat \ {0}
  <2>1. pos \in Nat \ {0}
      BY <1>2
  <2> QED BY ONLY <2>1
<1>4. Holds(text, pos + 3, <<":">>)
    BY <1>1
<1>5. pos + 3 <= Len(text) /\ text[pos + 3] = ":" /\ findNextToken(text, pos + 3) = ":"
    BY <1>4, HoldsToken
<1>6. text[pos + 2] = Quote
  <2>1. Holds(text, pos, <<Quote, name, Quote>>)
      BY <1>1, Zenon
  <2> QED BY <2>1, HoldsTokens3
<1>7. PositionOf(":", text, pos + 2) = pos + 3
  <2>1. PICK length : length = Len(text)
      OBVIOUS
  <2>2. length \in Nat /\ pos + 3 <= length
      BY <1>5, <2>1, SeqLen
  <2>3. pos + 3 \in (pos + 2) .. length /\ \A r \in (pos + 2) .. (pos + 3) - 1 : r = pos + 2
      BY ONLY <1>3, <2>2
  <2>4. text[pos + 2] # ":"
      BY <1>6 DEF Quote
  <2>5. \A r \in (pos + 2) .. (pos + 3) - 1 : text[r] # ":"
      BY <2>3, <2>4, Zenon
  <2>6. pos + 3 \in (pos + 2) .. Len(text)
      BY <2>1, <2>3, Zenon
  <2> QED BY <1>3, <1>5, <2>5, <2>6, PositionFound
<1> QED BY <1>1, <1>2, <1>3, <1>5, <1>7

\* A field can be read if its value can.
LEMMA FieldReadable ==
    ASSUME NEW name, IsName(name), NEW piece, NEW value, Readable(piece, value)
    PROVE  ReadableField(Field(name, piece), value)
<1>1. IsSeq(piece) /\ IsValid(value)
    BY DEF Readable
<1>2. ASSUME NEW text, NEW pos, NEW depth, IsSeq(text), Holds(text, pos, Field(name, piece)),
             depth \in Nat, depth + pos > Len(text)
      PROVE  parseJSON_field(Calls(text)[depth], text, pos)
                 = At(value, pos + Len(Field(name, piece)))
  <2>1. /\ Holds(text, pos, Quoted(name))
        /\ Holds(text, pos + Len(Quoted(name)), <<":">>)
        /\ Holds(text, pos + Len(Quoted(name)) + 1, piece)
      BY <1>1, <1>2, FieldHolds
  <2>2. /\ pos \in Nat \ {0} /\ Len(Quoted(name)) = 3
        /\ findNextToken(text, pos) = Quote
        /\ PositionOf(Quote, text, pos + 1) = pos + 2
        /\ Between(text, pos, pos + 2) = name
        /\ findNextToken(text, pos + 3) = ":"
      BY <1>2, <2>1, NameAt
  <2>3. PICK calls : calls = Calls(text)[depth]
      OBVIOUS
  <2>4. PICK field : field = calls.value[pos + 4]
      OBVIOUS
  <2>5. pos + 2 # 0 /\ (pos + 2) + 1 = pos + 3 /\ (pos + 2) + 2 = pos + 4 /\ pos + 4 \in Nat
        /\ pos + 3 + 1 = pos + 4
    <3>1. pos \in Nat
        BY <2>2
    <3> QED BY ONLY <3>1
  <2>6. depth + (pos + 4) > Len(text)
    <3>1. Len(text) \in Nat /\ depth \in Nat /\ depth + pos > Len(text)
        BY <1>2, SeqLen
    <3>2. pos \in Nat
        BY <2>2
    <3> QED BY ONLY <3>1, <3>2
  <2>7. Holds(text, pos + 4, piece)
      BY <2>1, <2>2, <2>5
  <2>8. field = At(value, pos + 4 + Len(piece))
      BY <1>2, <2>3, <2>4, <2>6, <2>7 DEF Readable, Reads
  <2>9. field.value = value
      BY <2>8, AtFields
  <2>10. parseJSON_field(calls, text, pos) = field
      BY <1>1, <2>2, <2>4, <2>5, <2>9, Zenon DEF parseJSON_field, IsName
  <2>11. pos + 4 + Len(piece) = pos + Len(Field(name, piece))
    <3>1. PICK l, k : l = Len(piece) /\ k = Len(Field(name, piece))
        OBVIOUS
    <3>2. l \in Nat /\ k = 3 + 1 + l /\ pos \in Nat
        BY <1>1, <2>2, <3>1, FieldType, SeqLen
    <3>3. pos + 4 + l = pos + k
        BY ONLY <3>2
    <3> QED BY <3>1, <3>3
  <2> QED BY <2>3, <2>8, <2>10, <2>11
<1> QED BY <1>1, <1>2, FieldType DEF ReadableField

\* Where there is no comma, the fields end.
LEMMA CommaFieldEnds ==
    ASSUME NEW text, NEW pos \in Nat, NEW depth \in Nat \ {0}, NoComma(text, pos)
    PROVE  EndsAt(Calls(text)[depth].comma_field[pos], pos, <<>>)
<1>1. PICK r : r = Calls(text)[depth].comma_field[pos]
    OBVIOUS
<1>2. r = At(Nothing, pos)
    BY <1>1, ValueAt, Zenon DEF parseJSON_comma_field, NoComma
<1>3. Nothing.content = <<>> /\ ~IsError(Nothing)
    BY DEF Nothing, Value, IsError, Failure
<1>4. r.value = Nothing /\ r.pos = pos
    BY <1>2, AtFields
<1>5. EndsAt(r, pos, <<>>)
    BY <1>3, <1>4 DEF EndsAt
<1> QED BY <1>1, <1>5

\* Where there is one, another field is read, and then the rest.
LEMMA CommaFieldStep ==
    ASSUME NEW text, IsSeq(text), NEW pos, NEW field, NEW value, NEW end, NEW content,
           NEW depth \in Nat \ {0}, depth + pos > Len(text),
           Holds(text, pos, <<",">>), Holds(text, pos + 1, field), ReadableField(field, value),
           EndsAt(Calls(text)[depth - 1].comma_field[pos + 1 + Len(field)], end, content)
    PROVE  EndsAt(Calls(text)[depth].comma_field[pos], end, <<value>> \o content)
<1>1. pos \in Nat \ {0} /\ findNextToken(text, pos) = ","
    BY HoldsToken
<1>2. PICK calls : calls = Calls(text)[depth - 1]
    OBVIOUS
<1>3. PICK first : first = parseJSON_field(calls, text, pos + 1)
    OBVIOUS
<1>4. PICK rest : rest = calls.comma_field[first.pos]
    OBVIOUS
<1>5. first = At(value, pos + 1 + Len(field))
  <2>1. Len(text) \in Nat /\ depth + pos > Len(text) /\ depth \in Nat \ {0} /\ pos \in Nat
      BY <1>1, SeqLen
  <2>2. depth - 1 \in Nat /\ (depth - 1) + (pos + 1) > Len(text)
      BY ONLY <2>1
  <2> QED BY <1>2, <1>3, <2>2 DEF ReadableField
<1>6. first.value = value /\ first.pos = pos + 1 + Len(field)
    BY <1>5, AtFields
<1>7. ~IsError(first.value)
    BY <1>6, Zenon DEF ReadableField, IsValid, IsError
<1>8. EndsAt(rest, end, content)
    BY <1>2, <1>4, <1>6
<1>9. PICK r : r = Calls(text)[depth].comma_field[pos]
    OBVIOUS
<1>10. r = parseJSON_comma_field(calls, text, pos)
    BY <1>1, <1>2, <1>9, ValueAt
<1>11. r = At(Value(ListOf(Interface), <<first.value>> \o rest.value.content), rest.pos)
  <2>1. ~IsError(rest.value)
      BY <1>8 DEF EndsAt
  <2> QED BY <1>1, <1>3, <1>4, <1>7, <1>10, <2>1, Zenon DEF parseJSON_comma_field
<1>12. PICK list : list = Value(ListOf(Interface), <<value>> \o content)
    OBVIOUS
<1>13. r = At(list, end)
    BY <1>6, <1>8, <1>11, <1>12 DEF EndsAt
<1>14. list.content = <<value>> \o content /\ ~IsError(list)
  <2>1. ListOf(Interface) # Failure.type
      BY ListType, SeqOne DEF Interface
  <2>2. list.type = ListOf(Interface) /\ list.content = <<value>> \o content
      BY <1>12, ValueFields
  <2> QED BY <2>1, <2>2, Zenon DEF IsError
<1>15. r.value = list /\ r.pos = end
    BY <1>13, AtFields
<1>16. EndsAt(r, end, <<value>> \o content)
    BY <1>14, <1>15 DEF EndsAt
<1> QED BY <1>9, <1>16

\* Each of the fields is read as the value.
FieldsReadAs(n, fields, values) ==
    /\ \A i \in 1 .. n : ReadableField(fields[i], values[i])
    /\ IsSeq(values)
    /\ Len(values) = n

\* The fields behind the first one.
LEMMA CommaFieldsRead ==
    ASSUME NEW text, IsSeq(text), NEW fields, NEW n \in Nat \ {0},
           NEW after, Follows(text, fields, n, after), NoComma(text, after[n]),
           NEW values, FieldsReadAs(n, fields, values)
    PROVE  \A depth \in Nat :
               depth + after[1] > Len(text)
                   => EndsAt(Calls(text)[depth].comma_field[after[1]], after[n],
                             Behind(values, 1))
<1>1. /\ \A i \in 1 .. n : after[i] \in Nat \ {0} /\ after[i] <= Len(text)
      /\ \A i \in 1 .. n - 1 :
             /\ after[i] < after[i + 1]
             /\ Holds(text, after[i], <<",">>)
             /\ Holds(text, after[i] + 1, fields[i + 1])
             /\ after[i + 1] = after[i] + 1 + Len(fields[i + 1])
    BY Zenon DEF Follows
<1>2. PICK follow : \A d \in Nat : follow[d] = Calls(text)[d].comma_field
  <2> DEFINE f == [d \in Nat |-> Calls(text)[d].comma_field]
  <2>1. \A d \in Nat : f[d] = Calls(text)[d].comma_field
      OBVIOUS
  <2> QED BY <2>1, Zenon
<1>3. ASSUME NEW d \in Nat \ {0} PROVE EndsAt(follow[d][after[n]], after[n], <<>>)
  <2>1. n \in 1 .. n
      OBVIOUS
  <2>2. after[n] \in Nat /\ d \in Nat
      BY <1>1, <2>1
  <2> QED BY <1>2, <2>2, CommaFieldEnds
<1>4. ASSUME NEW i \in 1 .. n - 1, NEW d \in Nat \ {0}, NEW content,
             d + after[i] > Len(text),
             EndsAt(follow[d - 1][after[i + 1]], after[n], content)
      PROVE  EndsAt(follow[d][after[i]], after[n], <<values[i + 1]>> \o content)
  <2>1. d \in Nat /\ d - 1 \in Nat /\ i + 1 \in 1 .. n
      OBVIOUS
  <2>2. ReadableField(fields[i + 1], values[i + 1])
      BY <2>1 DEF FieldsReadAs
  <2>3. EndsAt(Calls(text)[d - 1].comma_field[after[i] + 1 + Len(fields[i + 1])], after[n],
               content)
      BY <1>1, <1>2, <1>4, <2>1
  <2>4. EndsAt(Calls(text)[d].comma_field[after[i]], after[n], <<values[i + 1]>> \o content)
      BY <1>1, <1>4, <2>2, <2>3, CommaFieldStep
  <2> QED BY <1>2, <2>1, <2>2, <2>4
<1>5. PICK length \in Nat : length = Len(text)
    BY SeqLen
<1>6. \A i \in 1 .. n : \A d \in Nat :
          d + after[i] > length => EndsAt(follow[d][after[i]], after[n], Behind(values, i))
  <2>1. \A i \in 1 .. n : after[i] \in Nat /\ after[i] <= length
      BY <1>1, <1>5
  <2>2. \A i \in 1 .. n - 1 : after[i] < after[i + 1]
      BY <1>1
  <2>3. \A i \in 1 .. n - 1 : \A d \in Nat \ {0} : \A content :
               /\ d + after[i] > length
               /\ EndsAt(follow[d - 1][after[i + 1]], after[n], content)
               => EndsAt(follow[d][after[i]], after[n], <<values[i + 1]>> \o content)
      BY <1>4, <1>5
  <2> QED BY <1>3, <2>1, <2>2, <2>3, RestsEnd DEF FieldsReadAs
<1>7. 1 \in 1 .. n
    OBVIOUS
<1> QED BY <1>2, <1>5, <1>6, <1>7

\* Fields are enclosed in braces.
LEMMA BracesEnclosed ==
    ASSUME NEW fields
    PROVE  Braces(fields) = Enclosed("{", Joined(fields), "}")
BY DEF Braces, Enclosed

\* The fields between two braces are read.
LEMMA ObjectRead ==
    ASSUME NEW fields, IsSeq(fields), NEW n \in Nat \ {0}, n = Len(fields),
           NEW values, FieldsReadAs(n, fields, values),
           NEW text, IsSeq(text), NEW pos, Holds(text, pos, Braces(fields))
    PROVE  parseJSON_obj_value(text, pos) = Value(ListOf(Interface), values)
<1> DEFINE joined == Joined(fields)
<1>1. IsSeqOfSeqs(fields)
    BY DEF FieldsReadAs, ReadableField, IsSeqOfSeqs
<1>2. IsSeq(joined) /\ Len(joined) \in Nat
    BY <1>1, JoinedType, SeqLen
<1>3. PICK end : end = pos + 1 + Len(joined)
    OBVIOUS
<1>4. /\ Holds(text, pos, <<"{">>) /\ Holds(text, pos + 1, joined)
      /\ Holds(text, end, <<"}">>)
    BY <1>2, <1>3, EnclosedHolds, BracesEnclosed
<1>5. /\ pos \in Nat \ {0} /\ pos <= Len(text) /\ findNextToken(text, pos) = "{"
      /\ end \in Nat \ {0} /\ end <= Len(text) /\ findNextToken(text, end) = "}"
    BY <1>4, HoldsToken
<1>6. PICK after : /\ Follows(text, fields, n, after)
                   /\ Holds(text, pos + 1, fields[1])
                   /\ after[1] = pos + 1 + Len(fields[1])
                   /\ after[n] = end
  <2>1. pos + 1 \in Nat \ {0} /\ end = (pos + 1) + Len(Joined(fields)) /\ end <= Len(text)
    <3>1. pos \in Nat \ {0} /\ Len(joined) \in Nat /\ end <= Len(text)
        BY <1>2, <1>5
    <3> QED BY ONLY <1>3, <3>1
  <2>2. Holds(text, pos + 1, Joined(fields))
      BY <1>4
  <2> QED BY <1>1, <2>1, <2>2, JoinedFollows
<1>7. 1 \in 1 .. n
    OBVIOUS
<1>8. ReadableField(fields[1], values[1]) /\ IsSeq(values)
    BY <1>7 DEF FieldsReadAs
<1>9. PICK calls : calls = Calls(text)[Len(text)]
    OBVIOUS
<1>10. PICK first : first = parseJSON_field(calls, text, pos + 1)
    OBVIOUS
<1>11. PICK rest : rest = calls.comma_field[first.pos]
    OBVIOUS
<1>12. PICK length : length = Len(text)
    OBVIOUS
<1>13. length \in Nat /\ length + (pos + 1) > length
  <2>1. length \in Nat /\ pos \in Nat
      BY <1>5, <1>12, SeqLen
  <2> QED BY ONLY <2>1
<1>14. first.value = values[1] /\ first.pos = after[1]
  <2>1. first = At(values[1], after[1])
      BY <1>6, <1>8, <1>9, <1>10, <1>12, <1>13 DEF ReadableField
  <2> QED BY <2>1, AtFields
<1>15. EndsAt(rest, end, Behind(values, 1))
  <2>1. NoComma(text, end)
      BY <1>5 DEF NoComma
  <2>2. length + after[1] > length
    <3>1. PICK here : here = after[1]
        OBVIOUS
    <3>2. here \in Nat \ {0}
        BY <1>6, <1>7, <3>1 DEF Follows
    <3>3. length + here > length
        BY ONLY <3>2, <1>13
    <3> QED BY <3>1, <3>3
  <2>3. NoComma(text, after[n])
      BY <1>6, <2>1
  <2>4. EndsAt(Calls(text)[length].comma_field[after[1]], after[n], Behind(values, 1))
      BY <1>6, <1>12, <1>13, <2>2, <2>3, CommaFieldsRead
  <2> QED BY <1>6, <1>9, <1>11, <1>12, <1>14, <2>4
<1>16. <<values[1]>> \o Behind(values, 1) = values
  <2>1. 0 \in Nat /\ 0 < Len(values) /\ 0 + 1 = 1
      BY DEF FieldsReadAs
  <2>2. <<values[0 + 1]>> \o Behind(values, 0 + 1) = Behind(values, 0)
      BY <1>8, <2>1, BehindNext
  <2> QED BY <1>8, <2>1, <2>2, BehindNone
<1>17. parseJSON_obj_value(text, pos)
         = Value(ListOf(Interface), <<first.value>> \o rest.value.content)
  <2>1. IsValid(first.value)
      BY <1>8, <1>14 DEF ReadableField
  <2>2. ~IsError(rest.value) /\ findNextToken(text, rest.pos) = "}"
      BY <1>5, <1>15 DEF EndsAt
  <2> QED BY <1>5, <1>9, <1>10, <1>11, <2>1, <2>2, Zenon DEF parseJSON_obj_value
<1>18. <<first.value>> \o rest.value.content = values
    BY <1>14, <1>15, <1>16 DEF EndsAt
<1> QED BY <1>17, <1>18

\* A field with a time that is quoted twice.
TwiceQuoted(date) == <<"time", Quote>> \o FormatTimeAsJavascriptDate(date) \o <<Quote>>

\* A time that is quoted twice starts with the word time and two quotes.
LEMMA TwiceQuotedHolds ==
    ASSUME NEW text, IsSeq(text), NEW pos, Holds(text, pos, TwiceQuoted(Date))
    PROVE  Holds(text, pos, <<"time", Quote, Quote>>)
<1>1. PICK start, quoted, last :
          start = <<"time", Quote>> /\ quoted = Quoted(Date) /\ last = <<Quote>>
    OBVIOUS
<1>2. IsSeq(start) /\ IsSeq(quoted) /\ IsSeq(last)
    BY <1>1, SeqTwo, SeqOne, QuotedType
<1>3. Len(start) = 2
    BY <1>1
<1>4. TwiceQuoted(Date) = (start \o quoted) \o last
    BY <1>1 DEF TwiceQuoted, FormatTimeAsJavascriptDate
<1>5. PICK both : both = start \o quoted
    OBVIOUS
<1>6. IsSeq(both)
    BY <1>2, <1>5, SeqConcat
<1>7. Holds(text, pos, both)
    BY <1>2, <1>4, <1>5, <1>6, HoldsConcat
<1>8. Holds(text, pos, start) /\ Holds(text, pos + 2, quoted)
    BY <1>2, <1>3, <1>5, <1>7, HoldsConcat
<1>9. pos \in Nat \ {0} /\ text[pos] = "time" /\ text[pos + 1] = Quote
    BY <1>1, <1>8, HoldsTokens2
<1>10. text[pos + 2] = Quote /\ pos + 2 <= Len(text)
  <2>1. quoted # <<>> /\ quoted[1] = Quote
      BY <1>1, QuotedType
  <2>2. pos + 2 <= Len(text) /\ Len(text) \in Nat /\ findNextToken(text, pos + 2) = Quote
      BY <1>2, <1>8, <2>1, HoldsFirst
  <2>3. ~(pos + 2 > Len(text))
    <3>1. PICK length : length = Len(text)
        OBVIOUS
    <3>2. length \in Nat /\ pos + 2 <= length /\ pos \in Nat
        BY <1>9, <2>2, <3>1
    <3>3. ~(pos + 2 > length)
        BY ONLY <3>2
    <3> QED BY <3>1, <3>3
  <2> QED BY <2>2, <2>3, Zenon DEF findNextToken
<1>11. PICK piece : piece = <<"time", Quote, Quote>>
    OBVIOUS
<1>12. Len(piece) = 3 /\ piece[1] = "time" /\ piece[2] = Quote /\ piece[3] = Quote
    BY <1>11
<1>13. pos \in Nat \ {0} /\ pos + 1 - 1 = pos /\ pos + 2 - 1 = pos + 1 /\ pos + 3 - 1 = pos + 2
  <2>1. pos \in Nat \ {0}
      BY <1>9
  <2> QED BY ONLY <2>1
<1>14. pos + 3 <= Len(text) + 1
  <2>1. PICK length : length = Len(text)
      OBVIOUS
  <2>2. length \in Nat /\ pos + 2 <= length
      BY <1>10, <2>1, SeqLen
  <2>3. pos + 3 <= length + 1
      BY ONLY <1>13, <2>2
  <2> QED BY <2>1, <2>3
<1>15. \A i \in 1 .. 3 : text[pos + i - 1] = piece[i]
  <2>1. \A i \in 1 .. 3 : i = 1 \/ i = 2 \/ i = 3
      OBVIOUS
  <2> QED BY <1>9, <1>10, <1>12, <1>13, <2>1, Zenon
<1>16. Holds(text, pos, piece)
    BY <1>12, <1>13, <1>14, <1>15 DEF Holds
<1> QED BY <1>11, <1>16

\* What is between the two quotes, nothing, is not a date.
LEMMA TwiceQuotedFails ==
    ASSUME NEW text, IsSeq(text), NEW pos, Holds(text, pos, TwiceQuoted(Date)),
           NEW depth \in Nat, depth + pos > Len(text)
    PROVE  Calls(text)[depth].value[pos] = At(Failure, pos)
<1>1. Holds(text, pos, <<"time", Quote, Quote>>)
    BY TwiceQuotedHolds
<1>2. parseJSON_simple_value(text, pos) = At(Failure, pos)
    BY <1>1, SimpleTimeTwiceQuoted
<1>3. PICK piece : piece = <<"time", Quote, Quote>>
    OBVIOUS
<1>4. IsSeq(piece) /\ piece # <<>> /\ piece[1] = "time"
    BY <1>3, SeqThree
<1>5. /\ pos \in Nat \ {0} /\ pos <= Len(text) /\ Len(text) \in Nat
      /\ findNextToken(text, pos) = "time"
    BY <1>1, <1>3, <1>4, HoldsFirst
<1>6. depth \in Nat \ {0}
  <2>1. pos \in Nat /\ pos <= Len(text) /\ Len(text) \in Nat
      BY <1>5
  <2>2. depth \in Nat /\ depth + pos > Len(text)
      OBVIOUS
  <2> QED BY ONLY <2>1, <2>2
<1>7. Calls(text)[depth].value[pos] = parseJSON_value(Calls(text)[depth - 1], text, pos)
    BY <1>5, <1>6, ValueAt
<1>8. findNextToken(text, pos) # "" /\ findNextToken(text, pos) # "["
    BY <1>5
<1>9. parseJSON_value(Calls(text)[depth - 1], text, pos) = parseJSON_simple_value(text, pos)
    BY <1>8, Zenon DEF parseJSON_value
<1> QED BY <1>2, <1>7, <1>9

\* So the field is not read.
LEMMA FieldFails ==
    ASSUME NEW name, IsName(name), NEW text, IsSeq(text), NEW pos,
           Holds(text, pos, Field(name, TwiceQuoted(Date))), NEW depth \in Nat,
           depth + pos > Len(text)
    PROVE  parseJSON_field(Calls(text)[depth], text, pos) = At(Failure, pos)
<1> DEFINE piece == TwiceQuoted(Date)
<1>1. IsSeq(piece)
  <2>1. PICK start, quoted, last :
            start = <<"time", Quote>> /\ quoted = Quoted(Date) /\ last = <<Quote>>
      OBVIOUS
  <2>2. IsSeq(start) /\ IsSeq(quoted) /\ IsSeq(last)
      BY <2>1, SeqTwo, SeqOne, QuotedType
  <2>3. TwiceQuoted(Date) = (start \o quoted) \o last
      BY <2>1 DEF TwiceQuoted, FormatTimeAsJavascriptDate
  <2>4. IsSeq(start \o quoted)
      BY <2>2, SeqConcat
  <2> QED BY <2>2, <2>3, <2>4, SeqConcat
<1>2. /\ Holds(text, pos, Quoted(name))
      /\ Holds(text, pos + Len(Quoted(name)), <<":">>)
      /\ Holds(text, pos + Len(Quoted(name)) + 1, piece)
    BY <1>1, FieldHolds
<1>3. /\ pos \in Nat \ {0} /\ Len(Quoted(name)) = 3
      /\ findNextToken(text, pos) = Quote
      /\ PositionOf(Quote, text, pos + 1) = pos + 2
    BY <1>2, NameAt
<1>4. PICK calls : calls = Calls(text)[depth]
    OBVIOUS
<1>5. PICK field : field = calls.value[pos + 4]
    OBVIOUS
<1>6. (pos + 2) + 2 = pos + 4 /\ pos + 3 + 1 = pos + 4
  <2>1. pos \in Nat
      BY <1>3
  <2> QED BY ONLY <2>1
<1>7. depth + (pos + 4) > Len(text)
  <2>1. Len(text) \in Nat /\ depth \in Nat /\ depth + pos > Len(text)
      BY SeqLen
  <2>2. pos \in Nat
      BY <1>3
  <2> QED BY ONLY <2>1, <2>2
<1>8. Holds(text, pos + 4, piece)
    BY <1>2, <1>3, <1>6
<1>9. field = At(Failure, pos + 4)
    BY <1>4, <1>5, <1>7, <1>8, TwiceQuotedFails
<1>10. field.value = Failure /\ ~IsValid(Failure)
  <2>1. field.value = Failure
      BY <1>9, AtFields
  <2>2. ~IsValid(Failure)
      BY Zenon DEF IsValid
  <2> QED BY <2>1, <2>2
<1>11. parseJSON_field(calls, text, pos) = At(Failure, pos)
    BY <1>3, <1>5, <1>6, <1>10, Zenon DEF parseJSON_field
<1> QED BY <1>4, <1>11

\* An object whose second field cannot be read.
LEMMA ObjectFails ==
    ASSUME NEW fields, IsSeqOfSeqs(fields), NEW n \in Nat \ {0, 1}, n = Len(fields),
           NEW value, ReadableField(fields[1], value),
           NEW name, IsName(name), fields[2] = Field(name, TwiceQuoted(Date)),
           NEW text, IsSeq(text), NEW pos, Holds(text, pos, Braces(fields))
    PROVE  parseJSON_obj_value(text, pos) = Failure
<1> DEFINE joined == Joined(fields)
<1>1. IsSeq(joined) /\ Len(joined) \in Nat
    BY JoinedType, SeqLen
<1>2. PICK end : end = pos + 1 + Len(joined)
    OBVIOUS
<1>3. /\ Holds(text, pos, <<"{">>) /\ Holds(text, pos + 1, joined)
      /\ Holds(text, end, <<"}">>)
    BY <1>1, <1>2, EnclosedHolds, BracesEnclosed
<1>4. /\ pos \in Nat \ {0} /\ pos <= Len(text) /\ findNextToken(text, pos) = "{"
      /\ end \in Nat \ {0} /\ end <= Len(text)
    BY <1>3, HoldsToken
<1>5. PICK after : /\ Follows(text, fields, n, after)
                   /\ Holds(text, pos + 1, fields[1])
                   /\ after[1] = pos + 1 + Len(fields[1])
  <2>1. pos + 1 \in Nat \ {0} /\ end = (pos + 1) + Len(Joined(fields)) /\ end <= Len(text)
    <3>1. pos \in Nat \ {0} /\ Len(joined) \in Nat /\ end <= Len(text)
        BY <1>1, <1>4
    <3> QED BY ONLY <1>2, <3>1
  <2>2. Holds(text, pos + 1, Joined(fields))
      BY <1>3
  <2>3. n \in Nat \ {0}
      OBVIOUS
  <2>4. \E after : /\ Follows(text, fields, n, after)
                   /\ Holds(text, pos + 1, fields[1])
                   /\ after[1] = (pos + 1) + Len(fields[1])
                   /\ after[n] = end
      BY <2>1, <2>2, <2>3, JoinedFollows
  <2> QED BY <2>4
<1>6. PICK here : here = after[1]
    OBVIOUS
<1>7. /\ here \in Nat \ {0} /\ here <= Len(text)
      /\ Holds(text, here, <<",">>) /\ Holds(text, here + 1, fields[2])
  <2>1. 1 \in 1 .. n /\ 1 \in 1 .. n - 1 /\ 1 + 1 = 2
      OBVIOUS
  <2>2. after[1] \in Nat \ {0} /\ after[1] <= Len(text)
      BY <1>5, <2>1, Zenon DEF Follows
  <2>3. Holds(text, after[1], <<",">>) /\ Holds(text, after[1] + 1, fields[1 + 1])
      BY <1>5, <2>1, Zenon DEF Follows
  <2> QED BY <1>6, <2>1, <2>2, <2>3
<1>8. findNextToken(text, here) = ","
    BY <1>7, HoldsToken
<1>9. PICK length : length = Len(text)
    OBVIOUS
<1>10. /\ length \in Nat \ {0} /\ length - 1 \in Nat
       /\ length + (pos + 1) > length /\ (length - 1) + (here + 1) > length
  <2>1. length \in Nat /\ pos \in Nat /\ here \in Nat \ {0} /\ here <= length
      BY <1>4, <1>7, <1>9, SeqLen
  <2> QED BY ONLY <2>1
<1>11. PICK calls : calls = Calls(text)[length]
    OBVIOUS
<1>12. PICK first : first = parseJSON_field(calls, text, pos + 1)
    OBVIOUS
<1>13. PICK rest : rest = calls.comma_field[first.pos]
    OBVIOUS
<1>14. first.value = value /\ first.pos = here
  <2>1. first = At(value, here)
      BY <1>5, <1>6, <1>9, <1>10, <1>11, <1>12 DEF ReadableField
  <2> QED BY <2>1, AtFields
<1>15. IsError(rest.value)
  <2>1. rest = parseJSON_comma_field(Calls(text)[length - 1], text, here)
      BY <1>7, <1>10, <1>11, <1>13, <1>14, ValueAt
  <2>2. PICK second : second = parseJSON_field(Calls(text)[length - 1], text, here + 1)
      OBVIOUS
  <2>3. second = At(Failure, here + 1)
    <3>1. Holds(text, here + 1, Field(name, TwiceQuoted(Date)))
        BY <1>7
    <3> QED BY <1>9, <1>10, <2>2, <3>1, FieldFails
  <2>4. second.value = Failure
      BY <2>3, AtFields
  <2>5. IsError(second.value)
      BY <2>4, Zenon DEF IsError
  <2>6. rest = second
      BY <1>8, <2>1, <2>2, <2>5, Zenon DEF parseJSON_comma_field
  <2> QED BY <2>5, <2>6
<1>16. IsValid(first.value)
    BY <1>14 DEF ReadableField
<1> QED BY <1>4, <1>9, <1>11, <1>12, <1>13, <1>15, <1>16, Zenon DEF parseJSON_obj_value

(***************************************************************************)
(* Objects.                                                                *)
(***************************************************************************)

\* A text holds itself.
LEMMA HoldsItself ==
    ASSUME NEW text, IsSeq(text)
    PROVE  Holds(text, 1, text)
<1>1. PICK length \in Nat : length = Len(text)
    BY SeqLen
<1>2. 1 + length <= length + 1 /\ \A i \in 1 .. length : 1 + i - 1 = i
    OBVIOUS
<1>3. \A i \in 1 .. length : text[1 + i - 1] = text[i]
    BY <1>2
<1> QED BY <1>1, <1>2, <1>3 DEF Holds

\* Fields between braces are a text.
LEMMA BracesType ==
    ASSUME NEW fields, IsSeqOfSeqs(fields)
    PROVE  IsSeq(Braces(fields))
BY BracesEnclosed, EnclosedType, JoinedType

\* The name of the type is the first thing in a text, and is found.
LEMMA NamedHolds ==
    ASSUME NEW typeName, IsName(typeName), NEW fields, IsSeqOfSeqs(fields)
    PROVE  LET text == Named(typeName, fields)
           IN /\ IsSeq(text)
              /\ Holds(text, 5, Braces(fields))
              /\ retrieveTypeName(text) = [typeName |-> typeName, pos |-> 5]
<1>1. PICK text : text = Named(typeName, fields)
    OBVIOUS
<1>2. IsSeq(Braces(fields)) /\ text = Field(typeName, Braces(fields))
    BY <1>1, BracesType DEF Named
<1>3. IsSeq(text)
    BY <1>2, FieldType
<1>4. /\ Holds(text, 1, Quoted(typeName))
      /\ Holds(text, 1 + Len(Quoted(typeName)), <<":">>)
      /\ Holds(text, 1 + Len(Quoted(typeName)) + 1, Braces(fields))
    BY <1>2, <1>3, FieldHolds, HoldsItself
<1>5. /\ Len(Quoted(typeName)) = 3
      /\ PositionOf(Quote, text, 1) = 1
      /\ PositionOf(Quote, text, 1 + 1) = 1 + 2
      /\ Between(text, 1, 1 + 2) = typeName
      /\ PositionOf(":", text, 1 + 2) = 1 + 3
    BY <1>3, <1>4, NameAt
<1>6. 1 + 3 + 1 = 5 /\ 1 + 2 = 3 /\ 1 + 3 = 4 /\ 3 # 0 /\ 4 # 0 /\ 4 + 1 = 5
    OBVIOUS
<1>7. Holds(text, 5, Braces(fields))
    BY <1>4, <1>5, <1>6
<1>8. retrieveTypeName(text) = [typeName |-> typeName, pos |-> 5]
    BY <1>5, <1>6, Zenon DEF retrieveTypeName
<1> QED BY <1>1, <1>3, <1>7, <1>8

\* An object is made of what stands between the braces behind the name.
LEMMA NamedReconstituted ==
    ASSUME NEW typeName, IsName(typeName), NEW fields, IsSeqOfSeqs(fields)
    PROVE  ReconstituteObject(Named(typeName, fields))
               = ReconstituteFields(typeName, parseJSON_obj_value(Named(typeName, fields), 5))
<1>1. PICK text : text = Named(typeName, fields)
    OBVIOUS
<1>2. PICK name : name = retrieveTypeName(text)
    OBVIOUS
<1>3. name = [typeName |-> typeName, pos |-> 5]
    BY <1>1, <1>2, NamedHolds
<1>4. name.typeName = typeName /\ name.pos = 5 /\ 5 # -1
    BY <1>3
<1>5. ReconstituteNamed(text, name) = ReconstituteFields(typeName, parseJSON_obj_value(text, 5))
    BY <1>4, Zenon DEF ReconstituteNamed
<1> QED BY <1>1, <1>2, <1>5 DEF ReconstituteObject

\* An object that is written with the name of its type is made again from the
\* values of its fields.
LEMMA NamedRead ==
    ASSUME NEW typeName, IsName(typeName), typeName \in DOMAIN MethodByName,
           NEW fields, IsSeq(fields), NEW n \in Nat \ {0}, n = Len(fields),
           NEW values, FieldsReadAs(n, fields, values)
    PROVE  ReconstituteObject(Named(typeName, fields))
               = Reconstitute(typeName, MethodByName[typeName], values)
<1>1. IsSeqOfSeqs(fields)
    BY DEF FieldsReadAs, ReadableField, IsSeqOfSeqs
<1>2. PICK text : text = Named(typeName, fields)
    OBVIOUS
<1>3. PICK read : read = parseJSON_obj_value(text, 5)
    OBVIOUS
<1>4. read = Value(ListOf(Interface), values)
    BY <1>1, <1>2, <1>3, NamedHolds, ObjectRead
<1>5. read.content = values /\ ~IsError(read)
  <2>1. ListOf(Interface) # Failure.type
      BY ListType, SeqOne DEF Interface
  <2>2. read.type = ListOf(Interface) /\ read.content = values
      BY <1>4, ValueFields
  <2> QED BY <2>1, <2>2, Zenon DEF IsError
<1>6. ReconstituteFields(typeName, read)
          = Reconstitute(typeName, MethodByName[typeName], values)
    BY <1>5, Zenon DEF ReconstituteFields
<1> QED BY <1>1, <1>2, <1>3, <1>6, NamedReconstituted

\* An object with a time that is quoted twice is not made again.
LEMMA NamedFails ==
    ASSUME NEW typeName, IsName(typeName),
           NEW fields, IsSeqOfSeqs(fields), NEW n \in Nat \ {0, 1}, n = Len(fields),
           NEW value, ReadableField(fields[1], value),
           NEW name, IsName(name), fields[2] = Field(name, TwiceQuoted(Date))
    PROVE  ReconstituteObject(Named(typeName, fields)) = Error
<1>1. PICK text : text = Named(typeName, fields)
    OBVIOUS
<1>2. PICK read : read = parseJSON_obj_value(text, 5)
    OBVIOUS
<1>3. read = Failure
    BY <1>1, <1>2, NamedHolds, ObjectFails
<1>4. ReconstituteFields(typeName, read) = Error
    BY <1>3, Zenon DEF ReconstituteFields, IsError
<1> QED BY <1>1, <1>2, <1>4, NamedReconstituted

\* An object that is written without the name of its type is not made again:
\* the name of its first field, Id, is taken for it.
LEMMA NamelessFails ==
    ASSUME NEW text, IsSeq(text), NEW pos, NEW rest, IsSeq(rest),
           Holds(text, pos, Field("Id", rest)), \A p \in 1 .. pos - 1 : text[p] # Quote
    PROVE  ReconstituteObject(text) = Error
<1>1. IsName("Id")
    BY DEF IsName, Quote
<1>2. /\ Holds(text, pos, Quoted("Id"))
      /\ Holds(text, pos + Len(Quoted("Id")), <<":">>)
    BY FieldHolds
<1>3. /\ pos \in Nat \ {0}
      /\ findNextToken(text, pos) = Quote
      /\ PositionOf(Quote, text, pos + 1) = pos + 2
      /\ Between(text, pos, pos + 2) = "Id"
      /\ PositionOf(":", text, pos + 2) = pos + 3
      /\ pos + 3 <= Len(text)
    BY <1>1, <1>2, NameAt
<1>4. pos \in Nat \ {0} /\ pos + 2 # 0 /\ pos + 3 # 0 /\ pos + 3 + 1 # -1
  <2>1. pos \in Nat
      BY <1>3
  <2> QED BY ONLY <2>1, <1>3
<1>5. PositionOf(Quote, text, 1) = pos
  <2>1. Len(text) \in Nat
      BY SeqLen
  <2>2. pos \in 1 .. Len(text) /\ ~(pos > Len(text))
    <3>1. PICK length : length = Len(text)
        OBVIOUS
    <3>2. length \in Nat /\ pos + 3 <= length
        BY <1>3, <2>1, <3>1
    <3>3. pos \in 1 .. length /\ ~(pos > length)
        BY ONLY <1>4, <3>2
    <3> QED BY <3>1, <3>3
  <2>3. text[pos] = Quote
      BY <1>3, <2>2, Zenon DEF findNextToken
  <2> QED BY <2>2, <2>3, PositionFound
<1>6. PICK name : name = retrieveTypeName(text)
    OBVIOUS
<1>7. name = [typeName |-> "Id", pos |-> pos + 3 + 1]
    BY <1>3, <1>4, <1>5, <1>6, Zenon DEF retrieveTypeName
<1>8. name.typeName = "Id" /\ name.pos # -1
    BY <1>4, <1>7
<1>9. "Id" \notin DOMAIN MethodByName
    BY DEF MethodByName
<1>10. ReconstituteNamed(text, name) = Error
    BY <1>8, <1>9, Zenon DEF ReconstituteNamed, ReconstituteFields
<1> QED BY <1>6, <1>10 DEF ReconstituteObject

=============================================================================
