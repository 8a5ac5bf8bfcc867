---------------------------- MODULE PrintfProofs ----------------------------
(***************************************************************************)
(* Proofs about Printf for every directive, argument and size of a buffer: *)
(* the walk over a directive never runs out of format or arguments, what   *)
(* reaches the caller's buffer, and that the text is the one C's printf    *)
(* writes.  Texts and numerals come first, then the walk, what it has read *)
(* at each of its stages, what the conversions write, and what C's do.     *)
(***************************************************************************)
EXTENDS Printf, Induction, SequenceTheorems, TLAPS

-----------------------------------------------------------------------------
(* Texts.                                                                  *)

\* A sequence of anything is a text.
LEMMA SeqIsText ==
  ASSUME NEW S, NEW s \in Seq(S)
  PROVE  IsText(s)
<1>1. s = [i \in 1..Len(s) |-> s[i]] /\ Len(s) \in Nat /\ DOMAIN s = 1..Len(s)
  OBVIOUS
<1>2. \A i \in 1..Len(s) : s[i] \in Range(s)
  BY <1>1 DEF Range
<1> QED
  BY <1>1, <1>2 DEF IsText

\* A text is determined by its length and its characters.
LEMMA TextIs ==
  ASSUME NEW s, IsText(s)
  PROVE  Len(s) \in Nat /\ DOMAIN s = 1..Len(s) /\ s = [i \in 1..Len(s) |-> s[i]]
BY DEF IsText

\* One text after another.
LEMMA Chained ==
  ASSUME NEW s, NEW t, IsText(s), IsText(t)
  PROVE  /\ IsText(s \o t) /\ Len(s \o t) = Len(s) + Len(t)
         /\ \A i \in 1..(Len(s) + Len(t)) :
              (s \o t)[i] = IF i <= Len(s) THEN s[i] ELSE t[i - Len(s)]
<1> DEFINE S == Range(s) \cup Range(t)
<1>1. s \in Seq(S) /\ t \in Seq(S)
  BY DEF IsText
<1> HIDE DEF S
<1>2. s \o t \in Seq(S)
  BY <1>1
<1>3. IsText(s \o t)
  BY <1>2, SeqIsText
<1> QED
  BY <1>1, <1>3

\* What is written as a function of the positions.
LEMMA Tabled ==
  ASSUME NEW n \in Int, NEW f, f = [i \in 1..n |-> f[i]]
  PROVE  IsText(f) /\ Len(f) = IF n > 0 THEN n ELSE 0
<1> DEFINE m == IF n > 0 THEN n ELSE 0
           S == {f[i] : i \in 1..n}
<1>1. m \in Nat /\ 1..n = 1..m
  OBVIOUS
<1>2. f \in [1..m -> S]
  BY <1>1
<1>3. f \in Seq(S) /\ Len(f) = m
  <2> HIDE DEF m, S
  <2>1. f \in Seq(S)
    BY <1>1, <1>2, SeqDef
  <2>2. DOMAIN f = 1..m /\ DOMAIN f = 1..Len(f) /\ Len(f) \in Nat
    BY <1>2, <2>1, LenProperties
  <2>3. Len(f) = m
    <3>1. \A i \in Nat : i \in 1..m <=> i \in 1..Len(f)
      BY <2>2
    <3> QED
      BY ONLY <1>1, <2>2, <3>1
  <2> QED
    BY <2>1, <2>3
<1>4. IsText(f)
  <2> HIDE DEF S
  <2> QED
    BY <1>3, SeqIsText
<1> QED
  BY <1>3, <1>4

\* A piece of a text.
LEMMA PartText ==
  ASSUME NEW s, IsText(s), NEW m \in 1..(Len(s) + 1), NEW n \in 0..Len(s)
  PROVE  /\ IsText(SubSeq(s, m, n))
         /\ Len(SubSeq(s, m, n)) = IF m <= n THEN n - m + 1 ELSE 0
         /\ \A i \in 1..(n - m + 1) : SubSeq(s, m, n)[i] = s[m + i - 1]
<1> DEFINE S == Range(s)
<1>1. s \in Seq(S) /\ Len(s) \in Nat
  BY DEF IsText
<1> HIDE DEF S
<1>2. SubSeq(s, m, n) \in Seq(S)
  BY <1>1
<1>3. IsText(SubSeq(s, m, n))
  BY <1>2, SeqIsText
<1> QED
  BY <1>1, <1>3

\* A text of one character.
LEMMA OneText ==
  ASSUME NEW c
  PROVE  IsText(<<c>>) /\ Len(<<c>>) = 1 /\ <<c>>[1] = c
<1>1. <<c>> \in Seq({c})
  OBVIOUS
<1> QED
  BY <1>1, SeqIsText

\* Two texts of the same characters are the same.
LEMMA SameText ==
  ASSUME NEW s, NEW t, IsText(s), IsText(t), Len(s) = Len(t),
         \A i \in 1..Len(s) : s[i] = t[i]
  PROVE  s = t
<1>1. s = [i \in 1..Len(s) |-> s[i]] /\ t = [i \in 1..Len(s) |-> t[i]]
  BY TextIs
<1>2. [i \in 1..Len(s) |-> s[i]] = [i \in 1..Len(s) |-> t[i]]
  OBVIOUS
<1> QED
  BY <1>1, <1>2, Zenon

\* The empty text.
LEMMA NoText == IsText(<<>>) /\ Len(<<>>) = 0
<1>1. <<>> \in Seq({}) /\ Len(<<>>) = 0
  OBVIOUS
<1> QED
  BY <1>1, SeqIsText

\* Chaining is associative, and nothing adds nothing.
LEMMA Associated ==
  ASSUME NEW a, NEW b, NEW c, IsText(a), IsText(b), IsText(c)
  PROVE  (a \o b) \o c = a \o (b \o c)
<1> DEFINE d == a \o b
           e == b \o c
<1>1. Len(a) \in Nat /\ Len(b) \in Nat /\ Len(c) \in Nat
  BY TextIs
<1>2. /\ IsText(d) /\ Len(d) = Len(a) + Len(b)
      /\ \A i \in 1..(Len(a) + Len(b)) : d[i] = IF i <= Len(a) THEN a[i] ELSE b[i - Len(a)]
  BY Chained
<1>3. /\ IsText(e) /\ Len(e) = Len(b) + Len(c)
      /\ \A i \in 1..(Len(b) + Len(c)) : e[i] = IF i <= Len(b) THEN b[i] ELSE c[i - Len(b)]
  BY Chained
<1> HIDE DEF d, e
<1> DEFINE l == d \o c
           r == a \o e
<1>4. /\ IsText(l) /\ Len(l) = Len(d) + Len(c)
      /\ \A i \in 1..(Len(d) + Len(c)) : l[i] = IF i <= Len(d) THEN d[i] ELSE c[i - Len(d)]
  BY <1>2, Chained
<1>5. /\ IsText(r) /\ Len(r) = Len(a) + Len(e)
      /\ \A i \in 1..(Len(a) + Len(e)) : r[i] = IF i <= Len(a) THEN a[i] ELSE e[i - Len(a)]
  BY <1>3, Chained
<1> HIDE DEF l, r
<1>6. Len(l) = Len(a) + Len(b) + Len(c) /\ Len(r) = Len(l)
  BY <1>1, <1>2, <1>3, <1>4, <1>5
<1>7. ASSUME NEW i \in 1..Len(l) PROVE l[i] = r[i]
  <2>1. CASE i <= Len(a)
    <3>1. i \in 1..(Len(a) + Len(b)) /\ i <= Len(d)
      BY <1>1, <1>2, <2>1
    <3>2. i \in 1..(Len(d) + Len(c)) /\ i \in 1..(Len(a) + Len(e))
      BY <1>4, <1>5, <1>6
    <3> QED
      BY <1>2, <1>4, <1>5, <2>1, <3>1, <3>2
  <2>2. CASE ~(i <= Len(a)) /\ i <= Len(a) + Len(b)
    <3>1. i \in 1..(Len(a) + Len(b)) /\ i <= Len(d)
      BY <1>1, <1>2, <2>2
    <3>2. i \in 1..(Len(d) + Len(c)) /\ i \in 1..(Len(a) + Len(e))
      BY <1>4, <1>5, <1>6
    <3>3. l[i] = b[i - Len(a)]
      BY <1>2, <1>4, <2>2, <3>1, <3>2
    <3>4. i - Len(a) \in 1..(Len(b) + Len(c)) /\ i - Len(a) <= Len(b)
      BY <1>1, <2>2
    <3> QED
      BY <1>3, <1>5, <2>2, <3>2, <3>3, <3>4
  <2>3. CASE ~(i <= Len(a) + Len(b))
    <3>1. ~(i <= Len(d)) /\ ~(i <= Len(a))
      BY <1>1, <1>2, <2>3
    <3>2. i \in 1..(Len(d) + Len(c)) /\ i \in 1..(Len(a) + Len(e))
      BY <1>4, <1>5, <1>6
    <3>3. l[i] = c[i - Len(d)]
      BY <1>4, <3>1, <3>2
    <3>4. i - Len(a) \in 1..(Len(b) + Len(c)) /\ ~(i - Len(a) <= Len(b))
          /\ (i - Len(a)) - Len(b) = i - Len(d)
      BY <1>1, <1>2, <1>6, <2>3
    <3> QED
      BY <1>3, <1>5, <3>1, <3>2, <3>3, <3>4
  <2> QED
    BY <1>1, <1>6, <2>1, <2>2, <2>3
<1>8. l = r
  BY <1>4, <1>5, <1>6, <1>7, SameText
<1> QED
  BY <1>8 DEF l, r, d, e

\* Nothing before a text, or behind it, leaves it as it is.
LEMMA NothingChained ==
  ASSUME NEW a, IsText(a)
  PROVE  <<>> \o a = a /\ a \o <<>> = a
<1> DEFINE S == Range(a)
<1>1. a \in Seq(S)
  BY DEF IsText
<1> HIDE DEF S
<1> QED
  BY <1>1

\* The first character of one text after another, and what is behind the first.
LEMMA FrontOf ==
  ASSUME NEW a, NEW b, IsText(a), IsText(b), Len(a) >= 1
  PROVE  Head(a \o b) = a[1]
<1>1. Len(a) \in Nat /\ Len(b) \in Nat
  BY TextIs
<1>2. /\ IsText(a \o b)
      /\ \A i \in 1..(Len(a) + Len(b)) : (a \o b)[i] = IF i <= Len(a) THEN a[i] ELSE b[i - Len(a)]
  BY Chained
<1>3. 1 \in 1..(Len(a) + Len(b))
  BY <1>1
<1> DEFINE h == a \o b
<1> HIDE DEF h
<1>4. Head(h) = h[1]
  OBVIOUS
<1> QED
  BY <1>2, <1>3, <1>4 DEF h

\* What is behind the first of two texts is the second.
LEMMA BehindIs ==
  ASSUME NEW a, NEW b, IsText(a), IsText(b)
  PROVE  SubSeq(a \o b, Len(a) + 1, Len(a \o b)) = b
<1>1. Len(a) \in Nat /\ Len(b) \in Nat
  BY TextIs
<1> DEFINE h == a \o b
           p == SubSeq(h, Len(a) + 1, Len(h))
<1>2. /\ IsText(h) /\ Len(h) = Len(a) + Len(b)
      /\ \A i \in 1..(Len(a) + Len(b)) : h[i] = IF i <= Len(a) THEN a[i] ELSE b[i - Len(a)]
  BY Chained
<1> HIDE DEF h
<1>3. Len(a) + 1 \in 1..(Len(h) + 1) /\ Len(h) \in 0..Len(h)
  BY <1>1, <1>2
<1>4. /\ IsText(p) /\ Len(p) = IF Len(a) + 1 <= Len(h) THEN Len(h) - (Len(a) + 1) + 1 ELSE 0
      /\ \A i \in 1..(Len(h) - (Len(a) + 1) + 1) : p[i] = h[(Len(a) + 1) + i - 1]
  BY <1>2, <1>3, PartText
<1> HIDE DEF p
<1>5. Len(p) = Len(b)
  BY <1>1, <1>2, <1>4
<1>6. ASSUME NEW i \in 1..Len(p) PROVE p[i] = b[i]
  <2>1. /\ i \in 1..(Len(h) - (Len(a) + 1) + 1) /\ (Len(a) + 1) + i - 1 = Len(a) + i
        /\ Len(a) + i \in 1..(Len(a) + Len(b)) /\ ~(Len(a) + i <= Len(a))
        /\ (Len(a) + i) - Len(a) = i
    BY <1>1, <1>2, <1>5
  <2> QED
    BY <1>2, <1>4, <2>1
<1>7. p = b
  BY <1>4, <1>5, <1>6, SameText
<1> QED
  BY <1>7 DEF p, h

\* Texts of one character repeated.
LEMMA RepeatedIs ==
  ASSUME NEW c, NEW n \in Int
  PROVE  /\ IsText(Repeated(c, n)) /\ Len(Repeated(c, n)) = IF n > 0 THEN n ELSE 0
         /\ \A i \in 1..n : Repeated(c, n)[i] = c
<1> DEFINE f == Repeated(c, n)
<1>1. f = [i \in 1..n |-> f[i]] /\ \A i \in 1..n : f[i] = c
  BY DEF Repeated
<1> HIDE DEF f
<1>2. IsText(f) /\ Len(f) = IF n > 0 THEN n ELSE 0
  BY <1>1, Tabled
<1> QED
  BY <1>1, <1>2 DEF f

\* No character repeated no time.
LEMMA RepeatedNone ==
  ASSUME NEW c, NEW n \in Int, n <= 0
  PROVE  Repeated(c, n) = <<>>
<1> DEFINE f == Repeated(c, n)
<1>1. IsText(f) /\ Len(f) = 0
  BY RepeatedIs
<1> HIDE DEF f
<1>2. f = <<>>
  BY <1>1, NoText, SameText
<1> QED
  BY <1>2 DEF f

\* m of them and n of them are m + n of them.
LEMMA RepeatedMore ==
  ASSUME NEW c, NEW m \in Nat, NEW n \in Nat
  PROVE  Repeated(c, m) \o Repeated(c, n) = Repeated(c, m + n)
<1> DEFINE a == Repeated(c, m)
           b == Repeated(c, n)
           r == Repeated(c, m + n)
           h == a \o b
<1>1. /\ IsText(a) /\ Len(a) = m /\ \A i \in 1..m : a[i] = c
      /\ IsText(b) /\ Len(b) = n /\ \A i \in 1..n : b[i] = c
      /\ IsText(r) /\ Len(r) = m + n /\ \A i \in 1..(m + n) : r[i] = c
  <2>1. m + n \in Int
    OBVIOUS
  <2> QED
    BY <2>1, RepeatedIs
<1> HIDE DEF a, b, r
<1>2. /\ IsText(h) /\ Len(h) = m + n
      /\ \A i \in 1..(m + n) : h[i] = IF i <= m THEN a[i] ELSE b[i - m]
  BY <1>1, Chained
<1> HIDE DEF h
<1>3. ASSUME NEW i \in 1..Len(h) PROVE h[i] = r[i]
  <2>1. i \in 1..(m + n) /\ (i <= m => i \in 1..m) /\ (~(i <= m) => i - m \in 1..n)
    BY <1>2
  <2> QED
    BY <1>1, <1>2, <2>1
<1>4. h = r
  BY <1>1, <1>2, <1>3, SameText
<1> QED
  BY <1>4 DEF h, a, b, r

\* Texts backwards.
LEMMA ReverseIs ==
  ASSUME NEW s, IsText(s)
  PROVE  /\ IsText(Reverse(s)) /\ Len(Reverse(s)) = Len(s)
         /\ \A i \in 1..Len(s) : Reverse(s)[i] = s[Len(s) - i + 1]
<1> DEFINE f == Reverse(s)
<1>1. Len(s) \in Nat
  BY TextIs
<1>2. f = [i \in 1..Len(s) |-> f[i]] /\ \A i \in 1..Len(s) : f[i] = s[(Len(s) - i) + 1]
  BY <1>1 DEF Reverse
<1> HIDE DEF f
<1>3. IsText(f) /\ Len(f) = Len(s)
  BY <1>1, <1>2, Tabled
<1> QED
  BY <1>2, <1>3 DEF f

\* Two texts backwards: the second one comes first.
LEMMA ReverseChained ==
  ASSUME NEW a, NEW b, IsText(a), IsText(b)
  PROVE  Reverse(a \o b) = Reverse(b) \o Reverse(a)
<1> DEFINE h == a \o b
           ra == Reverse(a)
           rb == Reverse(b)
           rh == Reverse(h)
           g == rb \o ra
<1>1. Len(a) \in Nat /\ Len(b) \in Nat
  BY TextIs
<1>2. /\ IsText(ra) /\ Len(ra) = Len(a) /\ \A i \in 1..Len(a) : ra[i] = a[Len(a) - i + 1]
      /\ IsText(rb) /\ Len(rb) = Len(b) /\ \A i \in 1..Len(b) : rb[i] = b[Len(b) - i + 1]
  BY ReverseIs
<1>3. /\ IsText(h) /\ Len(h) = Len(a) + Len(b)
      /\ \A i \in 1..(Len(a) + Len(b)) : h[i] = IF i <= Len(a) THEN a[i] ELSE b[i - Len(a)]
  BY Chained
<1> HIDE DEF h, ra, rb
<1>4. IsText(rh) /\ Len(rh) = Len(h) /\ \A i \in 1..Len(h) : rh[i] = h[Len(h) - i + 1]
  BY <1>3, ReverseIs
<1>5. /\ IsText(g) /\ Len(g) = Len(b) + Len(a)
      /\ \A i \in 1..(Len(b) + Len(a)) : g[i] = IF i <= Len(b) THEN rb[i] ELSE ra[i - Len(b)]
  <2>1. IsText(ra) /\ IsText(rb) /\ Len(ra) = Len(a) /\ Len(rb) = Len(b)
    BY <1>2
  <2>2. /\ IsText(g) /\ Len(g) = Len(rb) + Len(ra)
        /\ \A i \in 1..(Len(rb) + Len(ra)) :
             g[i] = IF i <= Len(rb) THEN rb[i] ELSE ra[i - Len(rb)]
    BY <2>1, Chained
  <2> HIDE DEF g
  <2> QED
    BY <2>1, <2>2
<1> HIDE DEF rh, g
<1>6. Len(rh) = Len(g)
  BY <1>1, <1>3, <1>4, <1>5
<1>7. ASSUME NEW i \in 1..Len(rh) PROVE rh[i] = g[i]
  <2> DEFINE j == Len(h) - i + 1
  <2>1. i \in 1..(Len(b) + Len(a)) /\ j \in 1..(Len(a) + Len(b)) /\ rh[i] = h[j]
    BY <1>1, <1>3, <1>4
  <2>2. CASE i <= Len(b)
    <3>1. ~(j <= Len(a)) /\ j - Len(a) = Len(b) - i + 1 /\ i \in 1..Len(b)
      BY <1>1, <1>3, <2>1, <2>2
    <3> HIDE DEF j
    <3> QED
      BY <1>2, <1>3, <1>5, <2>1, <2>2, <3>1
  <2>3. CASE ~(i <= Len(b))
    <3>1. j <= Len(a) /\ i - Len(b) \in 1..Len(a) /\ Len(a) - (i - Len(b)) + 1 = j
      BY <1>1, <1>3, <2>1, <2>3
    <3> HIDE DEF j
    <3> QED
      BY <1>2, <1>3, <1>5, <2>1, <2>3, <3>1
  <2> QED
    BY <2>2, <2>3
<1>8. rh = g
  BY <1>4, <1>5, <1>6, <1>7, SameText
<1> QED
  BY <1>8 DEF rh, g, h, ra, rb

\* What is all the same is the same backwards.
LEMMA ReverseRepeated ==
  ASSUME NEW c, NEW n \in Int
  PROVE  Reverse(Repeated(c, n)) = Repeated(c, n)
<1> DEFINE a == Repeated(c, n)
           r == Reverse(a)
           m == IF n > 0 THEN n ELSE 0
<1>1. m \in Nat /\ 1..m = 1..n
  OBVIOUS
<1>2. IsText(a) /\ Len(a) = m /\ \A i \in 1..m : a[i] = c
  BY <1>1, RepeatedIs
<1> HIDE DEF a, m
<1>3. IsText(r) /\ Len(r) = m /\ \A i \in 1..m : r[i] = a[m - i + 1]
  BY <1>2, ReverseIs
<1> HIDE DEF r
<1>4. \A i \in 1..m : r[i] = a[i]
  <2>1. \A i \in 1..m : m - i + 1 \in 1..m
    BY <1>1
  <2> QED
    BY <1>2, <1>3, <2>1
<1>5. r = a
  BY <1>2, <1>3, <1>4, SameText
<1> QED
  BY <1>5 DEF r, a

\* One character backwards.
LEMMA ReverseOne ==
  ASSUME NEW c
  PROVE  Reverse(<<c>>) = <<c>>
<1> DEFINE a == <<c>>
           r == Reverse(a)
<1>1. IsText(a) /\ Len(a) = 1
  BY OneText
<1> HIDE DEF a
<1>2. IsText(r) /\ Len(r) = 1 /\ \A i \in 1..1 : r[i] = a[1 - i + 1]
  BY <1>1, ReverseIs
<1> HIDE DEF r
<1>3. \A i \in 1..1 : r[i] = a[i]
  <2>1. \A i \in 1..1 : 1 - i + 1 = i
    OBVIOUS
  <2> QED
    BY <1>2, <2>1
<1>4. r = a
  BY <1>1, <1>2, <1>3, SameText
<1> QED
  BY <1>4 DEF r, a

\* One character before a text: what is in front and what is behind it.
LEMMA FrontOne ==
  ASSUME NEW c, NEW b, IsText(b)
  PROVE  /\ IsText(<<c>> \o b) /\ Head(<<c>> \o b) = c
         /\ Len(<<c>> \o b) = 1 + Len(b) /\ Len(b) \in Nat
         /\ Tail(<<c>> \o b) = b /\ SubSeq(<<c>> \o b, 2, Len(<<c>> \o b)) = b
<1> DEFINE a == <<c>>
           h == a \o b
<1>1. IsText(a) /\ Len(a) = 1 /\ a[1] = c
  BY OneText
<1> HIDE DEF a
<1>2. IsText(h) /\ Len(h) = 1 + Len(b) /\ Len(b) \in Nat
  <2>1. Len(h) = Len(a) + Len(b) /\ IsText(h)
    BY <1>1, Chained
  <2> QED
    BY <1>1, <2>1, TextIs
<1>3. Head(h) = c
  BY <1>1, FrontOf
<1>4. SubSeq(h, 2, Len(h)) = b
  <2>1. SubSeq(h, Len(a) + 1, Len(h)) = b
    BY <1>1, BehindIs
  <2> QED
    BY <1>1, <2>1
<1>5. Tail(h) = b
  <2> HIDE DEF h
  <2>1. Tail(h) = SubSeq(h, 2, Len(h))
    <3> DEFINE S == Range(h)
    <3>1. h \in Seq(S)
      BY <1>2 DEF IsText
    <3> HIDE DEF S
    <3>2. h # <<>>
      BY <1>2, NoText
    <3> QED
      BY <3>1, <3>2, HeadTailProperties, SubSeqProperties
  <2> QED
    BY <1>4, <2>1
<1> QED
  BY <1>2, <1>3, <1>4, <1>5 DEF h, a

-----------------------------------------------------------------------------
(* Powers, quotients and numerals.                                         *)

\* A recursive definition of at most N steps, in Nat.
LEMMA PowerRun ==
  ASSUME NEW b \in Nat \ {0}, NEW N \in Nat
  PROVE  \E r \in [0..N -> Nat \ {0}] :
           /\ r[0] = 1 /\ \A n \in 1..N : r[n] = b * r[n - 1]
           /\ \A n \in 0..N : Power(b, n) = r[n]
<1> DEFINE S == Nat \ {0}
           f == [p \in (1..N) \X S |-> b * p[2]]
<1>1. ASSUME NEW n \in 1..N, NEW u \in S PROVE f[<<n, u>>] = b * u /\ b * u \in S
  <2>1. f[<<n, u>>] = b * u
    OBVIOUS
  <2>2. \A x, y \in Nat \ {0} : x * y \in Nat \ {0}
    BY Z3
  <2>3. b * u \in S
    BY <2>2
  <2> QED
    BY <2>1, <2>3
<1> HIDE DEF f
<1>2. Steps(f, N, S) /\ 1 \in S
  BY <1>1 DEF Steps
<1> HIDE DEF S
<1>3. PICK r \in [0..N -> S] : Run(r, f, N, 1)
  BY <1>2, Recursion
<1>4. r[0] = 1 /\ \A n \in 1..N : r[n] = b * r[n - 1]
  <2>1. ASSUME NEW n \in 1..N PROVE r[n] = b * r[n - 1]
    <3>1. r[n - 1] \in S
      OBVIOUS
    <3> QED
      BY <1>1, <1>3, <3>1 DEF Run
  <2> QED
    BY <1>3, <2>1 DEF Run
<1>5. ASSUME NEW n \in 0..N PROVE Power(b, n) = r[n]
  <2> DEFINE E(x) == x = [i \in 0..n |-> IF i = 0 THEN 1 ELSE b * x[i - 1]]
             p == [i \in 0..n |-> r[i]]
             q == CHOOSE x : E(x)
  <2>1. E(p)
    <3>1. \A i \in 0..n : i # 0 => i \in 1..N /\ i - 1 \in 0..n
      OBVIOUS
    <3> QED
      BY <1>4, <3>1
  <2>2. E(q)
    <3> HIDE DEF E
    <3> QED
      BY <2>1
  <2>3. Power(b, n) = q[n]
    BY DEF Power
  <2> HIDE DEF q
  <2> DEFINE T == {i \in 0..n : q[i] = r[i]}
  <2>4. q[0] = 1 /\ \A i \in 1..n : q[i] = b * q[i - 1]
    BY <2>2
  <2> HIDE DEF E
  <2>5. 0 \in T
    BY <1>4, <2>4
  <2>6. ASSUME NEW i \in 1..n, i - 1 \in T PROVE i \in T
    <3>1. i \in 1..N /\ i \in 0..n /\ q[i - 1] = r[i - 1]
      BY <2>6
    <3> QED
      BY <1>4, <2>4, <3>1
  <2> HIDE DEF T
  <2>7. n \in Nat /\ n \in 0..n
    OBVIOUS
  <2>8. \A i \in 0..n : i \in T
    BY <2>5, <2>6, <2>7, InductTo
  <2> QED
    BY <2>3, <2>7, <2>8 DEF T
<1> QED
  BY <1>4, <1>5 DEF S

\* The recursion for every exponent.
LEMMA PowerIs ==
  ASSUME NEW b \in Nat \ {0}, NEW n \in Nat
  PROVE  /\ Power(b, 0) = 1 /\ Power(b, n) \in Nat \ {0}
         /\ Power(b, n + 1) = b * Power(b, n)
<1>1. PICK r \in [0..(n + 1) -> Nat \ {0}] :
           /\ r[0] = 1 /\ \A i \in 1..(n + 1) : r[i] = b * r[i - 1]
           /\ \A i \in 0..(n + 1) : Power(b, i) = r[i]
  <2>1. \A N \in Nat : \E r \in [0..N -> Nat \ {0}] :
           /\ r[0] = 1 /\ \A i \in 1..N : r[i] = b * r[i - 1]
           /\ \A i \in 0..N : Power(b, i) = r[i]
    BY PowerRun
  <2>2. n + 1 \in Nat
    OBVIOUS
  <2> QED
    BY <2>1, <2>2, Zenon
<1>2. n + 1 \in 1..(n + 1) /\ (n + 1) - 1 = n /\ n \in 0..(n + 1) /\ 0 \in 0..(n + 1)
      /\ n + 1 \in 0..(n + 1)
  OBVIOUS
<1>3. r[n + 1] = b * r[n]
  BY <1>1, <1>2
<1>4. r[n] \in Nat \ {0}
  BY <1>1, <1>2
<1>5. Power(b, n) = r[n] /\ Power(b, n + 1) = r[n + 1] /\ Power(b, 0) = r[0]
  BY <1>1, <1>2
<1> QED
  BY <1>1, <1>3, <1>4, <1>5, Zenon

\* Powers grow, with the exponent and with the base.
LEMMA PowerGrows ==
  ASSUME NEW b \in Nat \ {0}, NEW m \in Nat, NEW n \in Nat, m <= n
  PROVE  Power(b, m) <= Power(b, n)
<1> DEFINE N == n - m
           T == {k \in 0..N : Power(b, m) <= Power(b, m + k)}
<1>1. 0 \in T
  BY PowerIs
<1>2. ASSUME NEW k \in 1..N, k - 1 \in T PROVE k \in T
  <2> DEFINE j == m + (k - 1)
  <2>1. j \in Nat /\ j + 1 = m + k
    OBVIOUS
  <2> HIDE DEF j
  <2>2. Power(b, j) \in Nat \ {0} /\ Power(b, j + 1) = b * Power(b, j)
    BY <2>1, PowerIs
  <2>3. \A x, y \in Nat \ {0} : y <= x * y
    BY Z3
  <2>4. Power(b, j) <= b * Power(b, j)
    BY <2>2, <2>3
  <2>5. Power(b, m) <= Power(b, j) /\ Power(b, m) \in Nat
    BY <1>2, PowerIs DEF j
  <2>6. b * Power(b, j) \in Nat
    BY <2>2
  <2>7. Power(b, m) <= Power(b, m + k)
    BY <2>1, <2>2, <2>4, <2>5, <2>6
  <2> QED
    BY <2>7
<1> HIDE DEF T
<1>3. N \in Nat /\ N \in 0..N /\ m + N = n
  OBVIOUS
<1>4. \A k \in 0..N : k \in T
  <2> HIDE DEF N
  <2> QED
    BY <1>1, <1>2, <1>3, InductTo
<1> QED
  BY <1>3, <1>4 DEF T

\* A power of 2 is at most that of a larger base.
LEMMA PowerOfMore ==
  ASSUME NEW b \in Nat \ {0, 1}, NEW N \in Nat
  PROVE  Power(2, N) <= Power(b, N)
<1> DEFINE T == {k \in 0..N : Power(2, k) <= Power(b, k)}
<1>0. 2 \in Nat \ {0} /\ b \in Nat \ {0}
  OBVIOUS
<1>1. 0 \in T
  BY <1>0, PowerIs
<1>2. ASSUME NEW k \in 1..N, k - 1 \in T PROVE k \in T
  <2> DEFINE j == k - 1
             x == Power(2, j)
             y == Power(b, j)
  <2>1. j \in Nat /\ j + 1 = k
    OBVIOUS
  <2> HIDE DEF j
  <2>2. /\ x \in Nat /\ Power(2, k) = 2 * x
        /\ y \in Nat /\ Power(b, k) = b * y
    BY <1>0, <2>1, PowerIs
  <2>3. x <= y
    BY <1>2 DEF j
  <2> HIDE DEF x, y
  <2>4. 2 * x <= b * y
    <3>1. \A u, v, w \in Nat : u <= v /\ 2 <= w => 2 * u <= w * v
      BY Z3
    <3> QED
      BY <2>2, <2>3, <3>1
  <2> QED
    BY <2>2, <2>4
<1> HIDE DEF T
<1>3. \A k \in 0..N : k \in T
  BY <1>1, <1>2, InductTo
<1> QED
  BY <1>3 DEF T

\* What the loop divides.
LEMMA QuotientRun ==
  ASSUME NEW v \in Nat, NEW b \in Nat \ {0}, NEW N \in Nat
  PROVE  \E r \in [0..N -> Nat] :
           /\ r[0] = v /\ \A n \in 1..N : r[n] = r[n - 1] \div b
           /\ \A n \in 0..N : Quotient(v, b, n) = r[n]
<1> DEFINE f == [p \in (1..N) \X Nat |-> p[2] \div b]
<1>1. ASSUME NEW n \in 1..N, NEW u \in Nat PROVE f[<<n, u>>] = u \div b /\ u \div b \in Nat
  <2>1. f[<<n, u>>] = u \div b
    OBVIOUS
  <2>2. u \div b \in Nat
    BY Z3
  <2> QED
    BY <2>1, <2>2
<1> HIDE DEF f
<1>2. Steps(f, N, Nat)
  BY <1>1 DEF Steps
<1>3. PICK r \in [0..N -> Nat] : Run(r, f, N, v)
  BY <1>2, Recursion
<1>4. r[0] = v /\ \A n \in 1..N : r[n] = r[n - 1] \div b
  <2>1. ASSUME NEW n \in 1..N PROVE r[n] = r[n - 1] \div b
    <3>1. r[n - 1] \in Nat
      OBVIOUS
    <3> QED
      BY <1>1, <1>3, <3>1 DEF Run
  <2> QED
    BY <1>3, <2>1 DEF Run
<1>5. ASSUME NEW n \in 0..N PROVE Quotient(v, b, n) = r[n]
  <2> DEFINE E(x) == x = [i \in 0..n |-> IF i = 0 THEN v ELSE x[i - 1] \div b]
             p == [i \in 0..n |-> r[i]]
             q == CHOOSE x : E(x)
  <2>1. E(p)
    <3>1. \A i \in 0..n : i # 0 => i \in 1..N /\ i - 1 \in 0..n
      OBVIOUS
    <3> QED
      BY <1>4, <3>1
  <2>2. E(q)
    <3> HIDE DEF E
    <3> QED
      BY <2>1
  <2>3. Quotient(v, b, n) = q[n]
    BY DEF Quotient
  <2> HIDE DEF q
  <2> DEFINE T == {i \in 0..n : q[i] = r[i]}
  <2>4. q[0] = v /\ \A i \in 1..n : q[i] = q[i - 1] \div b
    BY <2>2
  <2> HIDE DEF E
  <2>5. 0 \in T
    BY <1>4, <2>4
  <2>6. ASSUME NEW i \in 1..n, i - 1 \in T PROVE i \in T
    <3>1. i \in 1..N /\ i \in 0..n /\ q[i - 1] = r[i - 1]
      BY <2>6
    <3> QED
      BY <1>4, <2>4, <3>1
  <2> HIDE DEF T
  <2>7. n \in Nat /\ n \in 0..n
    OBVIOUS
  <2>8. \A i \in 0..n : i \in T
    BY <2>5, <2>6, <2>7, InductTo
  <2> QED
    BY <2>3, <2>7, <2>8 DEF T
<1> QED
  BY <1>4, <1>5

\* The recursion for every number of rounds.
LEMMA QuotientIs ==
  ASSUME NEW v \in Nat, NEW b \in Nat \ {0}, NEW n \in Nat
  PROVE  /\ Quotient(v, b, 0) = v /\ Quotient(v, b, n) \in Nat
         /\ Quotient(v, b, n + 1) = Quotient(v, b, n) \div b
<1>1. PICK r \in [0..(n + 1) -> Nat] :
           /\ r[0] = v /\ \A i \in 1..(n + 1) : r[i] = r[i - 1] \div b
           /\ \A i \in 0..(n + 1) : Quotient(v, b, i) = r[i]
  <2>1. \A N \in Nat : \E r \in [0..N -> Nat] :
           /\ r[0] = v /\ \A i \in 1..N : r[i] = r[i - 1] \div b
           /\ \A i \in 0..N : Quotient(v, b, i) = r[i]
    BY QuotientRun
  <2>2. n + 1 \in Nat
    OBVIOUS
  <2> QED
    BY <2>1, <2>2, Zenon
<1>2. n + 1 \in 1..(n + 1) /\ (n + 1) - 1 = n /\ n \in 0..(n + 1) /\ 0 \in 0..(n + 1)
      /\ n + 1 \in 0..(n + 1)
  OBVIOUS
<1>3. r[n + 1] = r[n] \div b
  BY <1>1, <1>2
<1>4. r[n] \in Nat
  BY <1>1, <1>2
<1>5. /\ Quotient(v, b, n) = r[n] /\ Quotient(v, b, n + 1) = r[n + 1]
      /\ Quotient(v, b, 0) = r[0]
  BY <1>1, <1>2
<1> QED
  BY <1>1, <1>3, <1>4, <1>5, Zenon

\* Dividing again and again is dividing by the power.
LEMMA Divided ==
  ASSUME NEW v \in Nat, NEW b \in Nat \ {0}, NEW N \in Nat
  PROVE  Quotient(v, b, N) = v \div Power(b, N)
<1> DEFINE T == {k \in 0..N : Quotient(v, b, k) = v \div Power(b, k)}
<1>1. 0 \in T
  <2>1. v \div 1 = v
    OBVIOUS
  <2> QED
    BY <2>1, PowerIs, QuotientIs
<1>2. ASSUME NEW k \in 1..N, k - 1 \in T PROVE k \in T
  <2> DEFINE j == k - 1
             P == Power(b, j)
  <2>1. j \in Nat /\ j + 1 = k
    OBVIOUS
  <2> HIDE DEF j
  <2>2. P \in Nat \ {0} /\ Power(b, k) = b * P
    BY <2>1, PowerIs
  <2>3. Quotient(v, b, k) = Quotient(v, b, j) \div b
    BY <2>1, QuotientIs
  <2>4. Quotient(v, b, j) = v \div P
    BY <1>2 DEF j
  <2> HIDE DEF P
  <2>5. (v \div P) \div b = v \div (b * P)
    BY <2>2, Z3
  <2> QED
    BY <2>2, <2>3, <2>4, <2>5
<1> HIDE DEF T
<1>3. \A k \in 0..N : k \in T
  BY <1>1, <1>2, InductTo
<1> QED
  BY <1>3 DEF T

\* A number of that many bits has a number of places, and only one.
LEMMA PlacesIs ==
  ASSUME NEW b \in Nat \ {0, 1}, NEW v \in Nat, v < Power(2, LongBits)
  PROVE  /\ Places(v, b) \in 1..LongBits /\ v < Power(b, Places(v, b))
         /\ Places(v, b) = 1 \/ Power(b, Places(v, b) - 1) <= v
<1> DEFINE P(n) == v < Power(b, n) /\ (n = 1 \/ Power(b, n - 1) <= v)
           T == {k \in 1..LongBits : v < Power(b, k)}
<1>1. LongBits \in Nat /\ LongBits >= 1
  BY PrintfAssumption
<1>2. \A n \in Nat : Power(b, n) \in Nat
  <2>1. b \in Nat \ {0}
    OBVIOUS
  <2>2. \A n \in Nat : Power(b, n) \in Nat \ {0}
    BY <2>1, PowerIs
  <2> QED
    BY <2>2
<1>3. LongBits \in T
  <2>1. Power(2, LongBits) <= Power(b, LongBits)
    BY <1>1, PowerOfMore
  <2>2. Power(2, LongBits) \in Nat
    BY <1>1, PowerIs
  <2> QED
    BY <1>1, <1>2, <2>1, <2>2
<1>4. PICK n \in T : \A m \in T : ~(m < n)
  <2>1. T \subseteq Nat /\ T # {}
    BY <1>3
  <2> HIDE DEF T
  <2> QED
    BY <2>1, Smallest
<1>5. n \in 1..LongBits /\ P(n)
  <2>0. n \in 1..LongBits /\ v < Power(b, n)
    OBVIOUS
  <2>1. CASE n = 1
    BY <2>0, <2>1
  <2>2. CASE n # 1
    <3>1. n - 1 \in 1..LongBits /\ n - 1 < n
      BY <1>1, <2>0, <2>2
    <3>2. ~(v < Power(b, n - 1))
      BY <1>4, <3>1
    <3>3. Power(b, n - 1) \in Nat
      BY <1>2, <3>1
    <3> QED
      BY <2>0, <3>2, <3>3
  <2> QED
    BY <2>1, <2>2
<1>6. Places(v, b) = CHOOSE k \in 1..LongBits : P(k)
  BY DEF Places
<1> HIDE DEF P
<1>7. Places(v, b) \in 1..LongBits /\ P(Places(v, b))
  BY <1>5, <1>6
<1> QED
  BY <1>7 DEF P

\* A number has only one number of places.
LEMMA PlacesUnique ==
  ASSUME NEW b \in Nat \ {0}, NEW v \in Nat, NEW m \in Nat \ {0}, NEW n \in Nat \ {0},
         v < Power(b, m), m = 1 \/ Power(b, m - 1) <= v,
         v < Power(b, n), n = 1 \/ Power(b, n - 1) <= v
  PROVE  m = n
<1>1. \A k \in Nat : Power(b, k) \in Nat
  BY PowerIs
<1>2. ASSUME NEW j \in Nat \ {0}, NEW k \in Nat \ {0}, j < k,
             v < Power(b, j), k = 1 \/ Power(b, k - 1) <= v
      PROVE  FALSE
  <2>1. k # 1 /\ k - 1 \in Nat /\ j <= k - 1
    BY <1>2
  <2>2. Power(b, j) <= Power(b, k - 1)
    BY <2>1, PowerGrows
  <2> QED
    BY <1>1, <1>2, <2>1, <2>2
<1> QED
  BY <1>2

\* A quotient is 0 when there is less than what it is divided by.
LEMMA NoneLeft ==
  ASSUME NEW v \in Nat, NEW p \in Nat \ {0}
  PROVE  v \div p = 0 <=> v < p
BY Z3

\* The loop goes on for as many rounds as the numeral has digits.
LEMMA CountIs ==
  ASSUME NEW b \in Nat \ {0, 1}, NEW v \in Nat, v < Power(2, LongBits)
  PROVE  DigitCount(v, b) = Places(v, b)
<1> DEFINE n == Places(v, b)
           Q(k) == Quotient(v, b, k) = 0 /\ \A m \in 1..(k - 1) : Quotient(v, b, m) # 0
<1>0. b \in Nat \ {0}
  OBVIOUS
<1>1. n \in 1..LongBits /\ v < Power(b, n) /\ (n = 1 \/ Power(b, n - 1) <= v)
  BY PlacesIs
<1> HIDE DEF n
<1>2. \A k \in Nat : Power(b, k) \in Nat \ {0}
  BY <1>0, PowerIs
<1>3. \A k \in Nat : Quotient(v, b, k) = 0 <=> v < Power(b, k)
  <2>1. \A k \in Nat : Quotient(v, b, k) = v \div Power(b, k)
    BY <1>0, Divided
  <2> QED
    BY <1>2, <2>1, NoneLeft
<1>4. Q(n)
  <2>1. ASSUME NEW m \in 1..(n - 1) PROVE Quotient(v, b, m) # 0
    <3>1. m \in Nat /\ n - 1 \in Nat /\ m <= n - 1 /\ n # 1
      BY <1>1
    <3>2. Power(b, m) <= Power(b, n - 1)
      BY <1>0, <3>1, PowerGrows
    <3>3. Power(b, m) <= v
      BY <1>1, <1>2, <3>1, <3>2
    <3> QED
      BY <1>2, <1>3, <3>1, <3>3
  <2>2. n \in Nat
    BY <1>1
  <2> QED
    BY <1>1, <1>3, <2>1, <2>2
<1> DEFINE c == CHOOSE k \in 1..LongBits : Q(k)
<1>5. c \in 1..LongBits /\ Q(c)
  <2> HIDE DEF Q
  <2> QED
    BY <1>1, <1>4
<1>6. DigitCount(v, b) = c
  BY DEF DigitCount
<1> HIDE DEF c
<1>7. v < Power(b, c) /\ (c = 1 \/ Power(b, c - 1) <= v)
  <2>1. c \in Nat
    BY <1>5
  <2>2. v < Power(b, c)
    BY <1>3, <1>5, <2>1
  <2>3. ASSUME c # 1 PROVE Power(b, c - 1) <= v
    <3>1. c - 1 \in 1..(c - 1) /\ c - 1 \in Nat
      BY <1>5, <2>3
    <3>2. Quotient(v, b, c - 1) # 0
      BY <1>5, <3>1
    <3>3. ~(v < Power(b, c - 1)) /\ Power(b, c - 1) \in Nat
      BY <1>2, <1>3, <3>1, <3>2
    <3> QED
      BY <3>3
  <2> QED
    BY <2>2, <2>3
<1>8. c = n
  <2>1. c \in Nat \ {0} /\ n \in Nat \ {0}
    BY <1>1, <1>5
  <2> QED
    BY <1>0, <1>1, <1>7, <2>1, PlacesUnique
<1> QED
  BY <1>6, <1>8 DEF n

\* The digit i places from the right.
DigitOf(v, b, i) == (v \div Power(b, i)) % b

\* It is a digit of the base, and the one that the loop's round i writes.
LEMMA DigitOfBelow ==
  ASSUME NEW b \in Nat \ {0}, NEW v \in Nat, NEW i \in Nat
  PROVE  DigitOf(v, b, i) \in 0..(b - 1) /\ DigitAt(v, b, i) = DigitOf(v, b, i)
<1> DEFINE p == Power(b, i)
<1>1. p \in Nat \ {0} /\ Quotient(v, b, i) = v \div p
  BY PowerIs, Divided
<1>2. DigitAt(v, b, i) = DigitOf(v, b, i)
  BY <1>1 DEF DigitAt, DigitOf
<1> HIDE DEF p
<1>3. v \div p \in Nat
  BY <1>1, Z3
<1> DEFINE q == v \div p
<1>4. DigitOf(v, b, i) = q % b
  BY DEF DigitOf, p
<1>5. q \in Nat
  BY <1>3
<1> HIDE DEF q
<1>6. q % b \in 0..(b - 1)
  BY <1>5, Z3
<1> QED
  BY <1>2, <1>4, <1>6

\* A number that is not 0 does not begin with a 0.
LEMMA Leading ==
  ASSUME NEW b \in Nat \ {0, 1}, NEW v \in Nat \ {0}, v < Power(2, LongBits)
  PROVE  DigitOf(v, b, Places(v, b) - 1) \in 1..(b - 1)
<1> DEFINE n == Places(v, b)
           k == n - 1
           p == Power(b, k)
           q == v \div p
<1>1. n \in 1..LongBits /\ v < Power(b, n) /\ (n = 1 \/ Power(b, n - 1) <= v)
  BY PlacesIs
<1>2. k \in Nat /\ k + 1 = n
  <2> HIDE DEF n
  <2> QED
    BY <1>1
<1>3. b \in Nat \ {0}
  OBVIOUS
<1>4. p \in Nat \ {0} /\ Power(b, n) = b * p /\ Power(b, 0) = 1
  <2> HIDE DEF k
  <2> QED
    BY <1>2, <1>3, PowerIs
<1>5. p <= v
  <2>1. CASE n = 1
    <3>1. k = 0
      BY <1>2, <2>1
    <3>2. p = 1
      BY <1>4, <3>1
    <3> QED
      BY <3>2
  <2>2. CASE n # 1
    BY <1>1, <2>2
  <2> QED
    BY <2>1, <2>2
<1>6. v < b * p
  BY <1>1, <1>4
<1> HIDE DEF p
<1>7. q \in 1..(b - 1)
  <2>1. v \div p >= 1
    BY <1>4, <1>5, Z3
  <2>2. v \div p < b
    BY <1>3, <1>4, <1>6, Z3
  <2>3. v \div p \in Nat
    BY <1>4, Z3
  <2> QED
    BY <2>1, <2>2, <2>3
<1>8. DigitOf(v, b, k) = q % b
  BY DEF DigitOf, p
<1> HIDE DEF q
<1>9. q % b = q
  BY <1>7, Z3
<1> QED
  BY <1>7, <1>8, <1>9

\* What the numeral of v consists of.
LEMMA NumeralIs ==
  ASSUME NEW b \in Nat \ {0, 1}, NEW v \in Nat, v < Power(2, LongBits), NEW chars
  PROVE  /\ IsText(Numeral(v, b, chars)) /\ Len(Numeral(v, b, chars)) = Places(v, b)
         /\ \A i \in 1..Places(v, b) :
              Numeral(v, b, chars)[i] = chars[DigitOf(v, b, Places(v, b) - i) + 1]
<1> DEFINE n == Places(v, b)
           f == [i \in 1..n |-> chars[DigitOf(v, b, n - i) + 1]]
<1>1. Numeral(v, b, chars) = f
  BY DEF Numeral, DigitOf
<1>2. n \in Int /\ n > 0
  <2>1. n \in 1..LongBits
    BY PlacesIs
  <2> HIDE DEF n
  <2> QED
    BY <2>1
<1> HIDE DEF n
<1>3. f = [i \in 1..n |-> f[i]] /\ \A i \in 1..n : f[i] = chars[DigitOf(v, b, n - i) + 1]
  OBVIOUS
<1> HIDE DEF f
<1>4. IsText(f) /\ Len(f) = n
  BY <1>2, <1>3, Tabled
<1> QED
  BY <1>1, <1>3, <1>4 DEF n

\* The loop writes the numeral's digits, the last one first.
LEMMA LoopDigits ==
  ASSUME NEW b \in Nat \ {0, 1}, NEW v \in Nat, v < Power(2, LongBits), NEW chars,
         NEW d, d = [i \in 1..Places(v, b) |-> chars[DigitAt(v, b, i - 1) + 1]]
  PROVE  /\ IsText(d) /\ Len(d) = Places(v, b) /\ Len(d) \in Nat \ {0}
         /\ Reverse(d) = Numeral(v, b, chars)
<1> DEFINE n == Places(v, b)
           r == Reverse(d)
           m == Numeral(v, b, chars)
<1>0. b \in Nat \ {0}
  OBVIOUS
<1>1. n \in Nat \ {0}
  <2>1. n \in 1..LongBits
    BY PlacesIs
  <2> HIDE DEF n
  <2> QED
    BY <2>1
<1>2. /\ IsText(m) /\ Len(m) = n
      /\ \A i \in 1..n : m[i] = chars[DigitOf(v, b, n - i) + 1]
  BY NumeralIs
<1> HIDE DEF m, n
<1>3. d = [i \in 1..n |-> d[i]] /\ \A i \in 1..n : d[i] = chars[DigitAt(v, b, i - 1) + 1]
  BY DEF n
<1>4. IsText(d) /\ Len(d) = n
  <2>1. n \in Int /\ n > 0
    BY <1>1
  <2> QED
    BY <1>3, <2>1, Tabled
<1>5. IsText(r) /\ Len(r) = n /\ \A i \in 1..n : r[i] = d[n - i + 1]
  <2>1. IsText(d)
    BY <1>4
  <2>2. IsText(r) /\ Len(r) = Len(d) /\ \A i \in 1..Len(d) : r[i] = d[Len(d) - i + 1]
    BY <2>1, ReverseIs
  <2>3. Len(d) = n
    BY <1>4
  <2> HIDE DEF r
  <2> QED
    BY ONLY <2>2, <2>3
<1> HIDE DEF r
<1>6. ASSUME NEW i \in 1..n PROVE r[i] = m[i]
  <2> DEFINE k == n - i
  <2>1. k \in Nat /\ k + 1 \in 1..n /\ n - i + 1 = k + 1 /\ (k + 1) - 1 = k
    BY <1>1
  <2>2. m[i] = chars[DigitOf(v, b, k) + 1]
    BY <1>2
  <2> HIDE DEF k
  <2>3. r[i] = chars[DigitAt(v, b, k) + 1]
    <3>1. r[i] = d[n - i + 1]
      BY <1>5
    <3>2. d[k + 1] = chars[DigitAt(v, b, (k + 1) - 1) + 1]
      <4> DEFINE j == k + 1
      <4>1. j \in 1..n
        BY <2>1
      <4> HIDE DEF j
      <4>2. d[j] = chars[DigitAt(v, b, j - 1) + 1]
        BY ONLY <1>3, <4>1
      <4> QED
        BY <4>2 DEF j
    <3> QED
      BY <2>1, <3>1, <3>2
  <2>4. DigitAt(v, b, k) = DigitOf(v, b, k)
    BY <1>0, <2>1, DigitOfBelow
  <2> QED
    BY <2>2, <2>3, <2>4
<1>7. r = m
  BY <1>2, <1>5, <1>6, SameText
<1> QED
  BY <1>1, <1>4, <1>7 DEF r, m, n

\* Numbers of a width.
LEMMA Remainder ==
  ASSUME NEW v \in Int, NEW p \in Nat \ {0}
  PROVE  v % p \in 0..(p - 1) /\ (v >= 0 /\ v < p => v % p = v)
OBVIOUS

\* A number cut to some bits, as an unsigned and as a signed one.
LEMMA TypeIs ==
  ASSUME NEW v \in Int, NEW bits \in Nat \ {0}, NEW wide \in Nat, bits <= wide
  PROVE  /\ Unsigned(v, bits) \in Nat /\ Unsigned(v, bits) < Power(2, bits)
         /\ Power(2, bits) <= Power(2, wide)
         /\ Signed(v, bits) \in Int
         /\ -Power(2, bits) < Signed(v, bits) /\ Signed(v, bits) < Power(2, bits)
<1> DEFINE p == Power(2, bits)
           h == Power(2, bits - 1)
           q == Power(2, wide)
<1>1. p \in Nat \ {0} /\ h \in Nat \ {0} /\ p = 2 * h
  <2>1. bits \in Nat /\ bits - 1 \in Nat /\ 2 \in Nat \ {0} /\ (bits - 1) + 1 = bits
    OBVIOUS
  <2>2. p \in Nat \ {0}
    BY <2>1, PowerIs
  <2> DEFINE i == bits - 1
  <2>3. i \in Nat
    BY <2>1
  <2> HIDE DEF i
  <2>4. Power(2, i) \in Nat \ {0} /\ Power(2, i + 1) = 2 * Power(2, i)
    BY <2>1, <2>3, PowerIs
  <2> QED
    BY <2>1, <2>2, <2>4 DEF i
<1>2. p <= q
  <2>1. bits \in Nat /\ 2 \in Nat \ {0}
    OBVIOUS
  <2> QED
    BY <2>1, PowerGrows
<1> DEFINE u == Unsigned(v, bits)
           w == Unsigned(v + h, bits)
<1> HIDE DEF p, h, q
<1>3. u \in 0..(p - 1)
  BY <1>1, Remainder DEF Unsigned, p
<1>4. w \in 0..(p - 1)
  <2>1. v + h \in Int
    BY <1>1
  <2> DEFINE x == v + h
  <2> HIDE DEF x
  <2>2. x \in Int
    BY <2>1 DEF x
  <2>3. x % p \in 0..(p - 1)
    BY <1>1, <2>2, Remainder
  <2> QED
    BY <2>3 DEF x, p, Unsigned
<1>5. Signed(v, bits) = w - h
  BY DEF Signed, h
<1> HIDE DEF u, w
<1>6. u \in Nat /\ u < p
  BY <1>1, <1>3
<1>7. w - h \in Int /\ -p < w - h /\ w - h < p
  BY <1>1, <1>4
<1> QED
  BY <1>2, <1>5, <1>6, <1>7 DEF u, p, q

-----------------------------------------------------------------------------
(* What a number is written as is a text.                                  *)

\* The buffer of the digits, whatever is added to it, is a text.
LEMMA PushText ==
  ASSUME NEW s, IsText(s), NEW c
  PROVE  IsText(Push(s, c))
<1> DEFINE S == Range(s) \cup {c}
<1>1. s \in Seq(S) /\ c \in S
  BY DEF IsText
<1> HIDE DEF S
<1>2. Append(s, c) \in Seq(S)
  BY <1>1
<1>3. IsText(Append(s, c))
  BY <1>2, SeqIsText
<1> QED
  BY <1>3, Zenon DEF Push

\* What zeros are put behind stays a text.
LEMMA FillText ==
  ASSUME NEW s, IsText(s), NEW n \in Int
  PROVE  IsText(Fill(s, n))
<1> DEFINE m == (IF n < PRINTF_NTOA_BUFFER_SIZE THEN n ELSE PRINTF_NTOA_BUFFER_SIZE) - Len(s)
<1>1. m \in Int
  BY PrintfAssumption, TextIs
<1> HIDE DEF m
<1>2. IsText(s \o Repeated("0", m))
  BY <1>1, RepeatedIs, Chained
<1> QED
  BY <1>2 DEF Fill, m

\* So does what is reversed into its field.
LEMMA OutRevText ==
  ASSUME NEW s, IsText(s), NEW w \in Int, NEW f
  PROVE  IsText(out_rev(s, w, f))
<1> DEFINE pad == Repeated(" ", w - Len(s))
           r == Reverse(s)
<1>1. IsText(pad) /\ IsText(r)
  <2>1. w - Len(s) \in Int
    BY TextIs
  <2> QED
    BY <2>1, RepeatedIs, ReverseIs
<1> HIDE DEF pad, r
<1>2. IsText(r \o pad) /\ IsText(pad \o r)
  BY <1>1, Chained
<1>3. out_rev(s, w, f) \in {r \o pad, pad \o r, r}
  BY Zenon DEF out_rev, pad, r
<1> QED
  BY <1>1, <1>2, <1>3

\* So does what ntoa_format makes of the digits.
LEMMA FormattedText ==
  ASSUME NEW digits, IsText(digits), NEW negative \in BOOLEAN, NEW base,
         NEW prec \in Int, NEW wide \in Int, NEW f
  PROVE  IsText(ntoa_format(digits, negative, base, prec, wide, f))
<1> DEFINE left   == "LEFT" \in f
           zero   == "ZEROPAD" \in f
           signed == negative \/ f \cap {"PLUS", "SPACE"} # {}
           w      == IF ~left /\ wide > 0 /\ zero /\ signed THEN wide - 1 ELSE wide
           padded == CASE left  -> digits
                       [] ~left /\ zero  -> Fill(Fill(digits, prec), w)
                       [] ~left /\ ~zero -> Fill(digits, prec)
           len    == Len(padded)
           drop   == IF "PRECISION" \notin f /\ len > 0 /\ (len = prec \/ len = w)
                     THEN (IF len > 1 /\ base = 16 THEN 2 ELSE 1) ELSE 0
           room   == SubSeq(padded, 1, len - drop)
           radix  == CASE base = 16 -> Push(room, "x")
                       [] base = 2  -> Push(room, "b")
                       [] OTHER     -> room
           hashed == IF "HASH" \in f THEN Push(radix, "0") ELSE padded
           full   == CASE negative                        -> Push(hashed, "-")
                       [] ~negative /\ "PLUS" \in f       -> Push(hashed, "+")
                       [] ~negative /\ "PLUS" \notin f /\ "SPACE" \in f -> Push(hashed, " ")
                       [] OTHER                           -> hashed
<1>0. ntoa_format(digits, negative, base, prec, wide, f) = out_rev(full, w, f)
  BY DEF ntoa_format
<1>1. w \in Int
  OBVIOUS
<1> HIDE DEF signed, w
<1>2. IsText(padded)
  <2>1. IsText(Fill(Fill(digits, prec), w)) /\ IsText(Fill(digits, prec))
    BY <1>1, FillText
  <2>2. left \in BOOLEAN /\ zero \in BOOLEAN
    OBVIOUS
  <2> HIDE DEF left, zero
  <2> QED
    BY <2>1, <2>2
<1> HIDE DEF padded
<1>3. drop \in Nat /\ drop <= len /\ len \in Nat
  BY <1>2, TextIs
<1> HIDE DEF drop, len
<1>4. IsText(room)
  <2>1. 1 \in 1..(len + 1) /\ len - drop \in 0..len
    BY <1>3
  <2> QED
    BY <1>2, <2>1, PartText DEF len
<1> HIDE DEF room
<1>5. IsText(radix)
  <2>1. IsText(Push(room, "x")) /\ IsText(Push(room, "b"))
    BY <1>4, PushText
  <2> QED
    BY <1>4, <2>1, Zenon
<1> HIDE DEF radix
<1>6. IsText(hashed)
  <2>1. IsText(Push(radix, "0"))
    BY <1>5, PushText
  <2> QED
    BY <1>2, <2>1, Zenon
<1> HIDE DEF hashed
<1>7. IsText(full)
  <2>1. IsText(Push(hashed, "-")) /\ IsText(Push(hashed, "+")) /\ IsText(Push(hashed, " "))
    BY <1>6, PushText
  <2> QED
    BY <1>6, <2>1, Zenon
<1> HIDE DEF full
<1> QED
  BY <1>0, <1>1, <1>7, OutRevText

\* What a number of that many bits is written as is a text.
LEMMA NumberText ==
  ASSUME NEW v \in Nat, v < Power(2, LongBits), NEW negative \in BOOLEAN,
         NEW base \in Nat \ {0, 1}, NEW prec \in Int, NEW w \in Int, NEW f
  PROVE  IsText(ntoa(v, negative, base, prec, w, f))
<1> DEFINE size  == DigitCount(v, base)
           kept  == IF size < PRINTF_NTOA_BUFFER_SIZE THEN size
                    ELSE PRINTF_NTOA_BUFFER_SIZE
           chars == IF "UPPERCASE" \in f THEN Upper ELSE Lower
           all   == [i \in 1..kept |-> chars[DigitAt(v, base, i - 1) + 1]]
           digits == IF "PRECISION" \in f /\ v = 0 THEN <<>> ELSE all
           g == IF v = 0 THEN f \ {"HASH"} ELSE f
<1>0. ntoa(v, negative, base, prec, w, f) = ntoa_format(digits, negative, base, prec, w, g)
  BY DEF ntoa
<1>1. kept \in Int
  <2>1. size \in 1..LongBits /\ PRINTF_NTOA_BUFFER_SIZE \in Nat
    BY CountIs, PlacesIs, PrintfAssumption
  <2> HIDE DEF size
  <2> QED
    BY <2>1
<1> HIDE DEF kept, chars
<1>2. all = [i \in 1..kept |-> all[i]]
  OBVIOUS
<1> HIDE DEF all
<1>3. IsText(all)
  BY <1>1, <1>2, Tabled
<1>4. IsText(digits)
  BY <1>3, NoText, Zenon
<1> HIDE DEF digits, g
<1> QED
  BY <1>0, <1>4, FormattedText

\* The same for a number that is not negative.
LEMMA Positive ==
  ASSUME NEW v \in Nat, v < Power(2, LongBits), NEW base \in Nat \ {0, 1},
         NEW prec \in Int, NEW w \in Int, NEW f
  PROVE  IsText(ntoa(v, FALSE, base, prec, w, f))
<1>1. FALSE \in BOOLEAN
  OBVIOUS
<1>2. \A negative \in BOOLEAN : IsText(ntoa(v, negative, base, prec, w, f))
  BY NumberText
<1> QED
  BY <1>1, <1>2, Zenon

-----------------------------------------------------------------------------
(* The format and the arguments.                                           *)

\* Characters that may take an argument.
Taking == {"*", "d", "i", "u", "x", "X", "o", "b", "c", "p"}

\* The text f has at most m of them: a list of m places names them all.
Covered(f, m) ==
  \E q \in [1..m -> Int] :
    \A i \in 1..Len(f) : f[i] \in Taking => \E j \in 1..m : q[j] = i

\* A text for which m arguments are enough.
Part(f, m) == IsText(f) /\ m \in Nat /\ Covered(f, m)

\* Where no character takes an argument none is needed; texts in a row need
\* those of each.
LEMMA PartNone ==
  ASSUME NEW f, IsText(f), \A i \in 1..Len(f) : f[i] \notin Taking
  PROVE  Part(f, 0)
<1> DEFINE q == [j \in 1..0 |-> 0]
<1>1. q \in [1..0 -> Int]
  OBVIOUS
<1> HIDE DEF q
<1> QED
  BY <1>1, Zenon DEF Part, Covered

\* What two parts take is what each takes.
LEMMA PartChained ==
  ASSUME NEW f, NEW g, NEW m, NEW n, Part(f, m), Part(g, n)
  PROVE  Part(f \o g, m + n)
<1>1. IsText(f) /\ IsText(g) /\ m \in Nat /\ n \in Nat /\ Len(f) \in Nat /\ Len(g) \in Nat
  BY TextIs DEF Part
<1>2. PICK p \in [1..m -> Int] :
        \A i \in 1..Len(f) : f[i] \in Taking => \E j \in 1..m : p[j] = i
  BY DEF Part, Covered
<1>3. PICK r \in [1..n -> Int] :
        \A i \in 1..Len(g) : g[i] \in Taking => \E j \in 1..n : r[j] = i
  BY DEF Part, Covered
<1> DEFINE h == f \o g
           q == [j \in 1..(m + n) |-> IF j <= m THEN p[j] ELSE Len(f) + r[j - m]]
<1>4. /\ IsText(h) /\ Len(h) = Len(f) + Len(g)
      /\ \A i \in 1..(Len(f) + Len(g)) :
           h[i] = IF i <= Len(f) THEN f[i] ELSE g[i - Len(f)]
  BY <1>1, Chained
<1>5. q \in [1..(m + n) -> Int]
  <2> SUFFICES ASSUME NEW j \in 1..(m + n)
               PROVE  (IF j <= m THEN p[j] ELSE Len(f) + r[j - m]) \in Int
    OBVIOUS
  <2>1. CASE j <= m
    BY <1>1, <2>1
  <2>2. CASE ~(j <= m)
    <3>1. j - m \in 1..n
      BY <1>1, <2>2
    <3> QED
      BY <1>1, <2>2, <3>1
  <2> QED
    BY <2>1, <2>2
<1>6. \A j \in 1..m : j \in 1..(m + n) /\ q[j] = p[j]
  BY <1>1
<1>7. ASSUME NEW j \in 1..n PROVE m + j \in 1..(m + n) /\ q[m + j] = Len(f) + r[j]
  <2>1. m + j \in 1..(m + n) /\ ~(m + j <= m) /\ (m + j) - m = j
    BY <1>1
  <2> QED
    BY <2>1
<1> HIDE DEF q, h
<1>8. ASSUME NEW i \in 1..Len(h), h[i] \in Taking
      PROVE  \E j \in 1..(m + n) : q[j] = i
  <2>1. CASE i <= Len(f)
    <3>1. i \in 1..Len(f) /\ f[i] \in Taking
      BY <1>1, <1>4, <1>8, <2>1
    <3> QED
      BY <1>2, <1>6, <3>1
  <2>2. CASE ~(i <= Len(f))
    <3>1. i - Len(f) \in 1..Len(g) /\ g[i - Len(f)] \in Taking
      BY <1>1, <1>4, <1>8, <2>2
    <3>2. PICK j \in 1..n : r[j] = i - Len(f)
      BY <1>3, <3>1
    <3>3. q[m + j] = i /\ m + j \in 1..(m + n)
      BY <1>1, <1>7, <3>2
    <3> QED
      BY <3>3
  <2> QED
    BY <2>1, <2>2
<1>9. Covered(h, m + n)
  BY <1>5, <1>8 DEF Covered
<1> QED
  BY <1>1, <1>4, <1>9 DEF Part, h

\* The text after its first k characters.
Rest(f, k) == SubSeq(f, k + 1, Len(f))

\* Its length and its characters.
LEMMA RestIs ==
  ASSUME NEW f, IsText(f), NEW k \in 0..Len(f)
  PROVE  /\ IsText(Rest(f, k)) /\ Len(Rest(f, k)) = Len(f) - k
         /\ \A i \in 1..(Len(f) - k) : Rest(f, k)[i] = f[k + i]
<1>1. Len(f) \in Nat
  BY TextIs
<1>2. k + 1 \in 1..(Len(f) + 1) /\ Len(f) \in 0..Len(f)
  BY <1>1
<1>3. /\ IsText(Rest(f, k))
      /\ Len(Rest(f, k)) = IF k + 1 <= Len(f) THEN Len(f) - (k + 1) + 1 ELSE 0
      /\ \A i \in 1..(Len(f) - (k + 1) + 1) : Rest(f, k)[i] = f[(k + 1) + i - 1]
  BY <1>2, PartText DEF Rest
<1>4. \A i \in 1..(Len(f) - k) : i \in 1..(Len(f) - (k + 1) + 1) /\ (k + 1) + i - 1 = k + i
  BY <1>1
<1> QED
  BY <1>1, <1>3, <1>4

\* The rest of a part takes no more than the part.
LEMMA PartRest ==
  ASSUME NEW f, NEW m, Part(f, m), NEW k \in 0..Len(f)
  PROVE  Part(Rest(f, k), m)
<1>1. IsText(f) /\ m \in Nat /\ Len(f) \in Nat
  BY TextIs DEF Part
<1>2. PICK p \in [1..m -> Int] :
        \A i \in 1..Len(f) : f[i] \in Taking => \E j \in 1..m : p[j] = i
  BY DEF Part, Covered
<1> DEFINE g == Rest(f, k)
           q == [j \in 1..m |-> p[j] - k]
<1>3. IsText(g) /\ Len(g) = Len(f) - k /\ \A i \in 1..(Len(f) - k) : g[i] = f[k + i]
  BY <1>1, RestIs
<1> HIDE DEF g
<1>4. q \in [1..m -> Int]
  BY <1>1
<1>5. ASSUME NEW i \in 1..Len(g), g[i] \in Taking PROVE \E j \in 1..m : q[j] = i
  <2>1. k + i \in 1..Len(f) /\ f[k + i] \in Taking
    BY <1>1, <1>3, <1>5
  <2>2. PICK j \in 1..m : p[j] = k + i
    BY <1>2, <2>1
  <2>3. q[j] = i
    BY <1>1, <2>2
  <2> QED
    BY <2>3
<1> HIDE DEF q
<1>6. Covered(g, m)
  BY <1>4, <1>5 DEF Covered
<1> QED
  BY <1>1, <1>3, <1>6 DEF Part, g

\* Behind a character that may take an argument there is one less: the last
\* place of the list moves to where the first character's was.
LEMMA PartTaken ==
  ASSUME NEW f, NEW m, Part(f, m), Len(f) >= 1, f[1] \in Taking
  PROVE  m >= 1 /\ Part(Rest(f, 1), m - 1)
<1>1. IsText(f) /\ m \in Nat /\ Len(f) \in Nat
  BY TextIs DEF Part
<1>2. PICK p \in [1..m -> Int] :
        \A i \in 1..Len(f) : f[i] \in Taking => \E j \in 1..m : p[j] = i
  BY DEF Part, Covered
<1>3. PICK first \in 1..m : p[first] = 1
  <2>1. 1 \in 1..Len(f)
    BY <1>1
  <2> QED
    BY <1>2, <2>1
<1> DEFINE g == Rest(f, 1)
           q == [j \in 1..(m - 1) |-> (IF j = first THEN p[m] ELSE p[j]) - 1]
<1>4. IsText(g) /\ Len(g) = Len(f) - 1 /\ \A i \in 1..(Len(f) - 1) : g[i] = f[1 + i]
  BY <1>1, RestIs
<1> HIDE DEF g
<1>5. m \in 1..m
  BY <1>1, <1>3
<1>6. q \in [1..(m - 1) -> Int]
  <2> SUFFICES ASSUME NEW j \in 1..(m - 1)
               PROVE  (IF j = first THEN p[m] ELSE p[j]) - 1 \in Int
    OBVIOUS
  <2>1. j \in 1..m
    BY <1>1
  <2>2. p[m] \in Int /\ p[j] \in Int
    BY <1>5, <2>1
  <2> QED
    BY <2>2
<1>7. ASSUME NEW i \in 1..Len(g), g[i] \in Taking PROVE \E j \in 1..(m - 1) : q[j] = i
  <2>1. 1 + i \in 1..Len(f) /\ f[1 + i] \in Taking
    BY <1>1, <1>4, <1>7
  <2>2. PICK j \in 1..m : p[j] = 1 + i
    BY <1>2, <2>1
  <2>3. j # first
    BY <1>3, <2>2
  <2>4. CASE j = m
    <3>1. first \in 1..(m - 1)
      BY <1>1, <1>3, <2>3, <2>4
    <3>2. q[first] = p[m] - 1
      BY <3>1
    <3>3. q[first] = i
      BY <2>2, <2>4, <3>2
    <3> QED
      BY <3>1, <3>3
  <2>5. CASE j # m
    <3>1. j \in 1..(m - 1)
      BY <1>1, <2>5
    <3>2. q[j] = p[j] - 1
      BY <2>3, <3>1
    <3>3. q[j] = i
      BY <2>2, <3>2
    <3> QED
      BY <3>1, <3>3
  <2> QED
    BY <2>4, <2>5
<1> HIDE DEF q
<1>8. Covered(g, m - 1)
  BY <1>6, <1>7 DEF Covered
<1> QED
  BY <1>1, <1>4, <1>5, <1>8 DEF Part, g

\* A format ends with its NUL, and for each of its characters that may take an
\* argument there is one.
FormatInv == IsText(format) /\ Len(format) >= 1 /\ format[Len(format)] = NUL
ArgsInv   == args \in Seq(Int) /\ Part(format, Len(args))
WalkInv   == FormatInv /\ ArgsInv

\* The walk goes over characters before the NUL.
LEMMA Passes ==
  ASSUME WalkInv, NEW k \in 0..(Len(format) - 1), Skip(k), args' = args
  PROVE  WalkInv'
<1>1. IsText(format) /\ Len(format) \in Nat /\ format[Len(format)] = NUL
  BY TextIs DEF WalkInv, FormatInv
<1>2. k \in 0..Len(format) /\ k < Len(format)
  BY <1>1
<1>3. format' = Rest(format, k)
  BY DEF Skip, Rest
<1> DEFINE g == Rest(format, k)
<1>4. IsText(g) /\ Len(g) = Len(format) - k
      /\ \A i \in 1..(Len(format) - k) : g[i] = format[k + i]
  BY <1>1, <1>2, RestIs
<1>5. Part(g, Len(args))
  BY <1>2, PartRest DEF WalkInv, ArgsInv
<1> HIDE DEF g
<1>6. Len(g) >= 1 /\ g[Len(g)] = NUL
  <2>1. Len(g) \in 1..(Len(format) - k) /\ k + Len(g) = Len(format)
    BY <1>1, <1>2, <1>4
  <2> QED
    BY <1>1, <1>4, <2>1
<1> QED
  BY <1>3, <1>4, <1>5, <1>6 DEF WalkInv, FormatInv, ArgsInv, g

\* There is a first character.
LEMMA First ==
  ASSUME WalkInv
  PROVE  Len(format) \in Nat /\ Len(format) >= 1 /\ Next1 = format[1]
<1>1. IsText(format) /\ Len(format) >= 1
  BY DEF WalkInv, FormatInv
<1> QED
  BY <1>1 DEF IsText, Next1

\* One character that is not the NUL can be passed.
LEMMA PassesOne ==
  ASSUME WalkInv, Next1 # NUL, Skip(1), args' = args
  PROVE  WalkInv'
<1>1. Len(format) \in Nat /\ Len(format) >= 1 /\ format[Len(format)] = NUL /\ Next1 = format[1]
  BY First DEF WalkInv, FormatInv
<1>2. 1 \in 0..(Len(format) - 1)
  BY <1>1
<1> QED
  BY <1>2, Passes

\* So can two, as of ll and hh.
LEMMA PassesTwo ==
  ASSUME WalkInv, Next1 # NUL, format[2] # NUL, Skip(2), args' = args
  PROVE  WalkInv'
<1>1. Len(format) \in Nat /\ Len(format) >= 1 /\ format[Len(format)] = NUL /\ Next1 = format[1]
  BY First DEF WalkInv, FormatInv
<1>2. 2 \in 0..(Len(format) - 1)
  BY <1>1
<1> QED
  BY <1>2, Passes

\* It takes an argument: there is one.
LEMMA Takes ==
  ASSUME WalkInv, Next1 \in Taking
  PROVE  Len(args) >= 1 /\ Head(args) \in Int /\ (Skip(1) /\ Take => WalkInv')
<1>1. IsText(format) /\ Len(format) \in Nat /\ Len(format) >= 1 /\ format[1] \in Taking
  BY First DEF WalkInv, FormatInv
<1>2. Part(format, Len(args)) /\ args \in Seq(Int) /\ format[Len(format)] = NUL
  BY DEF WalkInv, ArgsInv, FormatInv
<1> DEFINE g == Rest(format, 1)
<1>3. Len(args) >= 1 /\ Part(g, Len(args) - 1)
  BY <1>1, <1>2, PartTaken
<1>4. Head(args) \in Int /\ Tail(args) \in Seq(Int) /\ Len(Tail(args)) = Len(args) - 1
  <2>1. args # <<>> /\ Len(args) \in Nat
    BY <1>2, <1>3
  <2> QED
    BY <1>2, <2>1
<1>5. 1 \in 0..Len(format)
  BY <1>1
<1>6. IsText(g) /\ Len(g) = Len(format) - 1
      /\ \A i \in 1..(Len(format) - 1) : g[i] = format[1 + i]
  BY <1>1, <1>5, RestIs
<1> HIDE DEF g
<1>7. Len(format) > 1
  <2>1. NUL \notin Taking
    BY DEF NUL, Taking
  <2> QED
    BY <1>1, <1>2, <2>1
<1>8. Len(g) >= 1 /\ g[Len(g)] = NUL
  <2>1. Len(g) \in 1..(Len(format) - 1) /\ 1 + Len(g) = Len(format)
    BY <1>1, <1>6, <1>7
  <2> QED
    BY <1>2, <1>6, <2>1
<1>9. ASSUME Skip(1), Take PROVE WalkInv'
  <2>1. format' = g /\ args' = Tail(args)
    BY <1>9 DEF Skip, Rest, Take, g
  <2> QED
    BY <2>1, <1>3, <1>4, <1>6, <1>8 DEF WalkInv, FormatInv, ArgsInv
<1> QED
  BY <1>3, <1>4, <1>9

-----------------------------------------------------------------------------
(* Numbers in the format.                                                  *)

\* The digits at the front of the format end before its NUL.
LEMMA DigitsEnd ==
  ASSUME WalkInv
  PROVE  /\ Digits \in 0..(Len(format) - 1)
         /\ \A i \in 1..Digits : IsDigit(format[i])
<1>1. Len(format) \in Nat /\ Len(format) >= 1 /\ format[Len(format)] = NUL
  BY First DEF WalkInv, FormatInv
<1>2. ~IsDigit(NUL)
  BY DEF IsDigit, Range, DigitChars, NUL
<1> DEFINE T == {n \in 0..(Len(format) - 1) : ~IsDigit(format[n + 1])}
           P(n) == /\ \A i \in 1..n : IsDigit(format[i])
                   /\ n < Len(format) => ~IsDigit(format[n + 1])
<1>3. Len(format) - 1 \in T
  BY <1>1, <1>2
<1>4. PICK n \in T : \A m \in T : ~(m < n)
  <2>1. T \subseteq Nat
    BY <1>1
  <2>2. T # {}
    BY <1>3
  <2> HIDE DEF T
  <2> QED
    BY <2>1, <2>2, Smallest
<1>5. n \in 0..Len(format) /\ P(n)
  <2>1. n \in 0..(Len(format) - 1) /\ ~IsDigit(format[n + 1])
    BY <1>4
  <2>2. ASSUME NEW i \in 1..n PROVE IsDigit(format[i])
    <3>1. i - 1 \in 0..(Len(format) - 1) /\ i - 1 < n /\ (i - 1) + 1 = i
      BY <1>1, <2>1
    <3>2. i - 1 \notin T
      BY <1>4, <3>1
    <3> QED
      BY <3>1, <3>2
  <2> QED
    BY <1>1, <2>1, <2>2
<1> DEFINE d == CHOOSE x \in 0..Len(format) : P(x)
<1>6. d \in 0..Len(format) /\ P(d)
  <2> HIDE DEF P
  <2> QED
    BY <1>5
<1>7. Digits = d
  BY DEF Digits
<1> HIDE DEF d
<1>8. d # Len(format)
  <2>1. CASE d = Len(format)
    <3>1. Len(format) \in 1..d
      BY <1>1, <2>1
    <3> QED
      BY <1>1, <1>2, <1>6, <3>1
  <2> QED
    BY <2>1
<1> QED
  BY <1>1, <1>6, <1>7, <1>8

\* A digit has a value.
LEMMA DigitIs ==
  ASSUME NEW c, IsDigit(c)
  PROVE  DigitValue(c) \in Nat
<1>1. \E d \in 0..9 : DigitChars[d + 1] = c
  <2>1. PICK i \in DOMAIN DigitChars : DigitChars[i] = c
    BY DEF IsDigit, Range
  <2>2. DOMAIN DigitChars = 1..10
    BY DEF DigitChars
  <2>3. i - 1 \in 0..9 /\ (i - 1) + 1 = i
    BY <2>1, <2>2
  <2> QED
    BY <2>1, <2>3
<1>2. DigitValue(c) \in 0..9
  BY <1>1 DEF DigitValue
<1> QED
  BY <1>2

\* atoi returns a number.
LEMMA AtoiNat ==
  ASSUME WalkInv
  PROVE  atoi \in Nat
<1> DEFINE N == Digits
           f == [p \in (1..N) \X Nat |-> p[2] * 10 + DigitValue(format[p[1]])]
           E(r) == r = [n \in 0..N |-> IF n = 0 THEN 0 ELSE r[n - 1] * 10 + DigitValue(format[n])]
<1>1. N \in Nat /\ \A n \in 1..N : DigitValue(format[n]) \in Nat
  <2>1. N \in Nat /\ \A n \in 1..N : IsDigit(format[n])
    BY DigitsEnd, First
  <2> HIDE DEF N
  <2> QED
    BY <2>1, DigitIs
<1> HIDE DEF N
<1>2. ASSUME NEW n \in 1..N, NEW u \in Nat
      PROVE  f[<<n, u>>] = u * 10 + DigitValue(format[n]) /\ f[<<n, u>>] \in Nat
  <2>1. f[<<n, u>>] = u * 10 + DigitValue(format[n])
    OBVIOUS
  <2>2. DigitValue(format[n]) \in Nat
    BY <1>1
  <2> HIDE DEF f
  <2> QED
    BY <2>1, <2>2
<1> HIDE DEF f
<1>3. Steps(f, N, Nat)
  BY <1>2 DEF Steps
<1>4. PICK r \in [0..N -> Nat] : Run(r, f, N, 0)
  BY <1>1, <1>3, Recursion
<1>5. E(r)
  <2>1. ASSUME NEW n \in 1..N PROVE f[<<n, r[n - 1]>>] = r[n - 1] * 10 + DigitValue(format[n])
    <3>1. r[n - 1] \in Nat
      BY <1>1
    <3> QED
      BY <1>2, <3>1
  <2>2. ASSUME NEW n \in 0..N, n # 0 PROVE n \in 1..N
    BY <1>1, <2>2
  <2> QED
    BY <1>4, <2>1, <2>2 DEF Run
<1> DEFINE q == CHOOSE x : E(x)
<1>6. E(q)
  <2> HIDE DEF E
  <2> QED
    BY <1>5
<1>7. atoi = q[N]
  BY DEF atoi, N
<1> HIDE DEF q
<1>8. q[0] = 0 /\ \A n \in 1..N : q[n] = q[n - 1] * 10 + DigitValue(format[n])
  BY <1>1, <1>6
<1> HIDE DEF E
<1> DEFINE T == {n \in 0..N : q[n] \in Nat}
<1>9. 0 \in T
  BY <1>1, <1>8
<1>10. ASSUME NEW n \in 1..N, n - 1 \in T PROVE n \in T
  <2>1. q[n - 1] \in Nat /\ DigitValue(format[n]) \in Nat
    BY <1>1, <1>10
  <2>2. q[n] \in Nat
    BY <1>8, <2>1
  <2> QED
    BY <1>1, <2>2
<1> HIDE DEF T
<1>11. \A n \in 0..N : n \in T
  BY <1>1, <1>9, <1>10, InductTo
<1>12. N \in T
  BY <1>1, <1>11
<1> QED
  BY <1>7, <1>12 DEF T

\* A digit stands for its value.
LEMMA DigitMeans ==
  ASSUME NEW d \in 0..9
  PROVE  IsDigit(DigitChars[d + 1]) /\ DigitValue(DigitChars[d + 1]) = d
<1> DEFINE c == DigitChars[d + 1]
<1>1. DOMAIN DigitChars = 1..10
  BY DEF DigitChars
<1>2. d + 1 \in 1..10
  OBVIOUS
<1>3. IsDigit(c)
  BY <1>1, <1>2 DEF IsDigit, Range
<1>4. \A i, j \in 1..10 : DigitChars[i] = DigitChars[j] => i = j
  BY DEF DigitChars
<1>5. \A e \in 0..9 : DigitChars[e + 1] = c => e = d
  <2> SUFFICES ASSUME NEW e \in 0..9, DigitChars[e + 1] = DigitChars[d + 1] PROVE e = d
    OBVIOUS
  <2>1. e + 1 \in 1..10
    OBVIOUS
  <2>2. e + 1 = d + 1
    BY <1>2, <1>4, <2>1
  <2> QED
    BY <2>2
<1>6. DigitValue(c) = CHOOSE e \in 0..9 : DigitChars[e + 1] = c
  BY DEF DigitValue
<1> HIDE DEF c
<1>7. DigitChars[d + 1] = c
  BY DEF c
<1>8. DigitValue(c) = d
  BY <1>5, <1>6, <1>7
<1> QED
  BY <1>3, <1>8 DEF c

\* Division of numbers.
LEMMA DivideNat ==
  ASSUME NEW v \in Nat, NEW p \in Nat \ {0}
  PROVE  v \div p \in Nat
BY Z3

\* Dividing by a product is dividing by one factor and then by the other.
LEMMA DividedTwice ==
  ASSUME NEW v \in Nat, NEW p \in Nat \ {0}, NEW b \in Nat \ {0}
  PROVE  v \div (b * p) = (v \div p) \div b
BY Z3

\* atoi reads what the caller's numeral means, and all of it.
LEMMA NumberRead ==
  ASSUME NEW v \in Nat, v < Power(2, LongBits), NEW rest, IsText(rest), Len(rest) >= 1,
         ~IsDigit(rest[1]), format = Numeral(v, 10, DigitChars) \o rest
  PROVE  /\ Digits = Places(v, 10) /\ atoi = v /\ IsDigit(Next1)
         /\ Skip(Digits) => format' = rest
<1> DEFINE num == Numeral(v, 10, DigitChars)
           n == Places(v, 10)
<1>0. 10 \in Nat \ {0, 1} /\ 10 \in Nat \ {0}
  OBVIOUS
<1>1. /\ IsText(num) /\ Len(num) = n
      /\ \A i \in 1..n : num[i] = DigitChars[DigitOf(v, 10, n - i) + 1]
  BY <1>0, NumeralIs
<1>2. n \in Nat \ {0} /\ v < Power(10, n)
  <2>1. n \in 1..LongBits /\ v < Power(10, n)
    BY <1>0, PlacesIs
  <2> HIDE DEF n
  <2> QED
    BY <2>1
<1> HIDE DEF num, n
<1>3. ASSUME NEW i \in 1..n
      PROVE  IsDigit(num[i]) /\ DigitValue(num[i]) = DigitOf(v, 10, n - i)
  <2>1. n - i \in Nat
    BY <1>2
  <2>2. DigitOf(v, 10, n - i) \in 0..(10 - 1)
    BY <1>0, <2>1, DigitOfBelow
  <2>3. DigitOf(v, 10, n - i) \in 0..9
    BY <2>2
  <2> QED
    BY <1>1, <2>3, DigitMeans
<1>4. /\ Len(rest) \in Nat /\ IsText(format) /\ Len(format) = n + Len(rest)
      /\ \A i \in 1..(n + Len(rest)) : format[i] = IF i <= n THEN num[i] ELSE rest[i - n]
  <2> DEFINE h == num \o rest
  <2>1. format = h /\ Len(rest) \in Nat
    BY TextIs DEF num
  <2>2. /\ IsText(h) /\ Len(h) = Len(num) + Len(rest)
        /\ \A i \in 1..(Len(num) + Len(rest)) :
             h[i] = IF i <= Len(num) THEN num[i] ELSE rest[i - Len(num)]
    BY <1>1, Chained
  <2>3. Len(num) = n
    BY <1>1
  <2> HIDE DEF h
  <2> QED
    BY <2>1, <2>2, <2>3
<1>5. \A i \in 1..n : format[i] = num[i]
  BY <1>2, <1>4
<1>6. format[n + 1] = rest[1]
  <2>1. n + 1 \in 1..(n + Len(rest)) /\ ~(n + 1 <= n) /\ (n + 1) - n = 1
    BY <1>2, <1>4
  <2> QED
    BY <1>4, <2>1
<1> DEFINE P(d) == /\ \A i \in 1..d : IsDigit(format[i])
                   /\ d < Len(format) => ~IsDigit(format[d + 1])
           c == CHOOSE d \in 0..Len(format) : P(d)
<1>7. n \in 0..Len(format) /\ P(n)
  BY <1>2, <1>3, <1>4, <1>5, <1>6
<1>8. c \in 0..Len(format) /\ P(c)
  <2> HIDE DEF P
  <2> QED
    BY <1>7
<1>9. Digits = c
  BY DEF Digits
<1> HIDE DEF c
<1>10. c = n
  <2>1. ASSUME c < n PROVE FALSE
    <3>1. c + 1 \in 1..n /\ c < Len(format)
      BY <1>2, <1>4, <1>8, <2>1
    <3> QED
      BY <1>3, <1>5, <1>8, <3>1
  <2>2. ASSUME n < c PROVE FALSE
    <3>1. n + 1 \in 1..c
      BY <1>2, <1>4, <1>8, <2>2
    <3> QED
      BY <1>6, <1>8, <3>1
  <2> QED
    BY <1>2, <1>4, <1>8, <2>1, <2>2
<1> DEFINE E(x) == x = [k \in 0..n |-> IF k = 0 THEN 0 ELSE x[k - 1] * 10 + DigitValue(format[k])]
           r == [k \in 0..n |-> v \div Power(10, n - k)]
           q == CHOOSE x : E(x)
<1>11. \A j \in Nat : Power(10, j) \in Nat \ {0} /\ Power(10, j + 1) = 10 * Power(10, j)
  BY <1>0, PowerIs
<1>12. r[0] = 0
  <2>1. n - 0 = n /\ 0 \in 0..n
    BY <1>2
  <2>2. Power(10, n) \in Nat \ {0}
    BY <1>2, <1>11
  <2>3. v \div Power(10, n) = 0
    BY <1>2, <2>2, NoneLeft
  <2> QED
    BY <2>1, <2>3
<1>13. ASSUME NEW k \in 1..n PROVE r[k] = r[k - 1] * 10 + DigitValue(format[k])
  <2> DEFINE j == n - k
             p == Power(10, j)
             w == v \div p
  <2>1. j \in Nat /\ n - (k - 1) = j + 1 /\ k - 1 \in 0..n /\ k \in 0..n
    BY <1>2
  <2>2. r[k] = w /\ r[k - 1] = v \div Power(10, j + 1)
    BY <2>1
  <2>3. DigitValue(format[k]) = w % 10
    BY <1>3, <1>5 DEF DigitOf
  <2> HIDE DEF j
  <2>4. p \in Nat \ {0} /\ Power(10, j + 1) = 10 * p
    BY <1>11, <2>1
  <2>5. v \div (10 * p) = (v \div p) \div 10
    BY <1>0, <2>4, DividedTwice
  <2>6. w \in Nat
    BY <2>4, DivideNat
  <2>7. r[k - 1] = w \div 10
    BY <2>2, <2>4, <2>5
  <2> HIDE DEF w, r
  <2>8. w = (w \div 10) * 10 + (w % 10)
    BY <2>6, Z3
  <2> QED
    BY <2>2, <2>3, <2>7, <2>8
<1>14. r[n] = v
  <2>1. n \in 0..n /\ n - n = 0 /\ Power(10, 0) = 1
    BY <1>0, <1>2, PowerIs
  <2>2. v \div 1 = v
    OBVIOUS
  <2> QED
    BY <2>1, <2>2
<1>15. E(r)
  <2>1. r = [k \in 0..n |-> r[k]]
    OBVIOUS
  <2>2. \A k \in 0..n : k # 0 => k \in 1..n
    BY <1>2
  <2> HIDE DEF r
  <2> QED
    BY <1>12, <1>13, <2>1, <2>2
<1> HIDE DEF r
<1>16. E(q)
  <2> HIDE DEF E
  <2> QED
    BY <1>15
<1>17. atoi = q[n]
  BY <1>9, <1>10 DEF atoi
<1> HIDE DEF q
<1>18. q[0] = 0 /\ \A k \in 1..n : q[k] = q[k - 1] * 10 + DigitValue(format[k])
  <2>1. 0 \in 0..n /\ \A k \in 1..n : k \in 0..n /\ k # 0
    BY <1>2
  <2>2. \A k \in 0..n : q[k] = IF k = 0 THEN 0 ELSE q[k - 1] * 10 + DigitValue(format[k])
    BY <1>16
  <2> QED
    BY <2>1, <2>2
<1> HIDE DEF E
<1> DEFINE T == {k \in 0..n : q[k] = r[k]}
<1>19. 0 \in T
  BY <1>2, <1>12, <1>18
<1>20. ASSUME NEW k \in 1..n, k - 1 \in T PROVE k \in T
  <2>1. q[k - 1] = r[k - 1] /\ k \in 0..n
    BY <1>20
  <2> QED
    BY <1>13, <1>18, <2>1
<1> HIDE DEF T
<1>21. n \in T
  <2>1. n \in Nat
    BY <1>2
  <2>2. \A k \in 0..n : k \in T
    BY <1>19, <1>20, <2>1, InductTo
  <2> QED
    BY <2>1, <2>2
<1>22. atoi = v
  BY <1>14, <1>17, <1>21 DEF T
<1>23. IsDigit(Next1)
  <2>1. 1 \in 1..n /\ Len(format) >= 1
    BY <1>2, <1>4
  <2>2. Next1 = format[1]
    BY DEF Next1
  <2> QED
    BY <1>3, <1>5, <2>1, <2>2
<1>24. ASSUME Skip(Digits) PROVE format' = rest
  <2>1. format' = SubSeq(num \o rest, Len(num) + 1, Len(num \o rest))
    BY <1>1, <1>9, <1>10, <1>24 DEF Skip, num
  <2> QED
    BY <1>1, <2>1, BehindIs
<1> QED
  BY <1>9, <1>10, <1>22, <1>23, <1>24 DEF n

-----------------------------------------------------------------------------
(* The caller's format.                                                    *)

\* What the caller's directive may be.
CalledInv == directive \in Directives /\ value \in Int /\ IsText(str)

\* The assumption about directives for the one of this call.
LEMMA DirectiveIs ==
  ASSUME CalledInv
  PROVE  /\ directive.flags \in Seq(DOMAIN FlagOf)
         /\ directive.width.kind \in {"none", "number", "star"} /\ directive.width.n \in Int
         /\ directive.prec.kind \in {"none", "point", "number", "star"}
         /\ directive.prec.n \in Int
         /\ directive.length \in {<<>>, <<"h">>, <<"h", "h">>, <<"l">>, <<"l", "l">>, <<"j">>,
                                  <<"z">>, <<"t">>}
         /\ directive.width.kind = "number" =>
              directive.width.n \in Nat \ {0} /\ directive.width.n < Power(2, LongBits)
         /\ directive.prec.kind = "number" =>
              directive.prec.n \in Nat /\ directive.prec.n < Power(2, LongBits)
<1> DEFINE d == directive
<1>1. d \in Directives
  BY DEF CalledInv
<1> HIDE DEF d
<1>2. Power(2, IntBits) <= Power(2, LongBits) /\ Power(2, IntBits) \in Nat
      /\ Power(2, LongBits) \in Nat
  <2>1. IntBits \in Nat /\ LongBits \in Nat /\ IntBits <= LongBits /\ 2 \in Nat \ {0}
    BY PrintfAssumption
  <2> QED
    BY <2>1, PowerGrows, PowerIs
<1>3. d.flags \in Seq(DOMAIN FlagOf)
  BY <1>1, DirectiveAssumption
<1>4. d.width \in Nums({"none", "number", "star"})
      /\ d.prec \in Nums({"none", "point", "number", "star"})
  BY <1>1, DirectiveAssumption
<1>5. d.length \in {<<>>, <<"h">>, <<"h", "h">>, <<"l">>, <<"l", "l">>, <<"j">>, <<"z">>, <<"t">>}
  BY <1>1, DirectiveAssumption
<1>6. d.width.kind = "number" => d.width.n \in Nat /\ d.width.n < Power(2, IntBits) /\ d.width.n # 0
  BY <1>1, DirectiveAssumption
<1>7. d.prec.kind = "number" => d.prec.n \in Nat /\ d.prec.n < Power(2, IntBits)
  BY <1>1, DirectiveAssumption
<1>8. d.width.kind \in {"none", "number", "star"} /\ d.width.n \in Int
      /\ d.prec.kind \in {"none", "point", "number", "star"} /\ d.prec.n \in Int
  BY <1>4 DEF Nums
<1>9. d.width.kind = "number" => d.width.n \in Nat \ {0} /\ d.width.n < Power(2, LongBits)
  BY <1>2, <1>6
<1>10. d.prec.kind = "number" => d.prec.n \in Nat /\ d.prec.n < Power(2, LongBits)
  BY <1>2, <1>7
<1> QED
  BY <1>3, <1>5, <1>8, <1>9, <1>10, Zenon DEF d

\* What is written of a width or a precision.
LEMMA WrittenIs ==
  ASSUME NEW num, num.kind = "number" => num.n \in Nat /\ num.n < Power(2, LongBits)
  PROVE  /\ IsText(Written(num))
         /\ num.kind = "star" => Written(num) = <<"*">> /\ StarsOf(num) = <<num.n>>
         /\ num.kind # "star" => StarsOf(num) = <<>>
         /\ num.kind = "number" => Written(num) = Numeral(num.n, 10, DigitChars)
         /\ num.kind \notin {"star", "number"} => Written(num) = <<>>
<1>1. num.kind = "star" => Written(num) = <<"*">> /\ StarsOf(num) = <<num.n>>
  BY DEF Written, StarsOf
<1>2. num.kind # "star" => StarsOf(num) = <<>>
  BY DEF StarsOf
<1>3. num.kind = "number" => Written(num) = Numeral(num.n, 10, DigitChars)
  BY DEF Written
<1>4. num.kind \notin {"star", "number"} => Written(num) = <<>>
  BY DEF Written
<1>5. num.kind = "number" => IsText(Numeral(num.n, 10, DigitChars))
  <2>1. 10 \in Nat \ {0, 1}
    OBVIOUS
  <2> QED
    BY <2>1, NumeralIs
<1>6. IsText(<<"*">>) /\ IsText(<<>>)
  BY OneText, NoText
<1> QED
  BY <1>1, <1>2, <1>3, <1>4, <1>5, <1>6

\* A star takes an argument and a number none.
LEMMA WrittenPart ==
  ASSUME NEW num, num.n \in Int,
         num.kind = "number" => num.n \in Nat /\ num.n < Power(2, LongBits)
  PROVE  Part(Written(num), Len(StarsOf(num))) /\ StarsOf(num) \in Seq(Int)
<1>1. CASE num.kind = "star"
  <2>1. Written(num) = <<"*">> /\ StarsOf(num) = <<num.n>>
    BY <1>1, WrittenIs
  <2>2. IsText(<<"*">>) /\ Len(<<"*">>) = 1
    BY OneText
  <2>3. Covered(<<"*">>, 1)
    <3> DEFINE q == [j \in 1..1 |-> 1]
    <3>1. q \in [1..1 -> Int] /\ 1 \in 1..1 /\ q[1] = 1
      OBVIOUS
    <3> HIDE DEF q
    <3>2. \A i \in 1..1 : i = 1
      OBVIOUS
    <3> QED
      BY <2>2, <3>1, <3>2, Zenon DEF Covered
  <2>4. Part(<<"*">>, 1)
    BY <2>2, <2>3 DEF Part
  <2> QED
    BY <2>1, <2>4
<1>2. CASE num.kind = "number"
  <2> DEFINE v == num.n
             f == Numeral(v, 10, DigitChars)
             k == Places(v, 10)
  <2>1. Written(num) = f /\ StarsOf(num) = <<>>
    BY <1>2, WrittenIs
  <2>2. v \in Nat /\ v < Power(2, LongBits) /\ 10 \in Nat \ {0, 1} /\ 10 \in Nat \ {0}
    BY <1>2
  <2> HIDE DEF v
  <2>3. /\ IsText(f) /\ Len(f) = k
        /\ \A i \in 1..k : f[i] = DigitChars[DigitOf(v, 10, k - i) + 1]
    BY <2>2, NumeralIs
  <2>4. k \in Nat
    <3>1. k \in 1..LongBits
      BY <2>2, PlacesIs
    <3> HIDE DEF k
    <3> QED
      BY <3>1
  <2> HIDE DEF f, k
  <2>5. ASSUME NEW i \in 1..Len(f) PROVE f[i] \notin Taking
    <3> DEFINE j == k - i
    <3>1. i \in 1..k /\ j \in Nat
      BY <2>3, <2>4
    <3>2. f[i] = DigitChars[DigitOf(v, 10, j) + 1]
      BY <2>3, <3>1
    <3> HIDE DEF j
    <3>3. DigitOf(v, 10, j) \in 0..9
      <4>1. DigitOf(v, 10, j) \in 0..(10 - 1)
        BY <2>2, <3>1, DigitOfBelow
      <4> QED
        BY <4>1
    <3>4. \A d \in 0..9 : DigitChars[d + 1] \notin Taking
      <4>1. \A d \in 0..9 : d + 1 \in 1..10
        OBVIOUS
      <4>2. \A d \in 1..10 : DigitChars[d] \notin Taking
        BY DEF DigitChars, Taking
      <4> QED
        BY <4>1, <4>2
    <3> QED
      BY <3>2, <3>3, <3>4
  <2>6. Part(f, 0)
    BY <2>3, <2>5, PartNone
  <2> QED
    BY <2>1, <2>6
<1>3. CASE num.kind \notin {"star", "number"}
  <2>1. Written(num) = <<>> /\ StarsOf(num) = <<>>
    BY <1>3, WrittenIs
  <2>2. Part(<<>>, 0)
    BY NoText, PartNone
  <2> QED
    BY <2>1, <2>2
<1> QED
  BY <1>1, <1>2, <1>3

\* The caller passes an argument for every star, and the value.
LEMMA CallersFormat ==
  ASSUME Init
  PROVE  WalkInv
<1> DEFINE d == directive
           m == Len(StarsOf(d.width))
           n == Len(StarsOf(d.prec))
           dot == IF d.prec.kind = "none" THEN <<>> ELSE <<".">> \o Written(d.prec)
           end == <<d.conv, NUL>>
           all == <<"=", "%">> \o d.flags \o Written(d.width) \o dot \o d.length
<1>0. CalledInv
  <2>1. directive \in Directives /\ (str = <<>> \/ str \in Texts)
    BY DEF Init
  <2>2. value \in Int
    BY PrintfAssumption DEF Init
  <2>3. IsText(str)
    BY <2>1, NoText, PrintfAssumption
  <2> QED
    BY <2>1, <2>2, <2>3 DEF CalledInv
<1>1. /\ d.flags \in Seq(DOMAIN FlagOf)
      /\ d.width.n \in Int
      /\ (d.width.kind = "number" => d.width.n \in Nat /\ d.width.n < Power(2, LongBits))
      /\ d.prec.n \in Int
      /\ (d.prec.kind = "number" => d.prec.n \in Nat /\ d.prec.n < Power(2, LongBits))
      /\ d.length \in {<<>>, <<"h">>, <<"h", "h">>, <<"l">>, <<"l", "l">>, <<"j">>,
                       <<"z">>, <<"t">>}
  BY <1>0, DirectiveIs
<1>2. format = all \o end /\ args = StarsOf(d.width) \o StarsOf(d.prec) \o <<value>>
  BY DEF Init, FormatOf
<1>3. value \in Int
  BY <1>0 DEF CalledInv
<1> HIDE DEF d
<1>4. Part(<<"=", "%">>, 0)
  <2> DEFINE s == <<"=", "%">>
  <2>1. s \in Seq({"=", "%"}) /\ Len(s) = 2 /\ s[1] \notin Taking /\ s[2] \notin Taking
    BY DEF Taking
  <2>2. \A i \in 1..2 : i = 1 \/ i = 2
    OBVIOUS
  <2> HIDE DEF s
  <2>3. IsText(s)
    BY <2>1, SeqIsText
  <2>4. Part(s, 0)
    BY <2>1, <2>2, <2>3, PartNone
  <2> QED
    BY <2>4 DEF s
<1>5. Part(d.flags, 0)
  <2>1. IsText(d.flags)
    BY <1>1, SeqIsText
  <2>2. \A c \in DOMAIN FlagOf : c \notin Taking
    BY DEF FlagOf, Taking
  <2>3. \A i \in 1..Len(d.flags) : d.flags[i] \in DOMAIN FlagOf
    BY <1>1, ElementOfSeq
  <2> QED
    BY <2>1, <2>2, <2>3, PartNone
<1>6. Part(Written(d.width), m) /\ StarsOf(d.width) \in Seq(Int)
  BY <1>1, WrittenPart
<1>7. Part(dot, n) /\ StarsOf(d.prec) \in Seq(Int)
  <2>1. Part(Written(d.prec), n) /\ StarsOf(d.prec) \in Seq(Int)
    BY <1>1, WrittenPart
  <2>2. CASE d.prec.kind = "none"
    <3>1. dot = <<>> /\ Written(d.prec) = <<>>
      BY <2>2 DEF Written
    <3> QED
      BY <2>1, <3>1
  <2>3. CASE d.prec.kind # "none"
    <3>1. dot = <<".">> \o Written(d.prec)
      BY <2>3
    <3>2. IsText(<<".">>) /\ Len(<<".">>) = 1 /\ <<".">>[1] = "."
      BY OneText
    <3>3. "." \notin Taking
      BY DEF Taking
    <3>4. Part(<<".">>, 0)
      <4>1. \A i \in 1..1 : i = 1
        OBVIOUS
      <4>2. \A i \in 1..Len(<<".">>) : <<".">>[i] \notin Taking
        BY <3>2, <3>3, <4>1, Zenon
      <4> QED
        BY <3>2, <4>2, PartNone
    <3>5. Part(<<".">> \o Written(d.prec), 0 + n)
      BY <2>1, <3>4, PartChained
    <3>6. n \in Nat
      BY <2>1 DEF Part
    <3>7. 0 + n = n
      <4> HIDE DEF n
      <4> QED
        BY <3>6
    <3> QED
      BY <2>1, <3>1, <3>5, <3>7, Zenon
  <2> QED
    BY <2>2, <2>3
<1>8. Part(d.length, 0)
  <2> DEFINE S == {"h", "l", "j", "z", "t"}
  <2>1. d.length \in Seq(S)
    <3>1. "h" \in S /\ "l" \in S /\ "j" \in S /\ "z" \in S /\ "t" \in S
      OBVIOUS
    <3> HIDE DEF S
    <3>2. /\ <<>> \in Seq(S) /\ <<"h">> \in Seq(S) /\ <<"l">> \in Seq(S)
          /\ <<"j">> \in Seq(S) /\ <<"z">> \in Seq(S) /\ <<"t">> \in Seq(S)
      BY <3>1
    <3>3. <<"h", "h">> \in Seq(S) /\ <<"l", "l">> \in Seq(S)
      BY <3>1
    <3> QED
      BY <1>1, <3>2, <3>3, Zenon
  <2>2. \A c \in S : c \notin Taking
    BY DEF Taking
  <2> HIDE DEF S
  <2>3. IsText(d.length)
    BY <2>1, SeqIsText
  <2>4. \A i \in 1..Len(d.length) : d.length[i] \in S
    BY <2>1, ElementOfSeq
  <2> QED
    BY <2>2, <2>3, <2>4, PartNone
<1>9. Part(end, 1) /\ Len(end) = 2 /\ end[2] = NUL
  <2>1. end \in Seq({d.conv, NUL}) /\ Len(end) = 2 /\ end[2] = NUL
    OBVIOUS
  <2> HIDE DEF end
  <2>2. IsText(end)
    BY <2>1, SeqIsText
  <2> DEFINE q == [j \in 1..1 |-> 1]
  <2>3. q \in [1..1 -> Int] /\ 1 \in 1..1 /\ q[1] = 1
    OBVIOUS
  <2> HIDE DEF q
  <2>4. ASSUME NEW i \in 1..Len(end), end[i] \in Taking PROVE \E j \in 1..1 : q[j] = i
    <3>1. NUL \notin Taking
      BY DEF NUL, Taking
    <3>2. i = 1 \/ i = 2
      BY <2>1
    <3>3. i = 1
      BY <2>1, <2>4, <3>1, <3>2
    <3> QED
      BY <2>3, <3>3
  <2>5. Covered(end, 1)
    BY <2>3, <2>4 DEF Covered
  <2> QED
    BY <2>1, <2>2, <2>5 DEF Part
<1>10. m \in Nat /\ n \in Nat
  BY <1>6, <1>7 DEF Part
<1>11. args \in Seq(Int) /\ Len(args) = m + n + 1
  <2> DEFINE a == StarsOf(d.width)
             b == StarsOf(d.prec)
  <2>1. a \in Seq(Int) /\ b \in Seq(Int) /\ <<value>> \in Seq(Int) /\ Len(<<value>>) = 1
    BY <1>3, <1>6, <1>7
  <2> HIDE DEF a, b
  <2>2. a \o b \in Seq(Int) /\ Len(a \o b) = Len(a) + Len(b)
    BY <2>1, ConcatProperties
  <2> DEFINE c == a \o b
             v == <<value>>
  <2> HIDE DEF c, v
  <2>3. c \o v \in Seq(Int) /\ Len(c \o v) = Len(c) + Len(v)
    BY <2>1, <2>2, ConcatProperties DEF c, v
  <2>4. args = c \o v
    BY <1>2 DEF a, b, c, v
  <2>5. Len(c \o v) = m + n + 1
    BY <2>1, <2>2, <2>3 DEF a, b, c, v
  <2> QED
    BY <2>3, <2>4, <2>5
<1> HIDE DEF m, n, dot, end
<1>12. Part(all, m + n)
  <2> DEFINE A == <<"=", "%">>
             B == A \o d.flags
             C == B \o Written(d.width)
             D == C \o dot
  <2>1. Part(B, 0 + 0)
    BY <1>4, <1>5, PartChained
  <2>2. Part(C, 0 + 0 + m)
    <3> HIDE DEF B
    <3> QED
      BY <2>1, <1>6, PartChained
  <2>3. Part(D, 0 + 0 + m + n)
    <3> HIDE DEF C
    <3> QED
      BY <2>2, <1>7, PartChained
  <2>4. Part(D \o d.length, 0 + 0 + m + n + 0)
    <3> HIDE DEF D
    <3> QED
      BY <2>3, <1>8, PartChained
  <2>5. 0 + 0 + m + n + 0 = m + n
    BY <1>10
  <2> QED
    BY <2>4, <2>5, Zenon
<1> HIDE DEF all
<1>13. Part(format, m + n + 1)
  BY <1>2, <1>9, <1>12, PartChained
<1>14. IsText(format) /\ Len(format) = Len(all) + 2 /\ format[Len(all) + 2] = NUL
       /\ Len(all) \in Nat
  <2>1. IsText(all) /\ IsText(end) /\ Len(all) \in Nat
    BY <1>9, <1>12, TextIs DEF Part
  <2>2. /\ IsText(format) /\ Len(format) = Len(all) + Len(end)
        /\ \A i \in 1..(Len(all) + Len(end)) :
             format[i] = IF i <= Len(all) THEN all[i] ELSE end[i - Len(all)]
    BY <1>2, <2>1, Chained
  <2>3. Len(all) + 2 \in 1..(Len(all) + Len(end)) /\ (Len(all) + 2) - Len(all) = 2
    BY <1>9, <2>1
  <2> QED
    BY <1>9, <2>1, <2>2, <2>3
<1>15. Len(format) >= 1 /\ format[Len(format)] = NUL
  BY <1>14
<1> QED
  BY <1>11, <1>13, <1>14, <1>15 DEF WalkInv, FormatInv, ArgsInv

-----------------------------------------------------------------------------
(* The walk.                                                               *)

\* Whatever the directive, the walk stops at the NUL of the format and leaves
\* enough arguments for what is left of it.
LEMMA Walks == WalkInv /\ [Next]_vars => WalkInv'
<1> SUFFICES ASSUME WalkInv, [Next]_vars PROVE WalkInv'
  OBVIOUS
<1>1. ASSUME UNCHANGED <<format, args>> PROVE WalkInv'
  BY <1>1 DEF WalkInv, FormatInv, ArgsInv, Part, Covered, IsText
<1>2. ASSUME Skip(1), args' = args, Next1 # NUL PROVE WalkInv'
  BY <1>2, PassesOne
<1>3. ASSUME Skip(1), Take, Next1 \in Taking PROVE WalkInv'
  BY <1>3, Takes
<1>4. ASSUME Skip(Digits), args' = args PROVE WalkInv'
  BY <1>4, DigitsEnd, Passes
<1>5. CASE Literal \/ Percent \/ Precision \/ Itself
  <2>1. Next1 # NUL /\ Skip(1) /\ args' = args
    BY <1>5 DEF Literal, Percent, Precision, Itself, Converted, NUL
  <2> QED
    BY <1>2, <2>1
<1>6. CASE Flag
  <2>1. Next1 # NUL
    BY <1>6 DEF Flag, FlagOf, NUL
  <2> QED
    BY <1>2, <1>6, <2>1 DEF Flag
<1>7. CASE NoFlag \/ NoPrecision \/ Terminate \/ UNCHANGED vars
  BY <1>1, <1>7 DEF NoFlag, NoPrecision, Terminate, vars
<1>8. "*" \in Taking
  BY DEF Taking
<1>9. CASE Width
  <2>1. \/ Skip(Digits) /\ args' = args
        \/ Next1 = "*" /\ Skip(1) /\ Take
        \/ UNCHANGED <<format, args>>
    BY <1>9 DEF Width
  <2> QED
    BY <1>1, <1>3, <1>4, <1>8, <2>1
<1>10. CASE PrecisionValue
  <2>1. \/ Skip(Digits) /\ args' = args
        \/ Next1 = "*" /\ Skip(1) /\ Take
        \/ UNCHANGED <<format, args>>
    BY <1>10 DEF PrecisionValue
  <2> QED
    BY <1>1, <1>3, <1>4, <1>8, <2>1
<1>11. CASE Length
  <2>1. \/ Next1 = "l" /\ format[2] = "l" /\ Skip(2)
        \/ Next1 = "h" /\ format[2] = "h" /\ Skip(2)
        \/ Next1 \in {"l", "h", "t", "j", "z"} /\ Skip(1)
        \/ UNCHANGED format
    BY <1>11 DEF Length
  <2>2. args' = args
    BY <1>11 DEF Length
  <2>3. \A c \in {"l", "h", "t", "j", "z"} : c # NUL
    BY DEF NUL
  <2> QED
    BY <1>1, <1>2, <2>1, <2>2, <2>3, PassesTwo
<1>12. CASE SignedInt \/ UnsignedInt \/ Char \/ Pointer
  <2>1. Next1 \in Taking /\ Skip(1) /\ Take
    BY <1>12 DEF SignedInt, UnsignedInt, Char, Pointer, Converted, Taking
  <2> QED
    BY <1>3, <2>1
<1>13. CASE String
  <2>1. Next1 # NUL /\ Skip(1) /\ args' = args
    BY <1>13 DEF String, Converted, NUL
  <2> QED
    BY <1>2, <2>1
<1> QED
  BY <1>5, <1>6, <1>7, <1>9, <1>10, <1>11, <1>12, <1>13 DEF Next

\* The flags of logging.hpp that the walk can set.
FlagNames == {"ZEROPAD", "LEFT", "PLUS", "SPACE", "HASH", "PRECISION",
              "LONG", "LONG_LONG", "SHORT", "CHAR"}

\* What the walk found in the directive.
SpecInv == flags \subseteq FlagNames /\ width \in Nat /\ precision \in Nat

\* Flags are flags, width and precision numbers.
LEMMA Specifies == WalkInv /\ SpecInv /\ [Next]_vars => SpecInv'
<1> SUFFICES ASSUME WalkInv, SpecInv, [Next]_vars PROVE SpecInv'
  OBVIOUS
<1> USE DEF SpecInv
<1>1. Next1 = "*" => Head(args) \in Int
  <2>1. "*" \in Taking
    BY DEF Taking
  <2> QED
    BY <2>1, Takes
<1>2. CASE UNCHANGED spec
  BY <1>2 DEF spec
<1>3. CASE Percent
  BY <1>3 DEF Percent
<1>4. CASE Flag
  <2>1. \A c \in DOMAIN FlagOf : FlagOf[c] \in FlagNames
    BY DEF FlagOf, FlagNames
  <2>2. UNCHANGED <<width, precision>> /\ Next1 \in DOMAIN FlagOf
        /\ flags' = flags \cup {FlagOf[Next1]}
    BY <1>4 DEF Flag
  <2> QED
    BY <2>1, <2>2
<1>5. CASE Width
  <2>1. precision' = precision
    BY <1>5 DEF Width
  <2>2. "LEFT" \in FlagNames
    BY DEF FlagNames
  <2>3. \/ width' = atoi /\ flags' = flags
        \/ /\ Next1 = "*" /\ width' = StarWidth(Head(args))
           /\ flags' = flags \/ flags' = flags \cup {"LEFT"}
        \/ width' = 0 /\ flags' = flags
    BY <1>5 DEF Width
  <2>4. atoi \in Nat
    BY AtoiNat
  <2>5. Next1 = "*" => StarWidth(Head(args)) \in Nat
    BY <1>1 DEF StarWidth
  <2> HIDE DEF FlagNames
  <2>6. width' \in Nat
    BY <2>3, <2>4, <2>5
  <2>7. flags' \subseteq FlagNames
    BY <2>2, <2>3
  <2> QED
    BY <2>1, <2>6, <2>7
<1>6. CASE NoPrecision
  BY <1>6 DEF NoPrecision
<1>7. CASE Precision
  BY <1>7 DEF Precision, FlagNames
<1>8. CASE PrecisionValue
  <2>1. UNCHANGED <<flags, width>>
    BY <1>8 DEF PrecisionValue
  <2>2. \/ precision' = atoi
        \/ Next1 = "*" /\ precision' = (IF Head(args) > 0 THEN Head(args) ELSE 0)
        \/ precision' = precision
    BY <1>8 DEF PrecisionValue
  <2>3. precision' \in Nat
    BY <1>1, <2>2, AtoiNat
  <2> QED
    BY <2>1, <2>3
<1>9. CASE Length
  <2>1. UNCHANGED <<width, precision>>
    BY <1>9 DEF Length
  <2>2. flags' \subseteq flags \cup {"LONG", "LONG_LONG", "SHORT", "CHAR"}
    BY <1>9 DEF Length
  <2>3. {"LONG", "LONG_LONG", "SHORT", "CHAR"} \subseteq FlagNames
    BY DEF FlagNames
  <2> QED
    BY <2>1, <2>2, <2>3
<1>10. \/ UNCHANGED spec \/ Percent \/ Flag \/ Width \/ NoPrecision \/ Precision
       \/ PrecisionValue \/ Length
  BY DEF Next, Literal, NoFlag, SignedInt, UnsignedInt, Char, String, Pointer, Itself,
         Converted, Terminate, vars
<1> QED
  BY <1>2, <1>3, <1>4, <1>5, <1>6, <1>7, <1>8, <1>9, <1>10

-----------------------------------------------------------------------------
(* The caller's buffer.                                                    *)

\* What the caller passed.
CallInv == maxlen \in Nat /\ maxlen < Power(2, LongBits) /\ IsText(str)

\* Until the NUL is written the buffer holds what there was room for.
StoredInv ==
  /\ IsText(text) /\ DOMAIN buffer = 0..(Cells - 1)
  /\ stage # "done" =>
       \A k \in 0..(Cells - 1) :
         buffer[k] = IF k < Len(text) /\ k < maxlen THEN text[k + 1] ELSE Untouched

\* A text that is written goes behind the one before.
LEMMA Stores ==
  ASSUME StoredInv, maxlen \in Nat, stage # "done", UNCHANGED maxlen,
         NEW s, IsText(s), Emit(s)
  PROVE  StoredInv'
<1>1. IsText(text) /\ Len(text) \in Nat /\ Len(s) \in Nat /\ Cells \in Nat
  BY TextIs, PrintfAssumption DEF StoredInv
<1> DEFINE t == text \o s
<1>2. /\ IsText(t) /\ Len(t) = Len(text) + Len(s)
      /\ \A i \in 1..(Len(text) + Len(s)) :
           t[i] = IF i <= Len(text) THEN text[i] ELSE s[i - Len(text)]
  BY <1>1, Chained
<1>3. text' = t
  BY DEF Emit
<1> HIDE DEF t
<1>4. DOMAIN buffer = 0..(Cells - 1)
  BY DEF StoredInv
<1>5. /\ DOMAIN buffer' = 0..(Cells - 1)
      /\ \A k \in 0..(Cells - 1) :
           buffer'[k] = IF Len(text) <= k /\ k < Len(text) + Len(s) /\ k < maxlen
                        THEN s[k - Len(text) + 1] ELSE buffer[k]
  BY <1>4 DEF Emit, OutBuffer, idx
<1>6. ASSUME NEW k \in 0..(Cells - 1)
      PROVE  buffer'[k] = IF k < Len(t) /\ k < maxlen THEN t[k + 1] ELSE Untouched
  <2>1. buffer[k] = IF k < Len(text) /\ k < maxlen THEN text[k + 1] ELSE Untouched
    BY DEF StoredInv
  <2>2. CASE k < Len(text)
    <3>1. k + 1 \in 1..(Len(text) + Len(s)) /\ k + 1 <= Len(text)
      BY <1>1, <2>2
    <3>2. t[k + 1] = text[k + 1]
      BY <1>2, <3>1
    <3>3. buffer'[k] = buffer[k] /\ k < Len(t)
      BY <1>1, <1>2, <1>5, <2>2
    <3> QED
      BY <2>1, <2>2, <3>2, <3>3
  <2>3. CASE Len(text) <= k /\ k < Len(text) + Len(s)
    <3>1. k + 1 \in 1..(Len(text) + Len(s)) /\ ~(k + 1 <= Len(text)) /\ ~(k < Len(text))
          /\ (k + 1) - Len(text) = k - Len(text) + 1
      BY <1>1, <2>3
    <3>2. t[k + 1] = s[k - Len(text) + 1] /\ k < Len(t)
      BY <1>2, <2>3, <3>1
    <3> QED
      BY <1>5, <2>1, <2>3, <3>1, <3>2
  <2>4. CASE ~(k < Len(text) + Len(s))
    <3>1. ~(k < Len(text)) /\ ~(k < Len(t))
      BY <1>1, <1>2, <2>4
    <3> QED
      BY <1>5, <2>1, <2>4, <3>1
  <2> QED
    BY <1>1, <2>2, <2>3, <2>4
<1> QED
  BY <1>2, <1>3, <1>5, <1>6 DEF StoredInv

\* What a conversion writes is a text.
LEMMA PaddedText ==
  ASSUME NEW s, IsText(s), width \in Nat
  PROVE  IsText(Padded(s))
<1> DEFINE pad == Repeated(" ", width - Len(s))
<1>1. IsText(pad)
  <2>1. width - Len(s) \in Int
    BY TextIs
  <2> QED
    BY <2>1, RepeatedIs
<1> HIDE DEF pad
<1>2. IsText(s \o pad) /\ IsText(pad \o s)
  BY <1>1, Chained
<1> QED
  BY <1>2, Zenon DEF Padded, pad

\* What va_arg and its cast leave of an argument is a number of a long's bits.
LEMMA ArgumentIs ==
  ASSUME NEW v \in Int
  PROVE  /\ Unsigned(v, ArgBits) \in Nat /\ Unsigned(v, ArgBits) < Power(2, LongBits)
         /\ Unsigned(v, Wide) \in Nat /\ Unsigned(v, Wide) < Power(2, LongBits)
         /\ Unsigned(v, LongBits) \in Nat /\ Unsigned(v, LongBits) < Power(2, LongBits)
         /\ Signed(v, ArgBits) \in Int
<1>1. /\ ArgBits \in {CharBits, ShortBits, IntBits, LongBits}
      /\ Wide \in {IntBits, LongBits}
  BY DEF ArgBits, Wide
<1>2. \A bits \in {CharBits, ShortBits, IntBits, LongBits} :
        bits \in Nat \ {0} /\ bits <= LongBits
  BY PrintfAssumption
<1>3. LongBits \in Nat
  BY PrintfAssumption
<1>4. ASSUME NEW bits \in {CharBits, ShortBits, IntBits, LongBits}
      PROVE  /\ Unsigned(v, bits) \in Nat /\ Unsigned(v, bits) < Power(2, LongBits)
             /\ Signed(v, bits) \in Int
  <2>1. bits \in Nat \ {0} /\ bits <= LongBits
    BY <1>2
  <2>2. /\ Unsigned(v, bits) \in Nat /\ Unsigned(v, bits) < Power(2, bits)
        /\ Power(2, bits) <= Power(2, LongBits) /\ Signed(v, bits) \in Int
    BY <1>3, <2>1, TypeIs
  <2>3. Power(2, bits) \in Nat /\ Power(2, LongBits) \in Nat
    <3>1. bits \in Nat /\ 2 \in Nat \ {0}
      BY <2>1
    <3> QED
      BY <1>3, <3>1, PowerIs
  <2> QED
    BY <2>2, <2>3
<1> QED
  BY <1>1, <1>4, Zenon

\* Every conversion writes a text.
LEMMA Converts ==
  ASSUME WalkInv, CallInv, SpecInv, SignedInt \/ UnsignedInt \/ Char \/ String \/ Pointer
  PROVE  \E s : IsText(s) /\ Emit(s)
<1>1. width \in Nat /\ precision \in Nat /\ IsText(str)
  BY DEF SpecInv, CallInv
<1>0. width \in Int /\ precision \in Int
  BY <1>1
<1>2. CASE SignedInt
  <2> DEFINE v == Signed(Head(args), ArgBits)
             a == IF v > 0 THEN v ELSE 0 - v
             u == Unsigned(a, Wide)
             minus == v < 0
             f == IntFlags(Next1)
  <2>1. Emit(ntoa(u, minus, 10, precision, width, f)) /\ Next1 \in Taking
    BY <1>2 DEF SignedInt, Taking
  <2>2. v \in Int
    BY <2>1, Takes, ArgumentIs
  <2>3. minus \in BOOLEAN
    OBVIOUS
  <2> HIDE DEF v, f
  <2>4. a \in Int
    BY <2>2
  <2> HIDE DEF a, minus
  <2>5. u \in Nat /\ u < Power(2, LongBits)
    BY <2>4, ArgumentIs
  <2>6. 10 \in Nat \ {0, 1}
    OBVIOUS
  <2> HIDE DEF u
  <2>7. IsText(ntoa(u, minus, 10, precision, width, f))
    BY <1>0, <2>3, <2>5, <2>6, NumberText
  <2> QED
    BY <2>1, <2>7
<1>3. CASE UnsignedInt
  <2> DEFINE u == Unsigned(Head(args), ArgBits)
             b == Base(Next1)
             f == IntFlags(Next1)
  <2>1. Emit(ntoa(u, FALSE, b, precision, width, f)) /\ Next1 \in Taking
    BY <1>3 DEF UnsignedInt, Taking
  <2>2. u \in Nat /\ u < Power(2, LongBits)
    BY <2>1, Takes, ArgumentIs
  <2>3. b \in Nat \ {0, 1}
    <3>1. b \in {2, 8, 10, 16}
      BY DEF Base
    <3> HIDE DEF b
    <3> QED
      BY <3>1
  <2> HIDE DEF u, b, f
  <2>4. IsText(ntoa(u, FALSE, b, precision, width, f))
    BY <1>0, <2>2, <2>3, Positive
  <2> QED
    BY <2>1, <2>4
<1>4. CASE Char
  <2>1. Emit(Padded(<<"c">>))
    BY <1>4 DEF Char
  <2>2. IsText(Padded(<<"c">>))
    BY <1>1, OneText, PaddedText
  <2> QED
    BY <2>1, <2>2
<1>5. CASE String
  <2> DEFINE shown == IF "PRECISION" \in flags /\ precision < Len(str)
                      THEN SubSeq(str, 1, precision) ELSE str
  <2>1. Emit(Padded(shown))
    BY <1>5 DEF String
  <2>2. precision < Len(str) => IsText(SubSeq(str, 1, precision))
    <3> SUFFICES ASSUME precision < Len(str) PROVE IsText(SubSeq(str, 1, precision))
      OBVIOUS
    <3>1. Len(str) \in Nat
      BY <1>1, TextIs
    <3>2. 1 \in 1..(Len(str) + 1) /\ precision \in 0..Len(str)
      BY <1>1, <3>1
    <3> QED
      BY <1>1, <3>2, PartText
  <2>3. IsText(shown)
    BY <1>1, <2>2, Zenon
  <2> HIDE DEF shown
  <2>4. IsText(Padded(shown))
    BY <1>1, <2>3, PaddedText
  <2> QED
    BY <2>1, <2>4
<1>6. CASE Pointer
  <2> DEFINE u == Unsigned(Head(args), LongBits)
             w == LongBits \div 4
             g == flags \cup {"ZEROPAD", "UPPERCASE"}
  <2>1. Emit(ntoa(u, FALSE, 16, precision, w, g)) /\ Next1 \in Taking
    BY <1>6 DEF Pointer, Taking
  <2>2. u \in Nat /\ u < Power(2, LongBits)
    BY <2>1, Takes, ArgumentIs
  <2>3. w \in Int /\ 16 \in Nat \ {0, 1}
    BY PrintfAssumption
  <2> HIDE DEF u, g, w
  <2>4. IsText(ntoa(u, FALSE, 16, precision, w, g))
    BY <1>0, <2>2, <2>3, Positive
  <2> QED
    BY <2>1, <2>4
<1> QED
  BY <1>2, <1>3, <1>4, <1>5, <1>6

\* Only the NUL comes after the text, where there is room for it.
LEMMA NulStored ==
  ASSUME StoredInv, CallInv, Terminate
  PROVE  StoredInv' /\ Truncated'
<1>1. /\ IsText(text) /\ Len(text) \in Nat /\ Cells \in Nat /\ maxlen \in Nat
      /\ DOMAIN buffer = 0..(Cells - 1) /\ stage = "text" /\ stage' = "done"
      /\ UNCHANGED <<maxlen, text>>
  BY TextIs, PrintfAssumption DEF StoredInv, CallInv, Terminate, At, Goto, call
<1>2. \A k \in 0..(Cells - 1) :
        buffer[k] = IF k < Len(text) /\ k < maxlen THEN text[k + 1] ELSE Untouched
  BY <1>1 DEF StoredInv
<1> DEFINE at == IF Len(text) < maxlen THEN Len(text) ELSE Unsigned(maxlen - 1, LongBits)
           stored == IF Len(text) < maxlen THEN Len(text) ELSE maxlen - 1
<1>3. Len(<<NUL>>) = 1 /\ <<NUL>>[1] = NUL
  OBVIOUS
<1>4. /\ DOMAIN buffer' = 0..(Cells - 1)
      /\ \A k \in 0..(Cells - 1) :
           buffer'[k] = IF at <= k /\ k < at + 1 /\ k < maxlen
                        THEN <<NUL>>[k - at + 1] ELSE buffer[k]
  BY <1>1, <1>3 DEF Terminate, OutBuffer, idx
<1>5. maxlen > 0 => at = stored
  <2>1. ASSUME maxlen > 0 PROVE Unsigned(maxlen - 1, LongBits) = maxlen - 1
    <3>1. LongBits \in Nat /\ maxlen - 1 \in Nat /\ maxlen < Power(2, LongBits)
      BY <1>1, <2>1, PrintfAssumption DEF CallInv
    <3>2. Power(2, LongBits) \in Int
      <4>1. 2 \in Nat \ {0}
        OBVIOUS
      <4> QED
        BY <3>1, <4>1, PowerIs
    <3> DEFINE M == Power(2, LongBits)
               c == maxlen - 1
    <3>3. M \in Int /\ c \in Nat /\ c < M
      BY <1>1, <3>1, <3>2
    <3> HIDE DEF M, c
    <3>4. c % M = c
      BY <3>3, Z3
    <3> QED
      BY <3>4 DEF Unsigned, M, c
  <2> QED
    BY <2>1
<1> HIDE DEF at
<1>6. ASSUME NEW k \in 0..(Cells - 1)
      PROVE  buffer'[k] = CASE k < stored -> text[k + 1]
                            [] k = stored -> NUL
                            [] OTHER      -> Untouched
  <2>1. CASE maxlen = 0
    <3>1. ~(k < stored) /\ k # stored /\ ~(k < maxlen)
      BY <1>1, <2>1
    <3>2. buffer'[k] = Untouched
      BY <1>2, <1>4, <3>1
    <3> QED
      BY <3>1, <3>2
  <2>2. CASE maxlen > 0
    <3>1. at = stored /\ stored \in Nat /\ stored < maxlen /\ stored <= Len(text)
      BY <1>1, <1>5, <2>2
    <3> HIDE DEF stored
    <3>2. CASE k = stored
      <4>1. at <= k /\ k < at + 1 /\ k < maxlen /\ k - at + 1 = 1
        BY <3>1, <3>2
      <4> QED
        BY <1>3, <1>4, <3>1, <3>2, <4>1
    <3>3. CASE k < stored
      <4>1. ~(at <= k) /\ k < Len(text) /\ k < maxlen
        BY <1>1, <3>1, <3>3
      <4> QED
        BY <1>2, <1>4, <3>3, <4>1
    <3>4. CASE k > stored
      <4>1. ~(k < at + 1) /\ ~(k < Len(text) /\ k < maxlen)
        <5>1. stored = Len(text) \/ stored = maxlen - 1
          BY DEF stored
        <5> QED
          BY <1>1, <3>1, <3>4, <5>1
      <4>2. ~(k < stored) /\ k # stored
        BY <3>1, <3>4
      <4> QED
        BY <1>2, <1>4, <4>1, <4>2
    <3> QED
      BY <3>1, <3>2, <3>3, <3>4
  <2> QED
    BY <1>1, <2>1, <2>2
<1> QED
  BY <1>1, <1>4, <1>6 DEF StoredInv, Truncated, idx

\* What holds of the buffer at every stage.
BufferInv == CallInv /\ StoredInv /\ Truncated

\* Every character goes through Emit, and the NUL through Terminate.
LEMMA BufferKept == WalkInv /\ SpecInv /\ BufferInv /\ [Next]_vars => BufferInv'
<1> SUFFICES ASSUME WalkInv, SpecInv, BufferInv, [Next]_vars PROVE BufferInv'
  OBVIOUS
<1>1. CallInv'
  <2>1. UNCHANGED call
    BY DEF Next, Literal, Percent, Flag, NoFlag, Width, NoPrecision, Precision,
           PrecisionValue, Length, SignedInt, UnsignedInt, Char, String, Pointer, Itself,
           Converted, Terminate, vars, call
  <2> QED
    BY <2>1 DEF call, CallInv, BufferInv, IsText
<1>2. ASSUME NEW s, IsText(s), Emit(s), stage # "done", stage' # "done", UNCHANGED call
      PROVE  StoredInv' /\ Truncated'
  <2>1. StoredInv'
    BY <1>2, Stores DEF BufferInv, CallInv, call
  <2>2. Truncated'
    BY <1>2 DEF Truncated
  <2> QED
    BY <2>1, <2>2
<1>3. ASSUME stage # "done", stage' # "done", UNCHANGED <<call, text, buffer>>
      PROVE  StoredInv' /\ Truncated'
  BY <1>3 DEF StoredInv, Truncated, BufferInv, call, IsText
<1>4. CASE Literal \/ Itself
  <2>1. Emit(<<Next1>>) /\ stage # "done" /\ stage' # "done" /\ UNCHANGED call
    BY <1>4 DEF Literal, Itself, Converted, At, Goto
  <2>2. IsText(<<Next1>>)
    BY OneText
  <2> QED
    BY <1>1, <1>2, <2>1, <2>2 DEF BufferInv
<1>5. CASE SignedInt \/ UnsignedInt \/ Char \/ String \/ Pointer
  <2>1. stage # "done" /\ stage' # "done" /\ UNCHANGED call
    BY <1>5 DEF SignedInt, UnsignedInt, Char, String, Pointer, Converted, At, Goto
  <2>2. PICK s : IsText(s) /\ Emit(s)
    BY <1>5, Converts DEF BufferInv
  <2> QED
    BY <1>1, <1>2, <2>1, <2>2 DEF BufferInv
<1>6. CASE Percent \/ Flag \/ NoFlag \/ Width
  <2>1. stage # "done" /\ stage' # "done" /\ UNCHANGED <<call, text, buffer>>
    BY <1>6 DEF Percent, Flag, NoFlag, Width, At, Goto
  <2> QED
    BY <1>1, <1>3, <2>1 DEF BufferInv
<1>7. CASE NoPrecision \/ Precision \/ PrecisionValue \/ Length
  <2>1. stage # "done" /\ stage' # "done" /\ UNCHANGED <<call, text, buffer>>
    BY <1>7 DEF NoPrecision, Precision, PrecisionValue, Length, At, Goto
  <2> QED
    BY <1>1, <1>3, <2>1 DEF BufferInv
<1>8. CASE Terminate
  BY <1>1, <1>8, NulStored DEF BufferInv
<1>9. CASE UNCHANGED vars
  BY <1>1, <1>9 DEF BufferInv, StoredInv, Truncated, vars, call, IsText, idx
<1> QED
  BY <1>4, <1>5, <1>6, <1>7, <1>8, <1>9 DEF Next

-----------------------------------------------------------------------------
(* The parts of the caller's format.                                       *)

\* What is left of the format behind each part of the directive.
Ending     == <<directive.conv, NUL>>
LengthPart == directive.length \o Ending
AfterPoint == Written(directive.prec) \o LengthPart
PrecPart   == IF directive.prec.kind = "none" THEN LengthPart ELSE <<".">> \o AfterPoint
WidthPart  == Written(directive.width) \o PrecPart
FlagsPart(k) == Rest(directive.flags, k) \o WidthPart

\* What is left of the arguments behind the width's.
PrecArgs  == StarsOf(directive.prec) \o <<value>>
WidthArgs == StarsOf(directive.width) \o PrecArgs

\* The letters of a length, and the conversions that C defines.
LengthChars == {"h", "l", "j", "z", "t"}
Convs       == IntegerConvs \cup {"c", "s", "p", "%"}

\* What may come after a number or a star, and so ends it.
LEMMA Enders ==
  \A c \in LengthChars \cup Convs \cup {"."} :
    ~IsDigit(c) /\ c # "*" /\ c \notin DOMAIN FlagOf /\ c # NUL
<1> SUFFICES ASSUME NEW c \in LengthChars \cup Convs \cup {"."}
             PROVE  ~IsDigit(c) /\ c # "*" /\ c \notin DOMAIN FlagOf /\ c # NUL
  OBVIOUS
<1>1. c # "*" /\ c # NUL
  BY DEF LengthChars, Convs, IntegerConvs, NUL
<1>2. c \notin DOMAIN FlagOf
  BY DEF LengthChars, Convs, IntegerConvs, FlagOf
<1>3. ~IsDigit(c)
  <2>1. \A i \in 1..10 : DigitChars[i] \in {"0", "1", "2", "3", "4", "5", "6", "7", "8", "9"}
    BY DEF DigitChars
  <2>2. DOMAIN DigitChars = 1..10
    BY DEF DigitChars
  <2>3. c \notin {"0", "1", "2", "3", "4", "5", "6", "7", "8", "9"}
    BY DEF LengthChars, Convs, IntegerConvs
  <2> QED
    BY <2>1, <2>2, <2>3 DEF IsDigit, Range
<1> QED
  BY <1>1, <1>2, <1>3

\* The conversion, and the format's NUL.
LEMMA EndingIs ==
  IsText(Ending) /\ Len(Ending) = 2 /\ Ending[1] = directive.conv /\ Ending[2] = NUL
<1>1. Ending \in Seq({directive.conv, NUL}) /\ Len(Ending) = 2 /\ Ending[1] = directive.conv
      /\ Ending[2] = NUL
  BY DEF Ending
<1> QED
  BY <1>1, SeqIsText

\* The length of an argument: one or two letters, or none.
LEMMA LengthPartIs ==
  ASSUME CalledInv, Defined
  PROVE  /\ IsText(directive.length) /\ IsText(LengthPart) /\ Len(LengthPart) >= 2
         /\ directive.length = <<>> => LengthPart = Ending
         /\ directive.length # <<>> => LengthPart[1] = directive.length[1]
         /\ Len(directive.length) = 1 => LengthPart[2] = directive.conv
         /\ Len(directive.length) = 2 => LengthPart[2] = directive.length[2]
         /\ LengthPart[1] \in LengthChars \cup Convs
<1> DEFINE l == directive.length
           e == Ending
<1>1. l \in {<<>>, <<"h">>, <<"h", "h">>, <<"l">>, <<"l", "l">>, <<"j">>, <<"z">>, <<"t">>}
  BY DirectiveIs
<1>2. IsText(l)
  <2> DEFINE S == LengthChars
  <2>1. "h" \in S /\ "l" \in S /\ "j" \in S /\ "z" \in S /\ "t" \in S
    BY DEF LengthChars
  <2> HIDE DEF S, l
  <2>2. /\ <<>> \in Seq(S) /\ <<"h">> \in Seq(S) /\ <<"l">> \in Seq(S)
        /\ <<"j">> \in Seq(S) /\ <<"z">> \in Seq(S) /\ <<"t">> \in Seq(S)
    BY <2>1
  <2>3. <<"h", "h">> \in Seq(S) /\ <<"l", "l">> \in Seq(S)
    BY <2>1
  <2>4. l \in Seq(S)
    BY <1>1, <2>2, <2>3, Zenon
  <2> QED
    BY <2>4, SeqIsText
<1>3. Len(l) \in {0, 1, 2} /\ (l = <<>> <=> Len(l) = 0)
      /\ (l # <<>> => l[1] \in LengthChars)
  <2> HIDE DEF l
  <2>1. CASE l = <<>>
    BY <2>1, NoText
  <2>2. CASE l \in {<<"h">>, <<"l">>, <<"j">>, <<"z">>, <<"t">>}
    <3>1. Len(l) = 1 /\ l[1] \in LengthChars
      BY <2>2 DEF LengthChars
    <3>2. l # <<>>
      BY <3>1, NoText
    <3> QED
      BY <3>1, <3>2
  <2>3. CASE l \in {<<"h", "h">>, <<"l", "l">>}
    <3>1. Len(l) = 2 /\ l[1] \in LengthChars
      BY <2>3 DEF LengthChars
    <3>2. l # <<>>
      BY <3>1, NoText
    <3> QED
      BY <3>1, <3>2
  <2> QED
    BY <1>1, <2>1, <2>2, <2>3, Zenon
<1>4. IsText(e) /\ Len(e) = 2 /\ e[1] = directive.conv /\ e[2] = NUL
  BY EndingIs
<1> DEFINE h == l \o e
<1> HIDE DEF l, e
<1>5. /\ IsText(h) /\ Len(h) = Len(l) + 2
      /\ \A i \in 1..(Len(l) + 2) : h[i] = IF i <= Len(l) THEN l[i] ELSE e[i - Len(l)]
  <2>1. IsText(l) /\ IsText(e) /\ Len(e) = 2
    BY <1>2, <1>4
  <2>2. /\ IsText(h) /\ Len(h) = Len(l) + Len(e)
        /\ \A i \in 1..(Len(l) + Len(e)) : h[i] = IF i <= Len(l) THEN l[i] ELSE e[i - Len(l)]
    BY <2>1, Chained
  <2> HIDE DEF h
  <2> QED
    BY <2>1, <2>2
<1>6. l = <<>> => h = e
  BY <1>4, NothingChained
<1> HIDE DEF h
<1>7. l # <<>> => h[1] = l[1]
  BY <1>3, <1>5
<1>8. Len(l) = 1 => h[2] = directive.conv
  BY <1>4, <1>5
<1>9. Len(l) = 2 => h[2] = l[2]
  BY <1>5
<1>10. h[1] \in LengthChars \cup Convs
  <2>1. directive.conv \in Convs
    BY DEF Defined, Convs
  <2> QED
    BY <1>3, <1>4, <1>6, <1>7, <2>1
<1>11. LengthPart = h
  BY DEF LengthPart, h, l, e
<1>12. Len(h) >= 2
  BY <1>3, <1>5
<1> QED
  BY <1>2, <1>5, <1>6, <1>7, <1>8, <1>9, <1>10, <1>11, <1>12 DEF l, e

\* The precision: it begins with a point, or there is none.
LEMMA PrecPartIs ==
  ASSUME CalledInv, Defined
  PROVE  /\ IsText(AfterPoint) /\ IsText(PrecPart) /\ Len(PrecPart) >= 1
         /\ PrecPart[1] \in LengthChars \cup Convs \cup {"."}
         /\ directive.prec.kind = "none" <=> PrecPart[1] # "."
<1>1. IsText(Written(directive.prec))
  BY DirectiveIs, WrittenIs
<1>2. IsText(LengthPart) /\ Len(LengthPart) >= 2 /\ LengthPart[1] \in LengthChars \cup Convs
  BY LengthPartIs
<1>3. IsText(AfterPoint)
  BY <1>1, <1>2, Chained DEF AfterPoint
<1>4. "." \notin LengthChars \cup Convs
  BY DEF LengthChars, Convs, IntegerConvs
<1>5. CASE directive.prec.kind = "none"
  <2>1. PrecPart = LengthPart /\ Len(LengthPart) \in Nat
    BY <1>2, <1>5, TextIs DEF PrecPart
  <2> QED
    BY <1>2, <1>3, <1>4, <1>5, <2>1
<1>6. CASE directive.prec.kind # "none"
  <2> DEFINE h == <<".">> \o AfterPoint
  <2>1. IsText(h) /\ Head(h) = "." /\ Len(h) = 1 + Len(AfterPoint) /\ Len(AfterPoint) \in Nat
    BY <1>3, FrontOne
  <2>2. PrecPart = h
    BY <1>6 DEF PrecPart
  <2> HIDE DEF h
  <2>3. Len(h) >= 1 /\ h[1] = "."
    BY <2>1
  <2> QED
    BY <1>3, <1>6, <2>1, <2>2, <2>3
<1> QED
  BY <1>5, <1>6

\* The first character behind the flags is none of them.
LEMMA WidthPartIs ==
  ASSUME CalledInv, Defined
  PROVE  IsText(WidthPart) /\ Len(WidthPart) >= 1 /\ WidthPart[1] \notin DOMAIN FlagOf
<1> DEFINE w == Written(directive.width)
<1>1. IsText(w)
  BY DirectiveIs, WrittenIs
<1>2. /\ IsText(PrecPart) /\ Len(PrecPart) >= 1 /\ PrecPart[1] \notin DOMAIN FlagOf
  BY PrecPartIs, Enders
<1>3. IsText(WidthPart) /\ Len(WidthPart) = Len(w) + Len(PrecPart)
      /\ Len(w) \in Nat /\ Len(PrecPart) \in Nat
      /\ \A i \in 1..(Len(w) + Len(PrecPart)) :
           WidthPart[i] = IF i <= Len(w) THEN w[i] ELSE PrecPart[i - Len(w)]
  <2> HIDE DEF w
  <2>1. WidthPart = w \o PrecPart
    BY DEF WidthPart, w
  <2> DEFINE h == w \o PrecPart
  <2>2. /\ IsText(h) /\ Len(h) = Len(w) + Len(PrecPart)
        /\ \A i \in 1..(Len(w) + Len(PrecPart)) :
           h[i] = IF i <= Len(w) THEN w[i] ELSE PrecPart[i - Len(w)]
    BY <1>1, <1>2, Chained
  <2> HIDE DEF h
  <2> QED
    BY <1>1, <1>2, <2>1, <2>2, TextIs DEF h
<1>4. directive.width.kind \in {"none", "number", "star"}
  BY DirectiveIs
<1>5. CASE directive.width.kind = "none"
  <2>1. w = <<>>
    BY <1>5, WrittenIs
  <2>2. WidthPart = PrecPart
    BY <1>2, <2>1, NothingChained DEF WidthPart
  <2> QED
    BY <1>2, <1>3, <2>2
<1>6. CASE directive.width.kind = "star"
  <2>1. w = <<"*">>
    BY <1>6, WrittenIs
  <2>2. Len(w) = 1 /\ w[1] = "*"
    BY <2>1, OneText
  <2>3. "*" \notin DOMAIN FlagOf
    BY DEF FlagOf
  <2> HIDE DEF w
  <2>4. 1 \in 1..(Len(w) + Len(PrecPart)) /\ 1 <= Len(w)
    BY <1>2, <1>3, <2>2
  <2> QED
    BY <1>2, <1>3, <2>2, <2>3, <2>4
<1>7. CASE directive.width.kind = "number"
  <2> DEFINE v == directive.width.n
             n == Places(v, 10)
  <2>1. v \in Nat \ {0} /\ v < Power(2, LongBits)
    BY <1>7, DirectiveIs
  <2>2. w = Numeral(v, 10, DigitChars)
    BY <1>7, <2>1, WrittenIs
  <2>3. 10 \in Nat \ {0, 1} /\ v \in Nat
    BY <2>1
  <2> HIDE DEF v
  <2>4. n \in 1..LongBits
    BY <2>1, <2>3, PlacesIs
  <2>5. Len(w) = n /\ \A i \in 1..n : w[i] = DigitChars[DigitOf(v, 10, n - i) + 1]
    BY <2>1, <2>2, <2>3, NumeralIs
  <2>6. DigitOf(v, 10, n - 1) \in 1..(10 - 1)
    BY <2>1, <2>3, Leading
  <2> HIDE DEF n, w
  <2>7. 1 \in 1..n /\ 1 \in 1..(Len(w) + Len(PrecPart)) /\ 1 <= Len(w)
    BY <1>2, <1>3, <2>4, <2>5
  <2>8. WidthPart[1] = DigitChars[DigitOf(v, 10, n - 1) + 1]
    BY <1>3, <2>5, <2>7
  <2>9. \A d \in 1..9 : DigitChars[d + 1] \notin DOMAIN FlagOf
    <3>1. \A d \in 1..9 : d + 1 \in 2..10
      OBVIOUS
    <3>2. \A d \in 2..10 : DigitChars[d] \in {"1", "2", "3", "4", "5", "6", "7", "8", "9"}
      BY DEF DigitChars
    <3>3. \A c \in {"1", "2", "3", "4", "5", "6", "7", "8", "9"} : c \notin DOMAIN FlagOf
      BY DEF FlagOf
    <3> QED
      BY <3>1, <3>2, <3>3
  <2>10. DigitOf(v, 10, n - 1) \in 1..9
    BY <2>6
  <2> QED
    BY <1>2, <1>3, <2>7, <2>8, <2>9, <2>10
<1> QED
  BY <1>4, <1>5, <1>6, <1>7

-----------------------------------------------------------------------------
(* What the walk has read when it is at each of its stages.                *)

\* The flags that the characters stand for.
CharFlags == {"ZEROPAD", "LEFT", "PLUS", "SPACE", "HASH"}

\* The flags are those of the first k characters.
FlagsOfFirst(k) ==
  /\ flags \subseteq CharFlags
  /\ \A c \in DOMAIN FlagOf : FlagOf[c] \in flags <=> \E i \in 1..k : directive.flags[i] = c

\* The flags are the caller's, a negative width's included.
FlagsRead ==
  /\ "ZEROPAD" \in flags <=> Has("0")
  /\ "LEFT" \in flags <=> CLeft
  /\ "PLUS" \in flags <=> Has("+")
  /\ "SPACE" \in flags <=> Has(" ")
  /\ "HASH" \in flags <=> Has("#")

\* The precision the formatter keeps: 0 stands for none too.
ReadPrec ==
  CASE directive.prec.kind = "number" -> directive.prec.n
    [] directive.prec.kind = "star"   -> IF directive.prec.n > 0 THEN directive.prec.n ELSE 0
    [] OTHER                          -> 0

\* There is a point, and the precision has been read.
PrecRead ==
  /\ "PRECISION" \in flags <=> directive.prec.kind # "none"
  /\ precision = ReadPrec

\* The length has been read.
LengthRead ==
  /\ flags \cap {"LONG", "LONG_LONG"} # {} <=> directive.length \notin {<<>>, <<"h">>, <<"h", "h">>}
  /\ "SHORT" \in flags <=> directive.length \in {<<"h">>, <<"h", "h">>}
  /\ "CHAR" \in flags <=> directive.length = <<"h", "h">>

\* Where C and the formatter agree the text is C's.
Result == ~Differs => text = <<"=">> \o CText

\* Before the directive, at it, and behind it.
AtText ==
  \/ args = WidthArgs /\ text = <<>> /\ format = <<"=">> \o (<<"%">> \o FlagsPart(0))
  \/ args = WidthArgs /\ text = <<"=">> /\ format = <<"%">> \o FlagsPart(0)
  \/ format = <<NUL>> /\ Result

\* At the flags: those passed are read.
AtFlags ==
  /\ args = WidthArgs /\ text = <<"=">>
  /\ \E k \in 0..Len(directive.flags) : format = FlagsPart(k) /\ FlagsOfFirst(k)

\* At the width: all flags are read.
AtWidth ==
  /\ args = WidthArgs /\ text = <<"=">> /\ format = WidthPart
  /\ FlagsOfFirst(Len(directive.flags))

\* At the precision: the width and its argument are read.
AtPrecision ==
  /\ args = PrecArgs /\ text = <<"=">> /\ format = PrecPart
  /\ flags \subseteq CharFlags /\ FlagsRead /\ width = CWidth

\* Behind the point.
AtPrecisionValue ==
  /\ args = PrecArgs /\ text = <<"=">> /\ format = AfterPoint
  /\ flags \subseteq CharFlags \cup {"PRECISION"} /\ FlagsRead /\ width = CWidth
  /\ "PRECISION" \in flags /\ precision = 0 /\ directive.prec.kind # "none"

\* At the length: all arguments but the value are read.
AtLength ==
  /\ args = <<value>> /\ text = <<"=">> /\ format = LengthPart
  /\ flags \subseteq CharFlags \cup {"PRECISION"} /\ FlagsRead /\ width = CWidth
  /\ PrecRead

\* At the conversion: all of the directive is read.
AtSpecifier ==
  /\ args = <<value>> /\ text = <<"=">> /\ format = Ending
  /\ flags \subseteq CharFlags \cup {"PRECISION", "LONG", "LONG_LONG", "SHORT", "CHAR"}
  /\ FlagsRead /\ width = CWidth /\ PrecRead /\ LengthRead

\* What is true at the stage the walk is at, for a directive that C defines.
ReadsInv ==
  /\ CalledInv
  /\ Defined =>
       /\ stage \in {"text", "flags", "width", "precision", "precision_value", "length",
                     "specifier", "done"}
       /\ stage = "text" => AtText
       /\ stage = "flags" => AtFlags
       /\ stage = "width" => AtWidth
       /\ stage = "precision" => AtPrecision
       /\ stage = "precision_value" => AtPrecisionValue
       /\ stage = "length" => AtLength
       /\ stage = "specifier" => AtSpecifier
       /\ stage = "done" => Result

\* What depends on the call alone stays.
LEMMA SameCall ==
  ASSUME UNCHANGED <<directive, value, str>>
  PROVE  /\ (CalledInv => CalledInv') /\ Defined' = Defined
         /\ Ending' = Ending /\ LengthPart' = LengthPart /\ AfterPoint' = AfterPoint
         /\ PrecPart' = PrecPart /\ WidthPart' = WidthPart
         /\ \A k : FlagsPart(k)' = FlagsPart(k)
         /\ PrecArgs' = PrecArgs /\ WidthArgs' = WidthArgs
         /\ CLeft' = CLeft /\ CWidth' = CWidth /\ ReadPrec' = ReadPrec
         /\ \A c : Has(c)' = Has(c)
<1>1. directive' = directive /\ value' = value /\ str' = str
  OBVIOUS
<1>2. CalledInv => CalledInv'
  BY <1>1 DEF CalledInv, IsText
<1>3. Defined' = Defined
  BY <1>1 DEF Defined
<1>4. Ending' = Ending
  BY <1>1 DEF Ending
<1>5. LengthPart' = LengthPart
  BY <1>1, <1>4 DEF LengthPart
<1>6. AfterPoint' = AfterPoint
  BY <1>1, <1>5 DEF AfterPoint
<1>7. PrecPart' = PrecPart
  BY <1>1, <1>5, <1>6 DEF PrecPart
<1>8. WidthPart' = WidthPart
  BY <1>1, <1>7 DEF WidthPart
<1>9. \A k : FlagsPart(k)' = FlagsPart(k)
  BY <1>1, <1>8 DEF FlagsPart
<1>10. PrecArgs' = PrecArgs
  BY <1>1 DEF PrecArgs
<1>11. WidthArgs' = WidthArgs
  BY <1>1, <1>10 DEF WidthArgs
<1>12. \A c : Has(c)' = Has(c)
  BY <1>1 DEF Has
<1>13. CLeft' = CLeft
  BY <1>1, <1>12 DEF CLeft
<1>14. CWidth' = CWidth
  BY <1>1 DEF CWidth
<1>15. ReadPrec' = ReadPrec
  BY <1>1 DEF ReadPrec
<1> QED
  BY <1>2, <1>3, <1>4, <1>5, <1>6, <1>7, <1>8, <1>9, <1>10, <1>11, <1>12, <1>13, <1>14, <1>15

\* C's text and the cases where it is another do too.
LEMMA SameResult ==
  ASSUME UNCHANGED <<directive, value, str>>
  PROVE  Differs' = Differs /\ CText' = CText
<1>1. directive' = directive /\ value' = value /\ str' = str
  OBVIOUS
<1>2. CLeft' = CLeft /\ CWidth' = CWidth /\ \A c : Has(c)' = Has(c)
  BY SameCall
<1>3. CPrec' = CPrec
  BY <1>1 DEF CPrec
<1>4. CBits' = CBits
  BY <1>1 DEF CBits
<1>5. CSigned' = CSigned /\ CBase' = CBase
  BY <1>1 DEF CSigned, CBase
<1>6. CNum' = CNum
  BY <1>1, <1>4, <1>5 DEF CNum
<1>7. CMag' = CMag
  BY <1>6 DEF CMag
<1>8. CNumeral' = CNumeral
  BY <1>1, <1>3, <1>5, <1>7 DEF CNumeral
<1>9. CDigits' = CDigits
  <2>1. Has("#")' = Has("#")
    BY <1>2
  <2> QED
    BY <1>3, <1>5, <1>8, <2>1 DEF CDigits
<1>10. Has("#")' = Has("#") /\ Has("+")' = Has("+") /\ Has(" ")' = Has(" ") /\ Has("0")' = Has("0")
  BY <1>2
<1>11. CPrefix' = CPrefix
  BY <1>5, <1>6, <1>10 DEF CPrefix
<1>12. \A s : CPad(s)' = CPad(s)
  BY <1>2 DEF CPad
<1>13. CInteger' = CInteger
  <2>1. CPad(CPrefix \o CDigits)' = CPad(CPrefix \o CDigits)
    BY <1>2, <1>9, <1>11 DEF CPad
  <2> QED
    BY <1>2, <1>3, <1>9, <1>10, <1>11, <2>1 DEF CInteger
<1>14. CText' = CText
  BY <1>1, <1>2, <1>3, <1>8, <1>13 DEF CText, CPad
<1>15. CZeroFills' = CZeroFills
  BY <1>2, <1>3, <1>10 DEF CZeroFills
<1>16. TooLong' = TooLong
  BY <1>2, <1>9, <1>11, <1>15 DEF TooLong
<1>17. LeftPrecision' = LeftPrecision
  BY <1>2, <1>3, <1>7, <1>8 DEF LeftPrecision
<1>18. PointerField' = PointerField
  BY <1>1, <1>2, <1>8 DEF PointerField
<1>19. NegativePrecision' = NegativePrecision
  BY <1>1, <1>2, <1>7, <1>9, <1>11, <1>15 DEF NegativePrecision
<1>20. PrefixInField' = PrefixInField
  BY <1>1, <1>2, <1>5, <1>8, <1>10, <1>15 DEF PrefixInField
<1>21. OctalPrecision' = OctalPrecision
  BY <1>3, <1>5, <1>7, <1>8, <1>10 DEF OctalPrecision
<1>22. Differs' = Differs
  BY <1>1, <1>16, <1>17, <1>18, <1>19, <1>20, <1>21 DEF Differs
<1> QED
  BY <1>14, <1>22

\* One character further.
LEMMA SkipOne ==
  ASSUME NEW c, NEW b, IsText(b), format = <<c>> \o b
  PROVE  Next1 = c /\ (Skip(1) => format' = b)
<1>1. Head(<<c>> \o b) = c /\ SubSeq(<<c>> \o b, 2, Len(<<c>> \o b)) = b
  BY FrontOne
<1>2. Next1 = c
  BY <1>1 DEF Next1
<1>3. ASSUME Skip(1) PROVE format' = b
  <2>1. 1 + 1 = 2
    OBVIOUS
  <2> QED
    BY <1>1, <1>3, <2>1, Zenon DEF Skip
<1> QED
  BY <1>2, <1>3

\* The flags, one after the other, and what comes behind them.
LEMMA FlagsPartIs ==
  ASSUME CalledInv, Defined
  PROVE  /\ IsText(directive.flags) /\ Len(directive.flags) \in Nat
         /\ FlagsPart(Len(directive.flags)) = WidthPart
         /\ \A k \in 0..Len(directive.flags) : IsText(FlagsPart(k))
         /\ \A k \in 0..(Len(directive.flags) - 1) :
              FlagsPart(k) = <<directive.flags[k + 1]>> \o FlagsPart(k + 1)
<1> DEFINE f == directive.flags
           n == Len(f)
<1>1. IsText(f) /\ n \in Nat
  <2>1. f \in Seq(DOMAIN FlagOf)
    BY DirectiveIs
  <2> HIDE DEF f
  <2> QED
    BY <2>1, SeqIsText, TextIs
<1>2. IsText(WidthPart)
  BY WidthPartIs
<1> HIDE DEF f
<1>3. \A k \in 0..n : /\ IsText(Rest(f, k)) /\ Len(Rest(f, k)) = n - k
                      /\ \A i \in 1..(n - k) : Rest(f, k)[i] = f[k + i]
  BY <1>1, RestIs
<1>4. ASSUME NEW k \in 0..n PROVE IsText(FlagsPart(k))
  BY <1>2, <1>3, Chained DEF FlagsPart, f
<1>5. FlagsPart(n) = WidthPart
  <2> DEFINE r == Rest(f, n)
  <2>1. IsText(r) /\ Len(r) = 0
    BY <1>1, <1>3
  <2> HIDE DEF r
  <2>2. r = <<>>
    BY <2>1, NoText, SameText
  <2>3. FlagsPart(n) = r \o WidthPart
    BY DEF FlagsPart, r, f
  <2> QED
    BY <1>2, <2>2, <2>3, NothingChained
<1>6. ASSUME NEW k \in 0..(n - 1) PROVE FlagsPart(k) = <<f[k + 1]>> \o FlagsPart(k + 1)
  <2> DEFINE a == <<f[k + 1]>>
             r == Rest(f, k)
             q == Rest(f, k + 1)
             h == a \o q
  <2>1. k \in 0..n /\ k + 1 \in 0..n
    BY <1>1
  <2>2. /\ IsText(r) /\ Len(r) = n - k /\ \A i \in 1..(n - k) : r[i] = f[k + i]
        /\ IsText(q) /\ Len(q) = n - (k + 1) /\ \A i \in 1..(n - (k + 1)) : q[i] = f[(k + 1) + i]
    BY <1>3, <2>1
  <2>3. IsText(a) /\ Len(a) = 1 /\ a[1] = f[k + 1]
    BY OneText
  <2> HIDE DEF a, r, q
  <2>4. /\ IsText(h) /\ Len(h) = 1 + Len(q)
        /\ \A i \in 1..(1 + Len(q)) : h[i] = IF i <= 1 THEN a[i] ELSE q[i - 1]
    <3>1. IsText(a) /\ IsText(q) /\ Len(a) = 1
      BY <2>2, <2>3
    <3>2. /\ IsText(h) /\ Len(h) = Len(a) + Len(q)
          /\ \A i \in 1..(Len(a) + Len(q)) : h[i] = IF i <= Len(a) THEN a[i] ELSE q[i - Len(a)]
      BY <3>1, Chained
    <3> HIDE DEF h
    <3> QED
      BY <3>1, <3>2
  <2> HIDE DEF h
  <2>5. Len(h) = Len(r)
    BY <1>1, <2>2, <2>4
  <2>6. ASSUME NEW i \in 1..Len(h) PROVE h[i] = r[i]
    <3>1. i \in 1..(n - k) /\ i \in 1..(1 + Len(q))
      BY <1>1, <2>2, <2>4
    <3>2. CASE i = 1
      <4>1. h[i] = f[k + 1] /\ r[i] = f[k + i]
        BY <2>2, <2>3, <2>4, <3>1, <3>2
      <4> QED
        BY <3>2, <4>1
    <3>3. CASE i # 1
      <4>1. i - 1 \in 1..(n - (k + 1)) /\ ~(i <= 1) /\ (k + 1) + (i - 1) = k + i
        BY <1>1, <3>1, <3>3
      <4> QED
        BY <2>2, <2>4, <3>1, <4>1
    <3> QED
      BY <3>2, <3>3
  <2>7. h = r
    BY <2>2, <2>4, <2>5, <2>6, SameText
  <2>8. FlagsPart(k) = r \o WidthPart /\ FlagsPart(k + 1) = q \o WidthPart
    BY DEF FlagsPart, r, q, f
  <2>9. (a \o q) \o WidthPart = a \o (q \o WidthPart)
    <3>1. IsText(a) /\ IsText(q)
      BY <2>2, <2>3
    <3> QED
      BY <1>2, <3>1, Associated
  <2> QED
    BY <2>7, <2>8, <2>9 DEF h, a
<1> QED
  BY <1>1, <1>4, <1>5, <1>6 DEF f

\* The caller's format, part by part.
LEMMA FormatParts ==
  ASSUME CalledInv, Defined
  PROVE  FormatOf(directive) = <<"=">> \o (<<"%">> \o FlagsPart(0))
<1> DEFINE A == <<"=", "%">>
           f == directive.flags
           w == Written(directive.width)
           p == Written(directive.prec)
           d == IF directive.prec.kind = "none" THEN <<>> ELSE <<".">> \o p
           l == directive.length
           e == Ending
           one == <<"=">>
           two == <<"%">>
           point == <<".">>
<1>1. IsText(f) /\ IsText(w) /\ IsText(p) /\ IsText(l) /\ IsText(e)
  BY FlagsPartIs, DirectiveIs, WrittenIs, LengthPartIs, EndingIs
<1>2. IsText(one) /\ IsText(two) /\ IsText(point)
  BY OneText
<1>3. A = one \o two
  OBVIOUS
<1>4. FormatOf(directive) = A \o f \o w \o d \o l \o e
  BY DEF FormatOf, Ending
<1>5. LengthPart = l \o e /\ AfterPoint = p \o LengthPart /\ WidthPart = w \o PrecPart
      /\ PrecPart = IF directive.prec.kind = "none" THEN LengthPart ELSE point \o AfterPoint
  BY DEF LengthPart, AfterPoint, WidthPart, PrecPart
<1>6. FlagsPart(0) = f \o WidthPart
  <2> DEFINE r == Rest(f, 0)
  <2> HIDE DEF f
  <2>0. Len(f) \in Nat
    BY <1>1, TextIs
  <2>1. /\ IsText(r) /\ Len(r) = Len(f) - 0
        /\ \A i \in 1..(Len(f) - 0) : r[i] = f[0 + i]
    BY <1>1, <2>0, RestIs
  <2> HIDE DEF r
  <2>2. Len(r) = Len(f) /\ \A i \in 1..Len(r) : r[i] = f[i]
    BY <2>0, <2>1
  <2>3. r = f
    BY <1>1, <2>1, <2>2, SameText
  <2> QED
    BY <2>3 DEF FlagsPart, r, f
<1>7. IsText(LengthPart) /\ IsText(AfterPoint) /\ IsText(PrecPart) /\ IsText(WidthPart)
  BY LengthPartIs, PrecPartIs, WidthPartIs
<1>8. IsText(d)
  <2>1. IsText(point \o p)
    BY <1>1, <1>2, Chained
  <2> QED
    BY <2>1, NoText
<1>9. d \o LengthPart = PrecPart
  <2>1. CASE directive.prec.kind = "none"
    <3>1. d = <<>> /\ PrecPart = LengthPart
      BY <1>5, <2>1
    <3> QED
      BY <1>7, <3>1, NothingChained
  <2>2. CASE directive.prec.kind # "none"
    <3>1. d = point \o p /\ PrecPart = point \o (p \o LengthPart)
      BY <1>5, <2>2
    <3> HIDE DEF d, p, point
    <3>2. IsText(point) /\ IsText(p) /\ IsText(LengthPart)
      BY <1>1, <1>2, <1>7
    <3>3. (point \o p) \o LengthPart = point \o (p \o LengthPart)
      BY ONLY <3>2, Associated, SMTT(20)
    <3> QED
      BY <3>1, <3>3
  <2> QED
    BY <2>1, <2>2
<1> HIDE DEF A, f, w, p, d, l, e, one, two, point
<1>10. IsText(A) /\ IsText(A \o f)
  <2>1. IsText(A)
    BY <1>2, <1>3, Chained
  <2> QED
    BY <1>1, <2>1, Chained
<1> DEFINE B == A \o f
<1>11. IsText(B)
  BY <1>10
<1>12. B \o WidthPart = one \o (two \o FlagsPart(0))
  <2>1. B \o WidthPart = A \o FlagsPart(0)
    <3>1. IsText(A) /\ IsText(f) /\ IsText(WidthPart)
      BY <1>1, <1>7, <1>10
    <3>2. (A \o f) \o WidthPart = A \o (f \o WidthPart)
      BY <3>1, Associated
    <3> QED
      BY <1>6, <3>2
  <2>2. IsText(FlagsPart(0))
    BY <1>1, <1>6, <1>7, Chained
  <2>3. (one \o two) \o FlagsPart(0) = one \o (two \o FlagsPart(0))
    BY <1>2, <2>2, Associated
  <2> QED
    BY <1>3, <2>1, <2>3
<1> HIDE DEF B
<1> DEFINE C == B \o w
<1>13. IsText(C) /\ C \o PrecPart = B \o WidthPart
  <2>1. IsText(C)
    BY <1>1, <1>11, Chained
  <2>2. (B \o w) \o PrecPart = B \o (w \o PrecPart)
    <3>1. IsText(B) /\ IsText(w) /\ IsText(PrecPart)
      BY <1>1, <1>7, <1>11
    <3> QED
      BY <3>1, Associated
  <2> QED
    BY <1>5, <2>1, <2>2
<1> HIDE DEF C
<1> DEFINE D == C \o d
<1>14. IsText(D) /\ D \o LengthPart = C \o PrecPart
  <2>1. IsText(D)
    BY <1>8, <1>13, Chained
  <2>2. (C \o d) \o LengthPart = C \o (d \o LengthPart)
    <3>1. IsText(C) /\ IsText(d) /\ IsText(LengthPart)
      BY <1>7, <1>8, <1>13
    <3> QED
      BY <3>1, Associated
  <2> QED
    BY <1>9, <2>1, <2>2
<1> HIDE DEF D
<1>15. (D \o l) \o e = D \o LengthPart
  <2>1. IsText(D) /\ IsText(l) /\ IsText(e)
    BY <1>1, <1>14
  <2>2. (D \o l) \o e = D \o (l \o e)
    BY <2>1, Associated
  <2> QED
    BY <1>5, <2>2
<1>16. FormatOf(directive) = (D \o l) \o e
  BY <1>4 DEF D, C, B
<1> QED
  BY <1>12, <1>13, <1>14, <1>15, <1>16 DEF one, two

\* It begins before the directive.
LEMMA ReadsInit == Init => ReadsInv
<1> SUFFICES ASSUME Init PROVE ReadsInv
  OBVIOUS
<1>1. CalledInv
  <2>1. directive \in Directives
    BY DEF Init
  <2>2. value \in Int
    <3>1. value \in {0} \/ value \in Longs \/ value \in Ints
      BY Zenon DEF Init
    <3>2. Longs \subseteq Int /\ Ints \subseteq Int
      BY PrintfAssumption
    <3>3. 0 \in Int
      OBVIOUS
    <3> QED
      BY <3>1, <3>2, <3>3, Zenon
  <2>3. IsText(str)
    <3>1. str \in Texts \/ str = <<>>
      BY DEF Init
    <3> QED
      BY <3>1, PrintfAssumption, NoText
  <2> QED
    BY <2>1, <2>2, <2>3 DEF CalledInv
<1>2. ASSUME Defined PROVE AtText
  <2>1. format = <<"=">> \o (<<"%">> \o FlagsPart(0))
    BY <1>1, <1>2, FormatParts DEF Init
  <2>2. text = <<>>
    BY DEF Init
  <2>3. args = WidthArgs
    <3> DEFINE a == StarsOf(directive.width)
               b == StarsOf(directive.prec)
               v == <<value>>
    <3>1. IsText(a) /\ IsText(b) /\ IsText(v)
      <4>1. IsText(<<>>) /\ IsText(<<directive.width.n>>) /\ IsText(<<directive.prec.n>>)
            /\ IsText(v)
        BY NoText, OneText
      <4> QED
        BY <4>1 DEF StarsOf
    <3>2. args = (a \o b) \o v
      BY DEF Init
    <3>3. WidthArgs = a \o (b \o v)
      BY DEF WidthArgs, PrecArgs
    <3> HIDE DEF a, b, v
    <3> QED
      BY <3>1, <3>2, <3>3, Associated
  <2> QED
    BY <2>1, <2>2, <2>3 DEF AtText
<1>3. stage = "text"
  BY DEF Init
<1> QED
  BY <1>1, <1>2, <1>3 DEF ReadsInv

\* The call stays.
LEMMA CallStays ==
  ASSUME [Next]_vars
  PROVE  UNCHANGED <<directive, value, str, maxlen>>
BY DEF Next, Literal, Percent, Flag, NoFlag, Width, NoPrecision, Precision,
       PrecisionValue, Length, SignedInt, UnsignedInt, Char, String, Pointer, Itself,
       Converted, Terminate, vars, call

\* What must be shown of a step: where it leads to.
LEMMA Leads ==
  ASSUME CalledInv, UNCHANGED <<directive, value, str>>,
         NEW s, stage' = s,
         s \in {"text", "flags", "width", "precision", "precision_value", "length",
                "specifier", "done"},
         Defined =>
           CASE s = "text" -> AtText'
             [] s = "flags" -> AtFlags'
             [] s = "width" -> AtWidth'
             [] s = "precision" -> AtPrecision'
             [] s = "precision_value" -> AtPrecisionValue'
             [] s = "length" -> AtLength'
             [] s = "specifier" -> AtSpecifier'
             [] s = "done" -> Result'
  PROVE  ReadsInv'
<1>1. CalledInv' /\ Defined' = Defined
  BY SameCall
<1> QED
  BY <1>1 DEF ReadsInv

\* Each step leads from what is read at its stage to what is read at the next.
LEMMA ReadsLiteral ==
  ASSUME ReadsInv, Defined, UNCHANGED <<directive, value, str>>, Literal
  PROVE  stage' = "text" /\ AtText'
<1>1. CalledInv /\ AtText /\ stage = "text"
  BY DEF ReadsInv, Literal, At
<1>2. /\ Next1 \notin {"%", NUL} /\ text' = text \o <<Next1>> /\ Skip(1)
      /\ args' = args /\ stage' = stage
  BY DEF Literal, Emit
<1>3. IsText(FlagsPart(0)) /\ IsText(<<"%">> \o FlagsPart(0))
  <2>1. IsText(FlagsPart(0))
    BY <1>1, FlagsPartIs
  <2> QED
    BY <2>1, FrontOne
<1>4. format # <<"%">> \o FlagsPart(0)
  <2>1. ASSUME format = <<"%">> \o FlagsPart(0) PROVE FALSE
    <3>1. Next1 = "%"
      BY <1>3, <2>1, SkipOne
    <3> QED
      BY <1>2, <3>1
  <2> QED
    BY <2>1
<1>5. format # <<NUL>>
  <2>1. ASSUME format = <<NUL>> PROVE FALSE
    <3>1. Next1 = NUL
      BY <2>1 DEF Next1
    <3> QED
      BY <1>2, <3>1
  <2> QED
    BY <2>1
<1>6. args = WidthArgs /\ text = <<>> /\ format = <<"=">> \o (<<"%">> \o FlagsPart(0))
  BY <1>1, <1>4, <1>5 DEF AtText
<1>7. Next1 = "=" /\ format' = <<"%">> \o FlagsPart(0)
  BY <1>2, <1>3, <1>6, SkipOne
<1>8. text' = <<"=">>
  <2>1. text' = <<>> \o <<"=">>
    BY <1>2, <1>6, <1>7
  <2>2. IsText(<<"=">>)
    BY OneText
  <2> QED
    BY <2>1, <2>2, NothingChained
<1>9. FlagsPart(0)' = FlagsPart(0) /\ WidthArgs' = WidthArgs
  BY SameCall
<1>10. args' = WidthArgs' /\ text' = <<"=">> /\ format' = <<"%">> \o FlagsPart(0)'
  BY <1>2, <1>6, <1>7, <1>8, <1>9
<1> QED
  BY <1>1, <1>2, <1>10 DEF AtText

\* The percent sign: no flag is read yet.
LEMMA ReadsPercent ==
  ASSUME ReadsInv, Defined, UNCHANGED <<directive, value, str>>, Percent
  PROVE  stage' = "flags" /\ AtFlags'
<1>1. CalledInv /\ AtText /\ stage = "text"
  BY DEF ReadsInv, Percent, At
<1>2. /\ Next1 = "%" /\ text' = text /\ Skip(1) /\ args' = args /\ stage' = "flags" /\ flags' = {}
  BY DEF Percent, Goto
<1>3. IsText(FlagsPart(0)) /\ IsText(<<"%">> \o FlagsPart(0))
  <2>1. IsText(FlagsPart(0))
    BY <1>1, FlagsPartIs
  <2> QED
    BY <2>1, FrontOne
<1>4. format # <<"=">> \o (<<"%">> \o FlagsPart(0))
  <2>1. ASSUME format = <<"=">> \o (<<"%">> \o FlagsPart(0)) PROVE FALSE
    <3>1. Next1 = "="
      BY <1>3, <2>1, SkipOne
    <3> QED
      BY <1>2, <3>1
  <2> QED
    BY <2>1
<1>5. format # <<NUL>>
  <2>1. ASSUME format = <<NUL>> PROVE FALSE
    <3>1. Next1 = NUL
      BY <2>1 DEF Next1
    <3> QED
      BY <1>2, <3>1 DEF NUL
  <2> QED
    BY <2>1
<1>6. args = WidthArgs /\ text = <<"=">> /\ format = <<"%">> \o FlagsPart(0)
  BY <1>1, <1>4, <1>5 DEF AtText
<1>7. format' = FlagsPart(0)
  BY <1>2, <1>3, <1>6, SkipOne
<1>8. FlagsPart(0)' = FlagsPart(0) /\ WidthArgs' = WidthArgs
  BY SameCall
<1>9. FlagsOfFirst(0)'
  <2>1. ~\E i \in 1..0 : TRUE
    OBVIOUS
  <2> QED
    BY <1>2, <2>1 DEF FlagsOfFirst
<1>10. 0 \in 0..Len(directive'.flags)
  <2>1. Len(directive.flags) \in Nat
    BY <1>1, FlagsPartIs
  <2>2. 0 \in 0..Len(directive.flags)
    BY <2>1
  <2> QED
    BY <2>2
<1>11. args' = WidthArgs' /\ text' = <<"=">> /\ format' = FlagsPart(0)'
  BY <1>2, <1>6, <1>7, <1>8
<1> QED
  BY <1>2, <1>9, <1>10, <1>11 DEF AtFlags

\* Each character stands for a flag of its own.
LEMMA FlagNamesIs ==
  /\ DOMAIN FlagOf = {"0", "-", "+", " ", "#"}
  /\ FlagOf["0"] = "ZEROPAD" /\ FlagOf["-"] = "LEFT" /\ FlagOf["+"] = "PLUS"
  /\ FlagOf[" "] = "SPACE" /\ FlagOf["#"] = "HASH"
  /\ \A c \in DOMAIN FlagOf : FlagOf[c] \in CharFlags
  /\ \A c, e \in DOMAIN FlagOf : FlagOf[c] = FlagOf[e] => c = e
<1>1. /\ DOMAIN FlagOf = {"0", "-", "+", " ", "#"}
      /\ FlagOf["0"] = "ZEROPAD" /\ FlagOf["-"] = "LEFT" /\ FlagOf["+"] = "PLUS"
      /\ FlagOf[" "] = "SPACE" /\ FlagOf["#"] = "HASH"
  BY DEF FlagOf
<1>2. \A c \in DOMAIN FlagOf : FlagOf[c] \in CharFlags
  BY <1>1 DEF CharFlags
<1>3. \A c, e \in DOMAIN FlagOf : FlagOf[c] = FlagOf[e] => c = e
  BY <1>1
<1> QED
  BY <1>1, <1>2, <1>3

\* The character the walk looks at.
LEMMA FirstOf ==
  ASSUME NEW s, IsText(s), format = s, Len(s) >= 1
  PROVE  Next1 = s[1]
BY DEF Next1

\* One flag more.
LEMMA ReadsFlag ==
  ASSUME ReadsInv, Defined, UNCHANGED <<directive, value, str>>, Flag
  PROVE  stage' = "flags" /\ AtFlags'
<1>1. CalledInv /\ AtFlags
  BY DEF ReadsInv, Flag, At
<1>2. /\ Next1 \in DOMAIN FlagOf /\ flags' = flags \cup {FlagOf[Next1]} /\ Skip(1)
      /\ args' = args /\ text' = text /\ stage' = "flags"
  BY DEF Flag, At
<1> DEFINE f == directive.flags
           n == Len(f)
<1>3. PICK k \in 0..n : format = FlagsPart(k) /\ FlagsOfFirst(k)
  BY <1>1 DEF AtFlags
<1>4. /\ n \in Nat /\ FlagsPart(n) = WidthPart
      /\ \A i \in 0..n : IsText(FlagsPart(i))
      /\ \A i \in 0..(n - 1) : FlagsPart(i) = <<f[i + 1]>> \o FlagsPart(i + 1)
  BY <1>1, FlagsPartIs
<1> HIDE DEF f, n
<1>5. k # n
  <2>1. ASSUME k = n PROVE FALSE
    <3>1. IsText(WidthPart) /\ Len(WidthPart) >= 1 /\ WidthPart[1] \notin DOMAIN FlagOf
      BY <1>1, WidthPartIs
    <3>2. format = WidthPart
      BY <1>3, <1>4, <2>1
    <3>3. Next1 = WidthPart[1]
      BY <3>1, <3>2, FirstOf
    <3> QED
      BY <1>2, <3>1, <3>3
  <2> QED
    BY <2>1
<1>6. k \in 0..(n - 1) /\ k + 1 \in 0..n
  BY <1>3, <1>4, <1>5
<1>7. Next1 = f[k + 1] /\ format' = FlagsPart(k + 1)
  <2>1. IsText(FlagsPart(k + 1)) /\ format = <<f[k + 1]>> \o FlagsPart(k + 1)
    BY <1>3, <1>4, <1>6
  <2> QED
    BY <1>2, <2>1, SkipOne
<1>8. directive' = directive /\ WidthArgs' = WidthArgs /\ FlagsPart(k + 1)' = FlagsPart(k + 1)
  BY SameCall
<1>9. FlagsOfFirst(k + 1)'
  <2>1. flags \subseteq CharFlags
        /\ \A c \in DOMAIN FlagOf : FlagOf[c] \in flags <=> \E i \in 1..k : f[i] = c
    BY <1>3 DEF FlagsOfFirst, f
  <2>2. flags' \subseteq CharFlags
    <3>1. FlagOf[Next1] \in CharFlags
      BY <1>2, FlagNamesIs
    <3> QED
      BY <1>2, <2>1, <3>1
  <2>3. ASSUME NEW c \in DOMAIN FlagOf
        PROVE  FlagOf[c] \in flags' <=> \E i \in 1..(k + 1) : f[i] = c
    <3>1. FlagOf[c] \in flags' <=> (FlagOf[c] \in flags \/ c = Next1)
      BY <1>2, FlagNamesIs
    <3>2. \A i : i \in 1..(k + 1) <=> i \in 1..k \/ i = k + 1
      BY <1>6
    <3> QED
      BY <1>7, <2>1, <3>1, <3>2
  <2> QED
    BY <1>8, <2>2, <2>3 DEF FlagsOfFirst, f
<1>10. k + 1 \in 0..Len(directive'.flags)
  BY <1>6, <1>8 DEF n, f
<1>11. args' = WidthArgs' /\ text' = <<"=">> /\ format' = FlagsPart(k + 1)'
  BY <1>1, <1>2, <1>7, <1>8 DEF AtFlags
<1> QED
  BY <1>2, <1>9, <1>10, <1>11 DEF AtFlags

\* What is no flag ends them.
LEMMA ReadsNoFlag ==
  ASSUME ReadsInv, Defined, UNCHANGED <<directive, value, str>>, NoFlag
  PROVE  stage' = "width" /\ AtWidth'
<1>1. CalledInv /\ AtFlags
  BY DEF ReadsInv, NoFlag, At
<1>2. /\ Next1 \notin DOMAIN FlagOf /\ UNCHANGED <<args, format, flags, text>>
      /\ stage' = "width"
  BY DEF NoFlag, Goto, spec
<1> DEFINE f == directive.flags
           n == Len(f)
<1>3. PICK k \in 0..n : format = FlagsPart(k) /\ FlagsOfFirst(k)
  BY <1>1 DEF AtFlags
<1>4. /\ n \in Nat /\ FlagsPart(n) = WidthPart
      /\ \A i \in 0..n : IsText(FlagsPart(i))
      /\ \A i \in 0..(n - 1) : FlagsPart(i) = <<f[i + 1]>> \o FlagsPart(i + 1)
  BY <1>1, FlagsPartIs
<1>5. f \in Seq(DOMAIN FlagOf)
  BY <1>1, DirectiveIs
<1> HIDE DEF f
<1>6. \A i \in 1..n : f[i] \in DOMAIN FlagOf
  BY <1>5, ElementOfSeq
<1> HIDE DEF n
<1>7. k = n
  <2>1. ASSUME k # n PROVE FALSE
    <3>1. k \in 0..(n - 1) /\ k + 1 \in 0..n /\ k + 1 \in 1..n
      BY <1>3, <1>4, <2>1
    <3>2. IsText(FlagsPart(k + 1)) /\ format = <<f[k + 1]>> \o FlagsPart(k + 1)
      BY <1>3, <1>4, <3>1
    <3>3. Next1 = f[k + 1]
      BY <3>2, SkipOne
    <3> QED
      BY <1>2, <1>6, <3>1, <3>3
  <2> QED
    BY <2>1
<1>8. directive' = directive /\ WidthArgs' = WidthArgs /\ WidthPart' = WidthPart
  BY SameCall
<1>9. format' = WidthPart' /\ args' = WidthArgs' /\ text' = <<"=">>
  BY <1>1, <1>2, <1>3, <1>4, <1>7, <1>8 DEF AtFlags
<1>10. FlagsOfFirst(Len(directive.flags))'
  <2>1. FlagsOfFirst(Len(directive.flags))
    BY <1>3, <1>7 DEF n, f
  <2> QED
    BY <1>2, <1>8, <2>1 DEF FlagsOfFirst
<1> QED
  BY <1>2, <1>9, <1>10 DEF AtWidth

\* The flags of all characters are those the directive has.
LEMMA FlagsOfAll ==
  ASSUME CalledInv, FlagsOfFirst(Len(directive.flags))
  PROVE  /\ flags \subseteq CharFlags
         /\ "ZEROPAD" \in flags <=> Has("0")
         /\ "LEFT" \in flags <=> Has("-")
         /\ "PLUS" \in flags <=> Has("+")
         /\ "SPACE" \in flags <=> Has(" ")
         /\ "HASH" \in flags <=> Has("#")
<1> DEFINE f == directive.flags
<1>1. f \in Seq(DOMAIN FlagOf)
  BY DirectiveIs
<1> HIDE DEF f
<1>2. DOMAIN f = 1..Len(f)
  BY <1>1
<1>3. \A c : Has(c) <=> \E i \in 1..Len(f) : f[i] = c
  BY <1>2 DEF Has, Range, f
<1>4. flags \subseteq CharFlags
      /\ \A c \in DOMAIN FlagOf : FlagOf[c] \in flags <=> Has(c)
  BY <1>3 DEF FlagsOfFirst, f
<1>5. FlagOf["0"] \in flags <=> Has("0")
  BY <1>4, FlagNamesIs
<1>6. FlagOf["-"] \in flags <=> Has("-")
  BY <1>4, FlagNamesIs
<1>7. FlagOf["+"] \in flags <=> Has("+")
  BY <1>4, FlagNamesIs
<1>8. FlagOf[" "] \in flags <=> Has(" ")
  BY <1>4, FlagNamesIs
<1>9. FlagOf["#"] \in flags <=> Has("#")
  BY <1>4, FlagNamesIs
<1> QED
  BY <1>4, <1>5, <1>6, <1>7, <1>8, <1>9, FlagNamesIs

\* A star takes its argument and a character of the format.
LEMMA StarTaken ==
  ASSUME NEW num, NEW a, NEW b, IsText(a), IsText(b), num.kind = "star",
         args = StarsOf(num) \o a, format = Written(num) \o b,
         NEW m, m = num.n
  PROVE  Next1 = "*" /\ Head(args) = m /\ (Take => args' = a) /\ (Skip(1) => format' = b)
<1>1. StarsOf(num) = <<m>> /\ Written(num) = <<"*">>
  BY DEF StarsOf, Written
<1>2. Head(<<m>> \o a) = m /\ Tail(<<m>> \o a) = a
  BY FrontOne
<1>3. Head(args) = m /\ (Take => args' = a)
  BY <1>1, <1>2 DEF Take
<1>4. format = <<"*">> \o b
  BY <1>1
<1>5. Next1 = "*" /\ (Skip(1) => format' = b)
  BY <1>4, SkipOne
<1> QED
  BY <1>3, <1>5

\* The arguments behind the width's are a sequence.
LEMMA PrecArgsIs == IsText(PrecArgs) /\ IsText(<<value>>)
<1>1. IsText(<<>>) /\ IsText(<<directive.prec.n>>) /\ IsText(<<value>>)
  BY NoText, OneText
<1>2. IsText(StarsOf(directive.prec))
  BY <1>1 DEF StarsOf
<1> QED
  BY <1>1, <1>2, Chained DEF PrecArgs

\* A number, a star or neither: the width is C's, and so is the flag of a negative one.
LEMMA ReadsWidth ==
  ASSUME ReadsInv, Defined, UNCHANGED <<directive, value, str>>, Width
  PROVE  stage' = "precision" /\ AtPrecision'
<1> DEFINE w == directive.width
           rest == PrecPart
<1>1. CalledInv /\ AtWidth
  BY DEF ReadsInv, Width, At
<1>2. args = StarsOf(w) \o PrecArgs /\ format = Written(w) \o rest /\ text = <<"=">>
  BY <1>1 DEF AtWidth, WidthArgs, WidthPart
<1>3. stage' = "precision" /\ text' = text
  BY DEF Width, Goto
<1>4. \/ IsDigit(Next1) /\ width' = atoi /\ Skip(Digits) /\ args' = args /\ flags' = flags
      \/ /\ Next1 = "*" /\ width' = StarWidth(Head(args)) /\ Take /\ Skip(1)
         /\ flags' = IF Head(args) < 0 THEN flags \cup {"LEFT"} ELSE flags
      \/ /\ ~IsDigit(Next1) /\ Next1 # "*" /\ width' = 0
         /\ args' = args /\ flags' = flags /\ format' = format
  BY DEF Width
<1>5. /\ IsText(rest) /\ Len(rest) >= 1 /\ ~IsDigit(rest[1]) /\ rest[1] # "*"
  BY <1>1, PrecPartIs, Enders
<1>6. /\ w.kind \in {"none", "number", "star"} /\ w.n \in Int
      /\ (w.kind = "number" => w.n \in Nat \ {0} /\ w.n < Power(2, LongBits))
  BY <1>1, DirectiveIs
<1>7. /\ flags \subseteq CharFlags
      /\ "ZEROPAD" \in flags <=> Has("0")
      /\ "LEFT" \in flags <=> Has("-")
      /\ "PLUS" \in flags <=> Has("+")
      /\ "SPACE" \in flags <=> Has(" ")
      /\ "HASH" \in flags <=> Has("#")
  BY <1>1, FlagsOfAll DEF AtWidth
<1>8. IsText(PrecArgs)
  BY PrecArgsIs
<1>9. (CLeft <=> Has("-") \/ (w.kind = "star" /\ w.n < 0))
      /\ CWidth = IF w.kind = "none" THEN 0 ELSE IF w.n < 0 THEN -w.n ELSE w.n
  BY DEF CLeft, CWidth
<1>10. "*" # "." /\ ~IsDigit("*")
  <2>1. \A i \in 1..10 : DigitChars[i] # "*"
    BY DEF DigitChars
  <2>2. DOMAIN DigitChars = 1..10
    BY DEF DigitChars
  <2> QED
    BY <2>1, <2>2 DEF IsDigit, Range
<1> HIDE DEF w, rest
<1>11. /\ args' = PrecArgs /\ format' = rest /\ width' = CWidth
       /\ flags' = IF w.kind = "star" /\ w.n < 0 THEN flags \cup {"LEFT"} ELSE flags
  <2>1. CASE w.kind = "none"
    <3>1. StarsOf(w) = <<>> /\ Written(w) = <<>>
      BY <2>1 DEF StarsOf, Written
    <3>2. args = PrecArgs /\ format = rest
      BY <1>2, <1>5, <1>8, <3>1, NothingChained
    <3>3. Next1 = rest[1]
      BY <1>5, <3>2, FirstOf
    <3> QED
      BY <1>4, <1>5, <1>9, <2>1, <3>2, <3>3
  <2>2. CASE w.kind = "number"
    <3> DEFINE v == w.n
    <3>1. StarsOf(w) = <<>> /\ Written(w) = Numeral(v, 10, DigitChars)
      BY <2>2 DEF StarsOf, Written
    <3>2. args = PrecArgs /\ format = Numeral(v, 10, DigitChars) \o rest
      BY <1>2, <1>8, <3>1, NothingChained
    <3>3. v \in Nat /\ v < Power(2, LongBits) /\ CWidth = v
      BY <1>6, <1>9, <2>2
    <3> HIDE DEF v
    <3>4. atoi = v /\ IsDigit(Next1) /\ (Skip(Digits) => format' = rest)
      BY <1>5, <3>2, <3>3, NumberRead
    <3> QED
      BY <1>4, <1>10, <2>2, <3>2, <3>3, <3>4
  <2>3. CASE w.kind = "star"
    <3> DEFINE m == w.n
    <3>1. Next1 = "*" /\ Head(args) = m /\ (Take => args' = PrecArgs) /\ (Skip(1) => format' = rest)
      BY <1>2, <1>5, <1>8, <2>3, StarTaken
    <3>2. width' = StarWidth(m) /\ args' = PrecArgs /\ format' = rest
          /\ flags' = IF m < 0 THEN flags \cup {"LEFT"} ELSE flags
      BY <1>4, <1>10, <3>1
    <3>3. StarWidth(m) = CWidth
      BY <1>9, <2>3 DEF StarWidth
    <3> QED
      BY <2>3, <3>2, <3>3
  <2> QED
    BY <1>6, <2>1, <2>2, <2>3
<1>12. flags' \subseteq CharFlags
  <2>1. "LEFT" \in CharFlags
    BY DEF CharFlags
  <2> QED
    BY <1>7, <1>11, <2>1
<1>13. /\ "ZEROPAD" \in flags' <=> Has("0")
       /\ "LEFT" \in flags' <=> CLeft
       /\ "PLUS" \in flags' <=> Has("+")
       /\ "SPACE" \in flags' <=> Has(" ")
       /\ "HASH" \in flags' <=> Has("#")
  BY <1>7, <1>9, <1>11
<1>14. /\ PrecArgs' = PrecArgs /\ PrecPart' = PrecPart /\ CLeft' = CLeft /\ CWidth' = CWidth
       /\ \A c : Has(c)' = Has(c)
  BY SameCall
<1>15. FlagsRead'
  BY <1>13, <1>14 DEF FlagsRead
<1> QED
  BY <1>2, <1>3, <1>11, <1>12, <1>14, <1>15 DEF AtPrecision, rest

\* Without a point there is no precision.
LEMMA ReadsNoPrecision ==
  ASSUME ReadsInv, Defined, UNCHANGED <<directive, value, str>>, NoPrecision
  PROVE  stage' = "length" /\ AtLength'
<1>1. CalledInv /\ AtPrecision
  BY DEF ReadsInv, NoPrecision, At
<1>2. /\ Next1 # "." /\ stage' = "length" /\ precision' = 0
      /\ UNCHANGED <<args, format, flags, width, text>>
  BY DEF NoPrecision, Goto
<1>3. directive.prec.kind = "none"
  <2>1. IsText(PrecPart) /\ Len(PrecPart) >= 1
        /\ (directive.prec.kind = "none" <=> PrecPart[1] # ".")
    BY <1>1, PrecPartIs
  <2>2. Next1 = PrecPart[1]
    BY <1>1, <2>1, FirstOf DEF AtPrecision
  <2> QED
    BY <1>2, <2>1, <2>2
<1>4. PrecPart = LengthPart /\ ReadPrec = 0
  BY <1>3 DEF PrecPart, ReadPrec
<1>5. PrecArgs = <<value>>
  <2>1. StarsOf(directive.prec) = <<>>
    BY <1>3 DEF StarsOf
  <2> QED
    BY <2>1, PrecArgsIs, NothingChained DEF PrecArgs
<1>6. /\ value' = value /\ directive' = directive /\ LengthPart' = LengthPart /\ CLeft' = CLeft
      /\ CWidth' = CWidth /\ ReadPrec' = ReadPrec /\ \A c : Has(c)' = Has(c)
  BY SameCall
<1>7. "PRECISION" \notin flags
  BY <1>1 DEF AtPrecision, CharFlags
<1>8. FlagsRead'
  BY <1>1, <1>2, <1>6 DEF AtPrecision, FlagsRead
<1>9. PrecRead'
  BY <1>2, <1>3, <1>4, <1>6, <1>7 DEF PrecRead
<1> QED
  BY <1>1, <1>2, <1>4, <1>5, <1>6, <1>8, <1>9 DEF AtPrecision, AtLength

\* With one there is, 0 so far.
LEMMA ReadsPrecision ==
  ASSUME ReadsInv, Defined, UNCHANGED <<directive, value, str>>, Precision
  PROVE  stage' = "precision_value" /\ AtPrecisionValue'
<1>1. CalledInv /\ AtPrecision
  BY DEF ReadsInv, Precision, At
<1>2. /\ Next1 = "." /\ stage' = "precision_value" /\ precision' = 0 /\ Skip(1)
      /\ flags' = flags \cup {"PRECISION"} /\ UNCHANGED <<args, width, text>>
  BY DEF Precision, Goto
<1>3. directive.prec.kind # "none"
  <2>1. IsText(PrecPart) /\ Len(PrecPart) >= 1
        /\ (directive.prec.kind = "none" <=> PrecPart[1] # ".")
    BY <1>1, PrecPartIs
  <2>2. Next1 = PrecPart[1]
    BY <1>1, <2>1, FirstOf DEF AtPrecision
  <2> QED
    BY <1>2, <2>1, <2>2
<1>4. format' = AfterPoint
  <2>1. IsText(AfterPoint) /\ format = <<".">> \o AfterPoint
    BY <1>1, <1>3, PrecPartIs DEF PrecPart, AtPrecision
  <2> QED
    BY <1>2, <2>1, SkipOne
<1>5. /\ directive' = directive /\ AfterPoint' = AfterPoint /\ CLeft' = CLeft
      /\ PrecArgs' = PrecArgs /\ CWidth' = CWidth /\ \A c : Has(c)' = Has(c)
  BY SameCall
<1>6. FlagsRead'
  BY <1>1, <1>2, <1>5 DEF AtPrecision, FlagsRead
<1> QED
  BY <1>1, <1>2, <1>3, <1>4, <1>5, <1>6 DEF AtPrecision, AtPrecisionValue

\* A number, a star or neither: the precision is read.
LEMMA ReadsPrecisionValue ==
  ASSUME ReadsInv, Defined, UNCHANGED <<directive, value, str>>, PrecisionValue
  PROVE  stage' = "length" /\ AtLength'
<1> DEFINE p == directive.prec
           rest == LengthPart
           last == <<value>>
<1>1. CalledInv /\ AtPrecisionValue
  BY DEF ReadsInv, PrecisionValue, At
<1>2. args = StarsOf(p) \o last /\ format = Written(p) \o rest /\ text = <<"=">> /\ precision = 0
      /\ p.kind # "none"
  BY <1>1 DEF AtPrecisionValue, PrecArgs, AfterPoint
<1>3. stage' = "length" /\ UNCHANGED <<flags, width, text>>
  BY DEF PrecisionValue, Goto
<1>4. \/ IsDigit(Next1) /\ precision' = atoi /\ Skip(Digits) /\ args' = args
      \/ /\ Next1 = "*" /\ precision' = (IF Head(args) > 0 THEN Head(args) ELSE 0)
         /\ Take /\ Skip(1)
      \/ /\ ~IsDigit(Next1) /\ Next1 # "*"
         /\ args' = args /\ precision' = precision /\ format' = format
  BY DEF PrecisionValue
<1>5. /\ IsText(rest) /\ Len(rest) >= 1 /\ ~IsDigit(rest[1]) /\ rest[1] # "*"
  <2>1. IsText(rest) /\ Len(rest) >= 2 /\ rest[1] \in LengthChars \cup Convs
    BY <1>1, LengthPartIs
  <2> HIDE DEF rest
  <2>2. Len(rest) \in Nat
    BY <2>1, TextIs
  <2> QED
    BY <2>1, <2>2, Enders
<1>6. /\ p.kind \in {"none", "point", "number", "star"} /\ p.n \in Int
      /\ (p.kind = "number" => p.n \in Nat /\ p.n < Power(2, LongBits))
  BY <1>1, DirectiveIs
<1>7. IsText(last)
  BY OneText
<1>8. ReadPrec = CASE p.kind = "number" -> p.n
                   [] p.kind = "star" -> IF p.n > 0 THEN p.n ELSE 0
                   [] OTHER -> 0
  BY DEF ReadPrec
<1>9. ~IsDigit("*")
  <2>1. \A i \in 1..10 : DigitChars[i] # "*"
    BY DEF DigitChars
  <2>2. DOMAIN DigitChars = 1..10
    BY DEF DigitChars
  <2> QED
    BY <2>1, <2>2 DEF IsDigit, Range
<1> HIDE DEF p, rest, last
<1>10. args' = last /\ format' = rest /\ precision' = ReadPrec
  <2>1. CASE p.kind = "point"
    <3>1. StarsOf(p) = <<>> /\ Written(p) = <<>>
      BY <2>1 DEF StarsOf, Written
    <3>2. args = last /\ format = rest
      BY <1>2, <1>5, <1>7, <3>1, NothingChained
    <3>3. Next1 = rest[1]
      BY <1>5, <3>2, FirstOf
    <3> QED
      BY <1>2, <1>4, <1>5, <1>8, <2>1, <3>2, <3>3
  <2>2. CASE p.kind = "number"
    <3> DEFINE v == p.n
    <3>1. StarsOf(p) = <<>> /\ Written(p) = Numeral(v, 10, DigitChars)
      BY <2>2 DEF StarsOf, Written
    <3>2. args = last /\ format = Numeral(v, 10, DigitChars) \o rest
      BY <1>2, <1>7, <3>1, NothingChained
    <3>3. v \in Nat /\ v < Power(2, LongBits) /\ ReadPrec = v
      BY <1>6, <1>8, <2>2
    <3> HIDE DEF v
    <3>4. atoi = v /\ IsDigit(Next1) /\ (Skip(Digits) => format' = rest)
      BY <1>5, <3>2, <3>3, NumberRead
    <3> QED
      BY <1>4, <1>9, <3>2, <3>3, <3>4
  <2>3. CASE p.kind = "star"
    <3> DEFINE m == p.n
    <3>1. Next1 = "*" /\ Head(args) = m /\ (Take => args' = last) /\ (Skip(1) => format' = rest)
      BY <1>2, <1>5, <1>7, <2>3, StarTaken
    <3>2. precision' = (IF m > 0 THEN m ELSE 0) /\ args' = last /\ format' = rest
      BY <1>4, <1>9, <3>1
    <3> QED
      BY <1>8, <2>3, <3>2
  <2> QED
    BY <1>2, <1>6, <2>1, <2>2, <2>3
<1>11. /\ value' = value /\ directive' = directive /\ LengthPart' = LengthPart /\ CLeft' = CLeft
       /\ CWidth' = CWidth /\ ReadPrec' = ReadPrec /\ \A c : Has(c)' = Has(c)
  BY SameCall
<1>12. /\ flags \subseteq CharFlags \cup {"PRECISION"} /\ FlagsRead /\ width = CWidth
       /\ "PRECISION" \in flags /\ directive.prec.kind # "none"
  BY <1>1 DEF AtPrecisionValue
<1>13. FlagsRead'
  BY <1>3, <1>11, <1>12 DEF FlagsRead
<1>14. PrecRead'
  BY <1>3, <1>10, <1>11, <1>12 DEF PrecRead
<1>15. args' = <<value>> /\ format' = LengthPart
  BY <1>10 DEF last, rest
<1> QED
  BY <1>2, <1>3, <1>11, <1>12, <1>13, <1>14, <1>15 DEF AtLength

\* One letter, two or none.
LEMMA ReadsLength ==
  ASSUME ReadsInv, Defined, UNCHANGED <<directive, value, str>>, Length
  PROVE  stage' = "specifier" /\ AtSpecifier'
<1> DEFINE l == directive.length
           c == directive.conv
           e == Ending
           p == LengthPart
           lf == CASE l \in {<<"l">>, <<"j">>, <<"z">>, <<"t">>} -> {"LONG"}
                   [] l = <<"l", "l">> -> {"LONG", "LONG_LONG"}
                   [] l = <<"h">>      -> {"SHORT"}
                   [] l = <<"h", "h">> -> {"SHORT", "CHAR"}
                   [] OTHER            -> {}
<1>1. CalledInv /\ AtLength
  BY DEF ReadsInv, Length, At
<1>2. stage' = "specifier" /\ UNCHANGED <<args, width, precision, text>>
  BY DEF Length, Goto
<1>3. \/ /\ Next1 = "l" /\ format[2] = "l"
         /\ flags' = flags \cup {"LONG", "LONG_LONG"} /\ Skip(2)
      \/ /\ Next1 = "h" /\ format[2] = "h"
         /\ flags' = flags \cup {"SHORT", "CHAR"} /\ Skip(2)
      \/ /\ Next1 = "l" /\ format[2] # "l"
         /\ flags' = flags \cup {"LONG"} /\ Skip(1)
      \/ /\ Next1 = "h" /\ format[2] # "h"
         /\ flags' = flags \cup {"SHORT"} /\ Skip(1)
      \/ /\ Next1 \in {"t", "j", "z"}
         /\ flags' = flags \cup {"LONG"} /\ Skip(1)
      \/ /\ Next1 \notin {"l", "h", "t", "j", "z"}
         /\ flags' = flags /\ format' = format
  BY DEF Length
<1>4. l \in {<<>>, <<"h">>, <<"h", "h">>, <<"l">>, <<"l", "l">>, <<"j">>, <<"z">>, <<"t">>}
  BY <1>1, DirectiveIs
<1>5. /\ IsText(l) /\ IsText(p) /\ Len(p) >= 2 /\ (l = <<>> => p = e)
      /\ (l # <<>> => p[1] = l[1]) /\ (Len(l) = 1 => p[2] = c) /\ (Len(l) = 2 => p[2] = l[2])
  BY <1>1, LengthPartIs
<1>6. format = p
  BY <1>1 DEF AtLength
<1>7. IsText(e) /\ e[1] = c
  BY EndingIs
<1>8. c \notin {"h", "l", "t", "j", "z"}
  BY DEF Defined, IntegerConvs
<1>9. ASSUME NEW n, n = Len(l), Skip(n) PROVE format' = e
  <2>1. SubSeq(l \o e, Len(l) + 1, Len(l \o e)) = e
    BY <1>5, <1>7, BehindIs
  <2>2. format' = SubSeq(l \o e, Len(l) + 1, Len(l \o e))
    BY <1>6, <1>9 DEF Skip, LengthPart
  <2> QED
    BY <2>1, <2>2
<1>10. Next1 = p[1]
  <2>1. Len(p) >= 1
    <3>1. Len(p) \in Nat
      BY <1>5, TextIs
    <3> HIDE DEF p
    <3> QED
      BY <1>5, <3>1
  <2> QED
    BY <1>5, <1>6, <2>1, FirstOf
<1> HIDE DEF l, c, e, p, lf
<1>11. format' = e /\ flags' = flags \cup lf
  <2>1. CASE l = <<>>
    <3>1. Next1 = c
      BY <1>5, <1>7, <1>10, <2>1
    <3>2. flags' = flags /\ format' = format
      BY <1>3, <1>8, <3>1
    <3>3. lf = {}
      <4>1. l # <<"h">> /\ l # <<"h", "h">> /\ l # <<"l">> /\ l # <<"l", "l">>
            /\ l # <<"j">> /\ l # <<"z">> /\ l # <<"t">>
        BY <2>1
      <4> QED
        BY <4>1, Zenon DEF lf
    <3> QED
      BY <1>5, <1>6, <2>1, <3>2, <3>3
  <2>2. CASE l = <<"h">>
    <3>1. Len(l) = 1 /\ l[1] = "h" /\ l # <<>>
      BY <2>2
    <3>2. Next1 = "h" /\ format[2] = c
      BY <1>5, <1>6, <1>10, <3>1
    <3>3. flags' = flags \cup {"SHORT"} /\ Skip(1)
      BY <1>3, <1>8, <3>2
    <3>4. lf = {"SHORT"}
      <4>1. l \notin {<<"l">>, <<"j">>, <<"z">>, <<"t">>} /\ l # <<"l", "l">> /\ l # <<"h", "h">>
        BY <2>2
      <4> QED
        BY <2>2, <4>1 DEF lf
    <3> QED
      BY <1>9, <3>1, <3>3, <3>4
  <2>3. CASE l = <<"h", "h">>
    <3>1. Len(l) = 2 /\ l[1] = "h" /\ l[2] = "h" /\ l # <<>>
      BY <2>3
    <3>2. Next1 = "h" /\ format[2] = "h"
      BY <1>5, <1>6, <1>10, <3>1
    <3>3. flags' = flags \cup {"SHORT", "CHAR"} /\ Skip(2)
      BY <1>3, <3>2
    <3>4. lf = {"SHORT", "CHAR"}
      <4>1. l \notin {<<"l">>, <<"j">>, <<"z">>, <<"t">>} /\ l # <<"l", "l">> /\ l # <<"h">>
        BY <2>3
      <4> QED
        BY <2>3, <4>1 DEF lf
    <3> QED
      BY <1>9, <3>1, <3>3, <3>4
  <2>4. CASE l = <<"l">>
    <3>1. Len(l) = 1 /\ l[1] = "l" /\ l # <<>>
      BY <2>4
    <3>2. Next1 = "l" /\ format[2] = c
      BY <1>5, <1>6, <1>10, <3>1
    <3>3. flags' = flags \cup {"LONG"} /\ Skip(1)
      BY <1>3, <1>8, <3>2
    <3>4. lf = {"LONG"}
      BY <2>4 DEF lf
    <3> QED
      BY <1>9, <3>1, <3>3, <3>4
  <2>5. CASE l = <<"l", "l">>
    <3>1. Len(l) = 2 /\ l[1] = "l" /\ l[2] = "l" /\ l # <<>>
      BY <2>5
    <3>2. Next1 = "l" /\ format[2] = "l"
      BY <1>5, <1>6, <1>10, <3>1
    <3>3. flags' = flags \cup {"LONG", "LONG_LONG"} /\ Skip(2)
      BY <1>3, <3>2
    <3>4. lf = {"LONG", "LONG_LONG"}
      <4>1. l \notin {<<"l">>, <<"j">>, <<"z">>, <<"t">>}
        BY <2>5
      <4> QED
        BY <2>5, <4>1 DEF lf
    <3> QED
      BY <1>9, <3>1, <3>3, <3>4
  <2>6. CASE l \in {<<"j">>, <<"z">>, <<"t">>}
    <3>1. Len(l) = 1 /\ l[1] \in {"t", "j", "z"} /\ l # <<>>
      BY <2>6
    <3>2. Next1 \in {"t", "j", "z"}
      BY <1>5, <1>10, <3>1
    <3>3. flags' = flags \cup {"LONG"} /\ Skip(1)
      BY <1>3, <3>2
    <3>4. lf = {"LONG"}
      BY <2>6 DEF lf
    <3> QED
      BY <1>9, <3>1, <3>3, <3>4
  <2> QED
    BY <1>4, <2>1, <2>2, <2>3, <2>4, <2>5, <2>6, Zenon
<1>12. /\ lf \subseteq {"LONG", "LONG_LONG", "SHORT", "CHAR"}
       /\ lf \cap {"LONG", "LONG_LONG"} # {} <=> l \notin {<<>>, <<"h">>, <<"h", "h">>}
       /\ "SHORT" \in lf <=> l \in {<<"h">>, <<"h", "h">>}
       /\ "CHAR" \in lf <=> l = <<"h", "h">>
  <2>1. CASE l = <<>>
    <3>1. l # <<"h">> /\ l # <<"h", "h">> /\ l # <<"l">> /\ l # <<"l", "l">>
            /\ l # <<"j">> /\ l # <<"z">> /\ l # <<"t">>
      BY <2>1
    <3>2. lf = {}
      BY <3>1, Zenon DEF lf
    <3> QED
      BY <2>1, <3>1, <3>2
  <2>2. CASE l = <<"h">>
    <3>1. l \notin {<<"l">>, <<"j">>, <<"z">>, <<"t">>} /\ l # <<"l", "l">> /\ l # <<"h", "h">>
      BY <2>2
    <3>2. lf = {"SHORT"}
      BY <2>2, <3>1 DEF lf
    <3> QED
      BY <2>2, <3>1, <3>2
  <2>3. CASE l = <<"h", "h">>
    <3>1. l \notin {<<"l">>, <<"j">>, <<"z">>, <<"t">>} /\ l # <<"l", "l">> /\ l # <<"h">>
      BY <2>3
    <3>2. lf = {"SHORT", "CHAR"}
      BY <2>3, <3>1 DEF lf
    <3> QED
      BY <2>3, <3>1, <3>2
  <2>4. CASE l = <<"l", "l">>
    <3>1. l \notin {<<"l">>, <<"j">>, <<"z">>, <<"t">>}
          /\ l # <<>> /\ l # <<"h">> /\ l # <<"h", "h">>
      BY <2>4
    <3>2. lf = {"LONG", "LONG_LONG"}
      BY <2>4, <3>1 DEF lf
    <3> QED
      BY <3>1, <3>2
  <2>5. CASE l \in {<<"l">>, <<"j">>, <<"z">>, <<"t">>}
    <3>1. l # <<>> /\ l # <<"h">> /\ l # <<"h", "h">>
      BY <2>5
    <3>2. lf = {"LONG"}
      BY <2>5 DEF lf
    <3> QED
      BY <3>1, <3>2
  <2> QED
    BY <1>4, <2>1, <2>2, <2>3, <2>4, <2>5, Zenon
<1>13. /\ args = <<value>> /\ text = <<"=">>
       /\ flags \subseteq CharFlags \cup {"PRECISION"} /\ FlagsRead /\ width = CWidth /\ PrecRead
  BY <1>1 DEF AtLength
<1>14. /\ value' = value /\ directive' = directive /\ Ending' = Ending /\ CLeft' = CLeft
       /\ CWidth' = CWidth /\ ReadPrec' = ReadPrec /\ \A x : Has(x)' = Has(x)
  BY SameCall
<1>15. \A x \in CharFlags \cup {"PRECISION"} : x \in flags' <=> x \in flags
  <2>1. \A x \in CharFlags \cup {"PRECISION"} : x \notin {"LONG", "LONG_LONG", "SHORT", "CHAR"}
    BY DEF CharFlags
  <2> QED
    BY <1>11, <1>12, <2>1
<1>16. FlagsRead'
  <2>1. /\ "ZEROPAD" \in flags' <=> "ZEROPAD" \in flags
        /\ "LEFT" \in flags' <=> "LEFT" \in flags
        /\ "PLUS" \in flags' <=> "PLUS" \in flags
        /\ "SPACE" \in flags' <=> "SPACE" \in flags
        /\ "HASH" \in flags' <=> "HASH" \in flags
    BY <1>15 DEF CharFlags
  <2> QED
    BY <1>13, <1>14, <2>1 DEF FlagsRead
<1>17. PrecRead'
  <2>1. "PRECISION" \in flags' <=> "PRECISION" \in flags
    BY <1>15
  <2> QED
    BY <1>2, <1>13, <1>14, <2>1 DEF PrecRead
<1>18. LengthRead'
  <2>1. flags \cap {"LONG", "LONG_LONG"} = {} /\ "SHORT" \notin flags /\ "CHAR" \notin flags
    BY <1>13 DEF CharFlags
  <2>2. flags' \cap {"LONG", "LONG_LONG"} # {} <=> lf \cap {"LONG", "LONG_LONG"} # {}
    BY <1>11, <2>1
  <2>3. ("SHORT" \in flags' <=> "SHORT" \in lf) /\ ("CHAR" \in flags' <=> "CHAR" \in lf)
    BY <1>11, <2>1
  <2> QED
    BY <1>12, <1>14, <2>2, <2>3, Zenon DEF LengthRead, l
<1>19. flags' \subseteq CharFlags \cup {"PRECISION", "LONG", "LONG_LONG", "SHORT", "CHAR"}
  BY <1>11, <1>12, <1>13
<1>20. format' = Ending
  BY <1>11 DEF e
<1> QED
  BY <1>2, <1>13, <1>14, <1>16, <1>17, <1>18, <1>19, <1>20 DEF AtSpecifier

\* At the NUL the text is complete.
LEMMA ReadsTerminate ==
  ASSUME ReadsInv, Defined, UNCHANGED <<directive, value, str>>, Terminate
  PROVE  stage' = "done" /\ Result'
<1>1. CalledInv /\ AtText /\ stage = "text"
  BY DEF ReadsInv, Terminate, At
<1>2. Next1 = NUL /\ text' = text /\ stage' = "done"
  BY DEF Terminate, Goto
<1>3. IsText(FlagsPart(0)) /\ IsText(<<"%">> \o FlagsPart(0))
  <2>1. IsText(FlagsPart(0))
    BY <1>1, FlagsPartIs
  <2> QED
    BY <2>1, FrontOne
<1>4. format # <<"=">> \o (<<"%">> \o FlagsPart(0))
  <2>1. ASSUME format = <<"=">> \o (<<"%">> \o FlagsPart(0)) PROVE FALSE
    <3>1. Next1 = "="
      BY <1>3, <2>1, SkipOne
    <3> QED
      BY <1>2, <3>1 DEF NUL
  <2> QED
    BY <2>1
<1>5. format # <<"%">> \o FlagsPart(0)
  <2>1. ASSUME format = <<"%">> \o FlagsPart(0) PROVE FALSE
    <3>1. Next1 = "%"
      BY <1>3, <2>1, SkipOne
    <3> QED
      BY <1>2, <3>1 DEF NUL
  <2> QED
    BY <2>1
<1>6. Result
  BY <1>1, <1>4, <1>5 DEF AtText
<1>7. Differs' = Differs /\ CText' = CText
  BY SameResult
<1> QED
  BY <1>2, <1>6, <1>7 DEF Result

\* Once the directive is converted only the NUL is left.
LEMMA ReadsConverted ==
  ASSUME ReadsInv, Defined, UNCHANGED <<directive, value, str>>, stage = "specifier", Converted,
         NEW s, Emit(s), ~Differs => s = CText
  PROVE  stage' = "text" /\ AtText'
<1>1. CalledInv /\ AtSpecifier
  BY DEF ReadsInv
<1>2. Skip(1) /\ stage' = "text" /\ text' = text \o s
  BY DEF Converted, Goto, Emit
<1>3. format = Ending /\ text = <<"=">>
  BY <1>1 DEF AtSpecifier
<1>4. format' = <<NUL>>
  <2>1. Ending = <<directive.conv>> \o <<NUL>> /\ IsText(<<NUL>>)
    BY OneText DEF Ending
  <2> QED
    BY <1>2, <1>3, <2>1, SkipOne
<1>5. Differs' = Differs /\ CText' = CText
  BY SameResult
<1>6. Result'
  BY <1>2, <1>3, <1>5 DEF Result
<1> QED
  BY <1>2, <1>4, <1>6 DEF AtText

-----------------------------------------------------------------------------
(* What _ntoa_format writes.                                               *)

\* n zeros, and none for n <= 0.
Zeros(n) == Repeated("0", n)

\* What is pushed into a buffer that has room for it.
LEMMA PushFits ==
  ASSUME NEW s, IsText(s), NEW c, Len(s) < PRINTF_NTOA_BUFFER_SIZE
  PROVE  /\ Push(s, c) = s \o <<c>> /\ IsText(s \o <<c>>)
         /\ Len(s \o <<c>>) = Len(s) + 1 /\ Reverse(s \o <<c>>) = <<c>> \o Reverse(s)
<1> DEFINE S == Range(s) \cup {c}
           a == <<c>>
<1>1. s \in Seq(S) /\ c \in S
  BY DEF IsText
<1> HIDE DEF S
<1>2. Append(s, c) = s \o a
  BY <1>1
<1>3. IsText(a) /\ Len(a) = 1 /\ Reverse(a) = a
  BY OneText, ReverseOne
<1> HIDE DEF a
<1>4. IsText(s \o a) /\ Len(s \o a) = Len(s) + 1
  <2>1. IsText(s \o a) /\ Len(s \o a) = Len(s) + Len(a)
    BY <1>3, Chained
  <2> QED
    BY <1>3, <2>1
<1>5. Reverse(s \o a) = a \o Reverse(s)
  BY <1>3, ReverseChained
<1> QED
  BY <1>2, <1>4, <1>5 DEF Push, a

\* Filling a buffer that has room for it.
LEMMA FillIs ==
  ASSUME NEW s, IsText(s), NEW n \in Int, n <= PRINTF_NTOA_BUFFER_SIZE
  PROVE  Fill(s, n) = s \o Zeros(n - Len(s))
<1>1. PRINTF_NTOA_BUFFER_SIZE \in Nat
  BY PrintfAssumption
<1>2. (IF n < PRINTF_NTOA_BUFFER_SIZE THEN n ELSE PRINTF_NTOA_BUFFER_SIZE) = n
  BY <1>1
<1> QED
  BY <1>2 DEF Fill, Zeros

\* They are a text.
LEMMA ZerosIs ==
  ASSUME NEW n \in Int
  PROVE  /\ IsText(Zeros(n)) /\ Len(Zeros(n)) = IF n > 0 THEN n ELSE 0
         /\ n <= 0 => Zeros(n) = <<>>
         /\ Reverse(Zeros(n)) = Zeros(n)
BY RepeatedIs, RepeatedNone, ReverseRepeated DEF Zeros

\* The whole of a text, and all of it but some of the zeros at its end.
LEMMA WholeText ==
  ASSUME NEW s, IsText(s), NEW n, n = Len(s)
  PROVE  SubSeq(s, 1, n) = s
<1> DEFINE S == Range(s)
<1>1. s \in Seq(S)
  BY DEF IsText
<1> HIDE DEF S
<1> QED
  BY <1>1

\* What the # flag takes back of the zeros leaves as many as there were, less its places.
LEMMA Dropped ==
  ASSUME NEW s, IsText(s), NEW z \in Nat, NEW k \in 0..z, NEW n, n = Len(s) + (z - k)
  PROVE  SubSeq(s \o Zeros(z), 1, n) = s \o Zeros(z - k)
<1> DEFINE a == s \o Zeros(z)
           p == SubSeq(a, 1, n)
           b == s \o Zeros(z - k)
<1>0. Len(s) \in Nat
  BY TextIs
<1>1. /\ IsText(Zeros(z)) /\ Len(Zeros(z)) = z /\ \A i \in 1..z : Zeros(z)[i] = "0"
      /\ IsText(Zeros(z - k)) /\ Len(Zeros(z - k)) = z - k
      /\ \A i \in 1..(z - k) : Zeros(z - k)[i] = "0"
  <2>1. z \in Int /\ z - k \in Nat /\ z - k \in Int
    OBVIOUS
  <2> DEFINE y == z - k
  <2>2. /\ IsText(Zeros(z)) /\ Len(Zeros(z)) = (IF z > 0 THEN z ELSE 0)
        /\ \A i \in 1..z : Zeros(z)[i] = "0"
    BY <2>1, RepeatedIs DEF Zeros
  <2>3. y \in Nat
    BY <2>1
  <2> HIDE DEF y
  <2>4. /\ IsText(Zeros(y)) /\ Len(Zeros(y)) = (IF y > 0 THEN y ELSE 0)
        /\ \A i \in 1..y : Zeros(y)[i] = "0"
    <3>1. y \in Int
      BY <2>3
    <3> QED
      BY <3>1, RepeatedIs DEF Zeros
  <2>5. Len(Zeros(z)) = z /\ Len(Zeros(y)) = y
    BY <2>2, <2>3, <2>4
  <2> QED
    BY <2>2, <2>4, <2>5 DEF y
<1>2. /\ IsText(a) /\ Len(a) = Len(s) + z
      /\ \A i \in 1..(Len(s) + z) : a[i] = IF i <= Len(s) THEN s[i] ELSE Zeros(z)[i - Len(s)]
  <2> DEFINE y == Zeros(z)
  <2>1. IsText(y) /\ Len(y) = z
    BY <1>1
  <2> HIDE DEF y
  <2>2. /\ IsText(s \o y) /\ Len(s \o y) = Len(s) + Len(y)
        /\ \A i \in 1..(Len(s) + Len(y)) :
             (s \o y)[i] = IF i <= Len(s) THEN s[i] ELSE y[i - Len(s)]
    BY <2>1, Chained
  <2> QED
    BY <2>1, <2>2 DEF y
<1>3. /\ IsText(b) /\ Len(b) = n
      /\ \A i \in 1..n : b[i] = IF i <= Len(s) THEN s[i] ELSE Zeros(z - k)[i - Len(s)]
  <2> DEFINE y == Zeros(z - k)
  <2>1. IsText(y) /\ Len(y) = z - k
    BY <1>1
  <2> HIDE DEF y
  <2>2. /\ IsText(s \o y) /\ Len(s \o y) = Len(s) + Len(y)
        /\ \A i \in 1..(Len(s) + Len(y)) :
             (s \o y)[i] = IF i <= Len(s) THEN s[i] ELSE y[i - Len(s)]
    BY <2>1, Chained
  <2> QED
    BY <2>1, <2>2 DEF y
<1> HIDE DEF a, b
<1>4. IsText(p) /\ Len(p) = n /\ \A i \in 1..n : p[i] = a[i]
  <2>1. n \in 0..Len(a) /\ 1 \in 1..(Len(a) + 1)
    BY <1>0, <1>2
  <2>2. /\ IsText(p) /\ Len(p) = (IF 1 <= n THEN n - 1 + 1 ELSE 0)
        /\ \A i \in 1..(n - 1 + 1) : p[i] = a[1 + i - 1]
    BY <1>2, <2>1, PartText
  <2> HIDE DEF p
  <2>3. n \in Nat /\ n - 1 + 1 = n /\ \A i \in 1..n : 1 + i - 1 = i
    BY <2>1
  <2> QED
    BY <2>2, <2>3
<1> HIDE DEF p
<1>5. ASSUME NEW i \in 1..Len(p) PROVE p[i] = b[i]
  <2>1. i \in 1..n /\ i \in 1..(Len(s) + z)
    BY <1>0, <1>4
  <2>2. CASE i <= Len(s)
    BY <1>2, <1>3, <1>4, <2>1, <2>2
  <2>3. CASE ~(i <= Len(s))
    <3>1. i - Len(s) \in 1..z /\ i - Len(s) \in 1..(z - k)
      BY <1>0, <2>1, <2>3
    <3> QED
      BY <1>1, <1>2, <1>3, <1>4, <2>1, <2>3, <3>1
  <2> QED
    BY <2>2, <2>3
<1>6. p = b
  BY <1>3, <1>4, <1>5, SameText
<1> QED
  BY <1>6 DEF p, a, b

-----------------------------------------------------------------------------
(* The field of a number.                                                  *)

\* The sign's character, if any.
Sign(negative, f) ==
  CASE negative                                          -> <<"-">>
    [] ~negative /\ "PLUS" \in f                         -> <<"+">>
    [] ~negative /\ "PLUS" \notin f /\ "SPACE" \in f     -> <<" ">>
    [] OTHER                                             -> <<>>

\* The prefix that says the base, if any.
Radix(base, f) ==
  CASE "HASH" \in f /\ base = 16                 -> <<"0">> \o <<"x">>
    [] "HASH" \in f /\ base = 2                  -> <<"0">> \o <<"b">>
    [] "HASH" \in f /\ base # 16 /\ base # 2     -> <<"0">>
    [] OTHER                                     -> <<>>

\* The buffer with the prefix, pushed the last character first.
Hashed(room, padded, base, f) ==
  IF "HASH" \in f
  THEN Push(CASE base = 16 -> Push(room, "x")
              [] base = 2  -> Push(room, "b")
              [] OTHER     -> room, "0")
  ELSE padded

\* The buffer with prefix and sign.
Full(hashed, negative, f) ==
  CASE negative                        -> Push(hashed, "-")
    [] ~negative /\ "PLUS" \in f       -> Push(hashed, "+")
    [] ~negative /\ "PLUS" \notin f /\ "SPACE" \in f -> Push(hashed, " ")
    [] OTHER                           -> hashed

\* There is at most one sign.
LEMMA SignIs ==
  ASSUME NEW negative \in BOOLEAN, NEW f
  PROVE  /\ IsText(Sign(negative, f)) /\ Len(Sign(negative, f)) \in {0, 1}
         /\ Len(Sign(negative, f)) = 1 <=> (negative \/ f \cap {"PLUS", "SPACE"} # {})
<1> DEFINE g == Sign(negative, f)
<1>1. \/ g = <<"-">> /\ negative
      \/ g = <<"+">> /\ ~negative /\ "PLUS" \in f
      \/ g = <<" ">> /\ ~negative /\ "PLUS" \notin f /\ "SPACE" \in f
      \/ g = <<>> /\ ~negative /\ "PLUS" \notin f /\ "SPACE" \notin f
  BY Zenon DEF Sign
<1> HIDE DEF g
<1>2. /\ IsText(<<"-">>) /\ Len(<<"-">>) = 1 /\ IsText(<<"+">>) /\ Len(<<"+">>) = 1
      /\ IsText(<<" ">>) /\ Len(<<" ">>) = 1 /\ IsText(<<>>) /\ Len(<<>>) = 0
  BY OneText, NoText
<1>3. IsText(g) /\ Len(g) \in {0, 1}
  BY <1>1, <1>2
<1>4. Len(g) = 1 <=> negative \/ "PLUS" \in f \/ "SPACE" \in f
  <2>1. 0 # 1
    OBVIOUS
  <2> QED
    BY <1>1, <1>2, <2>1, Zenon
<1>5. f \cap {"PLUS", "SPACE"} # {} <=> "PLUS" \in f \/ "SPACE" \in f
  OBVIOUS
<1> QED
  BY <1>3, <1>4, <1>5, Zenon DEF g

\* A prefix has at most two characters.
LEMMA RadixIs ==
  ASSUME NEW base, NEW f
  PROVE  /\ IsText(Radix(base, f))
         /\ Len(Radix(base, f)) = IF "HASH" \notin f THEN 0 ELSE IF base \in {2, 16} THEN 2 ELSE 1
         /\ "HASH" \notin f => Radix(base, f) = <<>>
<1> DEFINE x == <<"0">> \o <<"x">>
           b == <<"0">> \o <<"b">>
           z == <<"0">>
<1>1. /\ IsText(z) /\ Len(z) = 1 /\ IsText(x) /\ Len(x) = 2 /\ IsText(b) /\ Len(b) = 2
  <2>1. IsText(z) /\ Len(z) = 1 /\ IsText(<<"x">>) /\ IsText(<<"b">>) /\ Len(<<"x">>) = 1
        /\ Len(<<"b">>) = 1
    BY OneText
  <2>2. IsText(x) /\ Len(x) = 1 + 1 /\ IsText(b) /\ Len(b) = 1 + 1
    BY <2>1, FrontOne
  <2> QED
    BY <2>1, <2>2
<1>2. IsText(<<>>) /\ Len(<<>>) = 0
  BY NoText
<1> DEFINE r == Radix(base, f)
<1>3. \/ r = x /\ "HASH" \in f /\ base = 16
      \/ r = b /\ "HASH" \in f /\ base = 2
      \/ r = z /\ "HASH" \in f /\ base # 16 /\ base # 2
      \/ r = <<>> /\ "HASH" \notin f
  <2>1. CASE "HASH" \notin f
    BY <2>1 DEF Radix
  <2>2. CASE "HASH" \in f /\ base = 16
    BY <2>2 DEF Radix
  <2>3. CASE "HASH" \in f /\ base = 2
    BY <2>3 DEF Radix
  <2>4. CASE "HASH" \in f /\ base # 16 /\ base # 2
    BY <2>4 DEF Radix
  <2> QED
    BY <2>1, <2>2, <2>3, <2>4, Zenon
<1> HIDE DEF r, x, b, z
<1>4. IsText(r)
  BY <1>1, <1>2, <1>3
<1>5. CASE "HASH" \notin f
  BY <1>2, <1>3, <1>4, <1>5 DEF r
<1>6. CASE "HASH" \in f
  BY <1>1, <1>3, <1>4, <1>6 DEF r
<1> QED
  BY <1>5, <1>6

\* Written backwards the number has its sign and the prefix of its base in front.
LEMMA Prefixed ==
  ASSUME NEW s, IsText(s), NEW padded, NEW base, NEW f, NEW negative \in BOOLEAN,
         "HASH" \notin f => padded = s,
         Len(s) + Len(Radix(base, f)) + Len(Sign(negative, f)) <= PRINTF_NTOA_BUFFER_SIZE
  PROVE  LET full == Full(Hashed(s, padded, base, f), negative, f)
             all  == Sign(negative, f) \o (Radix(base, f) \o Reverse(s))
         IN  /\ IsText(full) /\ Reverse(full) = all
             /\ Len(full) = Len(s) + Len(Radix(base, f)) + Len(Sign(negative, f))
<1> DEFINE B == PRINTF_NTOA_BUFFER_SIZE
           h == Hashed(s, padded, base, f)
           r == Radix(base, f)
           g == Sign(negative, f)
           full == Full(h, negative, f)
           rs == Reverse(s)
<1>0. B \in Nat /\ Len(s) \in Nat
  BY PrintfAssumption, TextIs
<1>1. IsText(r) /\ Len(r) \in Nat /\ IsText(g) /\ Len(g) \in Nat /\ IsText(rs)
  <2>1. IsText(r) /\ IsText(g)
    BY RadixIs, SignIs
  <2> QED
    BY <2>1, TextIs, ReverseIs
<1>2. Len(s) + Len(r) + Len(g) <= B
  OBVIOUS
<1>3. IsText(h) /\ Len(h) = Len(s) + Len(r) /\ Reverse(h) = r \o rs
  <2>1. CASE "HASH" \notin f
    <3>1. h = s /\ r = <<>> /\ Len(r) = 0
      BY <2>1, RadixIs, NoText DEF Hashed
    <3>2. r \o rs = rs
      BY <1>1, <3>1, NothingChained
    <3> HIDE DEF r
    <3>3. Len(s) + Len(r) = Len(s)
      BY <1>0, <3>1
    <3> QED
      BY <3>1, <3>2, <3>3
  <2>2. CASE "HASH" \in f /\ base = 16
    <3> DEFINE p == s \o <<"x">>
    <3>1. r = <<"0">> \o <<"x">> /\ Len(r) = 2
      BY <2>2, RadixIs DEF Radix
    <3>2. Len(s) < B
      <4> HIDE DEF r, g
      <4> QED
        BY <1>0, <1>1, <1>2, <3>1
    <3>3. /\ Push(s, "x") = p /\ IsText(p) /\ Len(p) = Len(s) + 1
          /\ Reverse(p) = <<"x">> \o rs
      BY <3>2, PushFits
    <3> HIDE DEF p
    <3>4. h = Push(p, "0")
      BY <2>2, <3>3 DEF Hashed
    <3>5. Len(p) < B
      <4> HIDE DEF r, g
      <4> QED
        BY <1>0, <1>1, <1>2, <3>1, <3>3
    <3>6. h = p \o <<"0">> /\ IsText(h) /\ Len(h) = Len(p) + 1 /\ Reverse(h) = <<"0">> \o Reverse(p)
      <4>1. IsText(p)
        BY <3>3
      <4>2. /\ Push(p, "0") = p \o <<"0">> /\ IsText(p \o <<"0">>)
            /\ Len(p \o <<"0">>) = Len(p) + 1 /\ Reverse(p \o <<"0">>) = <<"0">> \o Reverse(p)
        BY <3>5, <4>1, PushFits
      <4> HIDE DEF h
      <4> QED
        BY <3>4, <4>2
    <3>7. (<<"0">> \o <<"x">>) \o rs = <<"0">> \o (<<"x">> \o rs)
      <4>1. IsText(<<"0">>) /\ IsText(<<"x">>)
        BY OneText
      <4> QED
        BY <1>1, <4>1, Associated
    <3>8. Len(h) = Len(s) + Len(r)
      <4> HIDE DEF h, r
      <4> QED
        BY <1>0, <3>1, <3>3, <3>6
    <3> HIDE DEF h, r, rs
    <3> QED
      BY <3>1, <3>3, <3>6, <3>7, <3>8
  <2>3. CASE "HASH" \in f /\ base = 2
    <3> DEFINE p == s \o <<"b">>
    <3>1. r = <<"0">> \o <<"b">> /\ Len(r) = 2
      BY <2>3, RadixIs DEF Radix
    <3>2. Len(s) < B
      <4> HIDE DEF r, g
      <4> QED
        BY <1>0, <1>1, <1>2, <3>1
    <3>3. /\ Push(s, "b") = p /\ IsText(p) /\ Len(p) = Len(s) + 1
          /\ Reverse(p) = <<"b">> \o rs
      BY <3>2, PushFits
    <3> HIDE DEF p
    <3>4. h = Push(p, "0")
      BY <2>3, <3>3 DEF Hashed
    <3>5. Len(p) < B
      <4> HIDE DEF r, g
      <4> QED
        BY <1>0, <1>1, <1>2, <3>1, <3>3
    <3>6. h = p \o <<"0">> /\ IsText(h) /\ Len(h) = Len(p) + 1 /\ Reverse(h) = <<"0">> \o Reverse(p)
      <4>1. IsText(p)
        BY <3>3
      <4>2. /\ Push(p, "0") = p \o <<"0">> /\ IsText(p \o <<"0">>)
            /\ Len(p \o <<"0">>) = Len(p) + 1 /\ Reverse(p \o <<"0">>) = <<"0">> \o Reverse(p)
        BY <3>5, <4>1, PushFits
      <4> HIDE DEF h
      <4> QED
        BY <3>4, <4>2
    <3>7. (<<"0">> \o <<"b">>) \o rs = <<"0">> \o (<<"b">> \o rs)
      <4>1. IsText(<<"0">>) /\ IsText(<<"b">>)
        BY OneText
      <4> QED
        BY <1>1, <4>1, Associated
    <3>8. Len(h) = Len(s) + Len(r)
      <4> HIDE DEF h, r
      <4> QED
        BY <1>0, <3>1, <3>3, <3>6
    <3> HIDE DEF h, r, rs
    <3> QED
      BY <3>1, <3>3, <3>6, <3>7, <3>8
  <2>4. CASE "HASH" \in f /\ base # 16 /\ base # 2
    <3>1. r = <<"0">> /\ Len(r) = 1
      BY <2>4, RadixIs DEF Radix
    <3>2. Len(s) < B
      <4> HIDE DEF r, g
      <4> QED
        BY <1>0, <1>1, <1>2, <3>1
    <3>3. h = Push(s, "0")
      BY <2>4 DEF Hashed
    <3>4. h = s \o <<"0">> /\ IsText(h) /\ Len(h) = Len(s) + 1 /\ Reverse(h) = <<"0">> \o rs
      BY <3>2, <3>3, PushFits
    <3> HIDE DEF h, r, rs
    <3> QED
      BY <3>1, <3>4
  <2> QED
    BY <2>1, <2>2, <2>3, <2>4
<1> HIDE DEF h
<1>4. r \o rs = Reverse(h) /\ IsText(r \o rs)
  BY <1>1, <1>3, Chained
<1> DEFINE q == r \o rs
<1> HIDE DEF r, rs
<1>5. ASSUME NEW c, g = <<c>>, full = Push(h, c)
      PROVE  IsText(full) /\ Reverse(full) = g \o q /\ Len(full) = Len(s) + Len(r) + Len(g)
  <2>1. Len(g) = 1
    BY <1>5, OneText
  <2>2. Len(h) < B
    <3> HIDE DEF g
    <3> QED
      BY <1>0, <1>1, <1>2, <1>3, <2>1
  <2>3. full = h \o <<c>> /\ IsText(full) /\ Len(full) = Len(h) + 1
        /\ Reverse(full) = <<c>> \o Reverse(h)
    BY <1>3, <1>5, <2>2, PushFits
  <2> HIDE DEF full, g, q
  <2> QED
    BY <1>3, <1>4, <1>5, <2>1, <2>3 DEF q
<1>6. /\ IsText(full) /\ Reverse(full) = g \o q
      /\ Len(full) = Len(s) + Len(r) + Len(g)
  <2>1. CASE negative
    <3>1. g = <<"-">> /\ full = Push(h, "-")
      BY <2>1 DEF Sign, Full
    <3> QED
      BY <1>5, <3>1
  <2>2. CASE ~negative /\ "PLUS" \in f
    <3>1. g = <<"+">> /\ full = Push(h, "+")
      BY <2>2 DEF Sign, Full
    <3> QED
      BY <1>5, <3>1
  <2>3. CASE ~negative /\ "PLUS" \notin f /\ "SPACE" \in f
    <3>1. g = <<" ">> /\ full = Push(h, " ")
      BY <2>3 DEF Sign, Full
    <3> QED
      BY <1>5, <3>1
  <2>4. CASE ~negative /\ "PLUS" \notin f /\ "SPACE" \notin f
    <3>1. g = <<>> /\ full = h
      BY <2>4 DEF Sign, Full
    <3>2. Len(g) = 0
      BY <3>1, NoText
    <3>3. IsText(q) /\ <<>> \o q = q
      BY <1>4, NothingChained
    <3> HIDE DEF full, g, q
    <3> QED
      BY <1>0, <1>1, <1>3, <1>4, <3>1, <3>2, <3>3 DEF q
  <2> QED
    BY <2>1, <2>2, <2>3, <2>4
<1> QED
  BY <1>6 DEF r, rs, h

\* The parts of _ntoa_format: the width that is left behind a sign.
WidthOf(negative, wide, f) ==
  IF ~("LEFT" \in f) /\ wide > 0 /\ "ZEROPAD" \in f /\ (negative \/ f \cap {"PLUS", "SPACE"} # {})
  THEN wide - 1 ELSE wide

\* The buffer with its zeros.
PaddedOf(digits, prec, w, f) ==
  CASE "LEFT" \in f                              -> digits
    [] ~("LEFT" \in f) /\ "ZEROPAD" \in f        -> Fill(Fill(digits, prec), w)
    [] ~("LEFT" \in f) /\ ~("ZEROPAD" \in f)     -> Fill(digits, prec)

\* How many zeros the # flag takes back.
DropOf(len, base, prec, w, f) ==
  IF "PRECISION" \notin f /\ len > 0 /\ (len = prec \/ len = w)
  THEN (IF len > 1 /\ base = 16 THEN 2 ELSE 1) ELSE 0

\* What it leaves.
RoomOf(padded, base, prec, w, f) ==
  SubSeq(padded, 1, Len(padded) - DropOf(Len(padded), base, prec, w, f))

\* The field from the buffer and the flags.
FieldText(room, padded, negative, base, w, f) ==
  out_rev(Full(Hashed(room, padded, base, f), negative, f), w, f)

\* The steps of _ntoa_format one after another.
LEMMA FormatIs ==
  ASSUME NEW digits, NEW negative, NEW base, NEW prec, NEW wide, NEW f,
         NEW w, w = WidthOf(negative, wide, f),
         NEW padded, padded = PaddedOf(digits, prec, w, f)
  PROVE  ntoa_format(digits, negative, base, prec, wide, f)
           = FieldText(RoomOf(padded, base, prec, w, f), padded, negative, base, w, f)
BY DEF ntoa_format, WidthOf, PaddedOf, DropOf, Hashed, Full, RoomOf, FieldText

\* A text in a field of w characters.
Behind(s, w) == s \o Repeated(" ", w - Len(s))
InFront(s, w) == Repeated(" ", w - Len(s)) \o s
Filled(s, w) == Zeros(w - Len(s)) \o s

\* Sign, prefix and digits as a reader sees them.
Body(digits, negative, base, f) == Sign(negative, f) \o (Radix(base, f) \o digits)

\* The buffer backwards is sign, prefix, digits.
LEMMA FieldOf ==
  ASSUME NEW s, IsText(s), NEW padded, NEW base, NEW f, NEW negative \in BOOLEAN,
         NEW w \in Int, "HASH" \notin f => padded = s,
         Len(s) + Len(Radix(base, f)) + Len(Sign(negative, f)) <= PRINTF_NTOA_BUFFER_SIZE
  PROVE  /\ "LEFT" \in f => FieldText(s, padded, negative, base, w, f)
                             = Behind(Body(Reverse(s), negative, base, f), w)
         /\ "LEFT" \notin f /\ "ZEROPAD" \notin f =>
              FieldText(s, padded, negative, base, w, f)
                = InFront(Body(Reverse(s), negative, base, f), w)
         /\ "LEFT" \notin f /\ "ZEROPAD" \in f =>
              FieldText(s, padded, negative, base, w, f) = Body(Reverse(s), negative, base, f)
<1> DEFINE full == Full(Hashed(s, padded, base, f), negative, f)
           all  == Body(Reverse(s), negative, base, f)
           pad  == Repeated(" ", w - Len(all))
<1>1. /\ IsText(full) /\ Reverse(full) = all
      /\ Len(full) = Len(s) + Len(Radix(base, f)) + Len(Sign(negative, f))
  BY Prefixed DEF Body
<1> HIDE DEF full, all
<1>2. IsText(all) /\ Len(all) = Len(full)
  BY <1>1, ReverseIs
<1>3. "LEFT" \in f => out_rev(full, w, f) = all \o pad
  BY <1>1, <1>2 DEF out_rev
<1>4. "LEFT" \notin f /\ "ZEROPAD" \notin f => out_rev(full, w, f) = pad \o all
  <2>1. "LEFT" \notin f /\ "ZEROPAD" \notin f => f \cap {"LEFT", "ZEROPAD"} = {}
    OBVIOUS
  <2> QED
    BY <1>1, <1>2, <2>1 DEF out_rev
<1>5. "LEFT" \notin f /\ "ZEROPAD" \in f => out_rev(full, w, f) = all
  <2>1. "ZEROPAD" \in f => f \cap {"LEFT", "ZEROPAD"} # {}
    OBVIOUS
  <2> QED
    BY <1>1, <1>2, <2>1 DEF out_rev
<1> QED
  BY <1>3, <1>4, <1>5 DEF full, all, FieldText, Behind, InFront

\* Left justified there are no zeros.
LEMMA FormatLeft ==
  ASSUME NEW d, IsText(d), NEW negative \in BOOLEAN, NEW base, NEW prec \in Nat,
         NEW wide \in Nat, NEW f, "LEFT" \in f,
         "HASH" \in f /\ "PRECISION" \notin f => Len(d) # prec /\ Len(d) # wide,
         Len(d) + Len(Radix(base, f)) + Len(Sign(negative, f)) <= PRINTF_NTOA_BUFFER_SIZE
  PROVE  ntoa_format(d, negative, base, prec, wide, f)
           = Behind(Body(Reverse(d), negative, base, f), wide)
<1> DEFINE drop == DropOf(Len(d), base, prec, wide, f)
           room == RoomOf(d, base, prec, wide, f)
<1>1. wide = WidthOf(negative, wide, f) /\ d = PaddedOf(d, prec, wide, f)
  BY DEF WidthOf, PaddedOf
<1>2. ntoa_format(d, negative, base, prec, wide, f)
        = FieldText(room, d, negative, base, wide, f)
  BY <1>1, FormatIs
<1>3. Hashed(room, d, base, f) = Hashed(d, d, base, f)
  <2>1. CASE "HASH" \notin f
    BY <2>1 DEF Hashed
  <2>2. CASE "HASH" \in f
    <3>1. drop = 0
      BY <2>2 DEF DropOf
    <3>2. Len(d) - drop = Len(d)
      BY <3>1, TextIs
    <3> HIDE DEF drop
    <3>3. SubSeq(d, 1, Len(d) - drop) = d
      BY <3>2, WholeText
    <3>4. room = d
      BY <3>3 DEF drop, RoomOf
    <3> HIDE DEF room
    <3> QED
      BY <3>4
  <2> QED
    BY <2>1, <2>2
<1>4. FieldText(room, d, negative, base, wide, f) = FieldText(d, d, negative, base, wide, f)
  BY <1>3 DEF FieldText
<1>5. wide \in Int
  OBVIOUS
<1> HIDE DEF room
<1>6. "HASH" \notin f => d = d
  OBVIOUS
<1>7. FieldText(d, d, negative, base, wide, f) = Behind(Body(Reverse(d), negative, base, f), wide)
  BY <1>5, <1>6, FieldOf
<1> QED
  BY <1>2, <1>4, <1>7

\* Right justified there are those of the precision.
LEMMA FormatRight ==
  ASSUME NEW d, IsText(d), NEW negative \in BOOLEAN, NEW base, NEW prec \in Nat,
         NEW wide \in Nat, NEW f, "LEFT" \notin f, "ZEROPAD" \notin f,
         "HASH" \in f /\ "PRECISION" \notin f => prec = 0 /\ Len(d) # 0 /\ Len(d) # wide,
         prec <= PRINTF_NTOA_BUFFER_SIZE,
         (IF Len(d) < prec THEN prec ELSE Len(d)) + Len(Radix(base, f)) + Len(Sign(negative, f))
           <= PRINTF_NTOA_BUFFER_SIZE
  PROVE  ntoa_format(d, negative, base, prec, wide, f)
           = InFront(Body(Filled(Reverse(d), prec), negative, base, f), wide)
<1> DEFINE z    == Zeros(prec - Len(d))
           s    == d \o z
           drop == DropOf(Len(s), base, prec, wide, f)
           room == RoomOf(s, base, prec, wide, f)
           rev  == Reverse(d)
<1>0. Len(d) \in Nat /\ Len(rev) = Len(d)
  BY TextIs, ReverseIs
<1>1. IsText(z) /\ Len(z) = (IF prec - Len(d) > 0 THEN prec - Len(d) ELSE 0) /\ Reverse(z) = z
  <2>1. prec - Len(d) \in Int
    BY <1>0
  <2> QED
    BY <2>1, ZerosIs
<1>2. s = PaddedOf(d, prec, wide, f)
  <2>1. Fill(d, prec) = s
    <3>1. prec \in Int
      OBVIOUS
    <3> QED
      BY <3>1, FillIs
  <2> HIDE DEF s
  <2> QED
    BY <2>1 DEF PaddedOf
<1>3. wide = WidthOf(negative, wide, f)
  BY DEF WidthOf
<1>4. Reverse(s) = z \o rev
  <2> HIDE DEF z
  <2> QED
    BY <1>1, ReverseChained
<1>5. IsText(s) /\ Len(s) = IF Len(d) < prec THEN prec ELSE Len(d)
  <2> HIDE DEF z
  <2>1. IsText(s) /\ Len(s) = Len(d) + Len(z)
    BY <1>1, Chained
  <2> HIDE DEF s
  <2> QED
    BY <1>0, <1>1, <2>1
<1>6. Reverse(s) = Filled(rev, prec)
  BY <1>0, <1>4 DEF Filled
<1> HIDE DEF s
<1>7. ntoa_format(d, negative, base, prec, wide, f) = FieldText(room, s, negative, base, wide, f)
  BY <1>2, <1>3, FormatIs
<1>8. Hashed(room, s, base, f) = Hashed(s, s, base, f)
  <2>1. CASE "HASH" \notin f
    BY <2>1 DEF Hashed
  <2>2. CASE "HASH" \in f
    <3>1. drop = 0
      <4>1. CASE "PRECISION" \in f
        BY <4>1 DEF DropOf
      <4>2. CASE "PRECISION" \notin f
        <5>0. prec = 0 /\ Len(d) # 0 /\ Len(d) # wide
          BY <2>2, <4>2
        <5>1. Len(s) # prec /\ Len(s) # wide
          <6>1. Len(s) = Len(d)
            BY <1>0, <1>5, <5>0
          <6> HIDE DEF s
          <6> QED
            BY <5>0, <6>1
        <5> QED
          BY <5>1 DEF DropOf
      <4> QED
        BY <4>1, <4>2
    <3>2. Len(s) - drop = Len(s)
      BY <1>0, <1>5, <3>1
    <3> HIDE DEF drop
    <3>3. SubSeq(s, 1, Len(s) - drop) = s
      BY <1>5, <3>2, WholeText
    <3>4. room = s
      BY <3>3 DEF drop, RoomOf
    <3> HIDE DEF room
    <3> QED
      BY <3>4
  <2> QED
    BY <2>1, <2>2
<1>9. FieldText(room, s, negative, base, wide, f) = FieldText(s, s, negative, base, wide, f)
  BY <1>8 DEF FieldText
<1>10. wide \in Int
  OBVIOUS
<1>11. Len(s) + Len(Radix(base, f)) + Len(Sign(negative, f)) <= PRINTF_NTOA_BUFFER_SIZE
  BY <1>5
<1>12. "HASH" \notin f => s = s
  OBVIOUS
<1> HIDE DEF room
<1>13. FieldText(s, s, negative, base, wide, f) = InFront(Body(Reverse(s), negative, base, f), wide)
  BY <1>5, <1>10, <1>11, <1>12, FieldOf
<1> QED
  BY <1>6, <1>7, <1>9, <1>13

\* Filled with zeros there is no padding; the sign takes one place of the width.
LEMMA FormatZeros ==
  ASSUME NEW d, IsText(d), NEW negative \in BOOLEAN, NEW base,
         NEW wide \in Nat, NEW f, "LEFT" \notin f, "ZEROPAD" \in f, "HASH" \notin f,
         NEW room, room = wide - Len(Sign(negative, f)),
         wide <= PRINTF_NTOA_BUFFER_SIZE,
         Len(d) + Len(Sign(negative, f)) <= PRINTF_NTOA_BUFFER_SIZE
  PROVE  ntoa_format(d, negative, base, 0, wide, f)
           = Body(Filled(Reverse(d), room), negative, base, f)
<1> DEFINE B == PRINTF_NTOA_BUFFER_SIZE
           g == Sign(negative, f)
           w == WidthOf(negative, wide, f)
           n == Len(d)
           z    == Zeros(w - n)
           y    == Zeros(room - n)
           s    == d \o z
           all  == RoomOf(s, base, 0, w, f)
           rev  == Reverse(d)
<1>0. n \in Nat /\ B \in Nat /\ Len(rev) = n
  BY TextIs, ReverseIs, PrintfAssumption
<1>1. (Len(g) = 0 \/ Len(g) = 1) /\ (Len(g) = 1 <=> (negative \/ f \cap {"PLUS", "SPACE"} # {}))
  <2>1. Len(g) \in {0, 1} /\ (Len(g) = 1 <=> (negative \/ f \cap {"PLUS", "SPACE"} # {}))
    BY SignIs
  <2> HIDE DEF g
  <2> QED
    BY <2>1
<1>2. w = IF wide > 0 /\ Len(g) = 1 THEN wide - 1 ELSE wide
  <2> HIDE DEF g
  <2> QED
    BY <1>1 DEF WidthOf
<1>20. room = wide - Len(g) /\ wide <= B /\ n + Len(g) <= B
  OBVIOUS
<1> HIDE DEF w, n, g, B
<1>21. Len(g) = 0 \/ Len(g) = 1
  BY <1>1
<1>23. /\ Len(g) = 0 => w = wide /\ room = wide /\ n <= B
       /\ Len(g) = 1 /\ wide > 0 => w = wide - 1 /\ room = wide - 1 /\ n + 1 <= B
       /\ Len(g) = 1 /\ wide = 0 => w = 0 /\ room = -1 /\ n + 1 <= B
  <2>1. wide \in Nat
    OBVIOUS
  <2>2. CASE Len(g) = 0
    <3>1. w = wide
      BY <1>2, <2>2
    <3>2. room = wide /\ n <= B
      BY <1>0, <1>20, <2>1, <2>2
    <3> QED
      BY <2>2, <3>1, <3>2
  <2>3. CASE Len(g) = 1
    <3>1. wide > 0 => w = wide - 1
      BY <1>2, <2>3
    <3>2. wide = 0 => w = 0
      BY <1>2, <2>3
    <3>3. room = wide - 1 /\ n + 1 <= B
      BY <1>0, <1>20, <2>1, <2>3
    <3>4. wide = 0 => room = -1
      BY <3>3
    <3> QED
      BY <2>3, <3>1, <3>2, <3>3, <3>4
  <2> QED
    BY <1>21, <2>2, <2>3
<1>3. w \in Int /\ w <= wide /\ w <= B /\ (w - n) \in Int /\ room \in Int
  BY <1>0, <1>1, <1>2, <1>20
<1>4. IsText(z) /\ Len(z) = (IF w - n > 0 THEN w - n ELSE 0) /\ Reverse(z) = z
  BY <1>3, ZerosIs
<1>5. z = y
  <2>1. CASE w = room
    BY <2>1
  <2>2. CASE w # room
    <3> DEFINE i == w - n
               j == room - n
    <3>1. i \in Int /\ j \in Int /\ i <= 0 /\ j <= 0
      <4>1. wide \in Nat
        OBVIOUS
      <4>2. wide = 0
        BY <1>21, <1>23, <2>2, <4>1
      <4> QED
        BY <1>0, <1>1, <1>2, <1>20, <4>2
    <3> HIDE DEF i, j
    <3>2. Zeros(i) = <<>> /\ Zeros(j) = <<>>
      BY <3>1, ZerosIs
    <3> QED
      BY <3>2 DEF i, j
  <2> QED
    BY <2>1, <2>2
<1>6. s = PaddedOf(d, 0, w, f)
  <2>1. Fill(d, 0) = d
    <3>1. 0 \in Int /\ 0 <= PRINTF_NTOA_BUFFER_SIZE
      BY <1>0 DEF B
    <3>2. Fill(d, 0) = d \o Zeros(0 - Len(d))
      BY <3>1, FillIs
    <3> DEFINE i == 0 - Len(d)
    <3>3. i \in Int /\ i <= 0
      BY <1>0 DEF n
    <3> HIDE DEF i
    <3>4. Zeros(i) = <<>>
      BY <3>3, ZerosIs
    <3> QED
      BY <3>2, <3>4, NothingChained DEF i
  <2>2. Fill(d, w) = s
    BY <1>3, FillIs DEF n, B
  <2> HIDE DEF s
  <2> QED
    BY <2>1, <2>2 DEF PaddedOf
<1>7. Reverse(s) = z \o rev
  <2> HIDE DEF z
  <2> QED
    BY <1>4, ReverseChained
<1>8. Reverse(s) = Filled(rev, room)
  BY <1>0, <1>5, <1>7 DEF Filled
<1>9. IsText(s) /\ Len(s) = IF n < w THEN w ELSE n
  <2> HIDE DEF z
  <2>1. IsText(s) /\ Len(s) = n + Len(z)
    BY <1>4, Chained DEF n
  <2> HIDE DEF s
  <2> QED
    BY <1>0, <1>3, <1>4, <2>1
<1> HIDE DEF s
<1>10. ntoa_format(d, negative, base, 0, wide, f) = FieldText(all, s, negative, base, w, f)
  <2>1. w = WidthOf(negative, wide, f)
    BY DEF w
  <2> QED
    BY <1>6, <2>1, FormatIs
<1>11. FieldText(all, s, negative, base, w, f) = FieldText(s, s, negative, base, w, f)
  BY DEF FieldText, Hashed
<1>12. Len(s) + Len(Radix(base, f)) + Len(Sign(negative, f)) <= PRINTF_NTOA_BUFFER_SIZE
  <2>1. Len(Radix(base, f)) = 0
    BY RadixIs
  <2>2. Len(s) + Len(g) <= B
    <3>1. CASE n < w
      <4>1. w + Len(g) <= B
        <5>0. wide \in Nat
          OBVIOUS
        <5>1. wide > 0
          BY <1>0, <1>2, <1>21, <3>1, <5>0
        <5> QED
          BY <1>0, <1>20, <1>21, <1>23, <5>0, <5>1
      <4> QED
        BY <1>9, <3>1, <4>1
    <3>2. CASE ~(n < w)
      BY <1>9, <1>20, <3>2
    <3> QED
      BY <3>1, <3>2
  <2>3. Len(s) + 0 = Len(s)
    BY <1>0, <1>3, <1>9
  <2> QED
    BY <2>1, <2>2, <2>3 DEF g, B
<1>13. "HASH" \notin f => s = s
  OBVIOUS
<1> HIDE DEF all
<1>14. FieldText(s, s, negative, base, w, f) = Body(Reverse(s), negative, base, f)
  BY <1>3, <1>9, <1>12, <1>13, FieldOf
<1> QED
  BY <1>8, <1>10, <1>11, <1>14

\* With a prefix the zeros give it its places.
LEMMA FormatHashZeros ==
  ASSUME NEW d, IsText(d), NEW negative \in BOOLEAN, ~negative, NEW base, NEW wide \in Nat, NEW f,
         "LEFT" \notin f, "ZEROPAD" \in f, "HASH" \in f, "PRECISION" \notin f,
         "PLUS" \notin f, "SPACE" \notin f, NEW left, left = wide - Len(Radix(base, f)),
         wide <= PRINTF_NTOA_BUFFER_SIZE, Len(d) >= 1, Len(d) # wide,
         base = 2 => wide <= Len(d), base = 16 => wide # Len(d) + 1,
         Len(d) + Len(Radix(base, f)) <= PRINTF_NTOA_BUFFER_SIZE
  PROVE  ntoa_format(d, negative, base, 0, wide, f)
           = Body(Filled(Reverse(d), left), negative, base, f)
<1> DEFINE B == PRINTF_NTOA_BUFFER_SIZE
           n == Len(d)
           k == Len(Radix(base, f))
           z    == Zeros(wide - n)
           y    == Zeros(left - n)
           s    == d \o z
           t    == d \o y
           drop == DropOf(Len(s), base, 0, wide, f)
           room == RoomOf(s, base, 0, wide, f)
           rev  == Reverse(d)
<1>0. n \in Nat /\ B \in Nat /\ wide \in Int /\ Len(rev) = n
  BY TextIs, ReverseIs, PrintfAssumption
<1>1. k = IF base \in {2, 16} THEN 2 ELSE 1
  BY RadixIs
<1>2. wide = WidthOf(negative, wide, f)
  <2>1. f \cap {"PLUS", "SPACE"} = {}
    OBVIOUS
  <2> QED
    BY <2>1 DEF WidthOf
<1>3. /\ wide <= B /\ n >= 1 /\ n # wide /\ (base = 2 => wide <= n)
      /\ (base = 16 => wide # n + 1) /\ n + k <= B /\ left = wide - k
  OBVIOUS
<1> HIDE DEF n, k, B
<1>4. /\ IsText(z) /\ Len(z) = (IF wide - n > 0 THEN wide - n ELSE 0)
      /\ (wide - n <= 0 => z = <<>>)
  <2>1. wide - n \in Int
    BY <1>0
  <2> DEFINE i == wide - n
  <2>2. i \in Int
    BY <2>1
  <2> HIDE DEF i
  <2>3. IsText(Zeros(i)) /\ Len(Zeros(i)) = (IF i > 0 THEN i ELSE 0) /\ (i <= 0 => Zeros(i) = <<>>)
    BY <2>2, ZerosIs
  <2> QED
    BY <2>3 DEF i
<1>5. /\ IsText(y) /\ Len(y) = (IF left - n > 0 THEN left - n ELSE 0) /\ Reverse(y) = y
      /\ (left - n <= 0 => y = <<>>)
  <2>1. left - n \in Int
    BY <1>0, <1>1, <1>3
  <2> DEFINE i == left - n
  <2>2. i \in Int
    BY <2>1
  <2> HIDE DEF i
  <2>3. IsText(Zeros(i)) /\ Len(Zeros(i)) = (IF i > 0 THEN i ELSE 0) /\ (i <= 0 => Zeros(i) = <<>>)
        /\ Reverse(Zeros(i)) = Zeros(i)
    BY <2>2, ZerosIs
  <2> QED
    BY <2>3 DEF i
<1>6. s = PaddedOf(d, 0, wide, f)
  <2>1. Fill(d, 0) = d
    <3>1. 0 \in Int /\ 0 <= PRINTF_NTOA_BUFFER_SIZE
      BY <1>0 DEF B
    <3>2. Fill(d, 0) = d \o Zeros(0 - Len(d))
      BY <3>1, FillIs
    <3> DEFINE i == 0 - Len(d)
    <3>3. i \in Int /\ i <= 0
      BY <1>0 DEF n
    <3> HIDE DEF i
    <3>4. Zeros(i) = <<>>
      BY <3>3, ZerosIs
    <3> QED
      BY <3>2, <3>4, NothingChained DEF i
  <2>2. Fill(d, wide) = s
    BY <1>0, FillIs DEF n, B
  <2> HIDE DEF s
  <2> QED
    BY <2>1, <2>2 DEF PaddedOf
<1>7. Reverse(t) = y \o rev
  <2> HIDE DEF y
  <2> QED
    BY <1>5, ReverseChained
<1>8. IsText(s) /\ Len(s) = (IF n < wide THEN wide ELSE n)
  <2> HIDE DEF z
  <2>1. IsText(s) /\ Len(s) = n + Len(z)
    BY <1>4, Chained DEF n
  <2> HIDE DEF s
  <2> QED
    BY <1>0, <1>4, <2>1
<1>9. IsText(t) /\ Len(t) = n + Len(y)
  <2> HIDE DEF y
  <2> QED
    BY <1>5, Chained DEF n
<1>10. room = t
  <2>1. CASE wide < n
    <3>1. z = <<>> /\ y = <<>>
      BY <1>0, <1>1, <1>3, <1>4, <1>5, <2>1
    <3>2. s = d /\ t = d
      <4> HIDE DEF z, y
      <4> QED
        BY <3>1, NothingChained
    <3>3. drop = 0
      <4>1. Len(s) # 0 /\ Len(s) # wide
        BY <1>0, <1>3, <1>8, <2>1
      <4> HIDE DEF s
      <4> QED
        BY <4>1 DEF DropOf
    <3>4. Len(s) - 0 = Len(s)
      BY <1>0, <1>8
    <3> HIDE DEF s, t, drop
    <3>5. SubSeq(s, 1, Len(s) - drop) = s
      BY <1>8, <3>3, <3>4, WholeText
    <3> QED
      BY <3>2, <3>5 DEF room, drop, RoomOf
  <2>2. CASE wide > n
    <3>1. Len(s) = wide /\ wide > 1
      BY <1>0, <1>3, <1>8, <2>2
    <3>2. base # 2
      BY <1>0, <1>3, <2>2
    <3>3. drop = k
      <4> HIDE DEF s
      <4>1. DropOf(Len(s), base, 0, wide, f) = IF base = 16 THEN 2 ELSE 1
        BY <1>0, <3>1 DEF DropOf
      <4> QED
        BY <1>1, <3>2, <4>1
    <3> DEFINE m == wide - n
    <3>4. m \in Nat /\ k \in 0..m /\ wide - k = n + (m - k) /\ m - k = left - n
      BY <1>0, <1>1, <1>3, <2>2, <3>2
    <3> HIDE DEF drop
    <3>5. room = SubSeq(d \o Zeros(m), 1, wide - k)
      BY <3>1, <3>3 DEF drop, RoomOf
    <3> HIDE DEF room, m
    <3>6. SubSeq(d \o Zeros(m), 1, wide - k) = d \o Zeros(m - k)
      BY <3>4, Dropped DEF n
    <3> QED
      BY <3>4, <3>5, <3>6
  <2> HIDE DEF room, t, s
  <2>3. wide < n \/ wide > n
    BY <1>0, <1>3
  <2> QED
    BY <2>1, <2>2, <2>3
<1>70. Reverse(t) = Filled(rev, left)
  BY <1>0, <1>7 DEF Filled
<1> HIDE DEF s, t
<1>11. ntoa_format(d, negative, base, 0, wide, f) = FieldText(room, s, negative, base, wide, f)
  BY <1>2, <1>6, FormatIs
<1> HIDE DEF room
<1>12. Len(Sign(negative, f)) = 0
  BY NoText DEF Sign
<1>13. Len(t) + Len(Radix(base, f)) + Len(Sign(negative, f)) <= PRINTF_NTOA_BUFFER_SIZE
  <2>1. Len(t) + k <= B
    BY <1>0, <1>1, <1>3, <1>5, <1>9
  <2>2. Len(t) \in Nat
    BY <1>9, TextIs
  <2>3. Len(t) + k + 0 = Len(t) + k
    BY <1>1, <2>2
  <2> QED
    BY <1>12, <2>1, <2>3 DEF k, B
<1>14. ("HASH" \notin f => s = t) /\ negative \in BOOLEAN
  OBVIOUS
<1>15. FieldText(t, s, negative, base, wide, f) = Body(Reverse(t), negative, base, f)
  BY <1>0, <1>9, <1>13, <1>14, FieldOf
<1> QED
  BY <1>70, <1>10, <1>11, <1>15

-----------------------------------------------------------------------------
(* What the formatter knows when it converts.                              *)

\* At the conversion of a directive that C defines.
SpecifierInv == CalledInv /\ Defined /\ AtSpecifier

\* The conversion and its argument are the caller's.
LEMMA SpecifierIs ==
  ASSUME SpecifierInv
  PROVE  Next1 = directive.conv /\ Head(args) = value /\ value \in Int
<1>1. format = Ending /\ args = <<value>> /\ value \in Int
  BY DEF SpecifierInv, AtSpecifier, CalledInv
<1>2. Head(format) = directive.conv
  <2>1. Ending = <<directive.conv, NUL>>
    BY DEF Ending
  <2> QED
    BY <1>1, <2>1
<1>3. Head(args) = value
  BY <1>1
<1> QED
  BY <1>1, <1>2, <1>3 DEF Next1

\* The precision, C's and the formatter's.
LEMMA PrecisionIs ==
  ASSUME SpecifierInv
  PROVE  /\ CPrec \in Int /\ precision \in Nat
         /\ \/ CPrec = -1 /\ precision = 0
            \/ CPrec \in Nat /\ precision = CPrec /\ directive.prec.kind # "none"
         /\ directive.prec.kind = "none" => CPrec = -1
         /\ CPrec = -1 /\ directive.prec.kind # "none" =>
              directive.prec.kind = "star" /\ directive.prec.n < 0
         /\ "PRECISION" \in flags <=> directive.prec.kind # "none"
<1> DEFINE k == directive.prec.kind
           n == directive.prec.n
<1>1. /\ k \in {"none", "point", "number", "star"} /\ n \in Int
      /\ k = "number" => n \in Nat
  BY DirectiveIs DEF SpecifierInv
<1>2. precision = ReadPrec /\ ("PRECISION" \in flags <=> k # "none")
  BY DEF SpecifierInv, AtSpecifier, PrecRead
<1>3. CASE k = "none"
  <2>1. CPrec = -1 /\ ReadPrec = 0
    BY <1>3 DEF CPrec, ReadPrec
  <2> QED
    BY <1>2, <1>3, <2>1
<1>4. CASE k = "point"
  <2>1. CPrec = 0 /\ ReadPrec = 0
    BY <1>4 DEF CPrec, ReadPrec
  <2> QED
    BY <1>2, <1>4, <2>1
<1>5. CASE k = "number"
  <2>1. CPrec = (IF n < 0 THEN -1 ELSE n) /\ ReadPrec = n
    BY <1>5 DEF CPrec, ReadPrec
  <2> HIDE DEF n
  <2>2. CPrec = n /\ n \in Nat
    BY <1>1, <1>5, <2>1
  <2> QED
    BY <1>2, <1>5, <2>1, <2>2
<1>6. CASE k = "star"
  <2>1. CPrec = (IF n < 0 THEN -1 ELSE n) /\ ReadPrec = IF n > 0 THEN n ELSE 0
    BY <1>6 DEF CPrec, ReadPrec
  <2> HIDE DEF n
  <2>2. CASE n < 0
    <3>1. CPrec = -1 /\ ReadPrec = 0
      BY <1>1, <2>1, <2>2
    <3> QED
      BY <1>2, <1>6, <2>2, <3>1 DEF n
  <2>3. CASE ~(n < 0)
    <3>1. CPrec = n /\ ReadPrec = n /\ n \in Nat
      BY <1>1, <2>1, <2>3
    <3> QED
      BY <1>2, <1>6, <3>1
  <2> QED
    BY <2>2, <2>3
<1> QED
  BY <1>1, <1>3, <1>4, <1>5, <1>6

\* The width is C's.
LEMMA WidthIs ==
  ASSUME SpecifierInv
  PROVE  width = CWidth /\ CWidth \in Nat
<1> DEFINE n == directive.width.n
<1>1. n \in Int
  BY DirectiveIs DEF SpecifierInv
<1>2. width = CWidth
  BY DEF SpecifierInv, AtSpecifier
<1>3. CWidth = 0 \/ (CWidth = IF n < 0 THEN -n ELSE n)
  BY DEF CWidth
<1> HIDE DEF n
<1> QED
  BY <1>1, <1>2, <1>3

\* The widths of the types.
LEMMA BitsIs ==
  ASSUME SpecifierInv
  PROVE  /\ CBits \in Nat \ {0} /\ CBits <= LongBits
         /\ directive.conv \in IntegerConvs =>
              ArgBits = CBits /\ CBits <= Wide /\ Wide \in Nat /\ Wide <= LongBits
         /\ directive.conv = "p" => CBits = LongBits
<1> DEFINE len == directive.length
           l == {<<>>, <<"h">>, <<"h", "h">>}
<1>1. /\ CharBits \in Nat /\ ShortBits \in Nat /\ IntBits \in Nat /\ LongBits \in Nat
      /\ 0 < CharBits /\ CharBits < ShortBits /\ ShortBits < IntBits /\ IntBits < LongBits
  BY PrintfAssumption
<1>2. <<"h">> # <<"h", "h">> /\ <<>> # <<"h">> /\ <<>> # <<"h", "h">>
  OBVIOUS
<1>3. CASE directive.conv = "p"
  <2>1. len = <<>>
    BY <1>3 DEF SpecifierInv, Defined, IntegerConvs
  <2>2. CBits = LongBits
    BY <1>2, <1>3, <2>1 DEF CBits, IsLong
  <2>3. directive.conv \notin IntegerConvs
    BY <1>3 DEF IntegerConvs
  <2> QED
    BY <1>1, <2>2, <2>3
<1>4. CASE directive.conv # "p"
  <2>1. /\ flags \cap {"LONG", "LONG_LONG"} # {} <=> len \notin l
        /\ "SHORT" \in flags <=> len \in {<<"h">>, <<"h", "h">>}
        /\ "CHAR" \in flags <=> len = <<"h", "h">>
    BY DEF SpecifierInv, AtSpecifier, LengthRead
  <2>2. IsLong(directive) <=> len \notin l
    BY <1>4 DEF IsLong
  <2>3. CASE len \notin l
    <3>1. CBits = LongBits
      BY <2>2, <2>3 DEF CBits
    <3>2. Wide = LongBits
      BY <2>1, <2>3 DEF Wide
    <3>3. ArgBits = LongBits
      BY <3>2 DEF ArgBits
    <3> QED
      BY <1>1, <1>4, <3>1, <3>2, <3>3
  <2>4. CASE len \in l
    <3>1. Wide = IntBits /\ Wide # LongBits
      BY <1>1, <2>1, <2>4 DEF Wide
    <3>2. CASE len = <<"h", "h">>
      <4>1. CBits = CharBits
        <5>1. len # <<"h">> /\ ~IsLong(directive)
          BY <1>2, <2>2, <2>4, <3>2, Zenon
        <5> QED
          BY <3>2, <5>1, Zenon DEF CBits
      <4>2. ArgBits = CharBits
        BY <2>1, <3>1, <3>2, Zenon DEF ArgBits
      <4> QED
        BY <1>1, <1>4, <3>1, <4>1, <4>2
    <3>3. CASE len = <<"h">>
      <4>1. CBits = ShortBits
        <5>1. len # <<"h", "h">> /\ ~IsLong(directive)
          BY <1>2, <2>2, <2>4, <3>3, Zenon
        <5> QED
          BY <3>3, <5>1, Zenon DEF CBits
      <4>2. ArgBits = ShortBits
        BY <1>2, <2>1, <3>1, <3>3 DEF ArgBits
      <4> QED
        BY <1>1, <1>4, <3>1, <4>1, <4>2
    <3>4. CASE len = <<>>
      <4>1. CBits = IntBits
        BY <1>2, <2>2, <3>4 DEF CBits
      <4>2. ArgBits = IntBits
        BY <1>2, <2>1, <3>1, <3>4 DEF ArgBits
      <4> QED
        BY <1>1, <1>4, <3>1, <4>1, <4>2
    <3> QED
      BY <2>4, <3>2, <3>3, <3>4
  <2> QED
    BY <2>3, <2>4
<1> QED
  BY <1>3, <1>4

\* C's number and its size.
LEMMA NumberIs ==
  ASSUME SpecifierInv
  PROVE  /\ CNum \in Int /\ CMag \in Nat /\ CMag < Power(2, LongBits)
         /\ CNum < 0 => CSigned
         /\ CMag = 0 <=> CNum = 0
         /\ directive.conv \in IntegerConvs => CMag < Power(2, Wide)
<1> DEFINE n == CNum
           p == Power(2, CBits)
           q == Power(2, LongBits)
           r == Power(2, Wide)
<1>1. value \in Int /\ CBits \in Nat \ {0} /\ CBits <= LongBits /\ LongBits \in Nat
  BY SpecifierIs, BitsIs, PrintfAssumption
<1>2. /\ Unsigned(value, CBits) \in Nat /\ Unsigned(value, CBits) < p /\ p <= q
      /\ Signed(value, CBits) \in Int
      /\ -p < Signed(value, CBits) /\ Signed(value, CBits) < p
  BY <1>1, TypeIs
<1>3. directive.conv \in IntegerConvs => p <= r
  BY <1>1, TypeIs, BitsIs
<1>4. p \in Nat /\ q \in Nat
  <2>1. CBits \in Nat /\ 2 \in Nat \ {0}
    BY <1>1
  <2> QED
    BY <1>1, <2>1, PowerIs
<1>5. directive.conv \in IntegerConvs => r \in Nat
  <2>1. 2 \in Nat \ {0}
    OBVIOUS
  <2> QED
    BY <2>1, BitsIs, PowerIs
<1>6. CMag = IF n < 0 THEN -n ELSE n
  BY DEF CMag
<1>7. n \in Int /\ -p < n /\ n < p /\ (n < 0 => CSigned)
  <2> HIDE DEF p
  <2>1. CASE CSigned
    BY <1>2, <2>1 DEF CNum
  <2>2. CASE ~CSigned
    <3>1. n = Unsigned(value, CBits)
      BY <2>2 DEF CNum
    <3> HIDE DEF n
    <3> QED
      BY <1>2, <1>4, <3>1
  <2> QED
    BY <2>1, <2>2
<1> HIDE DEF n, p, q, r
<1>8. CMag \in Nat /\ CMag < p /\ (CMag = 0 <=> n = 0)
  BY <1>4, <1>6, <1>7
<1>9. CMag < q /\ (directive.conv \in IntegerConvs => CMag < r)
  BY <1>2, <1>3, <1>4, <1>5, <1>8
<1> QED
  BY <1>7, <1>8, <1>9 DEF n, q, r

\* The flags of an integer conversion.
LEMMA IntFlagsIs ==
  ASSUME SpecifierInv, NEW c, c = directive.conv, c \in IntegerConvs,
         NEW f, f = IntFlags(c)
  PROVE  /\ "LEFT" \in f <=> CLeft
         /\ "ZEROPAD" \in f <=> Has("0") /\ directive.prec.kind = "none"
         /\ "PRECISION" \in f <=> directive.prec.kind # "none"
         /\ "HASH" \in f <=> Has("#") /\ CBase # 10
         /\ "PLUS" \in f <=> Has("+") /\ CSigned
         /\ "SPACE" \in f <=> Has(" ") /\ CSigned
         /\ "UPPERCASE" \in f <=> c = "X"
<1>1. /\ flags \subseteq CharFlags \cup {"PRECISION", "LONG", "LONG_LONG", "SHORT", "CHAR"}
      /\ FlagsRead
      /\ "PRECISION" \in flags <=> directive.prec.kind # "none"
  BY DEF SpecifierInv, AtSpecifier, PrecRead
<1>2. "UPPERCASE" \notin flags
  BY <1>1 DEF CharFlags
<1>3. /\ "ZEROPAD" \in flags <=> Has("0")
      /\ "LEFT" \in flags <=> CLeft
      /\ "PLUS" \in flags <=> Has("+")
      /\ "SPACE" \in flags <=> Has(" ")
      /\ "HASH" \in flags <=> Has("#")
  BY <1>1 DEF FlagsRead
<1>4. CBase = Base(c) /\ (CSigned <=> c \in {"d", "i"})
  BY DEF CBase, CSigned, IntegerConvs
<1>5. /\ "LEFT" \in f <=> "LEFT" \in flags
      /\ "ZEROPAD" \in f <=> "ZEROPAD" \in flags /\ "PRECISION" \notin flags
      /\ "PRECISION" \in f <=> "PRECISION" \in flags
      /\ "HASH" \in f <=> "HASH" \in flags /\ Base(c) # 10
      /\ "PLUS" \in f <=> "PLUS" \in flags /\ c \in {"i", "d"}
      /\ "SPACE" \in f <=> "SPACE" \in flags /\ c \in {"i", "d"}
      /\ "UPPERCASE" \in f <=> c = "X" \/ "UPPERCASE" \in flags
  BY DEF IntFlags
<1> QED
  BY <1>1, <1>2, <1>3, <1>4, <1>5, Zenon

\* The base is C's.
LEMMA BaseIs ==
  ASSUME SpecifierInv
  PROVE  /\ CBase \in {2, 8, 10, 16} /\ CBase \in Nat \ {0, 1}
         /\ directive.conv = "p" => CBase = 16
         /\ CSigned => CBase = 10 /\ directive.conv \in {"d", "i"}
<1>1. Base(directive.conv) \in {2, 8, 10, 16}
  <2> DEFINE c == directive.conv
  <2>1. CASE c \in {"x", "X"}
    BY <2>1 DEF Base
  <2>2. CASE c = "o"
    BY <2>2 DEF Base
  <2>3. CASE c = "b"
    BY <2>3 DEF Base
  <2>4. CASE c \notin {"x", "X", "o", "b"}
    BY <2>4 DEF Base
  <2> QED
    BY <2>1, <2>2, <2>3, <2>4
<1>2. CBase \in {2, 8, 10, 16}
  BY <1>1 DEF CBase
<1>3. CSigned => CBase = 10 /\ directive.conv \in {"d", "i"}
  BY DEF CSigned, CBase, Base
<1>4. directive.conv = "p" => CBase = 16
  BY DEF CBase
<1> QED
  BY <1>2, <1>3, <1>4

-----------------------------------------------------------------------------
(* The digits of a number.                                                 *)

\* The characters of the digits.
Chars(f) == IF "UPPERCASE" \in f THEN Upper ELSE Lower

\* The loop's buffer: as many digits as the number has places.
Loop(v, base, f) ==
  IF "PRECISION" \in f /\ v = 0 THEN <<>>
  ELSE [i \in 1..Places(v, base) |-> Chars(f)[DigitAt(v, base, i - 1) + 1]]

\* No prefix for 0.
Hashless(v, f) == IF v = 0 THEN f \ {"HASH"} ELSE f

\* A number that fits the buffer goes there whole.
LEMMA NtoaIs ==
  ASSUME NEW base \in Nat \ {0, 1}, NEW v \in Nat, v < Power(2, LongBits), NEW f,
         NEW negative, NEW prec, NEW w,
         Places(v, base) <= PRINTF_NTOA_BUFFER_SIZE \/ ("PRECISION" \in f /\ v = 0)
  PROVE  ntoa(v, negative, base, prec, w, f)
           = ntoa_format(Loop(v, base, f), negative, base, prec, w, Hashless(v, f))
<1> DEFINE size == DigitCount(v, base)
           kept == IF size < PRINTF_NTOA_BUFFER_SIZE THEN size ELSE PRINTF_NTOA_BUFFER_SIZE
           d    == IF "PRECISION" \in f /\ v = 0 THEN <<>>
                   ELSE [i \in 1..kept |-> Chars(f)[DigitAt(v, base, i - 1) + 1]]
<1>1. ntoa(v, negative, base, prec, w, f)
        = ntoa_format(d, negative, base, prec, w, Hashless(v, f))
  BY DEF ntoa, Hashless, Chars
<1>2. CASE "PRECISION" \in f /\ v = 0
  <2>1. d = Loop(v, base, f)
    BY <1>2 DEF Loop
  <2> HIDE DEF d
  <2> QED
    BY <1>1, <2>1
<1>3. CASE ~("PRECISION" \in f /\ v = 0)
  <2>1. size = Places(v, base) /\ Places(v, base) \in 1..LongBits
    BY CountIs, PlacesIs
  <2>2. Places(v, base) <= PRINTF_NTOA_BUFFER_SIZE /\ PRINTF_NTOA_BUFFER_SIZE \in Nat
        /\ LongBits \in Nat
    BY <1>3, PrintfAssumption
  <2>3. kept = Places(v, base)
    <3> HIDE DEF size
    <3> QED
      BY <2>1, <2>2
  <2> HIDE DEF kept
  <2>4. d = Loop(v, base, f)
    BY <1>3, <2>3 DEF Loop
  <2> HIDE DEF d
  <2> QED
    BY <1>1, <2>4
<1> QED
  BY <1>2, <1>3

\* What the loop writes is the numeral backwards, or nothing.
LEMMA LoopIs ==
  ASSUME NEW base \in Nat \ {0, 1}, NEW v \in Nat, v < Power(2, LongBits), NEW f
  PROVE  /\ IsText(Loop(v, base, f)) /\ Len(Loop(v, base, f)) \in Nat
         /\ "PRECISION" \in f /\ v = 0 => Loop(v, base, f) = <<>>
         /\ ~("PRECISION" \in f /\ v = 0) =>
              /\ Reverse(Loop(v, base, f)) = Numeral(v, base, Chars(f))
              /\ Len(Loop(v, base, f)) = Places(v, base) /\ Len(Loop(v, base, f)) >= 1
<1>1. CASE "PRECISION" \in f /\ v = 0
  <2>1. Loop(v, base, f) = <<>>
    BY <1>1 DEF Loop
  <2> QED
    BY <1>1, <2>1, NoText
<1>2. CASE ~("PRECISION" \in f /\ v = 0)
  <2> DEFINE d == [i \in 1..Places(v, base) |-> Chars(f)[DigitAt(v, base, i - 1) + 1]]
             l == Loop(v, base, f)
  <2>1. l = d
    BY <1>2 DEF Loop
  <2>2. /\ IsText(d) /\ Len(d) = Places(v, base) /\ Len(d) \in Nat \ {0}
        /\ Reverse(d) = Numeral(v, base, Chars(f))
    <3> DEFINE chars == Chars(f)
               e == [i \in 1..Places(v, base) |-> chars[DigitAt(v, base, i - 1) + 1]]
    <3> HIDE DEF chars
    <3>1. /\ IsText(e) /\ Len(e) = Places(v, base) /\ Len(e) \in Nat \ {0}
          /\ Reverse(e) = Numeral(v, base, chars)
      BY LoopDigits
    <3> QED
      BY <3>1 DEF chars
  <2> HIDE DEF d
  <2>3. /\ IsText(l) /\ Len(l) = Places(v, base) /\ Len(l) \in Nat \ {0}
        /\ Reverse(l) = Numeral(v, base, Chars(f))
    BY <2>1, <2>2
  <2> HIDE DEF l
  <2>4. Len(l) \in Nat /\ Len(l) >= 1
    BY <2>3
  <2> QED
    BY <1>2, <2>3, <2>4 DEF l
<1> QED
  BY <1>1, <1>2

-----------------------------------------------------------------------------
(* C's digits.                                                             *)

\* Only the first digit is written 0.
LEMMA CharsAre ==
  ASSUME NEW f
  PROVE  \A i \in 0..15 : Chars(f)[i + 1] = "0" <=> i = 0
<1>1. DigitChars[1] = "0" /\ \A i \in 2..10 : DigitChars[i] # "0"
  BY DEF DigitChars
<1>2. Len(DigitChars) = 10 /\ IsText(DigitChars)
  BY DEF DigitChars, IsText, Range
<1>3. ASSUME NEW t, IsText(t), Len(t) = 6, \A i \in 1..6 : t[i] # "0"
      PROVE  \A i \in 0..15 : (DigitChars \o t)[i + 1] = "0" <=> i = 0
  <2>1. \A i \in 1..16 : (DigitChars \o t)[i] = IF i <= 10 THEN DigitChars[i] ELSE t[i - 10]
    <3> DEFINE s == DigitChars
    <3>1. IsText(s) /\ Len(s) = 10
      BY <1>2
    <3> HIDE DEF s
    <3>2. \A i \in 1..(Len(s) + Len(t)) : (s \o t)[i] = IF i <= Len(s) THEN s[i] ELSE t[i - Len(s)]
      BY <1>3, <3>1, Chained
    <3>3. Len(s) + Len(t) = 16
      BY <1>3, <3>1
    <3> QED
      BY <3>1, <3>2, <3>3 DEF s
  <2> SUFFICES ASSUME NEW i \in 0..15
               PROVE  (DigitChars \o t)[i + 1] = "0" <=> i = 0
    OBVIOUS
  <2> DEFINE j == i + 1
  <2>2. j \in 1..16
    OBVIOUS
  <2> HIDE DEF j
  <2>30. (DigitChars \o t)[j] = IF j <= 10 THEN DigitChars[j] ELSE t[j - 10]
    BY <2>1, <2>2
  <2>3. (DigitChars \o t)[i + 1] = IF i + 1 <= 10 THEN DigitChars[i + 1] ELSE t[i + 1 - 10]
    BY <2>30 DEF j
  <2>4. CASE i = 0
    BY <1>1, <2>3, <2>4
  <2>5. CASE i \in 1..9
    <3>1. i + 1 \in 2..10
      BY <2>5
    <3>2. DigitChars[i + 1] # "0"
      BY <1>1, <3>1
    <3> QED
      BY <2>3, <2>5, <3>2
  <2>6. CASE i \in 10..15
    <3>1. i + 1 - 10 \in 1..6 /\ ~(i + 1 <= 10) /\ i # 0
      BY <2>6
    <3>2. t[i + 1 - 10] # "0"
      BY <1>3, <3>1
    <3> QED
      BY <2>3, <3>1, <3>2
  <2>7. i = 0 \/ i \in 1..9 \/ i \in 10..15
    OBVIOUS
  <2> QED
    BY <2>4, <2>5, <2>6, <2>7
<1> DEFINE lo == <<"a", "b", "c", "d", "e", "f">>
           up == <<"A", "B", "C", "D", "E", "F">>
<1>4. IsText(lo) /\ Len(lo) = 6 /\ \A i \in 1..6 : lo[i] # "0"
  BY DEF IsText, Range
<1>5. IsText(up) /\ Len(up) = 6 /\ \A i \in 1..6 : up[i] # "0"
  BY DEF IsText, Range
<1>6. Lower = DigitChars \o lo /\ Upper = DigitChars \o up
  BY DEF Lower, Upper
<1> HIDE DEF lo, up
<1>7. /\ \A i \in 0..15 : Lower[i + 1] = "0" <=> i = 0
      /\ \A i \in 0..15 : Upper[i + 1] = "0" <=> i = 0
  BY <1>3, <1>4, <1>5, <1>6
<1>8. Chars(f) = Lower \/ Chars(f) = Upper
  BY DEF Chars
<1> QED
  BY <1>7, <1>8

\* The numeral of 0 is 0, and no other begins with 0.
LEMMA NumeralZero ==
  ASSUME NEW b \in 2..16, NEW v \in Nat, v < Power(2, LongBits), NEW f
  PROVE  /\ v = 0 => Numeral(v, b, Chars(f)) = <<"0">>
         /\ v # 0 => Numeral(v, b, Chars(f))[1] # "0"
<1> DEFINE n == Places(v, b)
           chars == Chars(f)
           t == Numeral(v, b, chars)
<1>0. b \in Nat \ {0, 1} /\ b \in Nat \ {0}
  OBVIOUS
<1>1. n \in 1..LongBits /\ (n = 1 \/ Power(b, n - 1) <= v)
  BY <1>0, PlacesIs
<1>2. \A i \in 0..15 : chars[i + 1] = "0" <=> i = 0
  BY CharsAre
<1> HIDE DEF chars
<1>3. /\ IsText(t) /\ Len(t) = n
      /\ \A i \in 1..n : t[i] = chars[DigitOf(v, b, n - i) + 1]
  BY <1>0, NumeralIs
<1> HIDE DEF t, n
<1>4. LongBits \in Nat
  BY PrintfAssumption
<1>5. n \in Nat /\ n - 1 \in Nat /\ 1 \in 1..n
  BY <1>1, <1>4
<1>6. t[1] = chars[DigitOf(v, b, n - 1) + 1]
  BY <1>3, <1>5
<1>7. CASE v = 0
  <2>1. Power(b, n - 1) \in Nat \ {0}
    <3> DEFINE i == n - 1
    <3>1. i \in Nat
      BY <1>5
    <3> HIDE DEF i
    <3>2. Power(b, i) \in Nat \ {0}
      BY <1>0, <3>1, PowerIs
    <3> QED
      BY <3>2 DEF i
  <2>2. n = 1
    <3> DEFINE p == Power(b, n - 1)
    <3>1. p \in Nat \ {0} /\ (n = 1 \/ p <= v)
      BY <1>1, <2>1
    <3> HIDE DEF p
    <3> QED
      BY <1>7, <3>1
  <2>3. DigitOf(v, b, 0) = 0
    <3>1. Power(b, 0) = 1
      <4>1. 0 \in Nat
        OBVIOUS
      <4> QED
        BY <1>0, <4>1, PowerIs
    <3>2. (0 \div 1) % b = 0
      OBVIOUS
    <3> QED
      BY <1>7, <3>1, <3>2 DEF DigitOf
  <2>4. n - 1 = 0
    BY <2>2
  <2>5. t[1] = "0"
    <3>1. t[1] = chars[0 + 1]
      BY <1>6, <2>3, <2>4
    <3>2. chars[0 + 1] = "0"
      BY <1>2
    <3> QED
      BY <3>1, <3>2
  <2> DEFINE z == <<"0">>
  <2>6. IsText(z) /\ Len(z) = 1 /\ z[1] = "0"
    BY OneText
  <2> HIDE DEF z
  <2>7. \A i \in 1..Len(t) : t[i] = z[i]
    BY <1>3, <2>2, <2>5, <2>6
  <2>8. t = z
    BY <1>3, <2>2, <2>6, <2>7, SameText
  <2> QED
    BY <1>7, <2>8 DEF t, z, chars
<1>8. CASE v # 0
  <2>1. v \in Nat \ {0}
    BY <1>8
  <2> DEFINE i == DigitOf(v, b, n - 1)
  <2>2. i \in 1..(b - 1)
    BY <1>0, <2>1, Leading DEF n
  <2> HIDE DEF i
  <2>3. i \in 0..15 /\ i # 0
    BY <2>2
  <2>4. chars[i + 1] # "0"
    BY <1>2, <2>3
  <2> QED
    BY <1>6, <1>8, <2>4 DEF i, t, chars
<1> QED
  BY <1>7, <1>8

\* C's numeral is the loop's.
LEMMA CNumeralIs ==
  ASSUME SpecifierInv, directive.conv \in IntegerConvs \cup {"p"}, NEW f,
         "UPPERCASE" \in f <=> directive.conv \in {"X", "p"}
  PROVE  /\ IsText(CNumeral) /\ Len(CNumeral) \in Nat
         /\ CPrec = 0 /\ CMag = 0 => CNumeral = <<>> /\ Len(CNumeral) = 0
         /\ ~(CPrec = 0 /\ CMag = 0) =>
              /\ CNumeral = Numeral(CMag, CBase, Chars(f))
              /\ Len(CNumeral) = Places(CMag, CBase) /\ Len(CNumeral) >= 1
         /\ CMag = 0 /\ CPrec # 0 => CNumeral = <<"0">> /\ Len(CNumeral) = 1
         /\ CMag # 0 => CNumeral[1] # "0"
<1> DEFINE chars == Chars(f)
           t == Numeral(CMag, CBase, chars)
<1>1. chars = IF directive.conv \in {"X", "p"} THEN Upper ELSE Lower
  BY DEF Chars
<1>2. CNumeral = IF CPrec = 0 /\ CMag = 0 THEN <<>> ELSE t
  BY <1>1 DEF CNumeral
<1>3. CMag \in Nat /\ CMag < Power(2, LongBits) /\ CBase \in Nat \ {0, 1} /\ CBase \in 2..16
  <2>1. CBase \in {2, 8, 10, 16}
    BY BaseIs
  <2> QED
    BY <2>1, NumberIs, BaseIs
<1>4. (CMag = 0 => t = <<"0">>) /\ (CMag # 0 => t[1] # "0")
  BY <1>3, NumeralZero
<1> HIDE DEF chars
<1>5. IsText(t) /\ Len(t) = Places(CMag, CBase)
  BY <1>3, NumeralIs
<1>6. Places(CMag, CBase) \in 1..LongBits /\ LongBits \in Nat
  BY <1>3, PlacesIs, PrintfAssumption
<1> HIDE DEF t
<1>7. Len(t) \in Nat /\ Len(t) >= 1
  BY <1>5, <1>6
<1>8. Len(<<"0">>) = 1
  BY OneText
<1>9. CASE CPrec = 0 /\ CMag = 0
  BY <1>2, <1>9, NoText
<1>10. CASE ~(CPrec = 0 /\ CMag = 0)
  <2>1. CNumeral = t
    BY <1>2, <1>10
  <2>2. CMag = 0 => CNumeral = <<"0">> /\ Len(CNumeral) = 1
    BY <1>4, <1>8, <2>1
  <2> QED
    BY <1>4, <1>5, <1>7, <1>10, <2>1, <2>2 DEF t, chars
<1> QED
  BY <1>9, <1>10

\* The digits without the 0 of an octal number.
PlainDigits == Filled(CNumeral, CPrec)

\* A text filled with zeros up to a length.
LEMMA FilledIs ==
  ASSUME NEW s, IsText(s), NEW n \in Int
  PROVE  /\ IsText(Filled(s, n)) /\ Len(Filled(s, n)) = (IF Len(s) < n THEN n ELSE Len(s))
         /\ n <= Len(s) => Filled(s, n) = s
         /\ n > Len(s) => Head(Filled(s, n)) = "0"
<1> DEFINE k == n - Len(s)
           z == Zeros(k)
<1>0. Len(s) \in Nat
  BY TextIs
<1>1. k \in Int
  BY <1>0
<1>2. Filled(s, n) = z \o s
  BY DEF Filled
<1> HIDE DEF k
<1>3. /\ IsText(z) /\ Len(z) = (IF k > 0 THEN k ELSE 0) /\ (k <= 0 => z = <<>>)
      /\ \A i \in 1..k : z[i] = "0"
  BY <1>1, ZerosIs, RepeatedIs DEF Zeros
<1> HIDE DEF z
<1>4. IsText(z \o s) /\ Len(z \o s) = Len(z) + Len(s)
  BY <1>3, Chained
<1>5. Len(z \o s) = IF Len(s) < n THEN n ELSE Len(s)
  <2> DEFINE l == Len(z \o s)
  <2>1. l = Len(z) + Len(s)
    BY <1>4
  <2> HIDE DEF l
  <2>2. l = IF Len(s) < n THEN n ELSE Len(s)
    BY <1>0, <1>1, <1>3, <2>1 DEF k
  <2> QED
    BY <2>2 DEF l
<1>6. n <= Len(s) => z \o s = s
  <2>1. n <= Len(s) => k <= 0
    BY <1>0 DEF k
  <2> QED
    BY <1>3, <2>1, NothingChained
<1>7. n > Len(s) => Head(z \o s) = "0"
  <2>1. n > Len(s) => k > 0 /\ 1 \in 1..k /\ Len(z) >= 1
    BY <1>0, <1>1, <1>3 DEF k
  <2>2. n > Len(s) => z[1] = "0"
    BY <1>3, <2>1
  <2>3. n > Len(s) => Head(z \o s) = z[1]
    BY <1>3, <2>1, FrontOf
  <2> QED
    BY <2>2, <2>3
<1> QED
  BY <1>2, <1>4, <1>5, <1>6, <1>7

\* Only the # flag goes.
LEMMA HashlessIs ==
  ASSUME NEW v, NEW f
  PROVE  /\ "HASH" \in Hashless(v, f) <=> "HASH" \in f /\ v # 0
         /\ \A c : c # "HASH" => (c \in Hashless(v, f) <=> c \in f)
BY DEF Hashless

\* A conversion of an integer that is none of the cases where the two differ.
IntegerInv ==
  /\ SpecifierInv /\ directive.conv \in IntegerConvs
  /\ ~Differs

\* The flags that are left for a conversion mean what C says.
Agrees(f) ==
  /\ "LEFT" \in f <=> CLeft
  /\ "ZEROPAD" \in f <=> Has("0") /\ directive.prec.kind = "none"
  /\ "PRECISION" \in f <=> directive.prec.kind # "none"
  /\ "HASH" \in f <=> Has("#") /\ CBase # 10 /\ CMag # 0
  /\ "PLUS" \in f <=> Has("+") /\ CSigned
  /\ "SPACE" \in f <=> Has(" ") /\ CSigned

\* None of the six cases.
LEMMA CasesIs ==
  ASSUME IntegerInv
  PROVE  /\ ~TooLong /\ ~LeftPrecision /\ ~PrefixInField /\ ~OctalPrecision
         /\ directive.prec.kind = "star" /\ directive.prec.n < 0 =>
              CMag # 0 /\ ~(CZeroFills /\ CWidth > Len(CPrefix \o CDigits))
<1>1. directive.conv \notin {"s", "c", "%"}
  BY DEF IntegerInv, IntegerConvs
<1> QED
  BY <1>1, Zenon DEF IntegerInv, Differs, NegativePrecision

\* C's digits, with the 0 of an octal number.
LEMMA CDigitsIs ==
  ASSUME IntegerInv, NEW f, Agrees(f)
  PROVE  /\ IsText(PlainDigits) /\ IsText(CDigits)
         /\ CBase = 8 /\ "HASH" \in f => CDigits = <<"0">> \o PlainDigits
         /\ ~(CBase = 8 /\ "HASH" \in f) => CDigits = PlainDigits
<1> DEFINE N == CNumeral
           l == Len(CNumeral)
<1>0. /\ IsText(N) /\ l \in Nat
      /\ CPrec = 0 /\ CMag = 0 => N = <<>>
      /\ CMag = 0 /\ CPrec # 0 => N = <<"0">> /\ l = 1
      /\ CMag # 0 => N[1] # "0" /\ l >= 1
  <2> DEFINE f1 == {c \in {"UPPERCASE"} : directive.conv \in {"X", "p"}}
  <2>1. "UPPERCASE" \in f1 <=> directive.conv \in {"X", "p"}
    OBVIOUS
  <2> HIDE DEF f1
  <2>2. SpecifierInv /\ directive.conv \in IntegerConvs \cup {"p"}
    BY DEF IntegerInv
  <2> QED
    BY <2>1, <2>2, CNumeralIs
<1>1. CPrec \in Int
  BY PrecisionIs DEF IntegerInv
<1>2. /\ IsText(PlainDigits) /\ Len(PlainDigits) = (IF l < CPrec THEN CPrec ELSE l)
      /\ CPrec <= l => PlainDigits = N
      /\ CPrec > l => Head(PlainDigits) = "0"
  BY <1>0, <1>1, FilledIs DEF PlainDigits
<1>3. PlainDigits = Repeated("0", CPrec - Len(CNumeral)) \o CNumeral
  BY DEF PlainDigits, Filled, Zeros
<1>4. CDigits = IF Has("#") /\ CBase = 8 /\ (PlainDigits = <<>> \/ Head(PlainDigits) # "0")
                THEN <<"0">> \o PlainDigits ELSE PlainDigits
  BY <1>3 DEF CDigits
<1>5. "HASH" \in f <=> Has("#") /\ CBase # 10 /\ CMag # 0
  BY DEF Agrees
<1>6. IsText(<<"0">>) /\ IsText(<<"0">> \o PlainDigits)
  <2>1. IsText(<<"0">>)
    BY OneText
  <2> QED
    BY <1>2, <2>1, Chained
<1>7. IsText(CDigits)
  BY <1>2, <1>4, <1>6
<1>8. CASE ~(Has("#") /\ CBase = 8)
  BY <1>2, <1>4, <1>5, <1>7, <1>8
<1>9. CASE Has("#") /\ CBase = 8 /\ CMag # 0
  <2>1. ~OctalPrecision
    BY CasesIs
  <2>2. ~(CPrec > l)
    BY <1>9, <2>1 DEF OctalPrecision
  <2>3. PlainDigits = N
    BY <1>0, <1>1, <1>2, <2>2
  <2>4. Head(PlainDigits) # "0"
    <3>1. Head(N) = N[1]
      <4>1. N = N \o <<>> /\ IsText(<<>>) /\ IsText(N) /\ l >= 1
        BY <1>0, <1>9, NoText, NothingChained
      <4> HIDE DEF N
      <4>2. Head(N \o <<>>) = N[1]
        BY <4>1, FrontOf DEF N
      <4> QED
        BY <4>1, <4>2
    <3> QED
      BY <1>0, <1>9, <2>3, <3>1
  <2>5. CDigits = <<"0">> \o PlainDigits
    BY <1>4, <1>9, <2>4
  <2>6. "HASH" \in f /\ CBase = 8
    BY <1>5, <1>9
  <2> QED
    BY <1>2, <1>7, <2>5, <2>6
<1>10. CASE Has("#") /\ CBase = 8 /\ CMag = 0
  <2>1. ~OctalPrecision
    BY CasesIs
  <2>2. N # <<>>
    BY <1>10, <2>1 DEF OctalPrecision
  <2>3. CPrec # 0 /\ N = <<"0">> /\ l = 1
    BY <1>0, <1>10, <2>2
  <2>4. PlainDigits # <<>> /\ Head(PlainDigits) = "0"
    <3>1. CASE CPrec <= 1
      <4>1. PlainDigits = <<"0">>
        BY <1>2, <2>3, <3>1
      <4>2. <<"0">> # <<>> /\ Head(<<"0">>) = "0"
        OBVIOUS
      <4> QED
        BY <4>1, <4>2
    <3>2. CASE CPrec > 1
      <4>1. Len(PlainDigits) > 1 /\ Head(PlainDigits) = "0"
        <5>1. Len(PlainDigits) = CPrec
          BY <1>1, <1>2, <2>3, <3>2
        <5> QED
          BY <1>2, <2>3, <3>2, <5>1
      <4>2. PlainDigits # <<>>
        BY <4>1, NoText
      <4> QED
        BY <4>1, <4>2
    <3> QED
      BY <1>1, <3>1, <3>2
  <2>5. CDigits = PlainDigits
    BY <1>4, <2>4
  <2>6. "HASH" \notin f
    BY <1>5, <1>10
  <2> QED
    BY <1>2, <1>7, <2>5, <2>6
<1> QED
  BY <1>8, <1>9, <1>10

\* Two characters in a row.
LEMMA TwoChars ==
  ASSUME NEW c, NEW d
  PROVE  <<c>> \o <<d>> = <<c, d>>
<1> DEFINE a == <<c>>
           b == <<d>>
           t == <<c, d>>
<1>1. IsText(a) /\ Len(a) = 1 /\ a[1] = c /\ IsText(b) /\ Len(b) = 1 /\ b[1] = d
  BY OneText
<1>2. IsText(t) /\ Len(t) = 2 /\ t[1] = c /\ t[2] = d
  <2>1. t \in Seq({c, d})
    OBVIOUS
  <2> QED
    BY <2>1, SeqIsText
<1> HIDE DEF a, b, t
<1>3. /\ IsText(a \o b) /\ Len(a \o b) = Len(a) + Len(b)
      /\ \A i \in 1..(Len(a) + Len(b)) : (a \o b)[i] = IF i <= Len(a) THEN a[i] ELSE b[i - Len(a)]
  BY <1>1, Chained
<1> DEFINE s == a \o b
<1> HIDE DEF s
<1>4. IsText(s) /\ Len(s) = 2 /\ \A i \in 1..2 : s[i] = IF i <= 1 THEN a[i] ELSE b[i - 1]
  BY <1>1, <1>3 DEF s
<1>5. s[1] = c /\ s[2] = d
  BY <1>1, <1>4
<1>6. s = t
  BY <1>2, <1>4, <1>5, SameText
<1> QED
  BY <1>6 DEF s, a, b, t

\* C's sign and prefix are the formatter's.
LEMMA CPrefixIs ==
  ASSUME IntegerInv, NEW f, Agrees(f), NEW negative \in BOOLEAN,
         negative <=> (CSigned /\ CNum < 0)
  PROVE  /\ CSigned => CPrefix = Sign(negative, f) /\ Radix(CBase, f) = <<>>
         /\ ~CSigned => Sign(negative, f) = <<>>
         /\ ~CSigned /\ CBase # 8 => CPrefix = Radix(CBase, f)
         /\ CBase = 8 => CPrefix = <<>> /\ ("HASH" \in f => Radix(CBase, f) = <<"0">>)
<1>1. /\ "HASH" \in f <=> Has("#") /\ CBase # 10 /\ CMag # 0
      /\ "PLUS" \in f <=> Has("+") /\ CSigned
      /\ "SPACE" \in f <=> Has(" ") /\ CSigned
  BY DEF Agrees
<1>2. CNum \in Int /\ (CNum < 0 => CSigned) /\ (CMag = 0 <=> CNum = 0)
  BY NumberIs DEF IntegerInv
<1>3. CBase \in {2, 8, 10, 16} /\ (CSigned => CBase = 10)
  BY BaseIs DEF IntegerInv
<1>4. CNum >= 0 <=> ~(CNum < 0)
  BY <1>2
<1>5. ASSUME CSigned
      PROVE  CPrefix = Sign(negative, f) /\ Radix(CBase, f) = <<>>
  <2>1. CBase = 10
    BY <1>3, <1>5
  <2>2. "HASH" \notin f
    BY <1>1, <2>1
  <2>3. Radix(CBase, f) = <<>>
    BY <2>2, RadixIs
  <2>4. CBase # 16 /\ CBase # 2
    BY <2>1
  <2>5. CASE CNum < 0
    <3>1. Sign(negative, f) = <<"-">>
      BY <1>5, <2>5 DEF Sign
    <3>2. CPrefix = <<"-">>
      BY <1>4, <1>5, <2>4, <2>5, Zenon DEF CPrefix
    <3> QED
      BY <2>3, <3>1, <3>2
  <2>6. CASE ~(CNum < 0) /\ Has("+")
    <3>1. Sign(negative, f) = <<"+">>
      BY <1>1, <1>5, <2>6 DEF Sign
    <3>2. CPrefix = <<"+">>
      BY <1>4, <1>5, <2>4, <2>6, Zenon DEF CPrefix
    <3> QED
      BY <2>3, <3>1, <3>2
  <2>7. CASE ~(CNum < 0) /\ ~Has("+") /\ Has(" ")
    <3>1. Sign(negative, f) = <<" ">>
      BY <1>1, <1>5, <2>7 DEF Sign
    <3>2. CPrefix = <<" ">>
      BY <1>4, <1>5, <2>4, <2>7, Zenon DEF CPrefix
    <3> QED
      BY <2>3, <3>1, <3>2
  <2>8. CASE ~(CNum < 0) /\ ~Has("+") /\ ~Has(" ")
    <3>1. Sign(negative, f) = <<>>
      BY <1>1, <1>5, <2>8 DEF Sign
    <3>2. CPrefix = <<>>
      BY <1>4, <1>5, <2>4, <2>8, Zenon DEF CPrefix
    <3> QED
      BY <2>3, <3>1, <3>2
  <2> QED
    BY <2>5, <2>6, <2>7, <2>8
<1>6. ASSUME ~CSigned
      PROVE  /\ Sign(negative, f) = <<>>
             /\ CBase # 8 => CPrefix = Radix(CBase, f)
             /\ CBase = 8 => CPrefix = <<>>
  <2>1. Sign(negative, f) = <<>>
    BY <1>1, <1>6 DEF Sign
  <2>2. CASE CBase = 16 /\ Has("#") /\ CNum # 0
    <3>1. CPrefix = <<"0", "x">>
      <4>1. CBase # 2
        BY <2>2
      <4> QED
        BY <1>6, <2>2, <4>1, Zenon DEF CPrefix
    <3>2. Radix(CBase, f) = <<"0">> \o <<"x">>
      <4>1. "HASH" \in f /\ CBase = 16 /\ CBase # 2 /\ CBase # 10
        <5>1. CBase = 16 /\ CBase # 2 /\ CBase # 10
          BY <2>2
        <5>2. Has("#") /\ CMag # 0
          BY <1>2, <2>2, Zenon
        <5> QED
          BY <1>1, <5>1, <5>2, Zenon
      <4> QED
        BY <4>1, Zenon DEF Radix
    <3>3. <<"0">> \o <<"x">> = <<"0", "x">>
      BY TwoChars
    <3>4. CBase # 8
      BY <2>2
    <3> QED
      BY <2>1, <3>1, <3>2, <3>3, <3>4
  <2>3. CASE CBase = 2 /\ Has("#") /\ CNum # 0
    <3>1. CPrefix = <<"0", "b">>
      <4>1. CBase # 16
        BY <2>3
      <4> QED
        BY <1>6, <2>3, <4>1, Zenon DEF CPrefix
    <3>2. Radix(CBase, f) = <<"0">> \o <<"b">>
      <4>1. "HASH" \in f /\ CBase = 2 /\ CBase # 16 /\ CBase # 10
        <5>1. CBase = 2 /\ CBase # 16 /\ CBase # 10
          BY <2>3
        <5>2. Has("#") /\ CMag # 0
          BY <1>2, <2>3, Zenon
        <5> QED
          BY <1>1, <5>1, <5>2, Zenon
      <4> QED
        BY <4>1, Zenon DEF Radix
    <3>3. <<"0">> \o <<"b">> = <<"0", "b">>
      BY TwoChars
    <3>4. CBase # 8
      BY <2>3
    <3> QED
      BY <2>1, <3>1, <3>2, <3>3, <3>4
  <2>4. CASE ~((CBase = 16 \/ CBase = 2) /\ Has("#") /\ CNum # 0)
    <3>1. CPrefix = <<>>
      BY <1>6, <2>4, Zenon DEF CPrefix
    <3>2. CBase # 8 => "HASH" \notin f
      BY <1>1, <1>2, <1>3, <2>4
    <3>3. CBase # 8 => Radix(CBase, f) = <<>>
      BY <3>2, RadixIs
    <3> QED
      BY <2>1, <3>1, <3>3
  <2> QED
    BY <2>2, <2>3, <2>4
<1>7. CBase = 8 => ~CSigned
  BY <1>3
<1>8. CBase = 8 /\ "HASH" \in f => Radix(CBase, f) = <<"0">>
  BY DEF Radix
<1> QED
  BY <1>5, <1>6, <1>7, <1>8

\* C's sign, prefix and digits are the formatter's.
LEMMA CBodyIs ==
  ASSUME IntegerInv, NEW f, Agrees(f), NEW negative \in BOOLEAN,
         negative <=> (CSigned /\ CNum < 0)
  PROVE  /\ CPrefix \o CDigits = Body(PlainDigits, negative, CBase, f)
         /\ IsText(CPrefix) /\ Len(CPrefix) \in Nat /\ IsText(CDigits) /\ Len(CDigits) \in Nat
         /\ Len(CPrefix) + Len(CDigits)
              = Len(PlainDigits) + Len(Radix(CBase, f)) + Len(Sign(negative, f))
<1> DEFINE g == Sign(negative, f)
           r == Radix(CBase, f)
           P == CPrefix
           C == CDigits
           T == PlainDigits
           o == <<"0">>
<1>1. /\ CSigned => P = g /\ r = <<>>
      /\ ~CSigned => g = <<>>
      /\ ~CSigned /\ CBase # 8 => P = r
      /\ CBase = 8 => P = <<>> /\ ("HASH" \in f => r = o)
  BY CPrefixIs
<1>2. /\ IsText(T) /\ IsText(C)
      /\ CBase = 8 /\ "HASH" \in f => C = o \o T
      /\ ~(CBase = 8 /\ "HASH" \in f) => C = T
  BY CDigitsIs
<1>3. IsText(g) /\ IsText(r) /\ ("HASH" \notin f => r = <<>>)
  BY SignIs, RadixIs
<1>4. CBase = 8 => ~CSigned
  BY BaseIs DEF IntegerInv
<1>5. IsText(o) /\ Len(o) = 1 /\ IsText(<<>>) /\ Len(<<>>) = 0
  BY OneText, NoText
<1> HIDE DEF g, r, P, C, T, o
<1>6. IsText(P)
  BY <1>1, <1>3, <1>5
<1>7. Len(T) \in Nat /\ Len(C) \in Nat /\ Len(g) \in Nat /\ Len(r) \in Nat /\ Len(P) \in Nat
  BY <1>2, <1>3, <1>6, TextIs
<1>8. P \o C = g \o (r \o T) /\ Len(P) + Len(C) = Len(T) + Len(r) + Len(g)
  <2>1. CASE CSigned
    <3>1. P = g /\ r = <<>> /\ C = T
      BY <1>1, <1>2, <1>4, <2>1
    <3>2. r \o T = T
      BY <1>2, <3>1, NothingChained
    <3>3. Len(P) + Len(C) = Len(T) + Len(r) + Len(g)
      BY <1>5, <1>7, <3>1
    <3> QED
      BY <3>1, <3>2, <3>3
  <2>2. CASE ~CSigned /\ ~(CBase = 8 /\ "HASH" \in f)
    <3>1. g = <<>> /\ P = r /\ C = T
      BY <1>1, <1>2, <1>3, <2>2
    <3>2. IsText(r \o T)
      BY <1>2, <1>3, Chained
    <3>3. g \o (r \o T) = r \o T
      BY <3>1, <3>2, NothingChained
    <3>4. Len(P) + Len(C) = Len(T) + Len(r) + Len(g)
      BY <1>5, <1>7, <3>1
    <3> QED
      BY <3>1, <3>3, <3>4
  <2>3. CASE ~CSigned /\ CBase = 8 /\ "HASH" \in f
    <3>1. g = <<>> /\ P = <<>> /\ r = o /\ C = o \o T
      BY <1>1, <1>2, <2>3
    <3>2. IsText(r \o T)
      BY <1>2, <1>3, Chained
    <3>3. g \o (r \o T) = r \o T /\ P \o C = C
      BY <1>2, <3>1, <3>2, NothingChained
    <3>4. Len(C) = Len(o) + Len(T)
      BY <1>2, <1>5, <3>1, Chained
    <3>5. Len(P) + Len(C) = Len(T) + Len(r) + Len(g)
      BY <1>5, <1>7, <3>1, <3>4
    <3> QED
      BY <3>1, <3>3, <3>5
  <2> QED
    BY <2>1, <2>2, <2>3
<1> QED
  BY <1>2, <1>6, <1>7, <1>8 DEF g, r, P, C, T, Body

\* Nothing backwards.
LEMMA ReverseNone == Reverse(<<>>) = <<>>
<1> DEFINE e == <<>>
           r == Reverse(e)
<1>1. IsText(e) /\ Len(e) = 0
  BY NoText
<1> HIDE DEF e
<1>2. IsText(r) /\ Len(r) = 0
  BY <1>1, ReverseIs
<1> HIDE DEF r
<1>3. r = e
  BY <1>1, <1>2, SameText
<1> QED
  BY <1>3 DEF r, e

\* One zero.
LEMMA OneZero == Zeros(1) = <<"0">>
<1> DEFINE z == Zeros(1)
           o == <<"0">>
<1>1. IsText(o) /\ Len(o) = 1 /\ o[1] = "0"
  BY OneText
<1>2. IsText(z) /\ Len(z) = 1 /\ z[1] = "0"
  <2>1. 1 \in Int /\ 1 > 0 /\ 1 \in 1..1
    OBVIOUS
  <2>2. /\ IsText(Zeros(1)) /\ Len(Zeros(1)) = (IF 1 > 0 THEN 1 ELSE 0)
        /\ \A i \in 1..1 : Zeros(1)[i] = "0"
    BY <2>1, RepeatedIs DEF Zeros
  <2> QED
    BY <2>1, <2>2
<1> HIDE DEF z, o
<1>3. z = o
  BY <1>1, <1>2, SameText
<1> QED
  BY <1>3 DEF z, o

\* Zeros and zeros.
LEMMA ZerosMore ==
  ASSUME NEW m \in Nat, NEW n \in Nat
  PROVE  Zeros(m) \o Zeros(n) = Zeros(m + n)
BY RepeatedMore DEF Zeros

\* A zero before the zeros is one behind them.
LEMMA ZeroMoves ==
  ASSUME NEW n \in Int, NEW s, IsText(s)
  PROVE  Zeros(n) \o (<<"0">> \o s) = <<"0">> \o (Zeros(n) \o s)
<1> DEFINE o == <<"0">>
           z == Zeros(n)
<1>1. IsText(o) /\ IsText(z)
  BY OneText, ZerosIs
<1>2. z \o o = o \o z
  <2>1. o = Zeros(1)
    BY OneZero
  <2>2. CASE n <= 0
    <3>1. z = <<>>
      BY <2>2, ZerosIs
    <3> HIDE DEF z, o
    <3> QED
      BY <1>1, <3>1, NothingChained
  <2>3. CASE ~(n <= 0)
    <3>1. n \in Nat /\ 1 \in Nat /\ n + 1 = 1 + n
      BY <2>3
    <3>2. Zeros(n) \o Zeros(1) = Zeros(n + 1) /\ Zeros(1) \o Zeros(n) = Zeros(1 + n)
      BY <3>1, ZerosMore
    <3> HIDE DEF o
    <3> QED
      BY <2>1, <3>1, <3>2
  <2> QED
    BY <2>2, <2>3
<1> HIDE DEF o, z
<1>3. (z \o o) \o s = z \o (o \o s) /\ (o \o z) \o s = o \o (z \o s)
  BY <1>1, Associated
<1> QED
  BY <1>2, <1>3 DEF o, z

\* The loop's digits, and zeros up to the precision, are C's.
LEMMA LoopAgrees ==
  ASSUME IntegerInv, NEW f, f = IntFlags(directive.conv), NEW d, d = Loop(CMag, CBase, f)
  PROVE  /\ IsText(d) /\ Len(d) \in Nat
         /\ CLeft => Reverse(d) = PlainDigits
         /\ ~CLeft => Filled(Reverse(d), precision) = PlainDigits
         /\ CMag # 0 \/ directive.prec.kind = "none" =>
              Len(d) = Len(CNumeral) /\ Len(d) >= 1 /\ Len(d) = Places(CMag, CBase)
         /\ directive.prec.kind = "none" => Reverse(d) = PlainDigits /\ precision = 0
         /\ ("PRECISION" \in f /\ CMag = 0) \/ Len(d) = Places(CMag, CBase)
<1> DEFINE N == CNumeral
           l == Len(N)
           none == directive.prec.kind = "none"
           r == Reverse(d)
<1>1. SpecifierInv /\ directive.conv \in IntegerConvs
  BY DEF IntegerInv
<1>2. ("PRECISION" \in f <=> ~none) /\ ("UPPERCASE" \in f <=> directive.conv = "X")
  BY <1>1, IntFlagsIs
<1>3. ("UPPERCASE" \in f <=> directive.conv \in {"X", "p"}) /\ directive.conv \in IntegerConvs \cup {"p"}
  BY <1>1, <1>2 DEF IntegerConvs
<1>4. /\ IsText(N) /\ l \in Nat
      /\ CPrec = 0 /\ CMag = 0 => N = <<>> /\ l = 0
      /\ ~(CPrec = 0 /\ CMag = 0) =>
           /\ N = Numeral(CMag, CBase, Chars(f))
           /\ l = Places(CMag, CBase) /\ l >= 1
      /\ CMag = 0 /\ CPrec # 0 => N = <<"0">> /\ l = 1
  BY <1>1, <1>3, CNumeralIs
<1>5. CMag \in Nat /\ CMag < Power(2, LongBits) /\ CBase \in Nat \ {0, 1}
  BY <1>1, NumberIs, BaseIs
<1>6. /\ IsText(d) /\ Len(d) \in Nat
      /\ "PRECISION" \in f /\ CMag = 0 => d = <<>>
      /\ ~("PRECISION" \in f /\ CMag = 0) =>
           /\ r = Numeral(CMag, CBase, Chars(f))
           /\ Len(d) = Places(CMag, CBase) /\ Len(d) >= 1
  BY <1>5, LoopIs
<1>7. /\ CPrec \in Int /\ precision \in Nat
      /\ (CPrec = -1 /\ precision = 0) \/ (CPrec \in Nat /\ precision = CPrec /\ ~none)
      /\ none => CPrec = -1
      /\ CPrec = -1 /\ ~none => directive.prec.kind = "star" /\ directive.prec.n < 0
  BY <1>1, PrecisionIs
<1>8. ~LeftPrecision /\ (directive.prec.kind = "star" /\ directive.prec.n < 0 => CMag # 0)
  BY CasesIs
<1>9. CLeft => ~(CPrec > (IF CMag = 0 THEN 0 ELSE l))
  BY <1>8, Zenon DEF LeftPrecision
<1>10. PlainDigits = Filled(N, CPrec)
  BY DEF PlainDigits
<1> HIDE DEF N, l, none, r
<1>11. CASE CMag # 0 \/ none
  <2>1. ~("PRECISION" \in f /\ CMag = 0)
    BY <1>2, <1>11
  <2>2. ~(CPrec = 0 /\ CMag = 0)
    BY <1>7, <1>11
  <2>3. r = N /\ Len(d) = l /\ Len(d) >= 1 /\ Len(d) = Places(CMag, CBase)
    BY <1>4, <1>6, <2>1, <2>2
  <2>4. CLeft => CPrec <= l
    <3>1. CASE none
      BY <1>4, <1>7, <3>1
    <3>2. CASE CMag # 0
      BY <1>4, <1>7, <1>9, <3>2
    <3> QED
      BY <1>11, <3>1, <3>2
  <2>5. CPrec <= l => PlainDigits = N
    <3>1. IsText(N) /\ CPrec \in Int
      BY <1>4, <1>7
    <3> QED
      BY <1>10, <3>1, FilledIs DEF l
  <2>6. CPrec = -1 => PlainDigits = N /\ Filled(N, precision) = N
    <3>1. ASSUME CPrec = -1
          PROVE  PlainDigits = N /\ Filled(N, precision) = N
      <4>1. CPrec <= l /\ precision <= l /\ precision \in Int
        BY <1>4, <1>7, <3>1
      <4> QED
        <5>1. IsText(N)
          BY <1>4
        <5>2. Filled(N, precision) = N
          BY <4>1, <5>1, FilledIs DEF l
        <5> QED
          BY <2>5, <4>1, <5>2
    <3> QED
      BY <3>1
  <2>7. Filled(r, precision) = PlainDigits
    BY <1>7, <1>10, <2>3, <2>6
  <2>8. none => r = PlainDigits /\ precision = 0
    BY <1>7, <2>3, <2>6
  <2>9. CLeft => r = PlainDigits
    BY <2>3, <2>4, <2>5
  <2> QED
    BY <1>6, <2>3, <2>7, <2>8, <2>9 DEF r, l, none, N
<1>12. CASE CMag = 0 /\ ~none
  <2>1. d = <<>> /\ "PRECISION" \in f
    BY <1>2, <1>6, <1>12
  <2>2. r = <<>>
    BY <2>1, ReverseNone DEF r
  <2>3. CPrec \in Nat /\ precision = CPrec
    BY <1>7, <1>8, <1>12
  <2>4. CASE CPrec = 0
    <3>1. N = <<>> /\ l = 0
      BY <1>4, <1>12, <2>4
    <3>2. PlainDigits = N
      <4>1. CPrec <= l
        BY <2>4, <3>1
      <4> QED
        <5>1. IsText(N) /\ CPrec \in Int
          BY <1>4, <1>7
        <5> QED
          BY <1>10, <4>1, <5>1, FilledIs DEF l
    <3>3. r = PlainDigits /\ Filled(r, precision) = PlainDigits
      BY <1>10, <2>2, <2>3, <3>1, <3>2
    <3> QED
      BY <1>6, <1>12, <2>1, <3>3 DEF r, none
  <2>5. CASE CPrec # 0
    <3>1. N = <<"0">> /\ l = 1
      BY <1>4, <1>12, <2>5
    <3>2. ~CLeft
      BY <1>9, <1>12, <2>3, <2>5
    <3> DEFINE k == CPrec - 1
    <3>3. k \in Nat /\ 1 \in Nat /\ k + 1 = CPrec
      BY <2>3, <2>5
    <3>4. PlainDigits = Zeros(k) \o <<"0">>
      BY <1>10, <3>1 DEF Filled, l
    <3> HIDE DEF k
    <3>5. PlainDigits = Zeros(CPrec)
      <4>1. Zeros(k) \o Zeros(1) = Zeros(k + 1)
        BY <3>3, ZerosMore
      <4> QED
        BY <3>3, <3>4, <4>1, OneZero
    <3>6. Filled(r, precision) = Zeros(CPrec)
      <4>1. CPrec - 0 = CPrec /\ Len(<<>>) = 0
        BY <1>7, NoText
      <4>2. Filled(r, precision) = Zeros(CPrec) \o <<>>
        BY <2>2, <2>3, <4>1 DEF Filled
      <4>3. IsText(Zeros(CPrec))
        BY <1>7, ZerosIs
      <4> QED
        BY <4>2, <4>3, NothingChained
    <3> QED
      BY <1>6, <1>12, <2>1, <3>2, <3>5, <3>6 DEF r, none
  <2> QED
    BY <2>4, <2>5
<1> QED
  BY <1>11, <1>12

\* C's padding, by the side of the field the text is at.
LEMMA CPadIs ==
  ASSUME NEW s
  PROVE  /\ CLeft => CPad(s) = Behind(s, CWidth)
         /\ ~CLeft => CPad(s) = InFront(s, CWidth)
BY DEF CPad, Behind, InFront

\* A text that fills its field is not padded.
LEMMA NoPad ==
  ASSUME NEW s, IsText(s), NEW w \in Int, w <= Len(s)
  PROVE  Behind(s, w) = s /\ InFront(s, w) = s
<1> DEFINE n == w - Len(s)
<1>1. n \in Int /\ n <= 0
  BY TextIs
<1> HIDE DEF n
<1>2. Repeated(" ", n) = <<>>
  BY <1>1, RepeatedNone
<1> QED
  BY <1>2, NothingChained DEF Behind, InFront, n

\* What an integer conversion that does not differ may rely on.
LEMMA IntegerFacts ==
  ASSUME IntegerInv, NEW negative \in BOOLEAN, negative <=> (CSigned /\ CNum < 0),
         NEW f, f = IntFlags(directive.conv), NEW g, g = Hashless(CMag, f),
         NEW d, d = Loop(CMag, CBase, f)
  PROVE  /\ Agrees(g)
         /\ ntoa(CMag, negative, CBase, precision, width, f)
              = ntoa_format(d, negative, CBase, precision, width, g)
         /\ Len(PlainDigits) + Len(Radix(CBase, g)) + Len(Sign(negative, g)) <= PRINTF_NTOA_BUFFER_SIZE
         /\ Len(PlainDigits) \in Nat
         /\ "HASH" \in g /\ "PRECISION" \notin g =>
              precision = 0 /\ Len(d) >= 1 /\ Len(d) = Len(CNumeral) /\ Len(d) # width
<1>1. SpecifierInv /\ directive.conv \in IntegerConvs
  BY DEF IntegerInv
<1>2. Agrees(g)
  <2>1. /\ "LEFT" \in f <=> CLeft
        /\ "ZEROPAD" \in f <=> Has("0") /\ directive.prec.kind = "none"
        /\ "PRECISION" \in f <=> directive.prec.kind # "none"
        /\ "HASH" \in f <=> Has("#") /\ CBase # 10
        /\ "PLUS" \in f <=> Has("+") /\ CSigned
        /\ "SPACE" \in f <=> Has(" ") /\ CSigned
    BY <1>1, IntFlagsIs
  <2>2. /\ "HASH" \in g <=> "HASH" \in f /\ CMag # 0
        /\ "LEFT" \in g <=> "LEFT" \in f
        /\ "ZEROPAD" \in g <=> "ZEROPAD" \in f
        /\ "PRECISION" \in g <=> "PRECISION" \in f
        /\ "PLUS" \in g <=> "PLUS" \in f
        /\ "SPACE" \in g <=> "SPACE" \in f
    BY HashlessIs
  <2> QED
    BY <2>1, <2>2, Zenon DEF Agrees
<1>3. ~TooLong /\ ~PrefixInField
  BY CasesIs
<1>4. /\ IsText(CPrefix) /\ Len(CPrefix) \in Nat /\ IsText(CDigits) /\ Len(CDigits) \in Nat
      /\ Len(CPrefix) + Len(CDigits) = Len(PlainDigits) + Len(Radix(CBase, g)) + Len(Sign(negative, g))
  BY <1>2, CBodyIs
<1>5. Len(CPrefix) + Len(CDigits) <= PRINTF_NTOA_BUFFER_SIZE
  <2>1. ~(Len(CPrefix) + Len(CDigits) > PRINTF_NTOA_BUFFER_SIZE)
    BY <1>3 DEF TooLong
  <2>2. PRINTF_NTOA_BUFFER_SIZE \in Nat
    BY PrintfAssumption
  <2> QED
    BY <1>4, <2>1, <2>2
<1>6. Len(PlainDigits) \in Nat
  BY <1>2, CDigitsIs, TextIs
<1>7. /\ IsText(d) /\ Len(d) \in Nat
      /\ CLeft => Reverse(d) = PlainDigits
      /\ ~CLeft => Filled(Reverse(d), precision) = PlainDigits
      /\ CMag # 0 \/ directive.prec.kind = "none" =>
           Len(d) = Len(CNumeral) /\ Len(d) >= 1 /\ Len(d) = Places(CMag, CBase)
      /\ directive.prec.kind = "none" => precision = 0
      /\ ("PRECISION" \in f /\ CMag = 0) \/ Len(d) = Places(CMag, CBase)
  BY LoopAgrees
<1>8. IsText(Reverse(d)) /\ Len(Reverse(d)) = Len(d) /\ precision \in Int
  BY <1>1, <1>7, ReverseIs, PrecisionIs
<1>9. Len(d) <= Len(PlainDigits)
  <2>1. CASE CLeft
    BY <1>7, <1>8, <2>1
  <2>2. CASE ~CLeft
    <3>1. Len(Filled(Reverse(d), precision))
            = IF Len(Reverse(d)) < precision THEN precision ELSE Len(Reverse(d))
      BY <1>8, FilledIs
    <3>2. Len(PlainDigits) = IF Len(d) < precision THEN precision ELSE Len(d)
      BY <1>7, <1>8, <2>2, <3>1
    <3> QED
      BY <1>6, <1>7, <1>8, <3>2
  <2> QED
    BY <2>1, <2>2
<1>10. Len(d) <= PRINTF_NTOA_BUFFER_SIZE
  <2>1. Len(Radix(CBase, g)) \in Nat /\ Len(Sign(negative, g)) \in Nat
    BY RadixIs, SignIs, TextIs
  <2>2. PRINTF_NTOA_BUFFER_SIZE \in Nat
    BY PrintfAssumption
  <2> QED
    BY <1>4, <1>5, <1>6, <1>7, <1>9, <2>1, <2>2
<1>11. ntoa(CMag, negative, CBase, precision, width, f)
         = ntoa_format(d, negative, CBase, precision, width, g)
  <2>1. CMag \in Nat /\ CMag < Power(2, LongBits) /\ CBase \in Nat \ {0, 1}
    BY <1>1, NumberIs, BaseIs
  <2>2. Places(CMag, CBase) <= PRINTF_NTOA_BUFFER_SIZE \/ ("PRECISION" \in f /\ CMag = 0)
    BY <1>7, <1>10
  <2> QED
    BY <2>1, <2>2, NtoaIs
<1>12. "HASH" \in g /\ "PRECISION" \notin g =>
         precision = 0 /\ Len(d) >= 1 /\ Len(d) = Len(CNumeral) /\ Len(d) # width
  <2> SUFFICES ASSUME "HASH" \in g, "PRECISION" \notin g
               PROVE  precision = 0 /\ Len(d) >= 1 /\ Len(d) = Len(CNumeral) /\ Len(d) # width
    OBVIOUS
  <2>1. Has("#") /\ CBase # 10 /\ CMag # 0 /\ directive.prec.kind = "none"
    BY <1>2, Zenon DEF Agrees
  <2>2. CWidth # Len(CNumeral)
    BY <1>3, <2>1, Zenon DEF PrefixInField
  <2>3. width = CWidth
    BY <1>1, WidthIs
  <2> QED
    BY <1>7, <2>1, <2>2, <2>3
<1> QED
  BY <1>2, <1>4, <1>5, <1>6, <1>11, <1>12

\* At the left of its field: the formatter writes what C does.
LEMMA IntegerLeft ==
  ASSUME IntegerInv, CLeft, NEW negative \in BOOLEAN, negative <=> (CSigned /\ CNum < 0),
         NEW f, f = IntFlags(directive.conv)
  PROVE  ntoa(CMag, negative, CBase, precision, width, f) = CInteger
<1> DEFINE g == Hashless(CMag, f)
           d == Loop(CMag, CBase, f)
           b == CBase
           all == Body(PlainDigits, negative, b, g)
<1>1. /\ Agrees(g)
      /\ ntoa(CMag, negative, b, precision, width, f)
           = ntoa_format(d, negative, b, precision, width, g)
      /\ Len(PlainDigits) + Len(Radix(b, g)) + Len(Sign(negative, g)) <= PRINTF_NTOA_BUFFER_SIZE
      /\ "HASH" \in g /\ "PRECISION" \notin g => precision = 0 /\ Len(d) >= 1 /\ Len(d) # width
  BY IntegerFacts
<1>2. IsText(d) /\ Reverse(d) = PlainDigits /\ Len(d) = Len(PlainDigits)
  <2>1. IsText(d) /\ Reverse(d) = PlainDigits
    BY LoopAgrees
  <2> QED
    BY <2>1, ReverseIs
<1>3. CPrefix \o CDigits = all
  BY <1>1, CBodyIs
<1>4. CInteger = Behind(all, CWidth)
  <2>1. CInteger = CPad(all)
    BY <1>3 DEF CInteger
  <2> QED
    BY <2>1, CPadIs
<1>5. width = CWidth /\ width \in Nat /\ precision \in Nat
  BY WidthIs, PrecisionIs DEF IntegerInv
<1>6. "LEFT" \in g
  BY <1>1 DEF Agrees
<1> HIDE DEF g, d, b
<1>7. "HASH" \in g /\ "PRECISION" \notin g => Len(d) # precision /\ Len(d) # width
  BY <1>1
<1>8. Len(d) + Len(Radix(b, g)) + Len(Sign(negative, g)) <= PRINTF_NTOA_BUFFER_SIZE
  BY <1>1, <1>2
<1>9. ntoa_format(d, negative, b, precision, width, g)
        = Behind(Body(Reverse(d), negative, b, g), width)
  BY <1>2, <1>5, <1>6, <1>7, <1>8, FormatLeft
<1> QED
  BY <1>1, <1>2, <1>4, <1>5, <1>9 DEF b

\* At the right, behind spaces.
LEMMA IntegerRight ==
  ASSUME IntegerInv, ~CLeft, ~(Has("0") /\ directive.prec.kind = "none"),
         NEW negative \in BOOLEAN, negative <=> (CSigned /\ CNum < 0),
         NEW f, f = IntFlags(directive.conv)
  PROVE  ntoa(CMag, negative, CBase, precision, width, f) = CInteger
<1> DEFINE g == Hashless(CMag, f)
           d == Loop(CMag, CBase, f)
           b == CBase
           all == Body(PlainDigits, negative, b, g)
           B == PRINTF_NTOA_BUFFER_SIZE
           more == IF Len(d) < precision THEN precision ELSE Len(d)
<1>1. /\ Agrees(g)
      /\ ntoa(CMag, negative, b, precision, width, f)
           = ntoa_format(d, negative, b, precision, width, g)
      /\ Len(PlainDigits) + Len(Radix(b, g)) + Len(Sign(negative, g)) <= B
      /\ "HASH" \in g /\ "PRECISION" \notin g => precision = 0 /\ Len(d) >= 1 /\ Len(d) # width
  BY IntegerFacts
<1>2. IsText(d) /\ Len(d) \in Nat /\ Filled(Reverse(d), precision) = PlainDigits
  BY LoopAgrees
<1>3. /\ CPrefix \o CDigits = all
      /\ IsText(CPrefix) /\ Len(CPrefix) \in Nat /\ IsText(CDigits) /\ Len(CDigits) \in Nat
  BY <1>1, CBodyIs
<1>4. width = CWidth /\ width \in Nat /\ precision \in Nat
  BY WidthIs, PrecisionIs DEF IntegerInv
<1>5. CInteger = InFront(all, CWidth)
  <2>1. CPad(all) = InFront(all, CWidth)
    BY CPadIs
  <2>2. CASE ~CZeroFills
    <3>1. CInteger = CPad(all)
      BY <1>3, <2>2 DEF CInteger, CZeroFills
    <3> QED
      BY <2>1, <3>1
  <2>3. CASE CZeroFills
    <3> DEFINE P == CPrefix
               C == CDigits
               k == CWidth - Len(P) - Len(C)
    <3>1. Has("0") /\ CPrec = -1
      BY <2>3 DEF CZeroFills
    <3>2. directive.prec.kind = "star" /\ directive.prec.n < 0
      BY <3>1, PrecisionIs DEF IntegerInv
    <3>3. ~(CWidth > Len(P \o C))
      BY <2>3, <3>2, CasesIs
    <3>4. IsText(P \o C) /\ Len(P \o C) = Len(P) + Len(C)
      BY <1>3, Chained
    <3>5. CInteger = (P \o Repeated("0", k)) \o C
      BY <2>3, Zenon DEF CInteger, CZeroFills
    <3>6. IsText(P) /\ Len(P) \in Nat /\ Len(C) \in Nat
      BY <1>3
    <3> HIDE DEF P, C
    <3>7. k \in Int /\ k <= 0 /\ CWidth <= Len(P \o C) /\ CWidth \in Int
      BY <1>4, <3>3, <3>4, <3>6
    <3> HIDE DEF k
    <3>8. Repeated("0", k) = <<>>
      BY <3>7, RepeatedNone
    <3>9. CInteger = P \o C
      BY <3>5, <3>6, <3>8, NothingChained
    <3>10. InFront(P \o C, CWidth) = P \o C
      BY <3>4, <3>7, NoPad
    <3>11. P \o C = all
      BY <1>3 DEF P, C
    <3> QED
      BY <3>9, <3>10, <3>11
  <2> QED
    BY <2>2, <2>3
<1>6. "LEFT" \notin g /\ "ZEROPAD" \notin g
  BY <1>1 DEF Agrees
<1>7. Len(PlainDigits) = more /\ precision <= B
  <2>1. IsText(Reverse(d)) /\ Len(Reverse(d)) = Len(d) /\ precision \in Int
    BY <1>2, <1>4, ReverseIs
  <2>2. Len(Filled(Reverse(d), precision))
          = IF Len(Reverse(d)) < precision THEN precision ELSE Len(Reverse(d))
    BY <2>1, FilledIs
  <2>3. Len(PlainDigits) = more
    BY <1>2, <2>1, <2>2
  <2>4. Len(Radix(b, g)) \in Nat /\ Len(Sign(negative, g)) \in Nat
    BY RadixIs, SignIs, TextIs
  <2>5. B \in Nat
    BY PrintfAssumption
  <2>6. more \in Nat /\ precision <= more
    <3> HIDE DEF d
    <3> QED
      BY <1>2, <1>4
  <2> HIDE DEF more, b, g, B
  <2> QED
    BY <1>1, <1>4, <2>3, <2>4, <2>5, <2>6
<1> HIDE DEF g, d, b
<1>8. "HASH" \in g /\ "PRECISION" \notin g => precision = 0 /\ Len(d) # 0 /\ Len(d) # width
  <2>1. Len(d) >= 1 => Len(d) # 0
    BY <1>2
  <2> QED
    BY <1>1, <2>1
<1>9. more + Len(Radix(b, g)) + Len(Sign(negative, g)) <= PRINTF_NTOA_BUFFER_SIZE
  <2> HIDE DEF more
  <2> QED
    BY <1>1, <1>7
<1>10. ntoa_format(d, negative, b, precision, width, g)
         = InFront(Body(Filled(Reverse(d), precision), negative, b, g), width)
  BY <1>2, <1>4, <1>6, <1>7, <1>8, <1>9, FormatRight
<1> QED
  BY <1>1, <1>2, <1>4, <1>5, <1>10 DEF b

\* What they may rely on when zeros fill the field.
LEMMA ZeroFacts ==
  ASSUME IntegerInv, ~CLeft, Has("0"), directive.prec.kind = "none",
         NEW negative \in BOOLEAN, negative <=> (CSigned /\ CNum < 0),
         NEW f, f = IntFlags(directive.conv), NEW g, g = Hashless(CMag, f),
         NEW d, d = Loop(CMag, CBase, f)
  PROVE  /\ CInteger = (CPrefix \o Zeros(CWidth - Len(CPrefix) - Len(CDigits))) \o CDigits
         /\ CZeroFills /\ CWidth <= PRINTF_NTOA_BUFFER_SIZE
         /\ "LEFT" \notin g /\ "ZEROPAD" \in g /\ "PRECISION" \notin g
         /\ IsText(d) /\ Reverse(d) = PlainDigits /\ Len(d) = Len(PlainDigits) /\ Len(d) \in Nat
         /\ precision = 0 /\ width = CWidth /\ width \in Nat
<1>1. CPrec = -1 /\ precision = 0 /\ width = CWidth /\ width \in Nat
  BY LoopAgrees, PrecisionIs, WidthIs DEF IntegerInv
<1>2. CZeroFills
  BY <1>1 DEF CZeroFills
<1>3. CInteger = (CPrefix \o Zeros(CWidth - Len(CPrefix) - Len(CDigits))) \o CDigits
  BY <1>1, Zenon DEF CInteger, Zeros
<1>4. CWidth <= PRINTF_NTOA_BUFFER_SIZE
  <2>1. ~(CWidth > PRINTF_NTOA_BUFFER_SIZE)
    BY <1>2, CasesIs DEF TooLong
  <2>2. PRINTF_NTOA_BUFFER_SIZE \in Nat
    BY PrintfAssumption
  <2> QED
    BY <1>1, <2>1, <2>2
<1>5. "LEFT" \notin g /\ "ZEROPAD" \in g /\ "PRECISION" \notin g
  <2>1. Agrees(g)
    BY IntegerFacts
  <2> QED
    BY <2>1 DEF Agrees
<1>6. IsText(d) /\ Len(d) \in Nat /\ Reverse(d) = PlainDigits
  BY LoopAgrees
<1>7. Len(d) = Len(PlainDigits)
  BY <1>6, ReverseIs
<1> QED
  BY <1>1, <1>2, <1>3, <1>4, <1>5, <1>6, <1>7

\* At the right, behind zeros and without a prefix.
LEMMA IntegerZeros ==
  ASSUME IntegerInv, ~CLeft, Has("0"), directive.prec.kind = "none",
         NEW negative \in BOOLEAN, negative <=> (CSigned /\ CNum < 0),
         NEW f, f = IntFlags(directive.conv), "HASH" \notin Hashless(CMag, f)
  PROVE  ntoa(CMag, negative, CBase, precision, width, f) = CInteger
<1> DEFINE g == Hashless(CMag, f)
           d == Loop(CMag, CBase, f)
           b == CBase
           s == Sign(negative, g)
           P == CPrefix
           T == PlainDigits
           room == width - Len(s)
           k == CWidth - Len(P) - Len(T)
<1>1. /\ Agrees(g)
      /\ ntoa(CMag, negative, b, precision, width, f)
           = ntoa_format(d, negative, b, precision, width, g)
      /\ Len(T) + Len(Radix(b, g)) + Len(s) <= PRINTF_NTOA_BUFFER_SIZE
  BY IntegerFacts
<1>2. /\ CInteger = (P \o Zeros(CWidth - Len(P) - Len(CDigits))) \o CDigits
      /\ CWidth <= PRINTF_NTOA_BUFFER_SIZE
      /\ "LEFT" \notin g /\ "ZEROPAD" \in g /\ "PRECISION" \notin g
      /\ IsText(d) /\ Reverse(d) = T /\ Len(d) = Len(T) /\ Len(d) \in Nat
      /\ precision = 0 /\ width = CWidth /\ width \in Nat
  BY ZeroFacts
<1>3. Radix(b, g) = <<>> /\ Len(Radix(b, g)) = 0
  BY RadixIs, NoText
<1>4. CDigits = T /\ IsText(T)
  BY <1>1, CDigitsIs
<1>5. P = s /\ IsText(s) /\ Len(s) \in Nat
  <2>1. /\ CSigned => P = s
        /\ ~CSigned => s = <<>>
        /\ ~CSigned /\ b # 8 => P = Radix(b, g)
        /\ b = 8 => P = <<>>
    BY <1>1, CPrefixIs
  <2>2. IsText(s)
    BY SignIs
  <2>3. Len(s) \in Nat
    BY <2>2, TextIs
  <2> HIDE DEF P, s, b
  <2> QED
    BY <1>3, <2>1, <2>2, <2>3
<1>6. CInteger = (P \o Zeros(k)) \o T
  BY <1>2, <1>4
<1> HIDE DEF g, d, b, s, T, P
<1>7. room \in Int /\ room - Len(T) = k /\ k \in Int
  BY <1>2, <1>5
<1>8. Len(d) + Len(s) <= PRINTF_NTOA_BUFFER_SIZE
  <2>1. Len(T) + 0 = Len(T) /\ Len(T) \in Nat
    BY <1>2
  <2> QED
    BY <1>1, <1>2, <1>3, <2>1
<1>9. ntoa_format(d, negative, b, 0, width, g) = Body(Filled(Reverse(d), room), negative, b, g)
  <2>1. "HASH" \notin g
    BY DEF g
  <2>2. room = width - Len(Sign(negative, g))
    BY DEF s
  <2>3. Len(d) + Len(Sign(negative, g)) <= PRINTF_NTOA_BUFFER_SIZE
    BY <1>8 DEF s
  <2>4. width <= PRINTF_NTOA_BUFFER_SIZE
    BY <1>2
  <2> HIDE DEF room
  <2> QED
    <3>1. IsText(d) /\ width \in Nat /\ "LEFT" \notin g /\ "ZEROPAD" \in g
      BY <1>2
    <3> QED
      BY <2>1, <2>2, <2>3, <2>4, <3>1, FormatZeros
<1>10. Filled(T, room) = Zeros(k) \o T
  BY <1>7 DEF Filled
<1> HIDE DEF room, k
<1>11. IsText(Zeros(k))
  BY <1>7, ZerosIs
<1>12. (P \o Zeros(k)) \o T = P \o (Zeros(k) \o T)
  BY <1>4, <1>5, <1>11, Associated
<1>13. <<>> \o (Zeros(k) \o T) = Zeros(k) \o T
  <2> DEFINE y == Zeros(k) \o T
  <2>1. IsText(y)
    BY <1>4, <1>11, Chained
  <2> HIDE DEF y
  <2>2. <<>> \o y = y
    BY <2>1, NothingChained
  <2> QED
    BY <2>2 DEF y
<1>14. Body(Filled(Reverse(d), room), negative, b, g) = P \o (Zeros(k) \o T)
  BY <1>2, <1>3, <1>5, <1>10, <1>13 DEF Body, s
<1> QED
  BY <1>1, <1>2, <1>6, <1>9, <1>12, <1>14 DEF b

\* At the right, behind zeros and a prefix.
LEMMA IntegerHash ==
  ASSUME IntegerInv, ~CLeft, Has("0"), directive.prec.kind = "none",
         NEW negative \in BOOLEAN, negative <=> (CSigned /\ CNum < 0),
         NEW f, f = IntFlags(directive.conv), "HASH" \in Hashless(CMag, f)
  PROVE  ntoa(CMag, negative, CBase, precision, width, f) = CInteger
<1> DEFINE g == Hashless(CMag, f)
           d == Loop(CMag, CBase, f)
           b == CBase
           P == CPrefix
           C == CDigits
           T == PlainDigits
           r == Radix(b, g)
           left == width - Len(r)
           k == left - Len(T)
           o == <<"0">>
<1>1. /\ Agrees(g)
      /\ ntoa(CMag, negative, b, precision, width, f)
           = ntoa_format(d, negative, b, precision, width, g)
      /\ Len(T) + Len(r) + Len(Sign(negative, g)) <= PRINTF_NTOA_BUFFER_SIZE
      /\ "HASH" \in g /\ "PRECISION" \notin g =>
              precision = 0 /\ Len(d) >= 1 /\ Len(d) = Len(CNumeral) /\ Len(d) # width
  BY IntegerFacts
<1>2. /\ CInteger = (P \o Zeros(CWidth - Len(P) - Len(C))) \o C
      /\ CZeroFills /\ CWidth <= PRINTF_NTOA_BUFFER_SIZE
      /\ "LEFT" \notin g /\ "ZEROPAD" \in g /\ "PRECISION" \notin g
      /\ IsText(d) /\ Reverse(d) = T /\ Len(d) = Len(T) /\ Len(d) \in Nat
      /\ precision = 0 /\ width = CWidth /\ width \in Nat
  BY ZeroFacts
<1>3. "HASH" \in g /\ Len(d) >= 1 /\ Len(d) = Len(CNumeral) /\ Len(d) # width
  BY <1>1, <1>2
<1>4. Has("#") /\ b # 10 /\ ("PLUS" \in g => CSigned) /\ ("SPACE" \in g => CSigned)
  BY <1>1, <1>3, Zenon DEF Agrees
<1>5. ~CSigned
  BY <1>4, BaseIs DEF IntegerInv
<1>6. negative \in BOOLEAN /\ ~negative /\ "PLUS" \notin g /\ "SPACE" \notin g
  BY <1>4, <1>5
<1>7. Sign(negative, g) = <<>> /\ Len(Sign(negative, g)) = 0
  BY <1>6, NoText DEF Sign
<1>8. ~PrefixInField
  BY CasesIs
<1>9. /\ ~(CWidth > Len(CNumeral) /\ b = 2)
      /\ ~(CWidth = Len(CNumeral) + 1 /\ b = 16)
  BY <1>2, <1>4, <1>8, Zenon DEF PrefixInField
<1>10. (b = 2 => width <= Len(d)) /\ (b = 16 => width # Len(d) + 1)
  <2> HIDE DEF b, d
  <2>1. CWidth \in Nat /\ Len(CNumeral) \in Nat
    BY <1>2, <1>3
  <2> QED
    BY <1>2, <1>3, <1>9, <2>1
<1>11. IsText(r) /\ Len(r) \in Nat
  <2>1. IsText(r)
    BY RadixIs
  <2> QED
    BY <2>1, TextIs
<1>12. IsText(T) /\ (b = 8 => C = o \o T) /\ (b # 8 => C = T)
  BY <1>1, <1>3, CDigitsIs
<1>13. (b # 8 => P = r) /\ (b = 8 => P = <<>> /\ r = o)
  BY <1>1, <1>3, <1>5, CPrefixIs
<1>14. IsText(o) /\ Len(o) = 1
  BY OneText
<1> HIDE DEF g, d, b, r, T, P, C, o
<1>15. left \in Int /\ k \in Int /\ left = width - Len(r)
  BY <1>2, <1>11
<1>16. Len(d) + Len(r) <= PRINTF_NTOA_BUFFER_SIZE
  <2>1. Len(T) + Len(r) + 0 = Len(T) + Len(r)
    BY <1>2, <1>11
  <2> QED
    BY <1>1, <1>2, <1>7, <2>1
<1>17. ntoa_format(d, negative, b, 0, width, g) = Body(Filled(Reverse(d), left), negative, b, g)
  <2>1. left = width - Len(Radix(b, g)) /\ Len(d) + Len(Radix(b, g)) <= PRINTF_NTOA_BUFFER_SIZE
    BY <1>15, <1>16 DEF r
  <2>2. width <= PRINTF_NTOA_BUFFER_SIZE
    BY <1>2
  <2> HIDE DEF left
  <2> QED
    <3>1. /\ IsText(d) /\ width \in Nat /\ "LEFT" \notin g /\ "ZEROPAD" \in g
          /\ "PRECISION" \notin g
      BY <1>2
    <3> QED
      BY <1>3, <1>6, <1>10, <2>1, <2>2, <3>1, FormatHashZeros
<1>18. Filled(T, left) = Zeros(k) \o T
  BY DEF Filled
<1>19. CInteger = r \o (Zeros(k) \o T)
  <2>1. CASE b # 8
    <3>1. P = r /\ C = T
      BY <1>12, <1>13, <2>1
    <3>2. CWidth - Len(P) - Len(C) = k
      BY <1>2, <1>11, <3>1
    <3> HIDE DEF k
    <3>3. IsText(Zeros(k))
      BY <1>15, ZerosIs
    <3>4. (r \o Zeros(k)) \o T = r \o (Zeros(k) \o T)
      <4>1. IsText(r) /\ IsText(T)
        BY <1>11, <1>12
      <4> QED
        BY <3>3, <4>1, Associated
    <3> QED
      BY <1>2, <3>1, <3>2, <3>4
  <2>2. CASE b = 8
    <3>1. P = <<>> /\ r = o /\ C = o \o T
      BY <1>12, <1>13, <2>2
    <3>2. Len(P) = 0 /\ Len(r) = 1 /\ Len(C) = 1 + Len(T) /\ IsText(C)
      <4>1. IsText(o \o T) /\ Len(o \o T) = Len(o) + Len(T)
        BY <1>12, <1>14, Chained
      <4>2. Len(<<>>) = 0
        BY NoText
      <4> QED
        BY <1>14, <3>1, <4>1, <4>2
    <3>3. CWidth - Len(P) - Len(C) = k
      <4>1. Len(T) \in Nat /\ width = CWidth /\ width \in Nat
        BY <1>2
      <4> QED
        BY <3>2, <4>1
    <3> HIDE DEF k
    <3>4. IsText(Zeros(k))
      BY <1>15, ZerosIs
    <3>5. P \o Zeros(k) = Zeros(k)
      BY <3>1, <3>4, NothingChained
    <3>6. Zeros(k) \o (o \o T) = o \o (Zeros(k) \o T)
      BY <1>12, <1>15, ZeroMoves DEF o
    <3> QED
      BY <1>2, <3>1, <3>3, <3>5, <3>6
  <2> QED
    BY <2>1, <2>2
<1> HIDE DEF k, left
<1>20. Body(Filled(Reverse(d), left), negative, b, g) = r \o (Zeros(k) \o T)
  <2> DEFINE y == Zeros(k) \o T
             x == r \o y
  <2>1. IsText(Zeros(k))
    BY <1>15, ZerosIs
  <2>2. IsText(y)
    BY <1>12, <2>1, Chained
  <2>3. Filled(Reverse(d), left) = y
    BY <1>2, <1>18
  <2> HIDE DEF y
  <2>4. IsText(x)
    BY <1>11, <2>2, Chained
  <2>5. Body(y, negative, b, g) = <<>> \o x
    BY <1>7 DEF Body, r
  <2> HIDE DEF x
  <2>6. Body(y, negative, b, g) = x
    BY <2>4, <2>5, NothingChained
  <2> QED
    BY <2>3, <2>6 DEF x, y
<1> QED
  BY <1>1, <1>2, <1>17, <1>19, <1>20 DEF b

\* An integer is written as C writes it.
LEMMA IntegerIs ==
  ASSUME IntegerInv, NEW negative \in BOOLEAN, negative <=> (CSigned /\ CNum < 0),
         NEW f, f = IntFlags(directive.conv)
  PROVE  ntoa(CMag, negative, CBase, precision, width, f) = CText
<1>1. CText = CInteger
  <2>1. directive.conv \notin {"s", "c", "%", "p"}
    BY DEF IntegerInv, IntegerConvs
  <2> QED
    BY <2>1, Zenon DEF CText
<1>2. ntoa(CMag, negative, CBase, precision, width, f) = CInteger
  <2>1. CASE CLeft
    BY <2>1, IntegerLeft
  <2>2. CASE ~CLeft /\ ~(Has("0") /\ directive.prec.kind = "none")
    BY <2>2, IntegerRight
  <2>3. CASE ~CLeft /\ Has("0") /\ directive.prec.kind = "none" /\ "HASH" \notin Hashless(CMag, f)
    BY <2>3, IntegerZeros
  <2>4. CASE ~CLeft /\ Has("0") /\ directive.prec.kind = "none" /\ "HASH" \in Hashless(CMag, f)
    BY <2>4, IntegerHash
  <2> QED
    BY <2>1, <2>2, <2>3, <2>4
<1> QED
  BY <1>1, <1>2

\* What a conversion gives to out: C's text where the two agree.
Gives == \E s : Emit(s) /\ (~Differs => s = CText)

\* What is left to show of an integer conversion: its number is C's.
LEMMA GivesInteger ==
  ASSUME SpecifierInv, directive.conv \in IntegerConvs,
         NEW negative \in BOOLEAN, negative <=> (CSigned /\ CNum < 0),
         NEW m, m = CMag, NEW b, b = CBase, NEW c, c = directive.conv,
         Emit(ntoa(m, negative, b, precision, width, IntFlags(c)))
  PROVE  Gives
<1> DEFINE s == ntoa(m, negative, b, precision, width, IntFlags(c))
<1>1. ASSUME ~Differs PROVE s = CText
  <2>1. IntegerInv
    BY <1>1 DEF IntegerInv
  <2> DEFINE f == IntFlags(directive.conv)
  <2>2. f = IntFlags(directive.conv)
    OBVIOUS
  <2> HIDE DEF f
  <2>3. ntoa(CMag, negative, CBase, precision, width, f) = CText
    BY <2>1, <2>2, IntegerIs
  <2> QED
    BY <2>2, <2>3
<1>2. Emit(s)
  OBVIOUS
<1> HIDE DEF s
<1> QED
  BY <1>1, <1>2 DEF Gives

\* d and i.
LEMMA SignedGives ==
  ASSUME SpecifierInv, SignedInt
  PROVE  Gives
<1> DEFINE Said(v) == Emit(ntoa(Unsigned(IF v > 0 THEN v ELSE 0 - v, Wide), v < 0, 10,
                                precision, width, IntFlags(Next1)))
           n == CNum
           m == Unsigned(IF n > 0 THEN n ELSE 0 - n, Wide)
           c == Next1
           negative == n < 0
<1>1. Next1 = directive.conv /\ Head(args) = value
  BY SpecifierIs
<1>2. directive.conv \in {"d", "i"} /\ directive.conv \in IntegerConvs
  <2>1. Next1 \in {"d", "i"}
    BY DEF SignedInt
  <2> QED
    BY <1>1, <2>1 DEF IntegerConvs
<1>3. CSigned /\ CBase = 10
  BY <1>2, BaseIs DEF CSigned
<1>4. Said(Signed(Head(args), ArgBits))
  BY DEF SignedInt
<1> HIDE DEF Said
<1>5. Signed(Head(args), ArgBits) = n
  <2>1. ArgBits = CBits
    BY <1>2, BitsIs
  <2> QED
    BY <1>1, <1>3, <2>1 DEF CNum
<1>6. Said(n)
  BY <1>4, <1>5
<1>7. m = CMag
  <2>1. n \in Int /\ CMag \in Nat /\ CMag < Power(2, Wide) /\ CMag = (IF n < 0 THEN -n ELSE n)
    BY <1>2, NumberIs DEF CMag
  <2> HIDE DEF n
  <2>2. (IF n > 0 THEN n ELSE 0 - n) = CMag
    BY <2>1
  <2>3. Power(2, Wide) \in Nat \ {0}
    <3>1. Wide \in Nat /\ 2 \in Nat \ {0}
      BY <1>2, BitsIs
    <3> QED
      BY <3>1, PowerIs
  <2>4. CMag % Power(2, Wide) = CMag
    <3>1. CMag \in Int /\ CMag >= 0
      BY <2>1
    <3> QED
      BY <2>1, <2>3, <3>1, Remainder
  <2> QED
    BY <2>2, <2>4 DEF Unsigned
<1>8. Emit(ntoa(m, negative, 10, precision, width, IntFlags(c)))
  BY <1>6, Zenon DEF Said
<1>9. negative \in BOOLEAN /\ (negative <=> (CSigned /\ CNum < 0))
  BY <1>3
<1> DEFINE ten == 10
<1>10. ten = CBase /\ c = directive.conv
  BY <1>1, <1>3
<1>11. Emit(ntoa(m, negative, ten, precision, width, IntFlags(c)))
  BY <1>8
<1> HIDE DEF m, negative, ten, c, n
<1> QED
  BY <1>2, <1>7, <1>9, <1>10, <1>11, GivesInteger

\* u, x, X, o and b.
LEMMA UnsignedGives ==
  ASSUME SpecifierInv, UnsignedInt
  PROVE  Gives
<1> DEFINE u == Unsigned(Head(args), ArgBits)
           b == Base(Next1)
           c == Next1
           negative == FALSE
<1>1. Next1 = directive.conv /\ Head(args) = value
  BY SpecifierIs
<1>2. directive.conv \in {"u", "x", "X", "o", "b"} /\ directive.conv \in IntegerConvs
  <2>1. Next1 \in {"u", "x", "X", "o", "b"}
    BY DEF UnsignedInt
  <2> QED
    BY <1>1, <2>1 DEF IntegerConvs
<1>3. ~CSigned /\ CBase = b
  BY <1>1, <1>2 DEF CSigned, CBase
<1>4. u = CMag
  <2>1. ArgBits = CBits
    BY <1>2, BitsIs
  <2>2. CNum = Unsigned(value, CBits)
    BY <1>3 DEF CNum
  <2>3. ~(CNum < 0)
    BY <1>3, NumberIs
  <2>4. CMag = CNum
    BY <2>3 DEF CMag
  <2> QED
    BY <1>1, <2>1, <2>2, <2>4
<1>5. negative \in BOOLEAN /\ (negative <=> (CSigned /\ CNum < 0))
  BY <1>3
<1>6. Emit(ntoa(u, negative, b, precision, width, IntFlags(c)))
  BY Zenon DEF UnsignedInt
<1> HIDE DEF u, negative, b, c
<1>7. c = directive.conv
  BY <1>1 DEF c
<1> QED
  BY <1>2, <1>3, <1>4, <1>5, <1>6, <1>7, GivesInteger

\* Both pad the same.
LEMMA PaddedIs ==
  ASSUME SpecifierInv, NEW s
  PROVE  Padded(s) = CPad(s)
<1>1. ("LEFT" \in flags <=> CLeft) /\ width = CWidth
  BY WidthIs DEF SpecifierInv, AtSpecifier, FlagsRead
<1> QED
  BY <1>1, Zenon DEF Padded, CPad

\* c.
LEMMA CharGives ==
  ASSUME SpecifierInv, Char
  PROVE  Gives
<1> DEFINE s == Padded(<<"c">>)
<1>1. directive.conv = "c"
  BY SpecifierIs DEF Char
<1>2. CText = CPad(<<"c">>)
  BY <1>1, Zenon DEF CText
<1>3. s = CText
  BY <1>2, PaddedIs
<1>4. Emit(s)
  BY DEF Char
<1> HIDE DEF s
<1> QED
  BY <1>3, <1>4 DEF Gives

\* s, and how much of the text a precision lets through.
LEMMA StringGives ==
  ASSUME SpecifierInv, String
  PROVE  Gives
<1> DEFINE shown == IF "PRECISION" \in flags /\ precision < Len(str)
                    THEN SubSeq(str, 1, precision) ELSE str
           cut == IF CPrec >= 0 /\ CPrec < Len(str) THEN SubSeq(str, 1, CPrec) ELSE str
           s == Padded(shown)
<1>1. directive.conv = "s"
  BY SpecifierIs DEF String
<1>2. Emit(s)
  BY Zenon DEF String
<1>3. CText = CPad(cut)
  BY <1>1, Zenon DEF CText
<1>4. ASSUME ~Differs PROVE shown = cut
  <2>1. ~(directive.prec.kind = "star" /\ directive.prec.n < 0 /\ str # <<>>)
    BY <1>1, <1>4, Zenon DEF Differs, NegativePrecision
  <2>2. /\ CPrec \in Int /\ precision \in Nat
        /\ (CPrec = -1 /\ precision = 0) \/ (CPrec \in Nat /\ precision = CPrec
                                              /\ directive.prec.kind # "none")
        /\ CPrec = -1 /\ directive.prec.kind # "none" =>
             directive.prec.kind = "star" /\ directive.prec.n < 0
        /\ "PRECISION" \in flags <=> directive.prec.kind # "none"
    BY PrecisionIs
  <2>3. CASE CPrec = -1 /\ "PRECISION" \in flags
    <3>1. str = <<>> /\ precision = 0
      BY <2>1, <2>2, <2>3
    <3>2. Len(str) = 0
      BY <3>1, NoText
    <3>3. ~(precision < Len(str)) /\ ~(CPrec >= 0)
      BY <2>3, <3>1, <3>2
    <3> QED
      BY <3>3
  <2>4. CASE CPrec = -1 /\ "PRECISION" \notin flags
    <3>1. ~(CPrec >= 0)
      BY <2>4
    <3> QED
      BY <2>4, <3>1
  <2>5. CASE CPrec # -1
    <3>1. precision = CPrec /\ CPrec >= 0 /\ "PRECISION" \in flags
      BY <2>2, <2>5
    <3> QED
      BY <3>1
  <2> QED
    BY <2>3, <2>4, <2>5
<1>5. s = CPad(shown)
  <2> HIDE DEF shown
  <2> QED
    BY PaddedIs
<1> HIDE DEF s, shown, cut
<1> QED
  BY <1>2, <1>3, <1>4, <1>5 DEF Gives

\* A percent sign.
LEMMA ItselfGives ==
  ASSUME SpecifierInv, Itself
  PROVE  Gives
<1> DEFINE s == <<Next1>>
<1>1. Next1 = directive.conv
  BY SpecifierIs
<1>2. directive.conv \notin {"d", "i", "u", "x", "X", "o", "b", "c", "s", "p", NUL}
  BY <1>1 DEF Itself
<1>3. directive.conv = "%"
  BY <1>2 DEF SpecifierInv, Defined, IntegerConvs
<1>4. CText = <<"%">>
  BY <1>3, Zenon DEF CText
<1>5. Emit(s)
  BY DEF Itself
<1>6. s = CText
  BY <1>1, <1>3, <1>4
<1> HIDE DEF s
<1> QED
  BY <1>5, <1>6 DEF Gives

\* A pointer has none of C's flags but -, and no precision.
LEMMA PointerIs ==
  ASSUME SpecifierInv, directive.conv = "p"
  PROVE  /\ ~Has("0") /\ ~Has("#") /\ ~Has("+") /\ ~Has(" ")
         /\ directive.prec.kind = "none" /\ CPrec = -1 /\ precision = 0
         /\ CBase = 16 /\ ~CSigned /\ CBits = LongBits
<1>1. Range(directive.flags) \subseteq {"-"} /\ directive.prec.kind = "none"
  BY DEF SpecifierInv, Defined
<1>2. ~Has("0") /\ ~Has("#") /\ ~Has("+") /\ ~Has(" ")
  BY <1>1 DEF Has
<1>3. CPrec = -1 /\ precision = 0
  BY <1>1, PrecisionIs
<1>4. CBase = 16 /\ ~CSigned /\ CBits = LongBits
  BY BaseIs, BitsIs
<1> QED
  BY <1>1, <1>2, <1>3, <1>4

\* p.
LEMMA PointerGives ==
  ASSUME SpecifierInv, Pointer
  PROVE  Gives
<1> DEFINE f == flags \cup {"ZEROPAD", "UPPERCASE"}
           q == LongBits \div 4
           u == Unsigned(Head(args), LongBits)
           negative == FALSE
           s == ntoa(u, negative, 16, precision, q, f)
           d == Loop(CMag, 16, f)
           g == Hashless(CMag, f)
           N == CNumeral
           B == PRINTF_NTOA_BUFFER_SIZE
<1>1. directive.conv = "p" /\ Head(args) = value
  BY SpecifierIs DEF Pointer
<1>2. Emit(s)
  BY Zenon DEF Pointer
<1>3. /\ ~Has("0") /\ ~Has("#") /\ ~Has("+") /\ ~Has(" ")
      /\ directive.prec.kind = "none" /\ CPrec = -1 /\ precision = 0
      /\ CBase = 16 /\ ~CSigned /\ CBits = LongBits
  BY <1>1, PointerIs
<1>4. u = CMag
  <2>1. CNum = Unsigned(value, CBits)
    BY <1>3 DEF CNum
  <2>2. ~(CNum < 0)
    BY <1>3, NumberIs
  <2>3. CMag = CNum
    BY <2>2 DEF CMag
  <2> QED
    BY <1>1, <1>3, <2>1, <2>3
<1>5. /\ "LEFT" \in flags <=> CLeft
      /\ "PRECISION" \notin flags
      /\ "HASH" \notin flags /\ "PLUS" \notin flags /\ "SPACE" \notin flags
  BY <1>3 DEF SpecifierInv, AtSpecifier, FlagsRead, PrecRead
<1>6. /\ "LEFT" \in f <=> CLeft
      /\ "PRECISION" \notin f /\ "HASH" \notin f /\ "PLUS" \notin f /\ "SPACE" \notin f
      /\ "ZEROPAD" \in f /\ "UPPERCASE" \in f
  BY <1>5
<1> HIDE DEF f
<1>7. /\ "LEFT" \in g <=> CLeft
      /\ "HASH" \notin g /\ "PLUS" \notin g /\ "SPACE" \notin g /\ "ZEROPAD" \in g
  BY <1>6, HashlessIs
<1>8. CMag \in Nat /\ CMag < Power(2, LongBits) /\ 16 \in Nat \ {0, 1}
  BY NumberIs
<1>9. IsText(N) /\ N = Numeral(CMag, 16, Chars(f)) /\ Len(N) = Places(CMag, 16) /\ Len(N) \in Nat
  <2>1. "UPPERCASE" \in f <=> directive.conv \in {"X", "p"}
    BY <1>1, <1>6
  <2>2. directive.conv \in IntegerConvs \cup {"p"} /\ ~(CPrec = 0 /\ CMag = 0)
    <3>1. directive.conv \in IntegerConvs \cup {"p"}
      BY <1>1
    <3>2. CPrec # 0
      <4>1. CPrec = -1
        BY <1>3, Zenon
      <4> QED
        BY <4>1
    <3> QED
      BY <3>1, <3>2
  <2> QED
    BY <1>3, <2>1, <2>2, CNumeralIs
<1>10. IsText(d) /\ Reverse(d) = N /\ Len(d) = Len(N) /\ Len(d) \in Nat
  BY <1>6, <1>8, <1>9, LoopIs
<1>11. q \in Nat /\ q <= B /\ B \in Nat
  BY PrintfAssumption
<1> HIDE DEF q
<1>12. width = CWidth /\ CWidth \in Nat
  BY WidthIs
<1>13. ASSUME ~Differs PROVE s = CText
  <2>1. ~TooLong /\ ~PointerField
    BY <1>1, <1>13, Zenon DEF Differs
  <2>2. CWidth <= q /\ (CLeft => Len(N) >= q)
    <3>1. ~(CWidth > q) /\ ~(CLeft /\ Len(N) < q)
      BY <1>1, <2>1, Zenon DEF PointerField, q
    <3> HIDE DEF N
    <3> QED
      BY <1>9, <1>11, <1>12, <3>1
  <2>3. Len(N) <= B
    <3>1. CPrefix = <<>>
      <4>1. 16 # 2
        OBVIOUS
      <4> QED
        BY <1>3, <4>1, Zenon DEF CPrefix
    <3>2. CDigits = N
      <4>1. CPrec - Len(N) <= 0 /\ CPrec - Len(N) \in Int
        <5>1. CPrec = -1 /\ Len(N) \in Nat
          BY <1>3, <1>9
        <5> HIDE DEF N
        <5> QED
          BY <5>1
      <4> DEFINE k == CPrec - Len(N)
      <4>2. k \in Int /\ k <= 0
        BY <4>1
      <4> HIDE DEF k
      <4>3. Repeated("0", k) = <<>>
        BY <4>2, RepeatedNone
      <4>4. Repeated("0", k) \o N = N
        BY <1>9, <4>3, NothingChained
      <4> QED
        BY <1>3, <4>4 DEF CDigits, k
    <3>3. ~(Len(CPrefix) + Len(CDigits) > B)
      BY <2>1 DEF TooLong
    <3>4. Len(CPrefix) = 0 /\ Len(CDigits) = Len(N)
      BY <3>1, <3>2, NoText
    <3> HIDE DEF N, B
    <3> QED
      BY <1>9, <1>11, <3>3, <3>4
  <2>4. s = ntoa_format(d, negative, 16, 0, q, g)
    <3>1. Places(CMag, 16) <= B \/ ("PRECISION" \in f /\ CMag = 0)
      BY <1>9, <2>3
    <3> DEFINE b == 16
    <3>2. b \in Nat \ {0, 1} /\ b = 16
      OBVIOUS
    <3>30. Places(CMag, b) <= B \/ ("PRECISION" \in f /\ CMag = 0)
      BY <3>1
    <3> HIDE DEF b, negative
    <3>3. ntoa(CMag, negative, b, precision, q, f)
            = ntoa_format(Loop(CMag, b, f), negative, b, precision, q, Hashless(CMag, f))
      BY <1>8, <3>30, <3>2, NtoaIs
    <3> QED
      BY <1>3, <1>4, <3>2, <3>3
  <2>5. Sign(negative, g) = <<>> /\ Len(Sign(negative, g)) = 0
    BY <1>7, NoText DEF Sign
  <2>6. Radix(16, g) = <<>> /\ Len(Radix(16, g)) = 0
    BY <1>7, RadixIs, NoText
  <2>7. ASSUME NEW t, IsText(t) PROVE Body(t, negative, 16, g) = t
    BY <2>5, <2>6, <2>7, NothingChained DEF Body
  <2>8. negative \in BOOLEAN
    OBVIOUS
  <2> DEFINE z == Filled(N, q)
  <2>9. CText = CPad(z)
    BY <1>1, Zenon DEF CText, Filled, Zeros, q
  <2>10. IsText(z) /\ Len(z) = (IF Len(N) < q THEN q ELSE Len(N)) /\ (q <= Len(N) => z = N)
    <3>1. q \in Int
      BY <1>11
    <3> QED
      BY <1>9, <3>1, FilledIs
  <2> HIDE DEF z, s, d, g, N, B, negative
  <2>11. CWidth <= Len(z) /\ CWidth \in Int
    BY <1>9, <1>11, <1>12, <2>2, <2>10
  <2>12. CPad(z) = z
    BY <2>10, <2>11, CPadIs, NoPad
  <2>13. Len(d) + Len(Sign(negative, g)) <= B
         /\ Len(d) + Len(Radix(16, g)) + Len(Sign(negative, g)) <= B
    BY <1>10, <2>3, <2>5, <2>6
  <2>14. s = z
    <3>1. CASE CLeft
      <4>1. "LEFT" \in g /\ q \in Nat /\ 0 \in Nat
        BY <1>7, <1>11, <3>1
      <4>2. "HASH" \in g /\ "PRECISION" \notin g => Len(d) # 0 /\ Len(d) # q
        BY <1>7
      <4>3. ntoa_format(d, negative, 16, 0, q, g)
              = Behind(Body(Reverse(d), negative, 16, g), q)
        BY <1>10, <2>8, <2>13, <4>1, <4>2, FormatLeft DEF B
      <4>4. Body(Reverse(d), negative, 16, g) = N
        BY <1>9, <1>10, <2>7
      <4>5. q <= Len(N) /\ q \in Int
        BY <1>9, <1>11, <2>2, <3>1
      <4>6. Behind(N, q) = N
        BY <1>9, <4>5, NoPad
      <4> QED
        BY <2>4, <2>10, <4>3, <4>4, <4>5, <4>6
    <3>2. CASE ~CLeft
      <4> DEFINE room == q - Len(Sign(negative, g))
      <4>1. "LEFT" \notin g /\ "ZEROPAD" \in g /\ "HASH" \notin g /\ q \in Nat
        BY <1>7, <1>11, <3>2
      <4>2. room = q
        BY <1>11, <2>5
      <4>3. room = q - Len(Sign(negative, g))
        OBVIOUS
      <4> HIDE DEF room
      <4>4. q <= B
        BY <1>11
      <4>5. ntoa_format(d, negative, 16, 0, q, g)
              = Body(Filled(Reverse(d), room), negative, 16, g)
        BY <1>10, <2>8, <2>13, <4>1, <4>3, <4>4, FormatZeros DEF B
      <4>6. Filled(Reverse(d), room) = z
        BY <1>10, <4>2 DEF z
      <4>7. Body(z, negative, 16, g) = z
        BY <2>7, <2>10
      <4> QED
        BY <2>4, <4>5, <4>6, <4>7
    <3> QED
      BY <3>1, <3>2
  <2> QED
    BY <2>9, <2>12, <2>14
<1> HIDE DEF s
<1> QED
  BY <1>2, <1>13 DEF Gives

\* Each conversion gives what C's printf gives, or is among the cases named.
LEMMA Conversions ==
  ASSUME SpecifierInv,
         SignedInt \/ UnsignedInt \/ Char \/ String \/ Pointer \/ Itself
  PROVE  Gives
BY SignedGives, UnsignedGives, CharGives, StringGives, PointerGives, ItselfGives

\* The conversion leads back to the text with the directive's field behind it.
LEMMA ReadsSpecifier ==
  ASSUME ReadsInv, Defined, UNCHANGED <<directive, value, str>>,
         SignedInt \/ UnsignedInt \/ Char \/ String \/ Pointer \/ Itself
  PROVE  stage' = "text" /\ AtText'
<1>1. stage = "specifier" /\ Converted
  BY DEF SignedInt, UnsignedInt, Char, String, Pointer, Itself, At
<1>2. SpecifierInv
  BY <1>1 DEF ReadsInv, SpecifierInv
<1>3. Gives
  BY <1>2, Conversions
<1>4. PICK s : Emit(s) /\ (~Differs => s = CText)
  BY <1>3 DEF Gives
<1> QED
  BY <1>1, <1>4, ReadsConverted

\* A step that changes nothing changes none of this.
LEMMA ReadsStays ==
  ASSUME ReadsInv, UNCHANGED vars
  PROVE  ReadsInv'
<1>1. UNCHANGED <<directive, value, str>>
  BY DEF vars, call
<1>2. UNCHANGED <<args, format, stage, flags, width, precision, text>>
  BY DEF vars, spec
<1>3. /\ CalledInv => CalledInv'
      /\ Defined' = Defined
      /\ Ending' = Ending /\ LengthPart' = LengthPart /\ AfterPoint' = AfterPoint
      /\ PrecPart' = PrecPart /\ WidthPart' = WidthPart
      /\ \A k : FlagsPart(k)' = FlagsPart(k)
      /\ PrecArgs' = PrecArgs /\ WidthArgs' = WidthArgs
      /\ CLeft' = CLeft /\ CWidth' = CWidth /\ ReadPrec' = ReadPrec
      /\ \A c : Has(c)' = Has(c)
  BY <1>1, SameCall
<1>4. Differs' = Differs /\ CText' = CText
  BY <1>1, SameResult
<1>5. Result => Result'
  BY <1>2, <1>4 DEF Result
<1>6. FlagsRead => FlagsRead'
  BY <1>2, <1>3 DEF FlagsRead
<1>7. PrecRead => PrecRead'
  BY <1>1, <1>2, <1>3 DEF PrecRead
<1>8. LengthRead => LengthRead'
  BY <1>1, <1>2 DEF LengthRead
<1>9. \A k : FlagsOfFirst(k) => FlagsOfFirst(k)'
  BY <1>1, <1>2 DEF FlagsOfFirst
<1>10. AtText => AtText'
  <2>1. FlagsPart(0)' = FlagsPart(0)
    BY <1>3
  <2> QED
    BY <1>2, <1>3, <1>5, <2>1 DEF AtText
<1>11. AtFlags => AtFlags'
  BY <1>1, <1>2, <1>3, <1>9 DEF AtFlags
<1>12. AtWidth => AtWidth'
  BY <1>1, <1>2, <1>3, <1>9 DEF AtWidth
<1>13. AtPrecision => AtPrecision'
  BY <1>2, <1>3, <1>6 DEF AtPrecision
<1>14. AtPrecisionValue => AtPrecisionValue'
  BY <1>1, <1>2, <1>3, <1>6 DEF AtPrecisionValue
<1>15. AtLength => AtLength'
  BY <1>1, <1>2, <1>3, <1>6, <1>7 DEF AtLength
<1>16. AtSpecifier => AtSpecifier'
  BY <1>1, <1>2, <1>3, <1>6, <1>7, <1>8 DEF AtSpecifier
<1> QED
  BY <1>2, <1>3, <1>5, <1>10, <1>11, <1>12, <1>13, <1>14, <1>15, <1>16 DEF ReadsInv

\* Every step of the walk.
LEMMA ReadsStep == ReadsInv /\ [Next]_vars => ReadsInv'
<1> SUFFICES ASSUME ReadsInv, [Next]_vars
             PROVE  ReadsInv'
  OBVIOUS
<1>1. UNCHANGED <<directive, value, str>>
  BY CallStays
<1>2. CalledInv
  BY DEF ReadsInv
<1>3. CASE ~Defined
  <2>1. CalledInv' /\ ~Defined'
    BY <1>1, <1>2, <1>3, SameCall
  <2> QED
    BY <2>1 DEF ReadsInv
<1>4. CASE Defined /\ Next
  <2>1. CASE Literal
    BY <1>1, <1>2, <1>4, <2>1, ReadsLiteral, Leads
  <2>2. CASE Percent
    BY <1>1, <1>2, <1>4, <2>2, ReadsPercent, Leads
  <2>3. CASE Flag
    BY <1>1, <1>2, <1>4, <2>3, ReadsFlag, Leads
  <2>4. CASE NoFlag
    BY <1>1, <1>2, <1>4, <2>4, ReadsNoFlag, Leads
  <2>5. CASE Width
    BY <1>1, <1>2, <1>4, <2>5, ReadsWidth, Leads
  <2>6. CASE NoPrecision
    BY <1>1, <1>2, <1>4, <2>6, ReadsNoPrecision, Leads
  <2>7. CASE Precision
    BY <1>1, <1>2, <1>4, <2>7, ReadsPrecision, Leads
  <2>8. CASE PrecisionValue
    BY <1>1, <1>2, <1>4, <2>8, ReadsPrecisionValue, Leads
  <2>9. CASE Length
    BY <1>1, <1>2, <1>4, <2>9, ReadsLength, Leads
  <2>10. CASE SignedInt \/ UnsignedInt \/ Char \/ String \/ Pointer \/ Itself
    BY <1>1, <1>2, <1>4, <2>10, ReadsSpecifier, Leads
  <2>11. CASE Terminate
    BY <1>1, <1>2, <1>4, <2>11, ReadsTerminate, Leads
  <2> QED
    BY <1>4, <2>1, <2>2, <2>3, <2>4, <2>5, <2>6, <2>7, <2>8, <2>9, <2>10, <2>11 DEF Next
<1>5. CASE UNCHANGED vars
  BY <1>5, ReadsStays
<1> QED
  BY <1>3, <1>4, <1>5

-----------------------------------------------------------------------------
(* The theorems.                                                           *)

\* All that the walk keeps for every directive, C's or not.
PrintfInv == WalkInv /\ SpecInv /\ BufferInv

\* What every step keeps: enough of the format and of the arguments is left,
\* the numbers are numbers, and the buffer holds a front of the text.
THEOREM PrintfInvariant == Spec => []PrintfInv
<1>1. Init => PrintfInv
  <2> SUFFICES ASSUME Init PROVE PrintfInv
    OBVIOUS
  <2>1. WalkInv
    BY CallersFormat
  <2>2. SpecInv
    BY DEF Init, SpecInv
  <2>3. IsText(<<>>) /\ Len(<<>>) = 0
    <3>1. <<>> \in Seq({}) /\ Len(<<>>) = 0
      OBVIOUS
    <3> QED
      BY <3>1, SeqIsText
  <2>4. CallInv
    <3>1. maxlen \in Nat /\ maxlen < Power(2, LongBits)
      BY PrintfAssumption DEF Init
    <3>2. str = <<>> \/ str \in Texts
      BY DEF Init
    <3> QED
      BY <2>3, <3>1, <3>2, PrintfAssumption DEF CallInv
  <2>5. StoredInv
    <3>1. text = <<>> /\ buffer = [k \in 0..(Cells - 1) |-> Untouched]
      BY DEF Init
    <3>2. \A k \in 0..(Cells - 1) : ~(k < Len(text))
      BY <2>3, <3>1
    <3> QED
      BY <2>3, <3>1, <3>2 DEF StoredInv
  <2>6. Truncated
    BY DEF Init, Truncated
  <2> QED
    BY <2>1, <2>2, <2>4, <2>5, <2>6 DEF PrintfInv, BufferInv
<1>2. PrintfInv /\ [Next]_vars => PrintfInv'
  BY Walks, Specifies, BufferKept DEF PrintfInv
<1> QED
  BY <1>1, <1>2, PTL DEF Spec

\* The walk stays within the format and the arguments, for every directive: a
\* width and a precision are numbers, taken from the format or from an argument
\* that was passed (logging.cpp 754-817).
THEOREM TypeCorrect == Spec => []TypeOK
<1>1. PrintfInv => TypeOK
  BY DEF PrintfInv, WalkInv, ArgsInv, SpecInv, BufferInv, StoredInv, TypeOK, FlagNames
<1> QED
  BY <1>1, PrintfInvariant, PTL

\* snprintf stores what there is room for and its NUL, and nothing else, for
\* every directive, argument and size (logging.cpp 197-203 and 1070).
THEOREM Truncates == Spec => []Truncated
<1>1. PrintfInv => Truncated
  BY DEF PrintfInv, BufferInv
<1> QED
  BY <1>1, PrintfInvariant, PTL

\* snprintf writes what C's printf writes: for every directive that C defines,
\* every argument and every length of the buffer, the text given to out is C's,
\* or the call is one of the six cases of Differs (logging.cpp 333-486 and
\* 720-1085).
THEOREM Formats == Spec => []FormatsAsC
<1>1. Init => ReadsInv
  BY ReadsInit
<1>2. ReadsInv /\ [Next]_vars => ReadsInv'
  BY ReadsStep
<1>3. ReadsInv => FormatsAsC
  BY DEF ReadsInv, Result, FormatsAsC
<1> QED
  BY <1>1, <1>2, <1>3, PTL DEF Spec

-----------------------------------------------------------------------------
(* The kernel's own calls.                                                 *)

\* The directives of the kernel's calls: %d (interrupts.cpp), %s and %#lX.
KernelUses ==
  /\ directive.width.kind = "none" /\ directive.prec.kind = "none"
  /\ \/ directive.conv = "d" /\ directive.flags = <<>> /\ directive.length = <<>>
     \/ directive.conv = "s" /\ directive.flags = <<>> /\ directive.length = <<>>
     \/ directive.conv = "X" /\ directive.flags = <<"#">> /\ directive.length = <<"l">>

\* The buffer of digits has room for what these can print, as with the 32 and 64
\* bits of this machine and the 32 characters of logging.cpp 20.
KernelFits ==
  /\ IntBits \div 2 + 2 <= PRINTF_NTOA_BUFFER_SIZE
  /\ LongBits \div 4 + 3 <= PRINTF_NTOA_BUFFER_SIZE

\* A power of a square.
LEMMA Squares ==
  ASSUME NEW c \in Nat \ {0}, NEW b \in Nat \ {0}, c * c <= b, NEW N \in Nat
  PROVE  Power(c, 2 * N) <= Power(b, N)
<1> DEFINE T == {k \in 0..N : Power(c, 2 * k) <= Power(b, k)}
<1>1. 0 \in T
  <2>1. Power(c, 0) = 1 /\ Power(b, 0) = 1
    BY PowerIs
  <2>2. 2 * 0 = 0
    OBVIOUS
  <2> QED
    BY <2>1, <2>2
<1>2. ASSUME NEW k \in 1..N, k - 1 \in T PROVE k \in T
  <2> DEFINE j == k - 1
             i == 2 * j
             x == Power(c, i)
             y == Power(b, j)
  <2>1. j \in Nat /\ j + 1 = k /\ i \in Nat /\ i + 1 \in Nat /\ (i + 1) + 1 = 2 * k
    OBVIOUS
  <2>2. x <= y
    BY <1>2
  <2> HIDE DEF j, i
  <2>3. x \in Nat /\ Power(c, i + 1) = c * x
    BY <2>1, PowerIs
  <2>4. Power(c, (i + 1) + 1) = c * Power(c, i + 1)
    BY <2>1, PowerIs
  <2>5. y \in Nat /\ Power(b, j + 1) = b * y
    BY <2>1, PowerIs
  <2>6. Power(c, 2 * k) = c * (c * x) /\ Power(b, k) = b * y
    BY <2>1, <2>3, <2>4, <2>5
  <2> HIDE DEF x, y
  <2>7. \A u, v, w, z \in Nat : u * u <= w /\ v <= z => u * (u * v) <= w * z
    <3>1. \A u, v, w, z \in Nat : u <= w /\ v <= z => u * v <= w * z
      BY Z3
    <3>2. \A u, v \in Nat : u * (u * v) = (u * u) * v /\ u * u \in Nat
      BY Z3
    <3> QED
      BY <3>1, <3>2
  <2>8. c * (c * x) <= b * y
    BY <2>2, <2>3, <2>5, <2>7
  <2> QED
    BY <2>6, <2>8
<1> HIDE DEF T
<1>3. \A k \in 0..N : k \in T
  BY <1>1, <1>2, InductTo
<1>4. N \in T
  BY <1>3
<1> QED
  BY <1>4 DEF T

\* Two bits make less than one decimal digit, and four are a hexadecimal one.
LEMMA PlacesFew ==
  ASSUME NEW bits \in Nat \ {0}, bits <= LongBits, NEW v \in Nat, v < Power(2, bits)
  PROVE  Places(v, 10) <= bits \div 2 + 1 /\ Places(v, 16) <= bits \div 4 + 1
<1> DEFINE p == Power(2, bits)
<1>1. bits \in Nat /\ 2 \in Nat \ {0} /\ 4 \in Nat \ {0} /\ 10 \in Nat \ {0, 1}
      /\ 16 \in Nat \ {0, 1} /\ LongBits \in Nat
  BY PrintfAssumption
<1>2. p \in Nat
  BY <1>1, PowerIs
<1>3. v < Power(2, LongBits)
  <2>1. p <= Power(2, LongBits) /\ Power(2, LongBits) \in Nat
    BY <1>1, PowerGrows, PowerIs
  <2> HIDE DEF p
  <2> QED
    BY <1>2, <2>1 DEF p
<1>4. ASSUME NEW m \in Nat, Power(2, m) <= v PROVE m < bits
  <2> SUFFICES ASSUME bits <= m PROVE FALSE
    BY <1>1
  <2>1. p <= Power(2, m) /\ Power(2, m) \in Nat
    BY <1>1, PowerGrows, PowerIs
  <2> HIDE DEF p
  <2> QED
    BY <1>2, <1>4, <2>1 DEF p
<1>5. Places(v, 10) <= bits \div 2 + 1
  <2> DEFINE n == Places(v, 10)
             k == n - 1
  <2>1. n \in 1..LongBits /\ (n = 1 \/ Power(10, k) <= v)
    BY <1>1, <1>3, PlacesIs
  <2> HIDE DEF n
  <2>2. k \in Nat /\ n = k + 1 /\ (n = 1 => k = 0)
    BY <1>1, <2>1
  <2> HIDE DEF k
  <2>3. 2 * k < bits \/ k = 0
    <3>1. SUFFICES ASSUME Power(10, k) <= v PROVE 2 * k < bits
      BY <2>1, <2>2
    <3>2. Power(2, 2 * k) <= Power(10, k)
      <4>1. 2 * 2 <= 10 /\ 10 \in Nat \ {0}
        OBVIOUS
      <4> QED
        BY <1>1, <2>2, <4>1, Squares
    <3>3. 2 * k \in Nat /\ Power(2, 2 * k) \in Nat /\ Power(10, k) \in Nat
      <4>1. 2 * k \in Nat /\ 10 \in Nat \ {0}
        BY <2>2
      <4> QED
        BY <1>1, <2>2, <4>1, PowerIs
    <3>4. Power(2, 2 * k) <= v
      BY <3>1, <3>2, <3>3
    <3> QED
      BY <1>4, <3>3, <3>4
  <2>4. \A q, d \in Nat : 2 * q < d \/ q = 0 => q <= d \div 2
    BY Z3
  <2>5. k <= bits \div 2 /\ bits \div 2 \in Nat
    BY <2>2, <2>3, <2>4
  <2> QED
    BY <2>2, <2>5 DEF n
<1>6. Places(v, 16) <= bits \div 4 + 1
  <2> DEFINE n == Places(v, 16)
             k == n - 1
             m == 2 * k
  <2>1. n \in 1..LongBits /\ (n = 1 \/ Power(16, k) <= v)
    BY <1>1, <1>3, PlacesIs
  <2> HIDE DEF n
  <2>2. k \in Nat /\ n = k + 1 /\ (n = 1 => k = 0) /\ m \in Nat /\ 2 * m = 4 * k
    BY <1>1, <2>1
  <2> HIDE DEF k, m
  <2>3. 4 * k < bits \/ k = 0
    <3>1. SUFFICES ASSUME Power(16, k) <= v PROVE 4 * k < bits
      BY <2>1, <2>2
    <3>2. Power(4, m) <= Power(16, k)
      <4>1. 4 * 4 <= 16 /\ 16 \in Nat \ {0}
        OBVIOUS
      <4>2. Power(4, 2 * k) <= Power(16, k)
        BY <1>1, <2>2, <4>1, Squares
      <4> QED
        BY <4>2 DEF m
    <3>3. Power(2, 2 * m) <= Power(4, m)
      <4>1. 2 * 2 <= 4
        OBVIOUS
      <4> QED
        BY <1>1, <2>2, <4>1, Squares
    <3>4. /\ 2 * m \in Nat /\ Power(2, 2 * m) \in Nat /\ Power(4, m) \in Nat
          /\ Power(16, k) \in Nat
      <4>1. 2 * m \in Nat /\ 16 \in Nat \ {0}
        BY <2>2
      <4> QED
        BY <1>1, <2>2, <4>1, PowerIs
    <3>5. Power(2, 2 * m) <= v
      BY <3>1, <3>2, <3>3, <3>4
    <3>6. 2 * m < bits
      BY <1>4, <3>4, <3>5
    <3> QED
      BY <2>2, <3>6
  <2>4. \A q, d \in Nat : 4 * q < d \/ q = 0 => q <= d \div 4
    BY Z3
  <2>5. k <= bits \div 4 /\ bits \div 4 \in Nat
    BY <2>2, <2>3, <2>4
  <2> QED
    BY <2>2, <2>5 DEF n
<1> QED
  BY <1>5, <1>6

\* A number that the kernel prints has a digit, and not too many of them.
LEMMA KernelNumeral ==
  ASSUME CalledInv, KernelUses, directive.conv # "s"
  PROVE  /\ Len(CNumeral) \in Nat /\ Len(CNumeral) >= 1 /\ IsText(CNumeral)
         /\ directive.conv = "d" => Len(CNumeral) <= IntBits \div 2 + 1
         /\ directive.conv = "X" => Len(CNumeral) <= LongBits \div 4 + 1
<1> DEFINE bits == IF directive.conv = "d" THEN IntBits ELSE LongBits
           base == IF directive.conv = "d" THEN 10 ELSE 16
           chars == IF directive.conv \in {"X", "p"} THEN Upper ELSE Lower
           n == CMag
           t == Numeral(n, base, chars)
<1>1. /\ directive.conv = "d" \/ directive.conv = "X"
      /\ directive.conv = "d" => directive.length = <<>>
      /\ directive.conv = "X" => directive.length = <<"l">>
      /\ directive.prec.kind = "none"
  BY DEF KernelUses
<1>2. CBits = bits
  <2>1. <<"l">> # <<>> /\ <<"l">> # <<"h">> /\ <<"l">> # <<"h", "h">>
        /\ <<>> # <<"h">> /\ <<>> # <<"h", "h">>
    OBVIOUS
  <2>2. CASE directive.conv = "d"
    <3>1. directive.length = <<>> /\ ~IsLong(directive)
      BY <1>1, <2>2 DEF IsLong
    <3> QED
      BY <2>1, <2>2, <3>1, Zenon DEF CBits
  <2>3. CASE directive.conv = "X"
    <3>1. directive.length = <<"l">> /\ IsLong(directive)
      BY <1>1, <2>1, <2>3 DEF IsLong
    <3>2. CBits = LongBits
      BY <2>1, <3>1, Zenon DEF CBits
    <3>3. directive.conv # "d"
      BY <2>3
    <3> QED
      BY <3>2, <3>3
  <2> QED
    BY <1>1, <2>2, <2>3
<1>3. value \in Int /\ bits \in Nat \ {0} /\ bits <= LongBits /\ LongBits \in Nat
  BY PrintfAssumption DEF CalledInv
<1> HIDE DEF bits
<1>4. /\ Unsigned(value, bits) \in Nat /\ Unsigned(value, bits) < Power(2, bits)
      /\ Power(2, bits) <= Power(2, LongBits) /\ Signed(value, bits) \in Int
      /\ -Power(2, bits) < Signed(value, bits) /\ Signed(value, bits) < Power(2, bits)
      /\ Power(2, bits) \in Nat /\ Power(2, LongBits) \in Nat
  <2>1. bits \in Nat /\ 2 \in Nat \ {0}
    BY <1>3
  <2> QED
    BY <1>3, <2>1, TypeIs, PowerIs
<1>5. n \in Nat /\ n < Power(2, bits)
  <2>1. CNum = Signed(value, bits) \/ CNum = Unsigned(value, bits)
    BY <1>2 DEF CNum
  <2>2. n = IF CNum < 0 THEN -CNum ELSE CNum
    BY DEF CMag
  <2> HIDE DEF n
  <2> QED
    BY <1>4, <2>1, <2>2
<1>6. n < Power(2, LongBits)
  <2> HIDE DEF n
  <2> QED
    BY <1>4, <1>5
<1>7. CPrec = -1
  BY <1>1 DEF CPrec
<1>8. CBase = base /\ base \in Nat \ {0, 1}
  BY <1>1 DEF CBase, Base
<1> HIDE DEF base
<1>9. CNumeral = t
  BY <1>7, <1>8 DEF CNumeral
<1> HIDE DEF n, chars
<1>10. IsText(t) /\ Len(t) = Places(n, base)
  BY <1>5, <1>6, <1>8, NumeralIs
<1>11. Places(n, base) \in 1..LongBits
  BY <1>5, <1>6, <1>8, PlacesIs
<1>12. Places(n, 10) <= bits \div 2 + 1 /\ Places(n, 16) <= bits \div 4 + 1
  BY <1>3, <1>5, PlacesFew
<1> HIDE DEF t
<1>13. directive.conv = "d" => Len(t) <= IntBits \div 2 + 1
  BY <1>10, <1>12 DEF bits, base
<1>14. directive.conv = "X" => Len(t) <= LongBits \div 4 + 1
  BY <1>10, <1>12 DEF bits, base
<1> QED
  BY <1>3, <1>9, <1>10, <1>11, <1>13, <1>14

\* It fits the buffer of digits, with its sign or prefix.
LEMMA KernelShort ==
  ASSUME CalledInv, KernelUses, KernelFits, directive.conv # "s"
  PROVE  Len(CPrefix) + Len(CDigits) <= PRINTF_NTOA_BUFFER_SIZE
<1>1. /\ Len(CNumeral) \in Nat /\ IsText(CNumeral)
      /\ directive.conv = "d" => Len(CNumeral) <= IntBits \div 2 + 1
      /\ directive.conv = "X" => Len(CNumeral) <= LongBits \div 4 + 1
  BY KernelNumeral
<1>2. /\ directive.conv = "d" \/ directive.conv = "X"
      /\ directive.prec.kind = "none"
  BY DEF KernelUses
<1>3. CBase # 8 /\ CPrec = -1 /\ (directive.conv = "d" => CBase = 10 /\ CSigned)
  BY <1>2 DEF CBase, Base, CPrec, CSigned
<1>4. CDigits = CNumeral
  <2> DEFINE k == CPrec - Len(CNumeral)
             zeros == Repeated("0", k)
  <2>1. k \in Int /\ k <= 0
    BY <1>1, <1>3
  <2>2. CDigits = zeros \o CNumeral
    BY <1>3 DEF CDigits
  <2> HIDE DEF k
  <2>3. zeros = <<>>
    BY <2>1, RepeatedNone
  <2> HIDE DEF zeros
  <2> QED
    BY <1>1, <2>2, <2>3, NothingChained
<1>5. Len(CPrefix) \in {0, 1, 2} /\ (directive.conv = "d" => Len(CPrefix) \in {0, 1})
  <2>1. CPrefix \in {<<"-">>, <<"+">>, <<" ">>, <<"0", "x">>, <<"0", "b">>, <<>>}
    BY Zenon DEF CPrefix
  <2>2. directive.conv = "d" => CPrefix \in {<<"-">>, <<"+">>, <<" ">>, <<>>}
    <3>1. directive.conv = "d" => CBase # 16 /\ CBase # 2
      BY <1>3
    <3> QED
      BY <3>1, Zenon DEF CPrefix
  <2>3. /\ Len(<<"-">>) = 1 /\ Len(<<"+">>) = 1 /\ Len(<<" ">>) = 1
        /\ Len(<<"0", "x">>) = 2 /\ Len(<<"0", "b">>) = 2 /\ Len(<<>>) = 0
    OBVIOUS
  <2>4. Len(CPrefix) \in {0, 1, 2}
    BY <2>1, <2>3, Zenon
  <2>5. directive.conv = "d" => Len(CPrefix) \in {0, 1}
    BY <2>2, <2>3, Zenon
  <2> QED
    BY <2>4, <2>5
<1>6. IntBits \in Nat /\ LongBits \in Nat /\ PRINTF_NTOA_BUFFER_SIZE \in Nat
  BY PrintfAssumption
<1>7. \A q \in Nat : q \div 2 \in Nat /\ q \div 4 \in Nat
  BY Z3
<1>8. IntBits \div 2 \in Nat /\ LongBits \div 4 \in Nat
  BY <1>6, <1>7
<1> DEFINE p == Len(CPrefix)
           n == Len(CNumeral)
           i == IntBits \div 2
           l == LongBits \div 4
           size == PRINTF_NTOA_BUFFER_SIZE
<1>9. (n <= i + 1 /\ p \in {0, 1}) \/ (n <= l + 1 /\ p \in {0, 1, 2})
  BY <1>1, <1>2, <1>5, Zenon
<1>10. n \in Nat /\ i \in Nat /\ l \in Nat /\ size \in Nat
  BY <1>1, <1>6, <1>8
<1>11. i + 2 <= size /\ l + 3 <= size
  BY DEF KernelFits
<1> HIDE DEF p, n, i, l, size
<1>12. p + n <= size
  BY <1>9, <1>10, <1>11
<1> QED
  BY <1>4, <1>12 DEF p, n, size

\* None of the six cases is possible for these.
LEMMA KernelAgrees ==
  ASSUME CalledInv, KernelUses, KernelFits
  PROVE  Defined /\ ~Differs
<1>1. ~Has("0") /\ ~Has("-")
  <2>1. CASE directive.flags = <<>>
    BY <2>1 DEF Has, Range
  <2>2. CASE directive.flags = <<"#">>
    BY <2>2 DEF Has, Range
  <2> QED
    BY <2>1, <2>2 DEF KernelUses
<1>2. /\ directive.width.kind = "none" /\ directive.prec.kind = "none"
      /\ directive.conv \in {"d", "s", "X"}
  BY DEF KernelUses
<1>3. ~CLeft /\ ~CZeroFills /\ CWidth = 0
  BY <1>1, <1>2 DEF CLeft, CZeroFills, CWidth
<1>4. ~NegativePrecision /\ ~LeftPrecision /\ ~PointerField
  BY <1>2, <1>3 DEF NegativePrecision, LeftPrecision, PointerField
<1>5. ~OctalPrecision
  BY <1>2 DEF OctalPrecision, CBase, Base
<1>6. directive.conv # "s" => ~PrefixInField
  <2> SUFFICES ASSUME directive.conv # "s" PROVE ~PrefixInField
    OBVIOUS
  <2>1. Len(CNumeral) \in Nat /\ Len(CNumeral) >= 1
    BY KernelNumeral
  <2>2. CWidth # Len(CNumeral)
    BY <1>3, <2>1
  <2> QED
    BY <1>3, <2>2 DEF PrefixInField
<1>7. directive.conv # "s" => ~TooLong
  <2> SUFFICES ASSUME directive.conv # "s" PROVE ~TooLong
    OBVIOUS
  <2> DEFINE n == Len(CPrefix) + Len(CDigits)
  <2>1. n <= PRINTF_NTOA_BUFFER_SIZE
    BY KernelShort
  <2>2. n \in Int /\ PRINTF_NTOA_BUFFER_SIZE \in Int
    BY PrintfAssumption
  <2> HIDE DEF n
  <2>3. ~(n > PRINTF_NTOA_BUFFER_SIZE)
    BY <2>1, <2>2
  <2> QED
    BY <1>3, <2>3 DEF TooLong, n
<1>8. Defined
  BY <1>2 DEF Defined, IntegerConvs, KernelUses
<1>9. ~Differs
  BY <1>2, <1>4, <1>5, <1>6, <1>7 DEF Differs
<1> QED
  BY <1>8, <1>9

\* What the kernel logs with %d, %s and %#lX is what C's printf would write, for
\* every argument and all widths of the types for which the buffer of digits is
\* long enough (definitions.hpp 15, gdt.cpp 55, interrupts.cpp 151).
THEOREM KernelFormats ==
  Spec => [](stage = "done" /\ KernelUses /\ KernelFits
               => text = <<"=">> \o CText)
<1>1. Init => ReadsInv
  BY ReadsInit
<1>2. ReadsInv /\ [Next]_vars => ReadsInv'
  BY ReadsStep
<1>3. ReadsInv => (stage = "done" /\ KernelUses /\ KernelFits
                     => text = <<"=">> \o CText)
  <2> SUFFICES ASSUME ReadsInv, stage = "done", KernelUses, KernelFits
               PROVE  text = <<"=">> \o CText
    OBVIOUS
  <2>1. CalledInv
    BY DEF ReadsInv
  <2>2. Defined /\ ~Differs
    BY <2>1, KernelAgrees
  <2> QED
    BY <2>2 DEF ReadsInv, Result
<1> QED
  BY <1>1, <1>2, <1>3, PTL DEF Spec
=============================================================================
