--------------------------- MODULE OutboundProofs ---------------------------
(***************************************************************************)
(* What TLAPS proves of Outbound: the pieces Split makes, for every text,  *)
(* and what they say; then the invariant IInv of the worker, its posts and *)
(* its typing loops, and from it the properties that Outbound.cfg checks.  *)
(***************************************************************************)
EXTENDS Outbound, Integers, SequenceTheorems, FiniteSetTheorems,
        WellFoundedInduction, TLAPS

----------------------------------------------------------------------------
(* Split.  Induction is by a least counterexample. *)

Texts == Seq(Chars)
Pieces(maxLen) == {s \in Texts : Len(s) \in 1..maxLen}

LEMMA LeastNat ==
  ASSUME NEW T, T \subseteq Nat, T # {}
  PROVE  \E m \in T : \A k \in T : m <= k
<1> DEFINE R == {s \in Nat \X Nat : s[1] < s[2]}
<1>1. OpToRel(<, Nat) = R
  BY DEF OpToRel
<1>2. IsWellFoundedOn(R, Nat)
  BY <1>1, NatLessThanWellFounded
<1>3. \A m, k \in Nat : <<k, m>> \in R <=> k < m
  OBVIOUS
<1> HIDE DEF R
<1>4. PICK x \in T : \A y \in T : ~(<<y, x>> \in R)
  BY <1>2, WFMin
<1>5. \A y \in T : ~(y < x)
  BY <1>3, <1>4
<1>6. \A y \in T : x <= y
  BY <1>5
<1> QED BY <1>6

TextsOver(T, u, n) == \A k \in 1..n : u[k] \in Seq(T)
Flattening(T, u, n) ==
  \E after \in [1..n -> Seq(T)] :
    /\ after[1] = u[1]
    /\ \A k \in 2..n : after[k] = after[k - 1] \o u[k]
    /\ FlattenSeq(u) = after[n]

\* FlattenSeq puts one sequence after the other.
LEMMA FlattenIs ==
  ASSUME NEW T, NEW u, NEW n \in Nat \ {0}, Len(u) = n, TextsOver(T, u, n)
  PROVE  Flattening(T, u, n)
<1> DEFINE S == Seq(T)
           D(k, s) == s \o u[k]
           Def(f) == [i \in 1..n |-> IF i = 1 THEN u[i] ELSE f[i - 1] \o u[i]]
           after == CHOOSE f : f = Def(f)
<1>1. FlattenSeq(u) = after[n] /\ 1 \in 1..n /\ n \in 1..n
  BY DEF FlattenSeq
<1>2. ASSUME NEW k \in 1..n, NEW s \in S PROVE D(k, s) \in S
  BY <1>2, ConcatProperties DEF TextsOver
<1>3. u[1] \in S
  BY <1>1 DEF TextsOver
<1>4. \A f : Def(f) = [i \in 1..n |-> IF i = 1 THEN u[1] ELSE D(i, f[i - 1])]
  OBVIOUS
<1> HIDE DEF S, D, Def
<1> DEFINE Good(j, g) == g \in [1..j -> S] /\ g[1] = u[1] /\ \A i \in 2..j : g[i] = D(i, g[i - 1])
           Bad == {j \in 1..n : ~ \E g : Good(j, g)}
<1> HIDE DEF Good
<1>5. Bad = {}
  <2> SUFFICES ASSUME Bad # {} PROVE FALSE
    OBVIOUS
  <2>1. PICK j \in Bad : \A i \in Bad : j <= i
    <3>1. Bad \subseteq Nat
      OBVIOUS
    <3> QED BY <3>1, LeastNat
  <2>2. CASE j = 1
    <3>1. Good(1, [i \in 1..1 |-> u[1]])
      BY <1>3 DEF Good
    <3> QED BY <2>1, <2>2, <3>1
  <2>3. CASE j # 1
    <3>1. j - 1 \in 1..n /\ ~(j <= j - 1) /\ j \in 2..n
      BY <1>1, <2>1, <2>3
    <3>2. PICK g : Good(j - 1, g)
      BY <2>1, <3>1
    <3>3. /\ g \in [1..(j - 1) -> S] /\ g[1] = u[1]
          /\ \A i \in 2..(j - 1) : g[i] = D(i, g[i - 1])
      BY <3>2 DEF Good
    <3>4. D(j, g[j - 1]) \in S
      BY <1>2, <3>1, <3>3
    <3> DEFINE h == [i \in 1..j |-> IF i = j THEN D(j, g[j - 1]) ELSE g[i]]
    <3>5. h \in [1..j -> S]
      BY <3>1, <3>3, <3>4
    <3>6. h[1] = u[1]
      BY <3>1, <3>3
    <3>7. \A i \in 2..j : h[i] = D(i, h[i - 1])
      BY <3>1, <3>3
    <3> HIDE DEF h
    <3>8. Good(j, h)
      BY <3>5, <3>6, <3>7 DEF Good
    <3> QED BY <2>1, <3>8
  <2> QED BY <2>2, <2>3
<1>6. PICK g : Good(n, g)
  BY <1>1, <1>5
<1>7. /\ g \in [1..n -> S] /\ g[1] = u[1] /\ \A i \in 2..n : g[i] = D(i, g[i - 1])
  BY <1>6 DEF Good
<1>8. g = Def(g)
  <2>1. \A i \in 1..n : g[i] = IF i = 1 THEN u[1] ELSE D(i, g[i - 1])
    BY <1>1, <1>7
  <2>2. g = [i \in 1..n |-> IF i = 1 THEN u[1] ELSE D(i, g[i - 1])]
    BY <1>7, <2>1
  <2> QED BY <1>4, <2>2
<1>9. after = Def(after)
  BY <1>8
<1> HIDE DEF after
<1>10. after = [i \in 1..n |-> IF i = 1 THEN u[1] ELSE D(i, after[i - 1])]
  BY <1>4, <1>9
<1>11. after[1] = u[1] /\ \A i \in 2..n : after[i] = D(i, after[i - 1])
  <2>1. \A i \in 1..n : after[i] = IF i = 1 THEN u[1] ELSE D(i, after[i - 1])
    BY <1>10
  <2> QED BY <1>1, <2>1
<1>12. DOMAIN after = 1..n /\ after = [i \in 1..n |-> after[i]]
  BY <1>10
<1> DEFINE Off == {j \in 1..n : after[j] \notin S}
<1>13. Off = {}
  <2> SUFFICES ASSUME Off # {} PROVE FALSE
    OBVIOUS
  <2>1. PICK j \in Off : \A i \in Off : j <= i
    <3>1. Off \subseteq Nat
      OBVIOUS
    <3> QED BY <3>1, LeastNat
  <2>2. j # 1
    BY <1>3, <1>11, <2>1
  <2>3. j \in 2..n /\ j - 1 \in 1..n /\ ~(j <= j - 1)
    BY <1>1, <2>1, <2>2
  <2>4. after[j - 1] \in S
    BY <2>1, <2>3
  <2> QED BY <1>2, <1>11, <2>1, <2>3, <2>4
<1>14. after \in [1..n -> S]
  BY <1>12, <1>13
<1> QED BY <1>1, <1>11, <1>14 DEF S, D, Flattening


LEMMA FlattenOne ==
  ASSUME NEW T, NEW s \in Seq(T)
  PROVE  FlattenSeq(<<s>>) = s
<1> PICK u : u = <<s>>
  OBVIOUS
<1>1. Len(u) = 1 /\ u[1] = s /\ 1 \in Nat \ {0}
  OBVIOUS
<1>2. TextsOver(T, u, 1)
  BY <1>1 DEF TextsOver
<1>3. Flattening(T, u, 1)
  BY <1>1, <1>2, FlattenIs
<1> QED BY <1>1, <1>3 DEF Flattening

\* Concatenation under a name that the proofs need not look into.
Cat(a, b) == a \o b

CatAssociates(S) == \A a, b, c \in S : Cat(Cat(a, b), c) = Cat(a, Cat(b, c))

LEMMA CatAssociative ==
  ASSUME NEW T
  PROVE  CatAssociates(Seq(T))
BY ConcatAssociative DEF Cat, CatAssociates

\* w is u, of length m, followed by v, of length n.
Joined(u, v, w, m, n) ==
  /\ Len(u) = m /\ Len(v) = n /\ Len(w) = m + n
  /\ \A k \in 1..m : w[k] = u[k]
  /\ \A k \in 1..n : w[m + k] = v[k]

FlattensTo(w, u, v) == FlattenSeq(w) = FlattenSeq(u) \o FlattenSeq(v)

LEMMA FlattenJoin ==
  ASSUME NEW T, NEW m \in Nat \ {0}, NEW n \in Nat \ {0}, NEW u, NEW v, NEW w,
         TextsOver(T, u, m), TextsOver(T, v, n), Joined(u, v, w, m, n)
  PROVE  FlattensTo(w, u, v)
<1>0. /\ 1 \in 1..m /\ m \in 1..m /\ 1 \in 1..n /\ n \in 1..n /\ m + n \in Nat \ {0}
      /\ m + n \in 1..(m + n)
  OBVIOUS
<1> USE DEF Joined
<1>1. \A k \in 1..n : v[k] \in Seq(T)
  BY DEF TextsOver
<1>2. TextsOver(T, w, m + n)
  <2> SUFFICES ASSUME NEW k \in 1..(m + n) PROVE w[k] \in Seq(T)
    BY DEF TextsOver
  <2>1. CASE k <= m
    BY <2>1 DEF TextsOver
  <2>2. CASE ~(k <= m)
    <3>1. k - m \in 1..n /\ m + (k - m) = k
      BY <2>2
    <3> QED BY <1>1, <3>1
  <2> QED BY <2>1, <2>2
<1>3. PICK f \in [1..m -> Seq(T)] :
        /\ f[1] = u[1] /\ \A k \in 2..m : f[k] = f[k - 1] \o u[k]
        /\ FlattenSeq(u) = f[m]
  <2>1. Flattening(T, u, m)
    BY FlattenIs
  <2> QED BY <2>1 DEF Flattening
<1>4. PICK g \in [1..n -> Seq(T)] :
        /\ g[1] = v[1] /\ \A k \in 2..n : g[k] = g[k - 1] \o v[k]
        /\ FlattenSeq(v) = g[n]
  <2>1. Flattening(T, v, n)
    BY FlattenIs
  <2> QED BY <2>1 DEF Flattening
<1>5. PICK h \in [1..(m + n) -> Seq(T)] :
        /\ h[1] = w[1] /\ \A k \in 2..(m + n) : h[k] = h[k - 1] \o w[k]
        /\ FlattenSeq(w) = h[m + n]
  <2>1. Flattening(T, w, m + n)
    BY <1>0, <1>2, FlattenIs
  <2> QED BY <2>1 DEF Flattening
<1>10. /\ \A k \in 2..m : f[k] = Cat(f[k - 1], u[k])
       /\ \A k \in 2..n : g[k] = Cat(g[k - 1], v[k])
       /\ \A k \in 2..(m + n) : h[k] = Cat(h[k - 1], w[k])
  BY <1>3, <1>4, <1>5 DEF Cat
<1> DEFINE Bad == {k \in 1..m : h[k] # f[k]}
           Off == {k \in 1..n : h[m + k] # Cat(f[m], g[k])}
<1>11. \A a, b, c \in Seq(T) : Cat(Cat(a, b), c) = Cat(a, Cat(b, c))
  <2>1. CatAssociates(Seq(T))
    BY CatAssociative
  <2> QED BY <2>1 DEF CatAssociates
<1>6. Bad = {}
  <2> SUFFICES ASSUME Bad # {} PROVE FALSE
    OBVIOUS
  <2>1. PICK k \in Bad : \A i \in Bad : k <= i
    <3>1. Bad \subseteq Nat
      OBVIOUS
    <3> QED BY <3>1, LeastNat
  <2>2. CASE k = 1
    BY <1>0, <1>3, <1>5, <2>1, <2>2
  <2>3. CASE k # 1
    <3>1. k \in 2..m /\ k \in 2..(m + n) /\ k - 1 \in 1..m /\ ~(k <= k - 1)
      BY <2>1, <2>3
    <3>2. h[k - 1] = f[k - 1]
      BY <2>1, <3>1
    <3> QED BY <1>10, <2>1, <3>1, <3>2
  <2> QED BY <2>2, <2>3
<1>7. h[m] = f[m] /\ f[m] \in Seq(T)
  BY <1>0, <1>6
<1>8. Off = {}
  <2> SUFFICES ASSUME Off # {} PROVE FALSE
    OBVIOUS
  <2>1. \E k \in Off : \A i \in Off : k <= i
    <3>1. Off \subseteq Nat
      OBVIOUS
    <3> QED BY <3>1, LeastNat
  <2>2. PICK k \in 1..n : /\ h[m + k] # Cat(f[m], g[k])
                         /\ \A i \in 1..n : ~(k <= i) => h[m + i] = Cat(f[m], g[i])
    BY <2>1
  <2> HIDE DEF Bad, Off
  <2>3. h[m + k] = Cat(h[m + k - 1], v[k])
    <3>1. m + k \in 2..(m + n)
      OBVIOUS
    <3>2. h[m + k] = Cat(h[m + k - 1], w[m + k])
      BY <1>10, <3>1
    <3> QED BY <3>2
  <2>4. CASE k = 1
    <3>1. m + k - 1 = m
      BY <2>4
    <3> QED BY <1>4, <1>7, <2>2, <2>3, <2>4, <3>1
  <2>5. CASE k # 1
    <3>1. k \in 2..n /\ k - 1 \in 1..n /\ ~(k <= k - 1) /\ m + k - 1 = m + (k - 1)
      BY <2>5
    <3>2. h[m + k - 1] = Cat(f[m], g[k - 1])
      BY <2>2, <3>1
    <3>3. g[k] = Cat(g[k - 1], v[k])
      BY <1>10, <3>1
    <3>4. g[k - 1] \in Seq(T) /\ v[k] \in Seq(T)
      BY <1>1, <1>4, <3>1
    <3>5. Cat(Cat(f[m], g[k - 1]), v[k]) = Cat(f[m], Cat(g[k - 1], v[k]))
      BY <1>7, <1>11, <3>4
    <3> QED BY <2>2, <2>3, <3>2, <3>3, <3>5
  <2> QED BY <2>4, <2>5
<1>9. h[m + n] = Cat(f[m], g[n])
  BY <1>0, <1>8
<1> QED BY <1>3, <1>4, <1>5, <1>9 DEF Cat, FlattensTo

\* What FlattenSeq makes of a whole is what it makes of its parts.
LEMMA FlattenConcat ==
  ASSUME NEW T, NEW u \in Seq(Seq(T)), NEW v \in Seq(Seq(T))
  PROVE  /\ FlattenSeq(u) \in Seq(T)
         /\ FlattenSeq(u \o v) = FlattenSeq(u) \o FlattenSeq(v)
<1> PICK m, n, w : m = Len(u) /\ n = Len(v) /\ w = u \o v
  OBVIOUS
<1>1. /\ m \in Nat /\ n \in Nat
      /\ w \in Seq(Seq(T)) /\ Len(w) = m + n
      /\ \A k \in 1..(m + n) : w[k] = IF k <= m THEN u[k] ELSE v[k - m]
  BY ConcatProperties, LenProperties
<1>2. TextsOver(T, u, m) /\ TextsOver(T, v, n)
  BY <1>1, ElementOfSeq DEF TextsOver
<1>3. FlattenSeq(<<>>) = <<>> /\ <<>> \in Seq(T)
  BY EmptySeq DEF FlattenSeq
<1>4. FlattenSeq(u) \in Seq(T)
  <2>1. CASE m = 0
    <3>1. u = <<>>
      BY <2>1, EmptySeq
    <3> QED BY <1>3, <3>1
  <2>2. CASE m # 0
    <3>1. m \in 1..m /\ m \in Nat \ {0}
      BY <1>1, <2>2
    <3>2. Flattening(T, u, m)
      BY <1>2, <3>1, FlattenIs
    <3> QED BY <3>1, <3>2 DEF Flattening
  <2> QED BY <2>1, <2>2
<1>5. FlattenSeq(v) \in Seq(T)
  <2>1. CASE n = 0
    <3>1. v = <<>>
      BY <2>1, EmptySeq
    <3> QED BY <1>3, <3>1
  <2>2. CASE n # 0
    <3>1. n \in 1..n /\ n \in Nat \ {0}
      BY <1>1, <2>2
    <3>2. Flattening(T, v, n)
      BY <1>2, <3>1, FlattenIs
    <3> QED BY <3>1, <3>2 DEF Flattening
  <2> QED BY <2>1, <2>2
<1>6. CASE m = 0
  <2>1. u = <<>> /\ w = v
    BY <1>6, EmptySeq, ConcatEmptySeq
  <2> QED BY <1>3, <1>4, <1>5, <2>1, ConcatEmptySeq
<1>7. CASE n = 0
  <2>1. v = <<>> /\ w = u
    BY <1>7, EmptySeq, ConcatEmptySeq
  <2> QED BY <1>3, <1>4, <2>1, ConcatEmptySeq
<1>8. CASE m # 0 /\ n # 0
  <2>1. m \in Nat \ {0} /\ n \in Nat \ {0}
    BY <1>1, <1>8
  <2>2. \A k \in 1..m : w[k] = u[k]
    BY <1>1
  <2>3. \A k \in 1..n : w[m + k] = v[k]
    <3> TAKE k \in 1..n
    <3>1. m + k \in 1..(m + n) /\ ~(m + k <= m) /\ m + k - m = k
      BY <1>1
    <3> QED BY <1>1, <3>1
  <2>4. FlattenSeq(w) = FlattenSeq(u) \o FlattenSeq(v)
    <3>1. Joined(u, v, w, m, n)
      BY <1>1, <2>2, <2>3 DEF Joined
    <3>2. FlattensTo(w, u, v)
      BY <1>2, <2>1, <3>1, FlattenJoin
    <3> QED BY <3>2 DEF FlattensTo
  <2> QED BY <1>4, <2>4
<1> QED BY <1>6, <1>7, <1>8

----------------------------------------------------------------------------
(* What a text says. *)

\* Texts are put one after the other.
LEMMA TextFacts ==
  /\ <<>> \in Texts
  /\ \A a, b \in Texts : a \o b \in Texts
  /\ \A a \in Texts : a \o <<>> = a /\ <<>> \o a = a
<1>1. <<>> \in Texts
  BY EmptySeq DEF Texts
<1>2. ASSUME NEW a \in Texts, NEW b \in Texts PROVE a \o b \in Texts
  BY ConcatProperties DEF Texts
<1>3. ASSUME NEW a \in Texts PROVE a \o <<>> = a /\ <<>> \o a = a
  BY ConcatEmptySeq DEF Texts
<1> QED BY <1>1, <1>2, <1>3

LEMMA InAnyGroups ==
  ASSUME NEW a \in Texts, NEW b \in Texts, NEW c \in Texts
  PROVE  (a \o b) \o c = a \o (b \o c)
BY ConcatAssociative DEF Texts

\* The characters of a text, each a text that is empty if the character is not ink.
Marks(text) ==
  [k \in DOMAIN text |-> IF text[k] \in {NL, SP, BQ} THEN <<>> ELSE <<text[k]>>]

LEMMA MarksAre ==
  ASSUME NEW a \in Texts
  PROVE  /\ Marks(a) \in Seq(Seq(Chars)) /\ Len(Marks(a)) = Len(a)
         /\ \A k \in 1..Len(a) :
              Marks(a)[k] = IF a[k] \in {NL, SP, BQ} THEN <<>> ELSE <<a[k]>>
<1> PICK n : n = Len(a)
  OBVIOUS
<1>1. n \in Nat /\ DOMAIN a = 1..n /\ \A k \in 1..n : a[k] \in Chars
  BY LenProperties, ElementOfSeq DEF Texts
<1>2. \A k \in 1..n : (IF a[k] \in {NL, SP, BQ} THEN <<>> ELSE <<a[k]>>) \in Seq(Chars)
  BY <1>1
<1>3. Marks(a) = [k \in 1..n |-> IF a[k] \in {NL, SP, BQ} THEN <<>> ELSE <<a[k]>>]
  BY <1>1 DEF Marks
<1> QED BY <1>1, <1>2, <1>3

LEMMA MarksConcat ==
  ASSUME NEW a \in Texts, NEW b \in Texts
  PROVE  Marks(a \o b) = Marks(a) \o Marks(b)
<1> PICK m, n, c, s, t :
      m = Len(a) /\ n = Len(b) /\ c = a \o b /\ s = Marks(a) /\ t = Marks(b)
  OBVIOUS
<1>1. /\ m \in Nat /\ n \in Nat /\ c \in Texts /\ Len(c) = m + n
      /\ \A k \in 1..(m + n) : c[k] = IF k <= m THEN a[k] ELSE b[k - m]
  BY ConcatProperties, LenProperties DEF Texts
<1>2. /\ s \in Seq(Seq(Chars)) /\ Len(s) = m
      /\ \A k \in 1..m : s[k] = IF a[k] \in {NL, SP, BQ} THEN <<>> ELSE <<a[k]>>
  BY MarksAre
<1>3. /\ t \in Seq(Seq(Chars)) /\ Len(t) = n
      /\ \A k \in 1..n : t[k] = IF b[k] \in {NL, SP, BQ} THEN <<>> ELSE <<b[k]>>
  BY MarksAre
<1>4. /\ Marks(c) \in Seq(Seq(Chars)) /\ Len(Marks(c)) = m + n
      /\ \A k \in 1..(m + n) :
           Marks(c)[k] = IF c[k] \in {NL, SP, BQ} THEN <<>> ELSE <<c[k]>>
  BY <1>1, MarksAre
<1>5. /\ s \o t \in Seq(Seq(Chars)) /\ Len(s \o t) = m + n
      /\ \A k \in 1..(m + n) : (s \o t)[k] = IF k <= m THEN s[k] ELSE t[k - m]
  <2>1. s \in Seq(Seq(Chars)) /\ t \in Seq(Seq(Chars))
    BY <1>2, <1>3
  <2>2. /\ s \o t \in Seq(Seq(Chars)) /\ Len(s \o t) = Len(s) + Len(t)
        /\ \A k \in 1..(Len(s) + Len(t)) :
             (s \o t)[k] = IF k <= Len(s) THEN s[k] ELSE t[k - Len(s)]
    BY <2>1, ConcatProperties
  <2> QED BY <1>2, <1>3, <2>2
<1>6. \A k \in 1..(m + n) : Marks(c)[k] = (s \o t)[k]
  <2> TAKE k \in 1..(m + n)
  <2>1. CASE k <= m
    <3>1. k \in 1..m
      BY <1>1, <2>1
    <3> QED BY <1>1, <1>2, <1>4, <1>5, <2>1, <3>1
  <2>2. CASE ~(k <= m)
    <3>1. k - m \in 1..n
      BY <1>1, <2>2
    <3>2. c[k] = b[k - m] /\ (s \o t)[k] = t[k - m]
      BY <1>1, <1>5, <2>2
    <3>3. t[k - m] = IF b[k - m] \in {NL, SP, BQ} THEN <<>> ELSE <<b[k - m]>>
      BY <1>3, <3>1
    <3>4. Marks(c)[k] = IF c[k] \in {NL, SP, BQ} THEN <<>> ELSE <<c[k]>>
      BY <1>4
    <3> QED BY <3>2, <3>3, <3>4
  <2> QED BY <2>1, <2>2
<1>7. Marks(c) = s \o t
  <2> PICK v, w : v = Marks(c) /\ w = s \o t
    OBVIOUS
  <2>1. /\ v \in Seq(Seq(Chars)) /\ w \in Seq(Seq(Chars)) /\ Len(v) = Len(w)
        /\ \A k \in 1..Len(v) : v[k] = w[k]
    BY <1>4, <1>5, <1>6
  <2>2. v = w
    BY <2>1, SeqEqual
  <2> QED BY <2>2
<1> QED BY <1>7

\* Ink turns a concatenation into one, and blanks and backquotes into nothing.
LEMMA InkFacts ==
  /\ \A a \in Texts : Ink(a) \in Texts
  /\ \A a, b \in Texts : Ink(a \o b) = Ink(a) \o Ink(b)
  /\ Ink(<<>>) = <<>>
  /\ \A c \in {NL, SP, BQ} : Ink(<<c>>) = <<>>
<1>0. ASSUME NEW a PROVE Ink(a) = FlattenSeq(Marks(a))
  BY DEF Ink, Marks
<1>1. ASSUME NEW a \in Texts PROVE Ink(a) \in Texts
  BY <1>0, MarksAre, FlattenConcat DEF Texts
<1>2. ASSUME NEW a \in Texts, NEW b \in Texts PROVE Ink(a \o b) = Ink(a) \o Ink(b)
  <2>1. Marks(a) \in Seq(Seq(Chars)) /\ Marks(b) \in Seq(Seq(Chars))
    BY MarksAre
  <2>2. FlattenSeq(Marks(a) \o Marks(b)) = FlattenSeq(Marks(a)) \o FlattenSeq(Marks(b))
    BY <2>1, FlattenConcat
  <2> QED BY <1>0, <2>2, MarksConcat
<1>3. Ink(<<>>) = <<>>
  <2>1. Marks(<<>>) = <<>>
    <3>1. <<>> \in Texts
      BY TextFacts
    <3>2. Marks(<<>>) \in Seq(Seq(Chars)) /\ Len(Marks(<<>>)) = 0
      BY <3>1, MarksAre
    <3> QED BY <3>2, EmptySeq
  <2> QED BY <1>0, <2>1 DEF FlattenSeq
<1>4. ASSUME NEW c \in {NL, SP, BQ} PROVE Ink(<<c>>) = <<>>
  <2>1. <<c>> \in Texts /\ Len(<<c>>) = 1 /\ <<c>>[1] = c
    BY CharsAssumption DEF Texts
  <2>2. /\ Marks(<<c>>) \in Seq(Seq(Chars)) /\ Len(Marks(<<c>>)) = 1
        /\ Marks(<<c>>)[1] = <<>>
    BY <2>1, MarksAre
  <2>3. Marks(<<c>>) = << <<>> >>
    BY <2>2
  <2>4. FlattenSeq(<< <<>> >>) = <<>>
    BY EmptySeq, FlattenOne
  <2> QED BY <1>0, <2>3, <2>4
<1> QED BY <1>1, <1>2, <1>3, <1>4

\* What a sequence of texts says.
Said(p) == Ink(FlattenSeq(p))

LEMMA SaidFacts ==
  /\ \A p \in Seq(Texts) : Said(p) \in Texts
  /\ \A p, q \in Seq(Texts) : p \o q \in Seq(Texts) /\ Said(p \o q) = Said(p) \o Said(q)
  /\ Said(<<>>) = <<>>
  /\ \A s \in Texts : <<s>> \in Seq(Texts) /\ Said(<<s>>) = Ink(s)
<1>1. ASSUME NEW p \in Seq(Texts) PROVE FlattenSeq(p) \in Texts
  BY FlattenConcat DEF Texts
<1>2. ASSUME NEW p \in Seq(Texts), NEW q \in Seq(Texts)
      PROVE  p \o q \in Seq(Texts) /\ Said(p \o q) = Said(p) \o Said(q)
  <2>1. p \o q \in Seq(Texts)
    BY ConcatProperties
  <2>2. FlattenSeq(p \o q) = FlattenSeq(p) \o FlattenSeq(q)
    BY FlattenConcat DEF Texts
  <2>3. FlattenSeq(p) \in Texts /\ FlattenSeq(q) \in Texts
    BY <1>1
  <2>4. Ink(FlattenSeq(p) \o FlattenSeq(q)) = Ink(FlattenSeq(p)) \o Ink(FlattenSeq(q))
    BY <2>3, InkFacts
  <2> QED BY <2>1, <2>2, <2>4 DEF Said
<1>3. Said(<<>>) = <<>>
  <2>1. FlattenSeq(<<>>) = <<>>
    BY DEF FlattenSeq
  <2> QED BY <2>1, InkFacts DEF Said
<1>4. ASSUME NEW s \in Texts PROVE <<s>> \in Seq(Texts) /\ Said(<<s>>) = Ink(s)
  <2>1. FlattenSeq(<<s>>) = s
    BY FlattenOne DEF Texts
  <2> QED BY <2>1 DEF Said
<1>5. \A p \in Seq(Texts) : Said(p) \in Texts
  BY <1>1, InkFacts DEF Said
<1> QED BY <1>2, <1>3, <1>4, <1>5

----------------------------------------------------------------------------
(* The lines of a text, and the pieces of a line. *)

\* Lines, told from the end of the text.
LineBefore(c, rest) ==
  IF c = NL THEN << <<>> >> \o rest ELSE << <<c>> \o Head(rest) >> \o Tail(rest)
Reading(body, from) ==
  /\ \A k \in 1..(Len(body) + 1) : from[k] \in Seq(Texts) /\ from[k] # <<>>
  /\ from[Len(body) + 1] = << <<>> >>
  /\ \A k \in 1..Len(body) : from[k] = LineBefore(body[k], from[k + 1])
  /\ Lines(body) = from[1]
ReadLines(body) == \E from : Reading(body, from)

\* Lines: at least one, of the characters of the body.
LEMMA LinesAreTexts ==
  ASSUME NEW body \in Texts
  PROVE  /\ Lines(body) \in Seq(Texts)
         /\ Len(Lines(body)) > 0
         /\ Len(Lines(body)) = 1 /\ body # <<>> => Lines(body)[1] # <<>>
         /\ ReadLines(body)
<1> DEFINE n == Len(body)
           Some == {l \in Seq(Texts) : l # <<>>}
           A(k, rest) == IF body[k] = NL THEN << <<>> >> \o rest
                         ELSE << <<body[k]>> \o Head(rest) >> \o Tail(rest)
           Def(f) == [k \in 1..(n + 1) |-> IF k > n THEN << <<>> >> ELSE A(k, f[k + 1])]
           from == CHOOSE f : f = Def(f)
<1>1. Lines(body) = from[1]
  BY DEF Lines
<1>2. n \in Nat
  OBVIOUS
<1>3. << <<>> >> \in Some
  BY DEF Texts
<1>4. ASSUME NEW k \in 1..n, NEW rest \in Some
      PROVE  /\ A(k, rest) \in Some
             /\ Len(A(k, rest)) = 1 => A(k, rest)[1] # <<>>
  <2>1. Head(rest) \in Texts /\ Tail(rest) \in Seq(Texts) /\ rest \in Seq(Texts) /\ Len(rest) \in Nat /\ Len(rest) >= 1
    BY SMTT(30) DEF Texts
  <2>2. body[k] \in Chars
    BY DEF Texts
  <2>3. CASE body[k] = NL
    <3> DEFINE b == << <<>> >>
    <3>1. b \in Seq(Texts) /\ Len(b) = 1
      BY DEF Texts
    <3>2. b \o rest \in Seq(Texts) /\ Len(b \o rest) = 1 + Len(rest)
      BY <2>1, <3>1, ConcatProperties
    <3> QED BY <2>1, <2>3, <3>2, EmptySeq
  <2>4. CASE body[k] # NL
    <3> DEFINE h == <<body[k]>> \o Head(rest)
    <3>1. h \in Texts /\ Len(h) >= 1
      BY <2>1, <2>2 DEF Texts
    <3> HIDE DEF h
    <3>2. <<h>> \in Seq(Texts) /\ Len(<<h>>) = 1
      BY <3>1
    <3>3. /\ <<h>> \o Tail(rest) \in Seq(Texts)
          /\ Len(<<h>> \o Tail(rest)) >= 1
          /\ (<<h>> \o Tail(rest))[1] = h
      BY <2>1, <3>2, ConcatProperties
    <3>4. h # <<>>
      BY <3>1
    <3>5. A(k, rest) = <<h>> \o Tail(rest)
      BY <2>4 DEF h
    <3> HIDE DEF A
    <3>6. A(k, rest) # <<>>
      BY <3>3, <3>5
    <3> QED BY <3>3, <3>4, <3>5, <3>6
  <2> QED BY <2>3, <2>4
<1> HIDE DEF A, Some
<1> DEFINE Good(j, g) == /\ g \in [(n + 1 - j)..(n + 1) -> Some]
                         /\ g[n + 1] = << <<>> >>
                         /\ \A k \in (n + 1 - j)..n : g[k] = A(k, g[k + 1])
<1> HIDE DEF Good
<1> DEFINE Bad == {j \in 0..n : ~ \E g : Good(j, g)}
<1>5. Bad = {}
  <2> SUFFICES ASSUME Bad # {} PROVE FALSE
    OBVIOUS
  <2>1. PICK j \in Bad : \A i \in Bad : j <= i
    <3>1. Bad \subseteq Nat
      OBVIOUS
    <3> QED BY <3>1, LeastNat
  <2>2. CASE j = 0
    <3>1. Good(0, [k \in (n + 1)..(n + 1) |-> << <<>> >>])
      BY <1>2, <1>3 DEF Good
    <3> QED BY <2>1, <2>2, <3>1
  <2>3. CASE j # 0
    <3>0. j - 1 \in 0..n /\ ~(j <= j - 1)
      BY <2>1, <2>3, <1>2
    <3>1. PICK g : Good(j - 1, g)
      BY <2>1, <3>0
    <3> DEFINE k0 == n + 1 - j
               h == [k \in k0..(n + 1) |-> IF k = k0 THEN A(k0, g[k0 + 1]) ELSE g[k]]
    <3>2. k0 \in 1..n /\ k0 + 1 = n + 1 - (j - 1)
      BY <1>2, <2>1, <2>3
    <3>a. /\ g \in [(k0 + 1)..(n + 1) -> Some] /\ g[n + 1] = << <<>> >>
          /\ \A k \in (k0 + 1)..n : g[k] = A(k, g[k + 1])
      BY <3>1, <3>2 DEF Good
    <3>3. g[k0 + 1] \in Some
      BY <3>a, <3>2
    <3>4. A(k0, g[k0 + 1]) \in Some
      BY <1>4, <3>2, <3>3
    <3> HIDE DEF k0
    <3>5. h \in [k0..(n + 1) -> Some]
      BY <3>a, <3>2, <3>4
    <3>6. h[n + 1] = << <<>> >>
      BY <3>a, <3>2
    <3>7. \A k \in k0..n : h[k] = A(k, h[k + 1])
      BY <3>a, <3>2
    <3>8. Good(j, h)
      BY <3>5, <3>6, <3>7 DEF k0, Good
    <3> QED BY <2>1, <3>8
  <2> QED BY <2>2, <2>3
<1>6. PICK g : Good(n, g)
  BY <1>2, <1>5
<1>7. g = Def(g)
  <2>1. /\ g \in [1..(n + 1) -> Some] /\ g[n + 1] = << <<>> >>
        /\ \A k \in 1..n : g[k] = A(k, g[k + 1])
    BY <1>2, <1>6 DEF Good
  <2>2. \A k \in 1..(n + 1) : g[k] = IF k > n THEN << <<>> >> ELSE A(k, g[k + 1])
    <3> TAKE k \in 1..(n + 1)
    <3>1. CASE k = n + 1
      BY <1>2, <2>1, <3>1
    <3>2. CASE k # n + 1
      <4>1. k \in 1..n /\ ~(k > n)
        BY <1>2, <3>2
      <4> QED BY <2>1, <4>1
    <3> QED BY <3>1, <3>2
  <2> QED BY <2>1, <2>2
<1>8. from = Def(from)
  BY <1>7
<1> HIDE DEF from
<1>9. from[n + 1] = << <<>> >> /\ \A k \in 1..n : from[k] = A(k, from[k + 1])
  <2>1. \A k \in 1..(n + 1) : Def(from)[k] = IF k > n THEN << <<>> >> ELSE A(k, from[k + 1])
    OBVIOUS
  <2> HIDE DEF Def
  <2>2. \A k \in 1..(n + 1) : from[k] = IF k > n THEN << <<>> >> ELSE A(k, from[k + 1])
    BY <1>8, <2>1
  <2>3. n + 1 \in 1..(n + 1) /\ n + 1 > n
    BY <1>2
  <2>4. \A k \in 1..n : k \in 1..(n + 1) /\ ~(k > n)
    BY <1>2
  <2> HIDE DEF n
  <2> QED BY <2>2, <2>3, <2>4
<1> HIDE DEF Def, Bad
<1> DEFINE Off == {j \in 0..n : from[n + 1 - j] \notin Some}
<1>10. Off = {}
  <2> SUFFICES ASSUME Off # {} PROVE FALSE
    OBVIOUS
  <2>1. PICK j \in Off : \A i \in Off : j <= i
    <3>1. Off \subseteq Nat
      OBVIOUS
    <3> QED BY <3>1, LeastNat
  <2>2. j # 0
    BY <1>2, <1>3, <1>9, <2>1
  <2>3. from[n + 1 - (j - 1)] \in Some
    BY <1>2, <2>1, <2>2
  <2>4. n + 1 - j \in 1..n /\ (n + 1 - j) + 1 = n + 1 - (j - 1)
    BY <1>2, <2>1, <2>2
  <2>5. from[n + 1 - j] = A(n + 1 - j, from[n + 1 - (j - 1)])
    BY <1>9, <2>4
  <2> QED BY <1>4, <2>1, <2>3, <2>4, <2>5
<1>11. \A k \in 1..(n + 1) : from[k] \in Some
  <2> SUFFICES ASSUME NEW k \in 1..(n + 1) PROVE from[k] \in Some
    OBVIOUS
  <2>1. n + 1 - k \in 0..n /\ n + 1 - (n + 1 - k) = k
    BY <1>2
  <2> QED BY <1>10, <2>1
<1>15. ReadLines(body)
  <2>1. \A k \in 1..n : from[k] = LineBefore(body[k], from[k + 1])
    BY <1>9 DEF A, LineBefore
  <2>2. \A k \in 1..(n + 1) : from[k] \in Seq(Texts) /\ from[k] # <<>>
    BY <1>11 DEF Some
  <2> QED BY <1>1, <1>9, <2>1, <2>2 DEF ReadLines, Reading
<1>12. from[1] \in Some
  BY <1>2, <1>11
<1>13. CASE n = 0
  BY <1>1, <1>12, <1>13, <1>15, EmptySeq DEF Some, Texts
<1>14. CASE n # 0
  <2>1. 1 \in 1..n /\ from[1] = A(1, from[2]) /\ from[2] \in Some
    BY <1>2, <1>9, <1>11, <1>14
  <2>2. Len(from[1]) = 1 => from[1][1] # <<>>
    BY <1>4, <2>1
  <2> QED BY <1>1, <1>12, <1>15, <2>2 DEF Some
<1> QED BY <1>13, <1>14

LEMMA InkConcat ==
  ASSUME NEW a \in Texts, NEW b \in Texts
  PROVE  Ink(a \o b) = Ink(a) \o Ink(b)
BY InkFacts

LEMMA SaidFirst ==
  ASSUME NEW s \in Texts, NEW p \in Seq(Texts)
  PROVE  Said(<<s>> \o p) = Ink(s) \o Said(p)
<1>1. <<s>> \in Seq(Texts) /\ Said(<<s>>) = Ink(s)
  BY SaidFacts
<1>2. Said(<<s>> \o p) = Said(<<s>>) \o Said(p)
  BY <1>1, SaidFacts
<1> QED BY <1>1, <1>2

\* The text from its k-th character on.
From(s, k) == SubSeq(s, k, Len(s))

LEMMA FromFacts ==
  ASSUME NEW s \in Texts
  PROVE  /\ From(s, 1) = s /\ From(s, Len(s) + 1) = <<>>
         /\ \A k \in 1..(Len(s) + 1) : From(s, k) \in Texts
<1>1. Len(s) \in Nat /\ \A i \in 1..Len(s) : s[i] \in Chars
  BY LenProperties, ElementOfSeq DEF Texts
<1>2. From(s, 1) = s
  BY SubSeqFull DEF From, Texts
<1>3. From(s, Len(s) + 1) = <<>>
  BY <1>1, SubSeqEmpty DEF From
<1>4. ASSUME NEW k \in 1..(Len(s) + 1) PROVE From(s, k) \in Texts
  <2>1. \A i \in k..Len(s) : s[i] \in Chars
    BY <1>1
  <2> QED BY <1>1, <2>1, SubSeqProperties DEF From, Texts
<1> QED BY <1>2, <1>3, <1>4

LEMMA FromParts ==
  ASSUME NEW s \in Texts, NEW k \in 1..Len(s), NEW m \in k..(Len(s) + 1)
  PROVE  /\ SubSeq(s, k, m - 1) \in Texts
         /\ From(s, k) = SubSeq(s, k, m - 1) \o From(s, m)
<1> PICK n, i : n = Len(s) /\ i = m - 1
  OBVIOUS
<1>1. n \in Nat /\ i \in (k - 1)..n /\ i + 1 = m /\ n \in i..n /\ k \in 1..(n + 1)
  BY LenProperties DEF Texts
<1>2. SubSeq(s, k, i) \o SubSeq(s, i + 1, n) = SubSeq(s, k, n)
  BY <1>1, ConcatAdjacentSubSeq DEF Texts
<1>3. \A j \in k..i : s[j] \in Chars
  BY <1>1, ElementOfSeq DEF Texts
<1>4. SubSeq(s, k, i) \in Texts
  BY <1>1, <1>3, SubSeqProperties DEF Texts
<1> QED BY <1>1, <1>2, <1>4 DEF From

LEMMA FromNext ==
  ASSUME NEW s \in Texts, NEW k \in 1..Len(s)
  PROVE  From(s, k) = <<s[k]>> \o From(s, k + 1) /\ <<s[k]>> \in Texts
<1>1. Len(s) \in Nat /\ k \in Nat /\ Len(s) \in k..Len(s) /\ s[k] \in Chars
  BY LenProperties, ElementOfSeq DEF Texts
<1>2. SubSeq(s, k, Len(s)) = <<s[k]>> \o SubSeq(s, k + 1, Len(s))
  BY <1>1, SubSeqRecursiveFirst DEF Texts
<1>3. <<s[k]>> \in Texts
  BY <1>1 DEF Texts
<1> QED BY <1>2, <1>3 DEF From

\* A line break is all that is between two lines.
LEMMA LineBeforeSays ==
  ASSUME NEW c \in Chars, NEW rest \in Seq(Texts), rest # <<>>
  PROVE  Said(LineBefore(c, rest)) = Ink(<<c>>) \o Said(rest)
<1>1. <<c>> \in Texts
  BY DEF Texts
<1>2. CASE c = NL
  <2>1. <<>> \in Texts /\ << <<>> >> \in Seq(Texts)
    BY TextFacts, SaidFacts
  <2>2. Said(<< <<>> >> \o rest) = Said(<< <<>> >>) \o Said(rest)
    BY <2>1, SaidFacts
  <2>3. Said(<< <<>> >>) = <<>> /\ Ink(<<c>>) = <<>>
    BY <1>2, <2>1, SaidFacts, InkFacts
  <2> QED BY <1>2, <2>2, <2>3 DEF LineBefore
<1>3. CASE c # NL
  <2> PICK h, t : h = Head(rest) /\ t = Tail(rest)
    OBVIOUS
  <2>1. h \in Texts /\ t \in Seq(Texts)
    BY HeadTailProperties
  <2>2. rest = <<h>> \o t
    <3>1. Len(rest) \in Nat /\ 1 \in 1..Len(rest) /\ Len(rest) \in 1..Len(rest)
      BY EmptySeq
    <3>2. SubSeq(rest, 1, Len(rest)) = <<rest[1]>> \o SubSeq(rest, 1 + 1, Len(rest))
      BY <3>1, SubSeqRecursiveFirst
    <3>3. SubSeq(rest, 1, Len(rest)) = rest /\ t = SubSeq(rest, 2, Len(rest)) /\ h = rest[1]
      BY SubSeqFull, TailIsSubSeq
    <3> QED BY <3>2, <3>3
  <2>3. Said(rest) = Ink(h) \o Said(t)
    BY <2>1, <2>2, SaidFirst
  <2> PICK g : g = <<c>> \o h
    OBVIOUS
  <2>4. g \in Texts /\ Ink(g) = Ink(<<c>>) \o Ink(h)
    BY <1>1, <2>1, TextFacts, InkFacts
  <2>5. Said(LineBefore(c, rest)) = Ink(g) \o Said(t)
    <3>1. LineBefore(c, rest) = <<g>> \o t
      BY <1>3 DEF LineBefore
    <3> QED BY <2>1, <2>4, <3>1, SaidFirst
  <2>6. Ink(<<c>>) \in Texts /\ Ink(h) \in Texts /\ Said(t) \in Texts
    BY <1>1, <2>1, InkFacts, SaidFacts
  <2>7. (Ink(<<c>>) \o Ink(h)) \o Said(t) = Ink(<<c>>) \o (Ink(h) \o Said(t))
    BY <2>6, InAnyGroups
  <2> QED BY <2>3, <2>4, <2>5, <2>7
<1> QED BY <1>2, <1>3

\* The lines say what the text says.
LEMMA LinesSay ==
  ASSUME NEW body \in Texts
  PROVE  Said(Lines(body)) = Ink(body)
<1> PICK n : n = Len(body)
  OBVIOUS
<1>1. n \in Nat /\ \A k \in 1..n : body[k] \in Chars
  BY LenProperties, ElementOfSeq DEF Texts
<1>2. PICK from : Reading(body, from)
  BY LinesAreTexts DEF ReadLines
<1>3. /\ \A k \in 1..(n + 1) : from[k] \in Seq(Texts) /\ from[k] # <<>>
      /\ from[n + 1] = << <<>> >>
      /\ \A k \in 1..n : from[k] = LineBefore(body[k], from[k + 1])
      /\ Lines(body) = from[1]
  BY <1>2 DEF Reading
<1> DEFINE Same(k) == Said(from[k]) = Ink(From(body, k))
<1>4. Same(n + 1)
  <2>1. From(body, n + 1) = <<>>
    BY FromFacts
  <2>2. Said(<< <<>> >>) = Ink(<<>>)
    BY TextFacts, SaidFacts
  <2> QED BY <1>3, <2>1, <2>2
<1>5. ASSUME NEW k \in 1..n, Same(k + 1) PROVE Same(k)
  <2>1. k + 1 \in 1..(n + 1) /\ body[k] \in Chars
    BY <1>1
  <2>2. From(body, k) = <<body[k]>> \o From(body, k + 1) /\ <<body[k]>> \in Texts
    BY FromNext
  <2>3. From(body, k + 1) \in Texts
    BY <2>1, FromFacts
  <2>4. Ink(From(body, k)) = Ink(<<body[k]>>) \o Ink(From(body, k + 1))
    BY <2>2, <2>3, InkFacts
  <2>5. Said(from[k]) = Ink(<<body[k]>>) \o Said(from[k + 1])
    BY <1>3, <2>1, LineBeforeSays
  <2> QED BY <1>5, <2>4, <2>5
<1> HIDE DEF Same
<1> DEFINE Off == {j \in 0..n : ~Same(n + 1 - j)}
<1>6. Off = {}
  <2> SUFFICES ASSUME Off # {} PROVE FALSE
    OBVIOUS
  <2>1. PICK j \in Off : \A i \in Off : j <= i
    <3>1. Off \subseteq Nat
      OBVIOUS
    <3> QED BY <3>1, LeastNat
  <2>2. j # 0
    BY <1>1, <1>4, <2>1
  <2>3. /\ n + 1 - j \in 1..n /\ n + 1 - j + 1 = n + 1 - (j - 1)
        /\ j - 1 \in 0..n /\ ~(j <= j - 1)
    BY <1>1, <2>1, <2>2
  <2>4. Same(n + 1 - (j - 1))
    BY <2>1, <2>3
  <2> QED BY <1>5, <2>1, <2>3, <2>4
<1>7. Same(1)
  <2>1. n \in 0..n /\ n + 1 - n = 1
    BY <1>1
  <2> QED BY <1>6, <2>1
<1>8. From(body, 1) = body
  BY FromFacts
<1> QED BY <1>3, <1>7, <1>8 DEF Same

\* Where hardSplit cuts: beyond the first character and within the limit.
LEMMA CutInReach ==
  ASSUME NEW s, NEW k \in Nat, NEW maxLen \in Nat, maxLen >= 2
  PROVE  Cut(s, k, maxLen) \in 1..maxLen
<1> DEFINE spaces == {i \in 0..(maxLen - 1) : s[k + i] = SP}
           last == CHOOSE i \in spaces : \A j \in spaces : i >= j
<1>1. spaces \subseteq 0..(maxLen - 1)
  OBVIOUS
<1>0. Cut(s, k, maxLen) = IF spaces = {} \/ last < maxLen \div 2 THEN maxLen ELSE last
  BY DEF Cut
<1> HIDE DEF spaces
<1>2. maxLen \div 2 >= 1
  OBVIOUS
<1>3. CASE spaces # {}
  <2> DEFINE Gaps == {maxLen - i : i \in spaces}
  <2>0. \A i \in spaces : maxLen - i \in Nat
    BY <1>1
  <2>1. Gaps \subseteq Nat /\ Gaps # {}
    BY <1>3, <2>0
  <2>2. PICK g \in Gaps : \A h \in Gaps : g <= h
    BY <2>1, LeastNat
  <2>3. PICK i \in spaces : g = maxLen - i
    OBVIOUS
  <2>4. \A j \in spaces : i >= j
    <3> TAKE j \in spaces
    <3>1. maxLen - j \in Gaps
      OBVIOUS
    <3>2. maxLen - i <= maxLen - j
      BY <2>2, <2>3, <3>1
    <3> QED BY <1>1, <3>2
  <2>5. last \in spaces
    BY <2>4
  <2>6. last \in 0..(maxLen - 1)
    BY <1>1, <2>5
  <2> HIDE DEF last
  <2>7. maxLen \div 2 \in Nat
    OBVIOUS
  <2>8. CASE last < maxLen \div 2
    BY <1>0, <2>8
  <2>9. CASE ~(last < maxLen \div 2)
    BY <1>0, <1>2, <1>3, <2>6, <2>7, <2>9
  <2> QED BY <2>8, <2>9
<1>4. CASE spaces = {}
  BY <1>0, <1>4
<1> QED BY <1>3, <1>4

\* HardSplit, told from the end of the line.
Cutting(s, maxLen, pieces) ==
  \A k \in 1..(Len(s) + 1) :
    LET next == k + Cut(s, k, maxLen) IN
    /\ pieces[k] \in Seq(Pieces(maxLen))
    /\ pieces[k] = IF k > Len(s) THEN <<>>
                   ELSE IF Len(s) - k < maxLen THEN <<SubSeq(s, k, Len(s))>>
                   ELSE <<SubSeq(s, k, next - 1)>>
                          \o pieces[IF s[next] = SP THEN next + 1 ELSE next]
CutUp(s, maxLen) == \E pieces : Cutting(s, maxLen, pieces) /\ HardSplit(s, maxLen) = pieces[1]

\* hardSplit makes no piece longer than the limit and none that is empty.
LEMMA HardSplitFits ==
  ASSUME NEW s \in Texts, NEW maxLen \in Nat, maxLen >= 2
  PROVE  /\ HardSplit(s, maxLen) \in Seq(Pieces(maxLen))
         /\ s # <<>> => HardSplit(s, maxLen) # <<>>
         /\ CutUp(s, maxLen)
<1> DEFINE n == Len(s)
           next(k) == k + Cut(s, k, maxLen)
           to(k) == IF s[next(k)] = SP THEN next(k) + 1 ELSE next(k)
           head(k) == <<SubSeq(s, k, next(k) - 1)>>
           rest(k) == <<SubSeq(s, k, n)>>
           B(k, f) == IF k > n THEN <<>>
                      ELSE IF n - k < maxLen THEN rest(k)
                      ELSE head(k) \o f[to(k)]
           Def(f) == [k \in 1..(n + 1) |-> B(k, f)]
           pieces == CHOOSE f : f = Def(f)
           Out == Seq(Pieces(maxLen))
<1>1. HardSplit(s, maxLen) = pieces[1]
  BY DEF HardSplit
<1>2. n \in Nat
  BY DEF Texts
<1>3. \A k \in 1..n : Cut(s, k, maxLen) \in 1..maxLen
  BY <1>2, CutInReach
<1>4. ASSUME NEW k \in 1..n, ~(n - k < maxLen)
      PROVE  to(k) \in (k + 1)..(n + 1)
  BY <1>2, <1>3, <1>4
<1>5. ASSUME NEW k \in 1..n, ~(n - k < maxLen)
      PROVE  head(k) \in Out /\ Len(head(k)) = 1
  <2> DEFINE m == next(k) - 1
  <2>1. m \in k..n /\ m - k + 1 \in 1..maxLen
    BY <1>2, <1>3, <1>5
  <2> HIDE DEF m
  <2>2. SubSeq(s, k, m) \in Texts /\ Len(SubSeq(s, k, m)) = m - k + 1
    BY <1>2, <2>1, SubSeqProperties DEF Texts
  <2>3. SubSeq(s, k, m) \in Pieces(maxLen)
    BY <2>1, <2>2 DEF Pieces
  <2> QED BY <2>3 DEF m
<1>6. ASSUME NEW k \in 1..n, n - k < maxLen
      PROVE  rest(k) \in Out /\ Len(rest(k)) = 1
  <2>1. SubSeq(s, k, n) \in Texts /\ Len(SubSeq(s, k, n)) = n - k + 1
    BY <1>2, SubSeqProperties DEF Texts
  <2>2. SubSeq(s, k, n) \in Pieces(maxLen)
    BY <1>2, <1>6, <2>1 DEF Pieces
  <2> QED BY <2>2
<1> HIDE DEF n, next, to, head, rest, Out
<1>7. <<>> \in Out
  BY DEF Out
<1>8. ASSUME NEW k \in 1..n, ~(n - k < maxLen), NEW o \in Out
      PROVE  head(k) \o o \in Out /\ head(k) \o o # <<>>
  <2>1. head(k) \in Out /\ Len(head(k)) = 1
    BY <1>5, <1>8
  <2> QED BY <2>1, ConcatProperties DEF Out
<1>9. ASSUME NEW k \in 1..(n + 1), NEW f, \A i \in (k + 1)..(n + 1) : f[i] \in Out
      PROVE  B(k, f) \in Out /\ (k <= n => B(k, f) # <<>>)
  <2>1. CASE k > n
    BY <1>2, <1>7, <2>1
  <2>2. CASE ~(k > n) /\ n - k < maxLen
    <3>1. k \in 1..n
      BY <1>2, <2>2
    <3>2. rest(k) \in Out /\ Len(rest(k)) = 1
      BY <1>6, <2>2, <3>1
    <3>3. rest(k) # <<>>
      BY <3>2
    <3> QED BY <2>2, <3>2, <3>3
  <2>3. CASE ~(k > n) /\ ~(n - k < maxLen)
    <3>1. k \in 1..n
      BY <1>2, <2>3
    <3>2. f[to(k)] \in Out
      BY <1>4, <1>9, <2>3, <3>1
    <3> QED BY <1>8, <2>3, <3>1, <3>2
  <2> QED BY <2>1, <2>2, <2>3
<1>10. ASSUME NEW k \in 1..(n + 1), NEW f, NEW g, \A i \in (k + 1)..(n + 1) : f[i] = g[i]
       PROVE  B(k, f) = B(k, g)
  <2>1. CASE k > n
    BY <2>1
  <2>2. CASE ~(k > n)
    <3>1. k \in 1..n
      BY <1>2, <2>2
    <3> QED BY <1>4, <1>10, <3>1
  <2> QED BY <2>1, <2>2
<1> HIDE DEF B
<1> DEFINE Good(j, g) == /\ g \in [(n + 1 - j)..(n + 1) -> Out]
                         /\ \A k \in (n + 1 - j)..(n + 1) : g[k] = B(k, g)
<1> HIDE DEF Good
<1> DEFINE Bad == {j \in 0..n : ~ \E g : Good(j, g)}
<1>11. Bad = {}
  <2> SUFFICES ASSUME Bad # {} PROVE FALSE
    OBVIOUS
  <2>1. PICK j \in Bad : \A i \in Bad : j <= i
    <3>1. Bad \subseteq Nat
      OBVIOUS
    <3> QED BY <3>1, LeastNat
  <2> DEFINE k0 == n + 1 - j
  <2>2. \E g : /\ g \in [(k0 + 1)..(n + 1) -> Out]
               /\ \A k \in (k0 + 1)..(n + 1) : g[k] = B(k, g)
    <3>1. CASE j = 0
      <4> DEFINE g == [k \in (k0 + 1)..(n + 1) |-> <<>>]
      <4>1. (k0 + 1)..(n + 1) = {}
        BY <1>2, <3>1
      <4>2. g \in [(k0 + 1)..(n + 1) -> Out] /\ \A k \in (k0 + 1)..(n + 1) : g[k] = B(k, g)
        BY <4>1
      <4> QED BY <4>2
    <3>2. CASE j # 0
      <4>0. j - 1 \in 0..n /\ ~(j <= j - 1)
        BY <2>1, <3>2, <1>2
      <4>1. PICK g : Good(j - 1, g)
        BY <2>1, <4>0
      <4>2. n + 1 - (j - 1) = k0 + 1
        BY <1>2, <2>1
      <4> QED BY <4>1, <4>2 DEF Good
    <3> QED BY <3>1, <3>2
  <2>3. PICK g : /\ g \in [(k0 + 1)..(n + 1) -> Out]
                 /\ \A k \in (k0 + 1)..(n + 1) : g[k] = B(k, g)
    BY <2>2
  <2> DEFINE h == [k \in k0..(n + 1) |-> IF k = k0 THEN B(k0, g) ELSE g[k]]
  <2>4. k0 \in 1..(n + 1)
    BY <1>2, <2>1
  <2> HIDE DEF k0
  <2>5. \A i \in (k0 + 1)..(n + 1) : g[i] \in Out
    BY <2>3
  <2>6. B(k0, g) \in Out
    BY <1>9, <2>4, <2>5
  <2>7. h \in [k0..(n + 1) -> Out]
    BY <2>3, <2>4, <2>6, <1>2
  <2>8. \A i \in (k0 + 1)..(n + 1) : h[i] = g[i]
    BY <2>4, <1>2
  <2>9. ASSUME NEW k \in k0..(n + 1) PROVE h[k] = B(k, h)
    <3> HIDE DEF h
    <3>1. k \in 1..(n + 1) /\ \A i \in (k + 1)..(n + 1) : i \in (k0 + 1)..(n + 1)
      BY <1>2, <2>4
    <3>2. B(k, h) = B(k, g)
      BY <1>10, <2>8, <3>1
    <3>3. CASE k = k0
      BY <3>2, <3>3, <2>4, <1>2 DEF h
    <3>4. CASE k # k0
      <4>1. k \in (k0 + 1)..(n + 1)
        BY <1>2, <2>4, <3>4
      <4> QED BY <2>3, <2>8, <3>2, <4>1
    <3> QED BY <3>3, <3>4
  <2> HIDE DEF h
  <2>10. Good(j, h)
    BY <2>7, <2>9 DEF k0, Good
  <2> QED BY <2>1, <2>10
<1>12. PICK g : Good(n, g)
  BY <1>2, <1>11
<1>13. g = Def(g)
  <2>1. n + 1 - n = 1
    BY <1>2
  <2>2. g \in [1..(n + 1) -> Out] /\ \A k \in 1..(n + 1) : g[k] = B(k, g)
    BY <1>12, <2>1 DEF Good
  <2> QED BY <2>2
<1>14. pieces = Def(pieces)
  BY <1>13
<1> HIDE DEF pieces
<1>15. \A k \in 1..(n + 1) : pieces[k] = B(k, pieces)
  <2>1. \A k \in 1..(n + 1) : Def(pieces)[k] = B(k, pieces)
    OBVIOUS
  <2> HIDE DEF Def
  <2> QED BY <1>14, <2>1
<1> HIDE DEF Def, Bad
<1> DEFINE Off == {j \in 0..n : pieces[n + 1 - j] \notin Out}
<1>16. Off = {}
  <2> SUFFICES ASSUME Off # {} PROVE FALSE
    OBVIOUS
  <2>1. PICK j \in Off : \A i \in Off : j <= i
    <3>1. Off \subseteq Nat
      OBVIOUS
    <3> QED BY <3>1, LeastNat
  <2>2. n + 1 - j \in 1..(n + 1)
    BY <1>2, <2>1
  <2>3. ASSUME NEW i \in (n + 1 - j + 1)..(n + 1) PROVE pieces[i] \in Out
    <3>1. n + 1 - i \in 0..n /\ ~(j <= n + 1 - i) /\ n + 1 - (n + 1 - i) = i
      BY <1>2, <2>1
    <3> QED BY <2>1, <3>1
  <2>4. pieces[n + 1 - j] \in Out
    BY <1>9, <1>15, <2>2, <2>3
  <2> QED BY <2>1, <2>4
<1>17. \A k \in 1..(n + 1) : pieces[k] \in Out
  <2> SUFFICES ASSUME NEW k \in 1..(n + 1) PROVE pieces[k] \in Out
    OBVIOUS
  <2>1. n + 1 - k \in 0..n /\ n + 1 - (n + 1 - k) = k
    BY <1>2
  <2> QED BY <1>16, <2>1
<1>18. 1 \in 1..(n + 1) /\ \A i \in 2..(n + 1) : i \in 1..(n + 1)
  BY <1>2
<1>19. pieces[1] \in Out /\ (1 <= n => pieces[1] # <<>>)
  BY <1>9, <1>15, <1>17, <1>18
<1>20. s # <<>> => 1 <= n
  BY DEF n, Texts
<1>21. Cutting(s, maxLen, pieces)
  BY <1>15, <1>17 DEF Cutting, B, n, next, to, head, rest, Out
<1>22. CutUp(s, maxLen)
  BY <1>1, <1>21 DEF CutUp
<1> QED BY <1>1, <1>19, <1>20, <1>22 DEF Out

LEMMA PiecesAreTexts ==
  ASSUME NEW maxLen, NEW p \in Seq(Pieces(maxLen))
  PROVE  p \in Seq(Texts)
<1>1. Pieces(maxLen) \subseteq Texts
  BY DEF Pieces
<1> QED BY <1>1, SeqMonotonic

\* hardSplit loses no more than the blanks it cuts at.
LEMMA HardSplitSays ==
  ASSUME NEW s \in Texts, NEW maxLen \in Nat, maxLen >= 2
  PROVE  Said(HardSplit(s, maxLen)) = Ink(s)
<1> PICK n : n = Len(s)
  OBVIOUS
<1>1. n \in Nat
  BY LenProperties DEF Texts
<1>2. PICK pieces : Cutting(s, maxLen, pieces) /\ HardSplit(s, maxLen) = pieces[1]
  BY HardSplitFits DEF CutUp
<1>3. \A k \in 1..(n + 1) : pieces[k] \in Seq(Texts)
  BY <1>2, PiecesAreTexts DEF Cutting
<1> DEFINE Same(k) == Said(pieces[k]) = Ink(From(s, k))
<1>4. ASSUME NEW k \in 1..(n + 1), \A i \in (k + 1)..(n + 1) : Same(i) PROVE Same(k)
  <2>1. CASE k > n
    <3>1. k = n + 1
      BY <1>1, <2>1
    <3>2. pieces[k] = <<>> /\ From(s, k) = <<>>
      BY <1>2, <2>1, <3>1, FromFacts DEF Cutting
    <3> QED BY <3>2, SaidFacts, InkFacts
  <2>2. CASE ~(k > n) /\ n - k < maxLen
    <3>1. pieces[k] = <<From(s, k)>>
      BY <1>2, <2>2 DEF Cutting, From
    <3>2. From(s, k) \in Texts
      BY FromFacts
    <3> QED BY <3>1, <3>2, SaidFacts
  <2>3. CASE ~(k > n) /\ ~(n - k < maxLen)
    <3> PICK next : next = k + Cut(s, k, maxLen)
      OBVIOUS
    <3> PICK to : to = IF s[next] = SP THEN next + 1 ELSE next
      OBVIOUS
    <3> PICK head : head = SubSeq(s, k, next - 1)
      OBVIOUS
    <3>1. /\ k \in 1..n /\ next \in k..(n + 1) /\ next \in (k + 1)..n
          /\ to \in (k + 1)..(n + 1)
      <4>1. k \in 1..n
        BY <1>1, <2>3
      <4>2. Cut(s, k, maxLen) \in 1..maxLen
        BY <4>1, CutInReach
      <4>3. next \in (k + 1)..n
        <5> PICK c : c = Cut(s, k, maxLen)
          OBVIOUS
        <5>1. c \in 1..maxLen /\ next = k + c
          BY <4>2
        <5> QED BY <1>1, <2>3, <4>1, <5>1
      <4>4. to = next + 1 \/ to = next
        OBVIOUS
      <4> QED BY <1>1, <4>1, <4>3, <4>4
    <3>2. pieces[k] = <<head>> \o pieces[to]
      BY <1>2, <2>3 DEF Cutting
    <3>3. head \in Texts /\ From(s, k) = head \o From(s, next)
      BY <3>1, FromParts
    <3>4. Ink(From(s, next)) = Ink(From(s, to))
      <4>1. CASE s[next] = SP
        <5>1. next \in 1..n /\ next + 1 \in 1..(n + 1)
          BY <1>1, <3>1
        <5>2. From(s, next) = <<SP>> \o From(s, to) /\ <<SP>> \in Texts
          BY <4>1, <5>1, FromNext
        <5>3. From(s, to) \in Texts
          BY <4>1, <5>1, FromFacts
        <5>4. Ink(From(s, next)) = <<>> \o Ink(From(s, to))
          <6>1. Ink(<<SP>> \o From(s, to)) = Ink(<<SP>>) \o Ink(From(s, to))
            BY <5>2, <5>3, InkConcat
          <6>2. Ink(<<SP>>) = <<>>
            BY InkFacts
          <6> QED BY <5>2, <6>1, <6>2
        <5> QED BY <5>3, <5>4, InkFacts, TextFacts
      <4>2. CASE s[next] # SP
        BY <4>2
      <4> QED BY <4>1, <4>2
    <3>5. From(s, next) \in Texts
      <4>1. next \in 1..(n + 1)
        BY <1>1, <3>1
      <4> QED BY <4>1, FromFacts
    <3>6. Ink(From(s, k)) = Ink(head) \o Ink(From(s, to))
      BY <3>3, <3>4, <3>5, InkConcat
    <3>7. Said(pieces[k]) = Ink(head) \o Said(pieces[to])
      <4>1. pieces[to] \in Seq(Texts)
        BY <1>1, <1>3, <3>1
      <4> QED BY <3>2, <3>3, <4>1, SaidFirst
    <3>8. Same(to)
      BY <1>4, <3>1
    <3> QED BY <3>6, <3>7, <3>8
  <2> QED BY <2>1, <2>2, <2>3
<1> HIDE DEF Same
<1> DEFINE Off == {j \in 0..n : ~Same(n + 1 - j)}
<1>5. Off = {}
  <2> SUFFICES ASSUME Off # {} PROVE FALSE
    OBVIOUS
  <2>1. PICK j \in Off : \A i \in Off : j <= i
    <3>1. Off \subseteq Nat
      OBVIOUS
    <3> QED BY <3>1, LeastNat
  <2>2. n + 1 - j \in 1..(n + 1)
    BY <1>1, <2>1
  <2>3. ASSUME NEW i \in (n + 1 - j + 1)..(n + 1) PROVE Same(i)
    <3>1. n + 1 - i \in 0..n /\ ~(j <= n + 1 - i) /\ n + 1 - (n + 1 - i) = i
      BY <1>1, <2>1
    <3> QED BY <2>1, <3>1
  <2> QED BY <1>4, <2>1, <2>2, <2>3
<1>6. Same(1)
  <2>1. n \in 0..n /\ n + 1 - n = 1
    BY <1>1
  <2> QED BY <1>5, <2>1
<1>7. From(s, 1) = s
  BY FromFacts
<1> QED BY <1>2, <1>6, <1>7 DEF Same

\* What Split knows between two lines.
State(maxLen) ==
  [out : Seq(Pieces(maxLen)), current : {s \in Texts : Len(s) <= maxLen},
   inFence : BOOLEAN, tag : {TrimSpace(l) : l \in Texts} \cup {<<>>}]

LEMMA StateFields ==
  ASSUME NEW maxLen, NEW st \in State(maxLen)
  PROVE  /\ st.out \in Seq(Pieces(maxLen))
         /\ st.current \in Texts /\ Len(st.current) <= maxLen
  BY DEF State

Filled(st, c) == [st EXCEPT !.current = c]
Emptied(st, o, c) == [st EXCEPT !.out = o, !.current = c]

LEMMA FilledFits ==
  ASSUME NEW maxLen, NEW st \in State(maxLen), NEW c \in Texts, Len(c) <= maxLen
  PROVE  /\ Filled(st, c) \in State(maxLen)
         /\ Filled(st, c).out = st.out /\ Filled(st, c).current = c
<1>1. c \in {s \in Texts : Len(s) <= maxLen}
  OBVIOUS
<1> QED BY <1>1 DEF State, Filled

LEMMA EmptiedFits ==
  ASSUME NEW maxLen, NEW st \in State(maxLen), NEW o \in Seq(Pieces(maxLen)),
         NEW c \in Texts, Len(c) <= maxLen
  PROVE  /\ Emptied(st, o, c) \in State(maxLen)
         /\ Emptied(st, o, c).out = o /\ Emptied(st, o, c).current = c
<1>1. c \in {s \in Texts : Len(s) <= maxLen}
  OBVIOUS
<1> QED BY <1>1 DEF State, Emptied

LEMMA FlushFits ==
  ASSUME NEW maxLen \in Nat, NEW st \in State(maxLen)
  PROVE  /\ Flush(st) \in Seq(Pieces(maxLen))
         /\ Flush(st) = <<>> <=> st.out = <<>> /\ st.current = <<>>
<1>1. /\ st.out \in Seq(Pieces(maxLen))
      /\ st.current \in Texts /\ Len(st.current) <= maxLen
  BY StateFields
<1>2. CASE st.current = <<>>
  BY <1>1, <1>2 DEF Flush
<1>3. CASE st.current # <<>>
  <2>1. st.current \in Pieces(maxLen)
    BY <1>1, <1>3 DEF Pieces, Texts
  <2>2. /\ Append(st.out, st.current) \in Seq(Pieces(maxLen))
        /\ Append(st.out, st.current) # <<>>
    BY <1>1, <2>1, AppendProperties
  <2> QED BY <1>3, <2>2 DEF Flush
<1> QED BY <1>2, <1>3

\* What is said in the pieces made and in the one being filled.
Told(st) == Said(st.out) \o Ink(st.current)

LEMMA ToldIs ==
  ASSUME NEW maxLen, NEW st \in State(maxLen)
  PROVE  /\ Said(st.out) \in Texts /\ Ink(st.current) \in Texts /\ Told(st) \in Texts
         /\ st.current = <<>> => Told(st) = Said(st.out)
<1>1. st.out \in Seq(Pieces(maxLen)) /\ st.current \in Texts
  BY StateFields
<1>2. Said(st.out) \in Texts /\ Ink(st.current) \in Texts
  BY <1>1, PiecesAreTexts, SaidFacts, InkFacts
<1>3. st.current = <<>> => Said(st.out) \o Ink(st.current) = Said(st.out)
  BY <1>2, InkFacts, TextFacts
<1> QED BY <1>2, <1>3, TextFacts DEF Told

LEMMA FlushSays ==
  ASSUME NEW maxLen, NEW st \in State(maxLen)
  PROVE  Said(Flush(st)) = Told(st)
<1>1. st.out \in Seq(Texts) /\ st.current \in Texts
  BY StateFields, PiecesAreTexts
<1>2. CASE st.current = <<>>
  BY <1>2, ToldIs DEF Flush
<1>3. CASE st.current # <<>>
  <2> PICK o, c : o = st.out /\ c = st.current
    OBVIOUS
  <2>1. Append(o, c) = o \o <<c>>
    BY <1>1
  <2>2. <<c>> \in Seq(Texts) /\ Said(<<c>>) = Ink(c)
    BY <1>1, SaidFacts
  <2>3. Said(o \o <<c>>) = Said(o) \o Said(<<c>>)
    BY <1>1, <2>2, SaidFacts
  <2> QED BY <1>3, <2>1, <2>2, <2>3 DEF Flush, Told
<1> QED BY <1>2, <1>3

LEMMA ToggleKeepsState ==
  ASSUME NEW maxLen \in Nat, NEW st \in State(maxLen), NEW line \in Texts
  PROVE  /\ Toggle(st, line) \in State(maxLen)
         /\ Toggle(st, line).out = st.out
         /\ Toggle(st, line).current = st.current
<1>1. TrimSpace(line) \in {TrimSpace(l) : l \in Texts} \cup {<<>>}
  OBVIOUS
<1> QED BY <1>1 DEF Toggle, State

\* A line added: the state keeps to the limit, what there is to send stays so, and the
\* line is told after what has been.
LEMMA AddLineFits ==
  ASSUME NEW maxLen \in Nat, maxLen >= 2, NEW st \in State(maxLen), NEW line \in Texts,
         NEW first \in BOOLEAN
  PROVE  /\ AddLine(st, line, first, maxLen) \in State(maxLen)
         /\ ~first \/ line # <<>> \/ Flush(st) # <<>>
              => Flush(AddLine(st, line, first, maxLen)) # <<>>
         /\ Told(AddLine(st, line, first, maxLen)) = Told(st) \o Ink(line)
<1> DEFINE added == IF first THEN line ELSE <<NL>> \o line
           full == Len(st.current) + Len(added) > maxLen /\ st.current # <<>>
           closed == IF st.inFence /\ Len(st.current) + 4 <= maxLen
                     THEN [st EXCEPT !.current = @ \o <<NL>> \o Fence] ELSE st
           rest == IF full THEN line ELSE added
           base == [Toggle(st, line) EXCEPT
                      !.out = IF full THEN Flush(closed) ELSE @,
                      !.current = IF full THEN <<>> ELSE @]
           cut == [base EXCEPT !.out = Flush(base) \o HardSplit(rest, maxLen), !.current = <<>>]
           kept == [base EXCEPT !.current = @ \o rest]
<1>1. AddLine(st, line, first, maxLen) = IF Len(rest) > maxLen THEN cut ELSE kept
  BY DEF AddLine
<1>2. /\ st.out \in Seq(Pieces(maxLen)) /\ st.current \in Texts
      /\ Len(st.current) \in Nat /\ Len(st.current) <= maxLen /\ Len(line) \in Nat
  BY StateFields DEF Texts
<1>3. /\ added \in Texts /\ Len(added) \in Nat
      /\ ~first => Len(added) = Len(line) + 1
      /\ first => added = line
      /\ Ink(added) = Ink(line)
  <2>1. <<NL>> \in Texts /\ Len(<<NL>>) = 1
    BY CharsAssumption DEF Texts
  <2>2. <<NL>> \o line \in Texts /\ Len(<<NL>> \o line) = 1 + Len(line)
    BY <2>1, ConcatProperties DEF Texts
  <2>3. Ink(<<NL>> \o line) = Ink(line)
    <3>1. Ink(<<NL>> \o line) = Ink(<<NL>>) \o Ink(line)
      BY <2>1, InkConcat
    <3>2. Ink(<<NL>>) = <<>> /\ Ink(line) \in Texts
      BY InkFacts
    <3> QED BY <3>1, <3>2, TextFacts
  <2> QED BY <1>2, <2>2, <2>3
<1> HIDE DEF added
<1>4. /\ closed \in State(maxLen) /\ (st.current # <<>> => closed.current # <<>>)
      /\ Told(closed) = Told(st)
  <2>1. CASE st.inFence /\ Len(st.current) + 4 <= maxLen
    <3> DEFINE b == st.current \o <<NL>>
               c == b \o Fence
    <3>1. <<NL>> \in Texts /\ Len(<<NL>>) = 1 /\ Fence \in Texts /\ Len(Fence) = 3
      BY CharsAssumption DEF Texts, Fence
    <3>2. b \in Texts /\ Len(b) = Len(st.current) + 1
      BY <1>2, <3>1, ConcatProperties DEF Texts
    <3> HIDE DEF b
    <3>3. c \in Texts /\ Len(c) = Len(st.current) + 4
      <4>1. b \in Seq(Chars) /\ Fence \in Seq(Chars)
        BY <3>1, <3>2 DEF Texts
      <4>2. b \o Fence \in Seq(Chars) /\ Len(b \o Fence) = Len(b) + Len(Fence)
        BY <4>1, ConcatProperties
      <4> QED BY <1>2, <3>1, <3>2, <4>2 DEF Texts
    <3>4. c # <<>>
      BY <1>2, <3>3, EmptySeq
    <3>8. Ink(c) = Ink(st.current)
      <4>1. Ink(b) = Ink(st.current)
        <5>1. Ink(st.current \o <<NL>>) = Ink(st.current) \o Ink(<<NL>>)
          BY <1>2, <3>1, InkConcat
        <5>2. Ink(<<NL>>) = <<>> /\ Ink(st.current) \in Texts
          BY <1>2, InkFacts
        <5> QED BY <5>1, <5>2, TextFacts DEF b
      <4>2. Ink(Fence) = <<>>
        <5> PICK q, e : q = <<BQ>> /\ e = q \o q
          OBVIOUS
        <5>1. q \in Texts /\ e \in Texts /\ Fence = e \o q
          BY CharsAssumption DEF Texts, Fence
        <5>2. Ink(q) = <<>>
          BY InkFacts
        <5>3. Ink(e) = Ink(q) \o Ink(q) /\ Ink(Fence) = Ink(e) \o Ink(q)
          BY <5>1, InkConcat
        <5> QED BY <5>2, <5>3, TextFacts
      <4>3. Ink(b \o Fence) = Ink(b) \o Ink(Fence) /\ Ink(b) \in Texts
        BY <3>1, <3>2, InkConcat, InkFacts
      <4> QED BY <4>1, <4>2, <4>3, TextFacts
    <3> HIDE DEF c
    <3>5. closed = Filled(st, c)
      BY <2>1 DEF b, c, Filled
    <3>6. Len(c) <= maxLen
      BY <1>2, <2>1, <3>3
    <3> HIDE DEF closed
    <3>7. closed \in State(maxLen) /\ closed.current = c /\ closed.out = st.out
      BY <3>3, <3>5, <3>6, FilledFits
    <3>9. Told(closed) = Told(st)
      BY <3>7, <3>8 DEF Told
    <3> QED BY <3>4, <3>7, <3>9
  <2>2. CASE ~(st.inFence /\ Len(st.current) + 4 <= maxLen)
    BY <2>2
  <2> QED BY <2>1, <2>2
<1> HIDE DEF closed
<1>14. Said(Flush(closed)) = Told(st)
  BY <1>4, FlushSays
<1>5. /\ Flush(closed) \in Seq(Pieces(maxLen))
      /\ st.current # <<>> => Flush(closed) # <<>>
  BY <1>4, FlushFits
<1>6. /\ rest \in Texts /\ Len(rest) \in Nat
      /\ ~full /\ Len(rest) <= maxLen => Len(st.current) + Len(rest) <= maxLen
      /\ ~full /\ (~first \/ line # <<>>) => rest # <<>>
      /\ Ink(rest) = Ink(line)
  <2>1. CASE full
    BY <1>2, <2>1
  <2>2. CASE ~full
    <3>1. rest = added
      BY <2>2
    <3>2. st.current = <<>> => Len(st.current) = 0
      BY EmptySeq
    <3>3. Len(st.current) + Len(added) <= maxLen \/ st.current = <<>>
      BY <1>2, <1>3, <2>2
    <3>4. ~first \/ line # <<>> => added # <<>>
      BY <1>2, <1>3, EmptySeq
    <3> HIDE DEF full, rest
    <3>5. Len(rest) <= maxLen => Len(st.current) + Len(rest) <= maxLen
      BY <1>2, <1>3, <3>1, <3>2, <3>3
    <3> QED BY <1>3, <2>2, <3>1, <3>4, <3>5
  <2> QED BY <2>1, <2>2
<1>7. /\ base \in State(maxLen)
      /\ base.out = IF full THEN Flush(closed) ELSE st.out
      /\ base.current = IF full THEN <<>> ELSE st.current
  <2>1. /\ Toggle(st, line) \in State(maxLen)
        /\ Toggle(st, line).out = st.out /\ Toggle(st, line).current = st.current
    BY ToggleKeepsState
  <2>2. <<>> \in Texts /\ Len(<<>>) = 0
    BY DEF Texts
  <2> DEFINE o == IF full THEN Flush(closed) ELSE st.out
             c == IF full THEN <<>> ELSE st.current
  <2>3. base = Emptied(Toggle(st, line), o, c)
    BY <2>1 DEF Emptied
  <2>4. o \in Seq(Pieces(maxLen)) /\ c \in Texts /\ Len(c) <= maxLen
    BY <1>2, <1>5, <2>2
  <2> HIDE DEF base, full, o, c
  <2>5. base \in State(maxLen) /\ base.out = o /\ base.current = c
    BY <2>1, <2>3, <2>4, EmptiedFits
  <2> QED BY <2>5 DEF o, c
<1>15. Told(base) = Told(st)
  <2> HIDE DEF base
  <2>1. CASE full
    <3>1. base.current = <<>> /\ base.out = Flush(closed)
      BY <1>7, <2>1
    <3>2. Told(base) = Said(base.out)
      BY <1>7, <3>1, ToldIs
    <3> QED BY <1>14, <3>1, <3>2
  <2>2. CASE ~full
    <3>1. base.current = st.current /\ base.out = st.out
      BY <1>7, <2>2
    <3> QED BY <3>1 DEF Told
  <2> QED BY <2>1, <2>2
<1>8. full => st.current # <<>>
  OBVIOUS
<1> HIDE DEF full, rest, base
<1>9. base.out \in Seq(Pieces(maxLen)) /\ base.current \in Texts /\ Len(base.current) <= maxLen
  BY <1>7, StateFields
<1>10. /\ Flush(base) \in Seq(Pieces(maxLen))
       /\ Flush(base) = <<>> <=> base.out = <<>> /\ base.current = <<>>
  BY <1>7, FlushFits
<1>11. Flush(st) = <<>> <=> st.out = <<>> /\ st.current = <<>>
  BY FlushFits
<1>12. CASE Len(rest) > maxLen
  <2>1. /\ HardSplit(rest, maxLen) \in Seq(Pieces(maxLen))
        /\ HardSplit(rest, maxLen) # <<>>
    <3>1. rest # <<>>
      BY <1>12, EmptySeq
    <3> QED BY <1>6, <3>1, HardSplitFits
  <2> DEFINE o == Flush(base) \o HardSplit(rest, maxLen)
  <2>2. o \in Seq(Pieces(maxLen)) /\ o # <<>>
    BY <1>10, <2>1, ConcatProperties, EmptySeq
  <2> HIDE DEF o
  <2>3. cut = Emptied(base, o, <<>>)
    BY DEF o, Emptied
  <2>4. <<>> \in Texts /\ Len(<<>>) = 0
    BY DEF Texts
  <2> HIDE DEF cut
  <2>5. cut \in State(maxLen) /\ cut.out = o /\ cut.current = <<>>
    BY <1>7, <2>2, <2>3, <2>4, EmptiedFits
  <2>6. Flush(cut) # <<>>
    BY <2>2, <2>5, FlushFits
  <2>7. Told(cut) = Told(st) \o Ink(line)
    <3>1. Told(cut) = Said(o)
      BY <2>5, ToldIs
    <3>2. Said(o) = Said(Flush(base)) \o Said(HardSplit(rest, maxLen))
      <4>1. Flush(base) \in Seq(Texts) /\ HardSplit(rest, maxLen) \in Seq(Texts)
        BY <1>10, <2>1, PiecesAreTexts
      <4> QED BY <4>1, SaidFacts DEF o
    <3>3. Said(Flush(base)) = Told(base)
      BY <1>7, FlushSays
    <3>4. Said(HardSplit(rest, maxLen)) = Ink(rest)
      BY <1>6, HardSplitSays
    <3> QED BY <1>6, <1>15, <3>1, <3>2, <3>3, <3>4
  <2> QED BY <1>1, <1>12, <2>5, <2>6, <2>7
<1>13. CASE ~(Len(rest) > maxLen)
  <2> DEFINE c == base.current \o rest
  <2>1. /\ c \in Texts /\ Len(c) = Len(base.current) + Len(rest)
        /\ Len(base.current) \in Nat
    BY <1>6, <1>9, ConcatProperties DEF Texts
  <2>2. Len(c) <= maxLen
    <3>1. CASE full
      BY <1>6, <1>7, <1>13, <2>1, <3>1, EmptySeq
    <3>2. CASE ~full
      BY <1>6, <1>7, <1>13, <2>1, <3>2
    <3> QED BY <3>1, <3>2
  <2>3. c = <<>> => base.current = <<>> /\ rest = <<>>
    BY <1>6, <1>9, <2>1, EmptySeq DEF Texts
  <2> HIDE DEF c
  <2>4. kept = Filled(base, c)
    BY DEF c, Filled
  <2> HIDE DEF kept
  <2>5. kept \in State(maxLen) /\ kept.out = base.out /\ kept.current = c
    BY <1>7, <2>1, <2>2, <2>4, FilledFits
  <2>6. Flush(kept) = <<>> <=> base.out = <<>> /\ c = <<>>
    BY <2>5, FlushFits
  <2>7. ASSUME ~first \/ line # <<>> \/ Flush(st) # <<>>, Flush(kept) = <<>> PROVE FALSE
    <3>1. base.out = <<>> /\ base.current = <<>> /\ rest = <<>>
      BY <2>3, <2>6, <2>7
    <3>2. CASE full
      BY <1>5, <1>7, <1>8, <3>1, <3>2
    <3>3. CASE ~full
      BY <1>6, <1>7, <1>11, <2>7, <3>1, <3>3
    <3> QED BY <3>2, <3>3
  <2>8. Told(kept) = Told(st) \o Ink(line)
    <3>1. Ink(c) = Ink(base.current) \o Ink(rest)
      BY <1>6, <1>9, InkConcat DEF c
    <3>2. Told(kept) = Said(base.out) \o (Ink(base.current) \o Ink(rest))
      BY <2>5, <3>1 DEF Told
    <3>3. Said(base.out) \in Texts /\ Ink(base.current) \in Texts /\ Ink(rest) \in Texts
      BY <1>6, <1>7, ToldIs, InkFacts
    <3>4. (Said(base.out) \o Ink(base.current)) \o Ink(rest)
            = Said(base.out) \o (Ink(base.current) \o Ink(rest))
      BY <3>3, InAnyGroups
    <3>5. Told(base) = Said(base.out) \o Ink(base.current)
      BY DEF Told
    <3> QED BY <1>6, <1>15, <3>2, <3>4, <3>5
  <2> QED BY <1>1, <1>13, <2>5, <2>7, <2>8
<1> QED BY <1>12, <1>13

\* Split, line by line.
Taking(body, maxLen, after) ==
  LET lines == Lines(body)  n == Len(lines) IN
  /\ \A i \in 0..n : after[i] \in State(maxLen)
  /\ after[0] = Opening
  /\ \A i \in 1..n : after[i] = AddLine(after[i - 1], lines[i], i = 1, maxLen)
  /\ Split(body, maxLen) = Flush(after[n])
TakenByLines(body, maxLen) == \E after : Taking(body, maxLen, after)

LEMMA SplitByLines ==
  ASSUME NEW body \in Texts, NEW maxLen \in Nat, maxLen >= 2, Len(body) > maxLen
  PROVE  /\ Split(body, maxLen) \in Seq(Pieces(maxLen)) /\ Split(body, maxLen) # <<>>
         /\ TakenByLines(body, maxLen)
<1>0. body # <<>> /\ ~(Len(body) <= maxLen)
  BY EmptySeq DEF Texts
<1> DEFINE lines == Lines(body)
           n == Len(lines)
           Def(f) == [i \in 0..n |->
                        IF i = 0 THEN Opening ELSE AddLine(f[i - 1], lines[i], i = 1, maxLen)]
           after == CHOOSE f : f = Def(f)
<1>1. Split(body, maxLen) = Flush(after[n])
  BY <1>0 DEF Split
<1>2. /\ lines \in Seq(Texts) /\ n \in Nat /\ n > 0
      /\ n = 1 => lines[1] # <<>>
  BY <1>0, LinesAreTexts
<1>3. \A i \in 1..n : lines[i] \in Texts
  BY <1>2
<1> HIDE DEF lines, n
<1>4. Opening \in State(maxLen)
  <2>1. <<>> \in Texts /\ Len(<<>>) = 0
    BY DEF Texts
  <2> QED BY <2>1 DEF Opening, State
<1> DEFINE S == State(maxLen)
           A(i, st) == AddLine(st, lines[i], i = 1, maxLen)
<1>5. ASSUME NEW i \in 1..n, NEW st \in S
      PROVE  /\ A(i, st) \in S
             /\ i # 1 \/ lines[i] # <<>> => Flush(A(i, st)) # <<>>
  <2> DEFINE b == i = 1
  <2>1. b \in BOOLEAN
    OBVIOUS
  <2> HIDE DEF b
  <2>2. /\ AddLine(st, lines[i], b, maxLen) \in S
        /\ ~b \/ lines[i] # <<>> => Flush(AddLine(st, lines[i], b, maxLen)) # <<>>
    BY <1>3, <2>1, AddLineFits
  <2> QED BY <2>2 DEF b
<1> HIDE DEF A, S
<1> DEFINE Good(j, g) == /\ g \in [0..j -> S] /\ g[0] = Opening
                         /\ \A i \in 1..j : g[i] = A(i, g[i - 1])
<1> HIDE DEF Good
<1> DEFINE Bad == {j \in 0..n : ~ \E g : Good(j, g)}
<1>6. Bad = {}
  <2> SUFFICES ASSUME Bad # {} PROVE FALSE
    OBVIOUS
  <2>1. PICK j \in Bad : \A i \in Bad : j <= i
    <3>1. Bad \subseteq Nat
      OBVIOUS
    <3> QED BY <3>1, LeastNat
  <2>2. CASE j = 0
    <3>1. Opening \in S
      BY <1>4 DEF S
    <3>2. Good(0, [i \in 0..0 |-> Opening])
      BY <3>1 DEF Good
    <3> QED BY <2>1, <2>2, <3>2
  <2>3. CASE j # 0
    <3>1. j - 1 \in 0..n /\ ~(j <= j - 1) /\ j \in 1..n
      BY <1>2, <2>1, <2>3
    <3>2. PICK g : Good(j - 1, g)
      BY <2>1, <3>1
    <3>3. /\ g \in [0..(j - 1) -> S] /\ g[0] = Opening
          /\ \A i \in 1..(j - 1) : g[i] = A(i, g[i - 1])
      BY <3>2 DEF Good
    <3>4. A(j, g[j - 1]) \in S
      BY <1>5, <3>1, <3>3
    <3> DEFINE h == [i \in 0..j |-> IF i = j THEN A(j, g[j - 1]) ELSE g[i]]
    <3>5. h \in [0..j -> S]
      BY <3>1, <3>3, <3>4
    <3>6. h[0] = Opening
      BY <3>1, <3>3
    <3>7. \A i \in 1..j : h[i] = A(i, h[i - 1])
      BY <3>1, <3>3
    <3> HIDE DEF h
    <3>8. Good(j, h)
      BY <3>5, <3>6, <3>7 DEF Good
    <3> QED BY <2>1, <3>8
  <2> QED BY <2>2, <2>3
<1>7. PICK g : Good(n, g)
  <2>1. n \in 0..n
    BY <1>2
  <2> QED BY <1>6, <2>1
<1>8. g = Def(g)
  <2>1. g \in [0..n -> S] /\ g[0] = Opening /\ \A i \in 1..n : g[i] = A(i, g[i - 1])
    BY <1>7 DEF Good
  <2>2. \A i \in 0..n : g[i] = IF i = 0 THEN Opening ELSE A(i, g[i - 1])
    BY <1>2, <2>1
  <2> QED BY <2>1, <2>2 DEF A
<1>9. after = Def(after)
  BY <1>8
<1> HIDE DEF after
<1>10. after[0] = Opening /\ \A i \in 1..n : after[i] = A(i, after[i - 1])
  <2>1. \A i \in 0..n : Def(after)[i] = IF i = 0 THEN Opening ELSE A(i, after[i - 1])
    BY DEF A
  <2> HIDE DEF Def
  <2>2. \A i \in 0..n : after[i] = IF i = 0 THEN Opening ELSE A(i, after[i - 1])
    BY <1>9, <2>1
  <2> QED BY <1>2, <2>2
<1> HIDE DEF Def, Bad
<1> DEFINE Off == {j \in 0..n : after[j] \notin S}
<1>11. Off = {}
  <2> SUFFICES ASSUME Off # {} PROVE FALSE
    OBVIOUS
  <2>1. PICK j \in Off : \A i \in Off : j <= i
    <3>1. Off \subseteq Nat
      OBVIOUS
    <3> QED BY <3>1, LeastNat
  <2>2. j # 0
    BY <1>4, <1>10, <2>1 DEF S
  <2>3. j \in 1..n /\ j - 1 \in 0..n /\ ~(j <= j - 1)
    BY <1>2, <2>1, <2>2
  <2>4. after[j - 1] \in S
    BY <2>1, <2>3
  <2> QED BY <1>5, <1>10, <2>1, <2>3, <2>4
<1>12. n \in 1..n /\ n - 1 \in 0..n
  BY <1>2
<1>13. after[n - 1] \in S /\ after[n] \in S /\ after[n] = A(n, after[n - 1])
  BY <1>2, <1>10, <1>11, <1>12
<1>14. Flush(after[n]) # <<>>
  BY <1>2, <1>5, <1>12, <1>13
<1>15. Flush(after[n]) \in Seq(Pieces(maxLen))
  BY <1>13, FlushFits DEF S
<1>16. TakenByLines(body, maxLen)
  <2>1. \A i \in 0..n : after[i] \in State(maxLen)
    BY <1>11 DEF S
  <2>2. \A i \in 1..n : after[i] = AddLine(after[i - 1], lines[i], i = 1, maxLen)
    BY <1>10 DEF A
  <2>3. Taking(body, maxLen, after)
    BY <1>1, <1>10, <2>1, <2>2 DEF Taking, lines, n
  <2> QED BY <2>3 DEF TakenByLines
<1> QED BY <1>1, <1>14, <1>15, <1>16
\* Split keeps to the platform's limit (chunk.go:13): no piece is empty or longer than
\* maxLen, and only the empty text has none, for every text.
THEOREM SplitFits ==
  ASSUME NEW body \in Texts, NEW maxLen \in Nat, maxLen >= 2
  PROVE  /\ Split(body, maxLen) \in Seq(Pieces(maxLen))
         /\ Split(body, maxLen) = <<>> <=> body = <<>>
<1>1. CASE body = <<>>
  BY <1>1 DEF Split
<1>2. CASE body # <<>> /\ Len(body) <= maxLen
  <2>1. body \in Pieces(maxLen)
    BY <1>2, EmptySeq DEF Pieces, Texts
  <2> QED BY <1>2, <2>1 DEF Split
<1>3. CASE body # <<>> /\ ~(Len(body) <= maxLen)
  <2>1. Len(body) \in Nat
    BY LenProperties DEF Texts
  <2> QED BY <1>3, <2>1, SplitByLines
<1> QED BY <1>1, <1>2, <1>3

\* Nothing that was written is lost, repeated or moved: between them the pieces say what
\* the body says, but for blanks where it was cut and fences closed there.  This for every
\* text, where chunk_test.go and fuzz_test.go try some.
THEOREM SplitKeeps ==
  ASSUME NEW body \in Texts, NEW maxLen \in Nat, maxLen >= 2
  PROVE  Ink(FlattenSeq(Split(body, maxLen))) = Ink(body)
<1>1. CASE body = <<>>
  <2>1. Split(body, maxLen) = <<>> /\ FlattenSeq(<<>>) = <<>>
    BY <1>1 DEF Split, FlattenSeq
  <2> QED BY <1>1, <2>1
<1>2. CASE body # <<>> /\ Len(body) <= maxLen
  <2>1. Split(body, maxLen) = <<body>>
    BY <1>2 DEF Split
  <2>2. Said(<<body>>) = Ink(body)
    BY SaidFacts
  <2> QED BY <2>1, <2>2 DEF Said
<1>3. CASE body # <<>> /\ ~(Len(body) <= maxLen)
  <2> PICK lines, n : lines = Lines(body) /\ n = Len(lines)
    OBVIOUS
  <2>1. /\ lines \in Seq(Texts) /\ n \in Nat /\ \A i \in 1..n : lines[i] \in Texts
        /\ Said(lines) = Ink(body)
    BY LinesAreTexts, LinesSay, LenProperties, ElementOfSeq
  <2>2. Len(body) > maxLen
    <3>1. Len(body) \in Nat
      BY LenProperties DEF Texts
    <3> QED BY <1>3, <3>1
  <2>3. PICK after : Taking(body, maxLen, after)
    BY <2>2, SplitByLines DEF TakenByLines
  <2>4. /\ \A i \in 0..n : after[i] \in State(maxLen)
        /\ after[0] = Opening
        /\ \A i \in 1..n : after[i] = AddLine(after[i - 1], lines[i], i = 1, maxLen)
        /\ Split(body, maxLen) = Flush(after[n])
    BY <2>3 DEF Taking
  <2> DEFINE Same(i) == Told(after[i]) = Said(SubSeq(lines, 1, i))
  <2>5. Same(0)
    <3>1. SubSeq(lines, 1, 0) = <<>>
      BY SubSeqEmpty
    <3>2. Opening.out = <<>> /\ Opening.current = <<>>
      BY DEF Opening
    <3>3. Told(Opening) = Said(<<>>) \o Ink(<<>>)
      BY <3>2 DEF Told
    <3>4. Said(<<>>) \o Ink(<<>>) = Said(<<>>)
      BY SaidFacts, InkFacts, TextFacts
    <3> QED BY <2>4, <3>1, <3>3, <3>4
  <2>6. ASSUME NEW i \in 1..n, Same(i - 1) PROVE Same(i)
    <3> PICK b : b = (i = 1)
      OBVIOUS
    <3>1. b \in BOOLEAN /\ i - 1 \in 0..n /\ lines[i] \in Texts
      BY <2>1
    <3>2. after[i - 1] \in State(maxLen) /\ after[i] = AddLine(after[i - 1], lines[i], b, maxLen)
      BY <2>4, <3>1
    <3>3. Told(after[i]) = Told(after[i - 1]) \o Ink(lines[i])
      <4> PICK st, line : st = after[i - 1] /\ line = lines[i]
        OBVIOUS
      <4>1. st \in State(maxLen) /\ line \in Texts
        BY <3>1, <3>2
      <4>2. Told(AddLine(st, line, b, maxLen)) = Told(st) \o Ink(line)
        BY <3>1, <4>1, AddLineFits
      <4> QED BY <3>2, <4>2
    <3>4. SubSeq(lines, 1, i) = SubSeq(lines, 1, i - 1) \o <<lines[i]>>
      <4>1. 1 \in 1..Len(lines) /\ i \in 1..Len(lines)
        BY <2>1
      <4> QED BY <2>1, <4>1, SubSeqRecursiveSecond
    <3>5. SubSeq(lines, 1, i - 1) \in Seq(Texts)
      <4>1. \A k \in 1..(i - 1) : lines[k] \in Texts
        BY <2>1
      <4> QED BY <2>1, <4>1, SubSeqProperties
    <3>6. Said(SubSeq(lines, 1, i)) = Said(SubSeq(lines, 1, i - 1)) \o Ink(lines[i])
      BY <3>1, <3>4, <3>5, SaidFacts
    <3> QED BY <2>6, <3>3, <3>6
  <2> HIDE DEF Same
  <2> DEFINE Off == {i \in 0..n : ~Same(i)}
  <2>7. Off = {}
    <3> SUFFICES ASSUME Off # {} PROVE FALSE
      OBVIOUS
    <3>1. PICK i \in Off : \A k \in Off : i <= k
      <4>1. Off \subseteq Nat
        OBVIOUS
      <4> QED BY <4>1, LeastNat
    <3>2. i # 0
      BY <2>5, <3>1
    <3>3. i \in 1..n /\ i - 1 \in 0..n /\ ~(i <= i - 1)
      BY <2>1, <3>1, <3>2
    <3> QED BY <2>6, <3>1, <3>3
  <2>8. Same(n) /\ after[n] \in State(maxLen)
    <3>1. n \in 0..n
      BY <2>1
    <3> QED BY <2>4, <2>7, <3>1
  <2>9. Told(after[n]) = Ink(body)
    <3>1. SubSeq(lines, 1, n) = lines
      BY <2>1, SubSeqFull
    <3> QED BY <2>1, <2>8, <3>1 DEF Same
  <2>10. Said(Flush(after[n])) = Told(after[n])
    BY <2>8, FlushSays
  <2> QED BY <2>4, <2>9, <2>10 DEF Said
<1> QED BY <1>1, <1>2, <1>3

----------------------------------------------------------------------------
(* The inductive invariant *)

InPost == worker.pc \in {"send", "backoff", "endpost", "record"}
Sending == worker.pc \in {"send", "backoff"}
RecordType == [post : 1..Posts, what : {"bot", "aborted"}, id : 0..Posts]

TypesOK ==
  /\ kind \in Kinds /\ ctx \in BOOLEAN /\ token \in BOOLEAN
  /\ worker \in WorkerType /\ loop \in [1..Turns -> LoopType]
  /\ typing \in 0..Turns
  /\ chunks \in [1..Posts -> Seq(Pieces(MaxChunk))]
  /\ delivered \in Seq((1..Posts) \X Nat)
  /\ answered \cup lost \subseteq ToSet(delivered)
  /\ records \in Seq(RecordType)

\* Where the worker is, and whose typing state is registered.
WorkerOK ==
  /\ worker.pc = "idle" => typing = 0
  /\ worker.pc # "idle" => typing = worker.turn /\ worker.turn >= 1
  /\ InPost => worker.post >= 1 /\ worker.i >= 1
  /\ worker.pc = "backoff" => worker.attempt < Retries

\* A loop counts the post in flight of its own turn; a nudge that is owed is pending.
LoopsOK ==
  \A t \in 1..Turns :
    /\ t > worker.turn => loop[t] = NoLoop
    /\ loop[t].posting = IF t = typing /\ worker.pc \in {"send", "backoff", "endpost"}
                         THEN 1 ELSE 0
    /\ loop[t].owed => loop[t].resume /\ loop[t].posting = 0

\* What the worker knows of its post is true.
PostOK ==
  /\ Len(records) = IF InPost THEN worker.post - 1 ELSE worker.post
  /\ Sending => worker.i <= Len(chunks[worker.post]) /\ worker.err = "none"
  /\ InPost /\ ~Sending /\ worker.err = "none" => worker.i > Len(chunks[worker.post])
  /\ InPost => \/ /\ worker.first = 0 /\ worker.i = 1
                  /\ \A d \in answered : d[1] # worker.post
               \/ /\ worker.first = worker.post /\ <<worker.post, 1>> \in answered
                  /\ chunks[worker.post] # <<>>

\* A record agrees with what has arrived.
RecordsTrue ==
  \A k \in DOMAIN records :
    LET r == records[k] IN
    /\ r.post = k
    /\ r.what = "aborted" => \A d \in answered : d[1] # k
    /\ r.what = "bot" => IF chunks[k] = <<>> THEN r.id = 0
                         ELSE r.id = k /\ <<k, 1>> \in answered

\* Nothing of a later post or piece has arrived.
NothingAhead ==
  \A k \in DOMAIN delivered :
    /\ delivered[k][1] <= worker.post
    /\ Sending /\ delivered[k][1] = worker.post => delivered[k][2] <= worker.i

InOrder ==
  \A k \in DOMAIN delivered :
    LET p == delivered[k][1]  i == delivered[k][2] IN
    \/ i = 1 /\ \A j \in 1..(k - 1) : delivered[j][1] < p
    \/ k > 1 /\ delivered[k - 1] = <<p, i - 1>>
    \/ k > 1 /\ delivered[k - 1] = <<p, i>> /\ <<p, i>> \in lost

\* What has arrived last is the piece before the one being sent, or that piece itself
\* where its answer was lost; a first piece follows the posts before.
Frontier ==
  Sending =>
    LET n == Len(delivered) IN
    \/ worker.i = 1 /\ \A k \in DOMAIN delivered : delivered[k][1] < worker.post
    \/ n > 0 /\ delivered[n] = <<worker.post, worker.i - 1>>
    \/ n > 0 /\ delivered[n] = Piece /\ Piece \in lost

\* How often a piece has arrived.
Places(d) == {j \in DOMAIN delivered : delivered[j] = d}

\* A piece has arrived at most once for each attempt.
Counted ==
  /\ \A p \in 1..Posts : \A i \in Nat : Cardinality(Places(<<p, i>>)) <= Retries + 1
  /\ worker.pc = "send" => Cardinality(Places(Piece)) <= worker.attempt
  /\ worker.pc = "backoff" => Cardinality(Places(Piece)) <= worker.attempt + 1

IInv ==
  /\ TypesOK /\ WorkerOK /\ LoopsOK /\ PostOK
  /\ RecordsTrue /\ NothingAhead /\ InOrder /\ Frontier /\ Counted

----------------------------------------------------------------------------
(* Steps of the loops and of the outside *)

USE OutboundAssumption

LEMMA InitEstablishes == Init => IInv
<1> SUFFICES ASSUME Init PROVE IInv
  OBVIOUS
<1> USE DEF Init, NoCall
<1>1. TypesOK
  <2>1. <<>> \in Seq(Pieces(MaxChunk)) /\ <<>> \in Seq((1..Posts) \X Nat) /\ <<>> \in Seq(RecordType)
    OBVIOUS
  <2>2. worker \in WorkerType
    BY DEF WorkerType
  <2>3. loop \in [1..Turns -> LoopType]
    BY DEF LoopType, NoLoop
  <2> QED BY <2>1, <2>2, <2>3 DEF TypesOK
<1>2. WorkerOK
  BY DEF WorkerOK, InPost
<1>3. LoopsOK
  BY DEF LoopsOK, NoLoop
<1>4. PostOK
  BY DEF PostOK, InPost, Sending
<1>5. RecordsTrue /\ NothingAhead /\ InOrder
  BY DEF RecordsTrue, NothingAhead, InOrder
<1>6. Frontier
  BY DEF Frontier, Sending
<1>7. Counted
  <2>1. \A d : Places(d) = {}
    BY DEF Places
  <2>2. Cardinality({}) = 0
    BY FS_EmptySet
  <2>3. \A d : Cardinality(Places(d)) = 0
    BY <2>1, <2>2
  <2>4. worker.pc = "idle"
    OBVIOUS
  <2> HIDE DEF Init
  <2> QED BY <2>3, <2>4 DEF Counted
<1> QED BY <1>1, <1>2, <1>3, <1>4, <1>5, <1>6, <1>7 DEF IInv

\* The parts that do not look at the loops, the context or the token.
PostsOK ==
  WorkerOK /\ PostOK /\ RecordsTrue /\ NothingAhead /\ InOrder /\ Frontier /\ Counted

LEMMA PostsStutter ==
  ASSUME PostsOK, UNCHANGED <<worker, typing, chunks, delivered, answered, lost, records>>
  PROVE  PostsOK'
<1> USE DEF PostsOK
<1>1. WorkerOK'
  BY DEF WorkerOK, InPost
<1>2. PostOK'
  BY DEF PostOK, InPost, Sending
<1>3. RecordsTrue' /\ NothingAhead' /\ InOrder' /\ Frontier'
  BY DEF RecordsTrue, NothingAhead, InOrder, Frontier, Sending, Piece
<1>4. Counted'
  BY DEF Counted, Places, Piece
<1> QED BY <1>1, <1>2, <1>3, <1>4

\* What one loop's step makes of it: it counts the same posts in flight.
Follows(x, l) ==
  /\ x \in LoopType
  /\ x.posting = l.posting
  /\ x.owed => x.resume /\ x.posting = 0

LEMMA LoopChange ==
  ASSUME IInv, NEW t \in 1..Turns, loop[t].pc # "none", NEW x, Follows(x, loop[t]),
         loop' = [loop EXCEPT ![t] = x], Still
  PROVE  IInv'
<1>1. TypesOK'
  BY DEF IInv, TypesOK, Still, Follows, post
<1>2. LoopsOK'
  <2> SUFFICES ASSUME NEW s \in 1..Turns
               PROVE  /\ s > worker.turn => loop'[s] = NoLoop
                      /\ loop'[s].posting = IF s = typing /\ worker.pc \in {"send", "backoff", "endpost"}
                                            THEN 1 ELSE 0
                      /\ loop'[s].owed => loop'[s].resume /\ loop'[s].posting = 0
    BY DEF LoopsOK, Still
  <2>1. CASE s = t
    <3>1. loop'[s] = x
      BY <2>1 DEF IInv, TypesOK
    <3>2. ~(t > worker.turn)
      BY DEF IInv, LoopsOK, NoLoop
    <3> QED BY <2>1, <3>1, <3>2 DEF IInv, LoopsOK, Follows
  <2>2. CASE s # t
    <3>1. loop'[s] = loop[s]
      BY <2>2 DEF IInv, TypesOK
    <3> QED BY <3>1 DEF IInv, LoopsOK
  <2> QED BY <2>1, <2>2
<1>3. PostsOK'
  <2>1. PostsOK
    BY DEF IInv, PostsOK
  <2> QED BY <2>1, PostsStutter DEF Still, post
<1> QED BY <1>1, <1>2, <1>3 DEF IInv, PostsOK

LEMMA LoopSteps ==
  ASSUME IInv, NEW t \in 1..Turns, Loop(t) \/ Tick(t)
  PROVE  IInv'
<1> DEFINE l == loop[t]
<1>1. /\ l \in LoopType /\ loop \in [1..Turns -> LoopType]
      /\ l.owed => l.resume /\ l.posting = 0
  BY DEF IInv, TypesOK, LoopsOK
<1>2. ASSUME NEW pc \in {"begin", "fire", "wait", "config"}, l.pc # "none",
             loop' = [loop EXCEPT ![t].pc = pc], Still
      PROVE  IInv'
  <2> DEFINE x == [l EXCEPT !.pc = pc]
  <2>1. Follows(x, l)
    BY <1>1 DEF Follows, LoopType
  <2>2. loop' = [loop EXCEPT ![t] = x]
    BY <1>1, <1>2
  <2> HIDE DEF x
  <2> QED BY <1>2, <2>1, <2>2, LoopChange
<1>3. ASSUME l.pc # "none", End(t), Still
      PROVE  IInv'
  <2> DEFINE x == [NoLoop EXCEPT !.pc = "ended", !.posting = l.posting]
  <2>1. Follows(x, l)
    BY <1>1 DEF Follows, LoopType, NoLoop
  <2>2. loop' = [loop EXCEPT ![t] = x]
    BY <1>3 DEF End
  <2> HIDE DEF x
  <2> QED BY <1>3, <2>1, <2>2, LoopChange
<1>4. ASSUME l.pc # "none", NEW nudge \in BOOLEAN, loop' = Idle(t, nudge), Still
      PROVE  IInv'
  <2>1. CASE l.posting = 0
    <3> DEFINE x == [l EXCEPT !.pc = "fire", !.resume = nudge, !.owed = FALSE]
    <3>1. Follows(x, l)
      BY <1>1 DEF Follows, LoopType
    <3>2. loop' = [loop EXCEPT ![t] = x]
      BY <1>1, <1>4, <2>1 DEF Idle
    <3> HIDE DEF x
    <3> QED BY <1>4, <3>1, <3>2, LoopChange
  <2>2. CASE l.posting # 0
    <3> DEFINE x == [l EXCEPT !.pc = "wait", !.resume = nudge]
    <3>1. Follows(x, l)
      BY <1>1, <2>2 DEF Follows, LoopType
    <3>2. loop' = [loop EXCEPT ![t] = x]
      BY <1>1, <1>4, <2>2 DEF Idle
    <3> HIDE DEF x
    <3> QED BY <1>4, <3>1, <3>2, LoopChange
  <2> QED BY <2>1, <2>2
<1>5. l.resume \in BOOLEAN
  BY <1>1 DEF LoopType
<1>6. CASE GetConfig(t)
  BY <1>2, <1>3, <1>6 DEF GetConfig, LoopGoto
<1>7. CASE Begin(t)
  BY <1>4, <1>5, <1>7 DEF Begin
<1>8. CASE Fire(t)
  BY <1>2, <1>8 DEF Fire, LoopGoto
<1>9. CASE Tick(t)
  BY <1>4, <1>5, <1>9 DEF Tick
<1>10. CASE TakeNudge(t)
  BY <1>4, <1>10 DEF TakeNudge
<1>11. CASE LoopEnds(t)
  BY <1>3, <1>11 DEF LoopEnds
<1> QED BY <1>6, <1>7, <1>8, <1>9, <1>10, <1>11 DEF Loop

LEMMA OutsideSteps ==
  ASSUME IInv, HardCancel \/ TokenArrives
  PROVE  IInv'
<1>1. /\ UNCHANGED <<kind, worker, chunks, delivered, answered, lost, records, typing, loop>>
      /\ ctx' \in BOOLEAN /\ token' \in BOOLEAN
  BY DEF HardCancel, TokenArrives, post, IInv, TypesOK
<1>2. TypesOK'
  BY <1>1 DEF IInv, TypesOK
<1>3. LoopsOK'
  BY <1>1 DEF IInv, LoopsOK
<1>4. PostsOK'
  <2>1. PostsOK
    BY DEF IInv, PostsOK
  <2> QED BY <1>1, <2>1, PostsStutter
<1> QED BY <1>2, <1>3, <1>4 DEF IInv, PostsOK

----------------------------------------------------------------------------
(* Steps of the worker *)

AfterNext(w, pieces, n) ==
  /\ n \in WorkerType
  /\ n.turn = w.turn /\ n.post = w.post /\ n.i = w.i /\ n.first = w.first
  /\ \/ n.pc = "endpost" /\ (n.err = "ctx" \/ (w.i > Len(pieces) /\ n.err = w.err))
     \/ n.pc = "send" /\ n.attempt = 0 /\ n.err = w.err /\ ~(w.i > Len(pieces))

LEMMA NextPieceIs ==
  ASSUME NEW w \in WorkerType, NEW pieces
  PROVE  AfterNext(w, pieces, NextPiece(w, pieces))
<1> DEFINE n == NextPiece(w, pieces)
<1> SUFFICES AfterNext(w, pieces, n)
  OBVIOUS
<1>1. CASE w.i > Len(pieces)
  <2>1. n = [w EXCEPT !.pc = "endpost"]
    BY <1>1 DEF NextPiece
  <2> HIDE DEF n
  <2>2. n \in WorkerType
    BY <2>1 DEF WorkerType
  <2>3. /\ n.turn = w.turn /\ n.post = w.post /\ n.i = w.i /\ n.first = w.first
        /\ n.pc = "endpost" /\ n.err = w.err
    BY <2>1 DEF WorkerType
  <2> QED BY <1>1, <2>2, <2>3 DEF AfterNext
<1>2. CASE ~(w.i > Len(pieces)) /\ kind = "wechat" /\ ~ctx
  <2>1. n = [w EXCEPT !.pc = "endpost", !.err = "ctx"]
    BY <1>2 DEF NextPiece
  <2> HIDE DEF n
  <2>2. n \in WorkerType
    BY <2>1 DEF WorkerType
  <2>3. /\ n.turn = w.turn /\ n.post = w.post /\ n.i = w.i /\ n.first = w.first
        /\ n.pc = "endpost" /\ n.err = "ctx"
    BY <2>1 DEF WorkerType
  <2> QED BY <2>2, <2>3 DEF AfterNext
<1>3. CASE ~(w.i > Len(pieces)) /\ ~(kind = "wechat" /\ ~ctx)
  <2>1. n = [w EXCEPT !.pc = "send", !.attempt = 0]
    BY <1>3 DEF NextPiece
  <2> HIDE DEF n
  <2>2. 0 \in 0..Retries
    OBVIOUS
  <2>3. n \in WorkerType
    BY <2>1, <2>2 DEF WorkerType
  <2>4. /\ n.turn = w.turn /\ n.post = w.post /\ n.i = w.i /\ n.first = w.first
        /\ n.pc = "send" /\ n.attempt = 0 /\ n.err = w.err
    BY <2>1 DEF WorkerType
  <2> QED BY <1>3, <2>3, <2>4 DEF AfterNext
<1> QED BY <1>1, <1>2, <1>3

\* What IInv says of the worker's turn and of its loop.
LEMMA TurnFacts ==
  ASSUME IInv
  PROVE  /\ worker \in WorkerType /\ worker.turn \in 0..Turns /\ worker.post \in 0..Posts
         /\ worker.i \in Nat /\ worker.attempt \in 0..Retries
         /\ loop \in [1..Turns -> LoopType]
         /\ worker.pc # "idle" => typing = worker.turn /\ worker.turn \in 1..Turns
         /\ InPost => worker.post \in 1..Posts /\ worker.i >= 1
  BY DEF IInv, TypesOK, WorkerOK, WorkerType, InPost

\* A record stays true while its post's pieces do and nothing more of it is answered.
LEMMA RecordsStayTrue ==
  ASSUME IInv, UNCHANGED records,
         \A k \in DOMAIN records : chunks'[k] = chunks[k],
         answered \subseteq answered',
         \A d \in answered' : d \in answered \/ d[1] \notin DOMAIN records
  PROVE  RecordsTrue'
<1> SUFFICES ASSUME NEW k \in DOMAIN records
             PROVE  /\ records[k].post = k
                    /\ records[k].what = "aborted" => \A d \in answered' : d[1] # k
                    /\ records[k].what = "bot" =>
                         IF chunks'[k] = <<>> THEN records[k].id = 0
                         ELSE records[k].id = k /\ <<k, 1>> \in answered'
  BY DEF RecordsTrue
<1>1. chunks'[k] = chunks[k]
  OBVIOUS
<1> QED BY <1>1 DEF IInv, RecordsTrue

LEMMA RecordsFacts ==
  ASSUME IInv
  PROVE  /\ records \in Seq(RecordType) /\ DOMAIN records = 1..Len(records)
         /\ Len(records) = IF InPost THEN worker.post - 1 ELSE worker.post
<1>1. records \in Seq(RecordType)
  BY DEF IInv, TypesOK
<1>2. Len(records) = IF InPost THEN worker.post - 1 ELSE worker.post
  BY DEF IInv, PostOK
<1> QED BY <1>1, <1>2

LEMMA DeliveredFacts ==
  ASSUME IInv
  PROVE  /\ delivered \in Seq((1..Posts) \X Nat) /\ DOMAIN delivered = 1..Len(delivered)
         /\ Len(delivered) \in Nat
         /\ \A k \in DOMAIN delivered :
              /\ delivered[k] = <<delivered[k][1], delivered[k][2]>>
              /\ delivered[k][1] \in 1..Posts /\ delivered[k][2] \in Nat
              /\ delivered[k][1] <= worker.post
         /\ answered \subseteq ToSet(delivered) /\ lost \subseteq ToSet(delivered)
<1>1. delivered \in Seq((1..Posts) \X Nat)
  BY DEF IInv, TypesOK
<1>2. \A k \in DOMAIN delivered : delivered[k] \in (1..Posts) \X Nat
  BY <1>1
<1>3. \A k \in DOMAIN delivered : delivered[k][1] <= worker.post
  BY DEF IInv, NothingAhead
<1>4. answered \subseteq ToSet(delivered) /\ lost \subseteq ToSet(delivered)
  BY DEF IInv, TypesOK
<1> QED BY <1>1, <1>2, <1>3, <1>4

LEMMA StartTurnStep ==
  ASSUME IInv, StartTurn
  PROVE  IInv'
<1> DEFINE t == worker.turn + 1
           x == [NoLoop EXCEPT !.pc = IF kind = "wechat" THEN "config" ELSE "begin"]
<1>1. /\ worker \in WorkerType /\ worker.pc = "idle" /\ t \in 1..Turns
      /\ worker.turn \in 0..Turns /\ loop \in [1..Turns -> LoopType]
  BY TurnFacts DEF StartTurn, At
<1>2. loop[t] = NoLoop
  BY <1>1 DEF IInv, LoopsOK
<1>3. /\ loop' = [loop EXCEPT ![t] = x] /\ x \in LoopType
      /\ x.posting = 0 /\ ~x.owed
  <2> DEFINE pc == IF kind = "wechat" THEN "config" ELSE "begin"
  <2>1. loop' = [loop EXCEPT ![t].pc = pc]
    BY DEF StartTurn
  <2>2. pc \in {"config", "begin"}
    OBVIOUS
  <2> HIDE DEF pc
  <2>a. x = [NoLoop EXCEPT !.pc = pc]
    BY DEF pc
  <2>3. x \in LoopType /\ x.posting = 0 /\ ~x.owed
    <3> HIDE DEF x
    <3>1. x = [pc |-> pc, posting |-> 0, resume |-> FALSE, cancelled |-> FALSE, owed |-> FALSE]
      BY <2>a DEF NoLoop
    <3> QED BY <2>2, <3>1 DEF LoopType
  <2>4. loop' = [loop EXCEPT ![t] = [NoLoop EXCEPT !.pc = pc]]
    BY <1>1, <1>2, <2>1
  <2> QED BY <2>3, <2>4 DEF pc
<1>4. /\ worker' \in WorkerType /\ worker'.pc = "turn" /\ worker'.turn = t
      /\ worker'.post = worker.post /\ typing' = t
  <2>1. worker' = [worker EXCEPT !.pc = "turn", !.turn = t] /\ typing' = t
    BY DEF StartTurn
  <2> HIDE DEF t
  <2>2. t \in 0..Turns
    BY <1>1
  <2>3. worker' \in WorkerType
    BY <1>1, <2>1, <2>2 DEF WorkerType
  <2>4. worker'.pc = "turn" /\ worker'.turn = t /\ worker'.post = worker.post
    BY <1>1, <2>1 DEF WorkerType
  <2> QED BY <2>1, <2>3, <2>4
<1>5. UNCHANGED <<kind, ctx, token, chunks, delivered, answered, lost, records>>
  BY DEF StartTurn, post
<1> HIDE DEF x
<1>6. TypesOK'
  BY <1>1, <1>3, <1>4, <1>5 DEF IInv, TypesOK
<1>7. WorkerOK'
  BY <1>1, <1>4 DEF WorkerOK, InPost
<1>8. LoopsOK'
  <2> SUFFICES ASSUME NEW s \in 1..Turns
               PROVE  /\ s > t => loop'[s] = NoLoop
                      /\ loop'[s].posting = 0
                      /\ loop'[s].owed => loop'[s].resume /\ loop'[s].posting = 0
    BY <1>4 DEF LoopsOK
  <2>1. CASE s = t
    BY <1>1, <1>3, <2>1
  <2>2. CASE s # t
    <3>1. loop'[s] = loop[s]
      BY <1>1, <1>3, <2>2
    <3> QED BY <1>1, <3>1 DEF IInv, LoopsOK
  <2> QED BY <2>1, <2>2
<1>9. PostOK' /\ RecordsTrue' /\ NothingAhead' /\ InOrder' /\ Frontier'
  BY <1>1, <1>4, <1>5 DEF IInv, PostOK, RecordsTrue, NothingAhead, InOrder, Frontier, InPost, Sending
<1>10. Counted'
  BY <1>1, <1>4, <1>5 DEF IInv, Counted, Places
<1> QED BY <1>6, <1>7, <1>8, <1>9, <1>10 DEF IInv

LEMMA StopTypingStep ==
  ASSUME IInv, StopTyping
  PROVE  IInv'
<1> DEFINE t == worker.turn
           x == [loop[t] EXCEPT !.cancelled = TRUE]
<1>1. /\ worker \in WorkerType /\ worker.pc = "turn" /\ t \in 1..Turns
      /\ loop \in [1..Turns -> LoopType]
  BY TurnFacts DEF StopTyping, At
<1>2. loop[t].posting = 0 /\ (loop[t].owed => loop[t].resume) /\ loop[t] \in LoopType
  BY <1>1 DEF IInv, LoopsOK
<1>3. /\ loop' = [loop EXCEPT ![t] = x] /\ x \in LoopType
      /\ x.posting = 0 /\ (x.owed => x.resume)
  BY <1>1, <1>2 DEF StopTyping, LoopType
<1>4. /\ worker' \in WorkerType /\ worker'.pc = "idle" /\ worker'.turn = t
      /\ worker'.post = worker.post /\ typing' = 0
  BY <1>1 DEF StopTyping, Goto, WorkerType
<1>5. UNCHANGED <<kind, ctx, token, chunks, delivered, answered, lost, records>>
  BY DEF StopTyping, post
<1> HIDE DEF x
<1>6. TypesOK'
  BY <1>1, <1>3, <1>4, <1>5 DEF IInv, TypesOK
<1>7. WorkerOK'
  BY <1>1, <1>4 DEF WorkerOK, InPost
<1>8. LoopsOK'
  <2> SUFFICES ASSUME NEW s \in 1..Turns
               PROVE  /\ s > t => loop'[s] = NoLoop
                      /\ loop'[s].posting = 0
                      /\ loop'[s].owed => loop'[s].resume /\ loop'[s].posting = 0
    BY <1>4 DEF LoopsOK
  <2>1. CASE s = t
    BY <1>1, <1>3, <2>1 DEF WorkerType
  <2>2. CASE s # t
    <3>1. loop'[s] = loop[s]
      BY <1>1, <1>3, <2>2
    <3> QED BY <1>1, <3>1 DEF IInv, LoopsOK
  <2> QED BY <2>1, <2>2
<1>9. PostOK' /\ RecordsTrue' /\ NothingAhead' /\ InOrder' /\ Frontier'
  BY <1>1, <1>4, <1>5 DEF IInv, PostOK, RecordsTrue, NothingAhead, InOrder, Frontier, InPost, Sending
<1>10. Counted'
  BY <1>1, <1>4, <1>5 DEF IInv, Counted, Places
<1> QED BY <1>6, <1>7, <1>8, <1>9, <1>10 DEF IInv

LEMMA BeginPostStep ==
  ASSUME IInv, BeginPost
  PROVE  IInv'
<1> DEFINE p == worker.post + 1
           t == worker.turn
           w == [worker EXCEPT !.post = p, !.i = 1, !.first = 0, !.err = "none"]
           x == [loop[t] EXCEPT !.posting = 1, !.owed = FALSE]
<1>1. /\ worker \in WorkerType /\ worker.pc = "turn" /\ t \in 1..Turns /\ typing = t
      /\ loop \in [1..Turns -> LoopType] /\ p \in 1..Posts /\ worker.post \in 0..Posts
      /\ p = worker.post + 1
  BY TurnFacts DEF BeginPost, At
<1>2. loop[t].posting = 0 /\ loop[t] \in LoopType
  BY <1>1 DEF IInv, LoopsOK
<1>3. /\ loop' = [loop EXCEPT ![t] = x] /\ x \in LoopType
      /\ x.posting = 1 /\ ~x.owed
  <2>1. loop' = [loop EXCEPT ![t].posting = @ + 1, ![t].owed = FALSE]
    BY <1>1 DEF BeginPost
  <2> HIDE DEF t
  <2>2. x \in LoopType
    <3>1. 1 \in 0..1 /\ FALSE \in BOOLEAN
      OBVIOUS
    <3> DEFINE l == loop[t]
    <3>2. l \in LoopType
      BY <1>2
    <3> HIDE DEF l
    <3>3. [l EXCEPT !.posting = 1, !.owed = FALSE] \in LoopType
      BY <3>1, <3>2 DEF LoopType
    <3> QED BY <3>3 DEF l
  <2>3. x.posting = 1
    BY <1>2 DEF LoopType
  <2>4. ~x.owed
    BY <1>2 DEF LoopType
  <2>5. loop' = [loop EXCEPT ![t] = [loop[t] EXCEPT !.posting = loop[t].posting + 1, !.owed = FALSE]]
    BY <1>1, <2>1
  <2>6. loop[t].posting + 1 = 1
    BY <1>2
  <2> QED BY <2>2, <2>3, <2>4, <2>5, <2>6
<1> HIDE DEF x, p, t
<1>4. PICK body \in Bodies :
        /\ chunks' = [chunks EXCEPT ![p] = Split(body, MaxChunk)]
        /\ worker' = IF kind = "wechat" /\ ~token
                     THEN [w EXCEPT !.pc = "endpost", !.err = "gone"]
                     ELSE NextPiece(w, chunks'[p])
  BY DEF BeginPost, p
<1>5. Split(body, MaxChunk) \in Seq(Pieces(MaxChunk))
  <2>1. body \in Texts /\ MaxChunk \in Nat /\ MaxChunk >= 2
    BY DEF Texts
  <2> QED BY <2>1, SplitFits
<1>6. /\ chunks' \in [1..Posts -> Seq(Pieces(MaxChunk))]
      /\ \A k \in 1..Posts : k # p => chunks'[k] = chunks[k]
  BY <1>1, <1>4, <1>5 DEF IInv, TypesOK
<1>7. UNCHANGED <<kind, ctx, delivered, answered, lost, records, token, typing>>
  BY DEF BeginPost
<1>8. /\ w \in WorkerType /\ w.turn = t /\ w.post = p /\ w.i = 1 /\ w.first = 0
      /\ w.err = "none"
  <2>0. 1 \in Nat /\ 0 \in 0..Posts /\ p \in 0..Posts
    BY <1>1
  <2>1. w \in WorkerType
    BY <1>1, <2>0 DEF WorkerType
  <2>2. w.turn = t /\ w.post = p /\ w.i = 1 /\ w.first = 0 /\ w.err = "none"
    BY <1>1 DEF WorkerType, t
  <2> QED BY <2>1, <2>2
<1> HIDE DEF w
<1>9. /\ worker' \in WorkerType /\ worker'.turn = t /\ worker'.post = p
      /\ worker'.i = 1 /\ worker'.first = 0
      /\ \/ /\ worker'.pc = "endpost"
            /\ worker'.err = "none" => 1 > Len(chunks'[p])
         \/ /\ worker'.pc = "send" /\ worker'.attempt = 0 /\ worker'.err = "none"
            /\ ~(1 > Len(chunks'[p]))
  <2>1. CASE kind = "wechat" /\ ~token
    <3>1. worker' = [w EXCEPT !.pc = "endpost", !.err = "gone"]
      BY <1>4, <2>1
    <3> QED BY <1>8, <3>1 DEF WorkerType
  <2>2. CASE ~(kind = "wechat" /\ ~token)
    <3>1. worker' = NextPiece(w, chunks'[p])
      BY <1>4, <2>2
    <3>2. AfterNext(w, chunks'[p], worker')
      BY <1>8, <3>1, NextPieceIs
    <3> QED BY <1>8, <3>2 DEF AfterNext
  <2> QED BY <2>1, <2>2
<1>10. Len(chunks'[p]) \in Nat
  BY <1>1, <1>6
<1>11. TypesOK'
  BY <1>1, <1>3, <1>6, <1>7, <1>9 DEF IInv, TypesOK
<1>12. WorkerOK'
  BY <1>1, <1>7, <1>9 DEF WorkerOK, InPost
<1>13. LoopsOK'
  <2> SUFFICES ASSUME NEW s \in 1..Turns
               PROVE  /\ s > t => loop'[s] = NoLoop
                      /\ loop'[s].posting = IF s = t THEN 1 ELSE 0
                      /\ loop'[s].owed => loop'[s].resume /\ loop'[s].posting = 0
    BY <1>1, <1>7, <1>9 DEF LoopsOK
  <2>1. CASE s = t
    BY <1>1, <1>3, <2>1
  <2>2. CASE s # t
    <3>1. loop'[s] = loop[s]
      BY <1>1, <1>3, <2>2
    <3> QED BY <1>1, <2>2, <3>1 DEF IInv, LoopsOK, t
  <2> QED BY <2>1, <2>2
<1>14. \A k \in DOMAIN delivered : delivered[k][1] \in 1..Posts /\ delivered[k][1] < p
  BY <1>1, DeliveredFacts
<1>15. answered \subseteq ToSet(delivered)
  BY DEF IInv, TypesOK
<1>16. PostOK'
  <2>1. Len(records) = p - 1
    BY <1>1, RecordsFacts DEF InPost, p
  <2>2. \A d \in answered : d[1] # p
    <3> TAKE d \in answered
    <3>1. PICK k \in DOMAIN delivered : d = delivered[k]
      BY <1>15 DEF ToSet
    <3> QED BY <1>1, <1>14, <3>1 DEF p
  <2>3. p \in Nat
    BY <1>1
  <2>4. ((Sending => worker.i <= Len(chunks[worker.post]) /\ worker.err = "none"))'
    BY <1>9, <1>10 DEF Sending
  <2>5. (InPost /\ ~Sending /\ worker.err = "none" => worker.i > Len(chunks[worker.post]))'
    BY <1>9 DEF Sending
  <2>6. worker'.first = 0 /\ worker'.i = 1 /\ \A d \in answered' : d[1] # worker'.post
    BY <1>7, <1>9, <2>2
  <2>7. InPost' /\ Len(records') = worker'.post - 1
    BY <1>7, <1>9, <2>1 DEF InPost
  <2> QED BY <2>4, <2>5, <2>6, <2>7 DEF PostOK
<1>17. RecordsTrue'
  <2>1. \A k \in DOMAIN records : k # p /\ k \in 1..Posts
    BY <1>1, RecordsFacts DEF InPost, p
  <2> QED BY <1>6, <1>7, <2>1, RecordsStayTrue
<1>18. NothingAhead' /\ InOrder' /\ Frontier'
  <2>1. NothingAhead'
    BY <1>1, <1>7, <1>9, <1>14 DEF NothingAhead
  <2>2. InOrder'
    BY <1>7 DEF IInv, InOrder
  <2>3. Frontier'
    BY <1>7, <1>9, <1>14 DEF Frontier
  <2> QED BY <2>1, <2>2, <2>3
<1>19. Counted'
  <2>1. Places(<<p, 1>>) = {}
    BY <1>14 DEF Places
  <2>2. Cardinality(Places(<<p, 1>>)) = 0
    BY <2>1, FS_EmptySet
  <2>3. \A d : Places(d)' = Places(d)
    BY <1>7 DEF Places
  <2>4. Piece' = <<p, 1>>
    BY <1>9 DEF Piece
  <2>5. (Cardinality(Places(Piece)) = 0)'
    BY <1>7, <2>2, <2>4 DEF Places
  <2>6. \A q \in 1..Posts : \A i \in Nat : Cardinality(Places(<<q, i>>)') <= Retries + 1
    BY <2>3 DEF IInv, Counted
  <2> QED BY <1>9, <2>5, <2>6 DEF Counted
<1> QED BY <1>11, <1>12, <1>13, <1>16, <1>17, <1>18, <1>19 DEF IInv

LEMMA PlacesCounted ==
  ASSUME delivered \in Seq((1..Posts) \X Nat), NEW d
  PROVE  Cardinality(Places(d)) \in Nat
<1>1. Places(d) \subseteq 1..Len(delivered) /\ Len(delivered) \in Nat
  BY DEF Places
<1>2. IsFiniteSet(1..Len(delivered))
  BY <1>1, FS_Interval
<1>3. IsFiniteSet(Places(d))
  BY <1>1, <1>2, FS_Subset
<1> QED BY <1>3, FS_CardinalityType

LEMMA PlacesStayCounted ==
  ASSUME delivered' \in Seq((1..Posts) \X Nat), NEW d
  PROVE  Cardinality(Places(d)') \in Nat
<1>1. Places(d)' \subseteq 1..Len(delivered') /\ Len(delivered') \in Nat
  BY DEF Places
<1>2. IsFiniteSet(1..Len(delivered'))
  BY <1>1, FS_Interval
<1>3. IsFiniteSet(Places(d)')
  BY <1>1, <1>2, FS_Subset
<1> QED BY <1>3, FS_CardinalityType

\* What a piece that arrives does to what has arrived.
LEMMA Arrives ==
  ASSUME IInv, worker.pc = "send", NEW d, d = Piece, delivered' = Append(delivered, d),
         lost \subseteq lost'
  PROVE  /\ delivered' \in Seq((1..Posts) \X Nat)
         /\ ToSet(delivered)' = ToSet(delivered) \cup {d}
         /\ NothingAhead'
            <=> d[1] <= worker'.post /\ (Sending' /\ d[1] = worker'.post => d[2] <= worker'.i)
                /\ \A k \in DOMAIN delivered :
                     /\ delivered[k][1] <= worker'.post
                     /\ Sending' /\ delivered[k][1] = worker'.post => delivered[k][2] <= worker'.i
         /\ InOrder'
         /\ Len(delivered') > 0 /\ delivered'[Len(delivered')] = d
         /\ Cardinality(Places(d)') = Cardinality(Places(d)) + 1
         /\ \A e : e # d => Places(e)' = Places(e)
<1> DEFINE n == Len(delivered)
<1>1. /\ delivered \in Seq((1..Posts) \X Nat) /\ DOMAIN delivered = 1..n /\ n \in Nat
      /\ worker.post \in 1..Posts /\ worker.i \in Nat /\ worker.i >= 1
  BY DeliveredFacts, TurnFacts DEF InPost
<1>2. d = <<worker.post, worker.i>> /\ d \in (1..Posts) \X Nat
  BY <1>1 DEF Piece
<1>3. /\ delivered' \in Seq((1..Posts) \X Nat) /\ Len(delivered') = n + 1
      /\ \A k \in 1..n : delivered'[k] = delivered[k]
      /\ delivered'[n + 1] = d
  BY <1>1, <1>2, AppendProperties
<1>4. DOMAIN delivered' = 1..(n + 1)
  BY <1>3
<1> HIDE DEF n
<1>5. 1..(n + 1) = (1..n) \cup {n + 1} /\ n + 1 \notin 1..n
  BY <1>1
<1>6. ToSet(delivered)' = ToSet(delivered) \cup {d}
  BY <1>1, <1>3, <1>4, <1>5 DEF ToSet
<1>7. NothingAhead'
        <=> d[1] <= worker'.post /\ (Sending' /\ d[1] = worker'.post => d[2] <= worker'.i)
            /\ \A k \in DOMAIN delivered :
                 /\ delivered[k][1] <= worker'.post
                 /\ Sending' /\ delivered[k][1] = worker'.post => delivered[k][2] <= worker'.i
  BY <1>1, <1>3, <1>4, <1>5 DEF NothingAhead
<1>8. InOrder'
  <2> SUFFICES ASSUME NEW k \in 1..(n + 1)
               PROVE  LET p == delivered'[k][1]  i == delivered'[k][2] IN
                      \/ i = 1 /\ \A j \in 1..(k - 1) : delivered'[j][1] < p
                      \/ k > 1 /\ delivered'[k - 1] = <<p, i - 1>>
                      \/ k > 1 /\ delivered'[k - 1] = <<p, i>> /\ <<p, i>> \in lost'
    BY <1>4 DEF InOrder
  <2>1. CASE k \in 1..n
    <3>1. \A j \in 1..(k - 1) : j \in 1..n
      BY <1>1, <2>1
    <3>2. k > 1 => k - 1 \in 1..n
      BY <1>1, <2>1
    <3>3. /\ delivered'[k] = delivered[k] /\ (k > 1 => delivered'[k - 1] = delivered[k - 1])
          /\ \A j \in 1..(k - 1) : delivered'[j] = delivered[j]
      BY <1>3, <2>1, <3>1, <3>2
    <3>4. LET p == delivered[k][1]  i == delivered[k][2] IN
          \/ i = 1 /\ \A j \in 1..(k - 1) : delivered[j][1] < p
          \/ k > 1 /\ delivered[k - 1] = <<p, i - 1>>
          \/ k > 1 /\ delivered[k - 1] = <<p, i>> /\ <<p, i>> \in lost
      BY <1>1, <2>1 DEF IInv, InOrder
    <3> QED BY <3>3, <3>4
  <2>2. CASE k = n + 1
    <3>1. delivered'[k][1] = worker.post /\ delivered'[k][2] = worker.i
      BY <1>2, <1>3, <2>2
    <3>2. k - 1 = n /\ (n > 0 => k > 1 /\ delivered'[n] = delivered[n])
      BY <1>1, <1>3, <2>2
    <3>3. \/ worker.i = 1 /\ \A j \in 1..n : delivered[j][1] < worker.post
          \/ n > 0 /\ delivered[n] = <<worker.post, worker.i - 1>>
          \/ n > 0 /\ delivered[n] = <<worker.post, worker.i>> /\ <<worker.post, worker.i>> \in lost
      BY <1>1 DEF IInv, Frontier, Sending, Piece, n
    <3> QED BY <1>3, <3>1, <3>2, <3>3
  <2> QED BY <1>5, <2>1, <2>2
<1>9. \A e : Places(e)' = Places(e) \cup (IF e = d THEN {n + 1} ELSE {})
  BY <1>1, <1>3, <1>4, <1>5 DEF Places
<1>10. Cardinality(Places(d)') = Cardinality(Places(d)) + 1
  <2>1. Places(d) \subseteq 1..n
    BY <1>1 DEF Places
  <2>2. IsFiniteSet(Places(d))
    <3>1. IsFiniteSet(1..n)
      BY <1>1, FS_Interval
    <3> QED BY <2>1, <3>1, FS_Subset
  <2>3. Places(d)' = Places(d) \cup {n + 1} /\ n + 1 \notin Places(d)
    BY <1>5, <1>9, <2>1
  <2> QED BY <2>2, <2>3, FS_AddElement
<1>11. \A e : e # d => Places(e)' = Places(e)
  BY <1>9
<1>12. Len(delivered') > 0 /\ delivered'[Len(delivered')] = d
  BY <1>1, <1>3
<1> QED BY <1>3, <1>6, <1>7, <1>8, <1>10, <1>11, <1>12

\* The loops are as they were while the post goes on.
LEMMA LoopsStay ==
  ASSUME IInv, UNCHANGED <<loop, typing>>, worker'.turn = worker.turn,
         worker.pc \in {"send", "backoff", "endpost"}
           <=> worker'.pc \in {"send", "backoff", "endpost"}
  PROVE  LoopsOK'
  BY DEF IInv, LoopsOK

\* An attempt that does not get an answer, or is about to be made again.
LEMMA UnansweredStep ==
  ASSUME IInv, Sending,
         \/ UNCHANGED <<delivered, lost>>
         \/ /\ worker.pc = "send" /\ worker'.pc # "send"
            /\ delivered' = Append(delivered, Piece) /\ lost' = lost \cup {Piece},
         UNCHANGED <<kind, ctx, chunks, answered, records, token, typing, loop>>,
         worker' \in WorkerType,
         worker'.turn = worker.turn, worker'.post = worker.post,
         worker'.i = worker.i, worker'.first = worker.first,
         \/ worker'.pc = "endpost" /\ worker'.err # "none"
         \/ /\ worker.pc = "send" /\ worker'.pc = "backoff" /\ worker'.err = worker.err
            /\ worker'.attempt = worker.attempt /\ worker.attempt < Retries
         \/ /\ worker.pc = "backoff" /\ worker'.pc = "send" /\ worker'.err = worker.err
            /\ worker'.attempt = worker.attempt + 1
  PROVE  IInv'
<1>0. PICK d : d = <<worker.post, worker.i>>
  OBVIOUS
<1>a. InPost /\ InPost' /\ worker.pc # "idle" /\ worker'.pc # "idle"
  BY DEF Sending, InPost
<1>1. /\ worker.pc # "idle" /\ worker'.pc # "idle" /\ InPost /\ InPost'
      /\ worker.post \in 1..Posts /\ worker.i \in Nat /\ worker.i >= 1
      /\ worker.attempt \in 0..Retries
      /\ typing = worker.turn /\ worker.turn \in 1..Turns
      /\ Piece = d /\ Piece' = d
      /\ d = <<worker.post, worker.i>>
  BY <1>0, <1>a, TurnFacts DEF Piece
<1>2. /\ delivered' \in Seq((1..Posts) \X Nat)
      /\ ToSet(delivered) \subseteq ToSet(delivered)'
      /\ lost' \subseteq ToSet(delivered)' /\ lost \subseteq lost'
      /\ InOrder' /\ NothingAhead'
      /\ Frontier'
      /\ \A e : e # d => Places(e)' = Places(e)
      /\ Cardinality(Places(d)') <= Cardinality(Places(d)) + 1
      /\ UNCHANGED delivered => Cardinality(Places(d)') = Cardinality(Places(d))
      /\ ~UNCHANGED delivered => worker.pc = "send"
  <2>1. Cardinality(Places(d)) \in Nat
    BY DeliveredFacts, PlacesCounted
  <2>2. CASE UNCHANGED <<delivered, lost>>
    <3>1. delivered \in Seq((1..Posts) \X Nat) /\ lost \subseteq ToSet(delivered)
      BY DeliveredFacts
    <3>2. InOrder'
      BY <2>2 DEF IInv, InOrder
    <3>3. NothingAhead'
      BY <2>2 DEF IInv, NothingAhead, Sending
    <3>4. Frontier'
      BY <1>1, <2>2 DEF IInv, Frontier, Sending
    <3>5. \A e : Places(e)' = Places(e)
      BY <2>2 DEF Places
    <3> QED BY <2>1, <2>2, <3>1, <3>2, <3>3, <3>4, <3>5
  <2>3. CASE /\ worker.pc = "send" /\ worker'.pc # "send"
             /\ delivered' = Append(delivered, Piece) /\ lost' = lost \cup {Piece}
    <3>1. lost \subseteq lost' /\ d \in lost' /\ delivered' = Append(delivered, d) /\ d = Piece
      BY <1>1, <2>3
    <3>2. /\ delivered' \in Seq((1..Posts) \X Nat)
          /\ ToSet(delivered)' = ToSet(delivered) \cup {d}
          /\ InOrder'
          /\ Len(delivered') > 0 /\ delivered'[Len(delivered')] = d
          /\ Cardinality(Places(d)') = Cardinality(Places(d)) + 1
          /\ \A e : e # d => Places(e)' = Places(e)
      BY <2>3, <3>1, Arrives
    <3>3. NothingAhead'
      <4>1. d[1] = worker.post /\ d[2] = worker.i
        BY <1>1
      <4>2. d[1] <= worker'.post /\ (Sending' /\ d[1] = worker'.post => d[2] <= worker'.i)
        BY <1>1, <4>1
      <4>3. \A k \in DOMAIN delivered :
              /\ delivered[k][1] <= worker'.post
              /\ Sending' /\ delivered[k][1] = worker'.post => delivered[k][2] <= worker'.i
        BY DEF IInv, NothingAhead
      <4> QED BY <2>3, <3>1, <4>2, <4>3, Arrives
    <3>4. Frontier'
      BY <1>1, <3>1, <3>2 DEF Frontier
    <3>5. lost' \subseteq ToSet(delivered)'
      BY <2>3, <1>1, <3>2, DeliveredFacts
    <3>6. delivered' # delivered
      <4>1. Len(Append(delivered, d)) = Len(delivered) + 1 /\ Len(delivered) \in Nat
        BY DeliveredFacts
      <4> QED BY <3>1, <4>1
    <3> QED BY <2>1, <2>3, <3>1, <3>2, <3>3, <3>4, <3>5, <3>6
  <2> QED BY <2>2, <2>3
<1>3. TypesOK'
  BY <1>2 DEF IInv, TypesOK
<1>4. WorkerOK'
  BY <1>1 DEF WorkerOK
<1>5. LoopsOK'
  BY LoopsStay DEF Sending
<1>6. PostOK'
  <2>1. Len(records') = worker'.post - 1
    BY <1>1, RecordsFacts
  <2>2. (Sending => worker.i <= Len(chunks[worker.post]) /\ worker.err = "none")'
    BY DEF IInv, PostOK, Sending
  <2>3. (InPost /\ ~Sending /\ worker.err = "none" => worker.i > Len(chunks[worker.post]))'
    BY DEF Sending
  <2>4. (\/ /\ worker.first = 0 /\ worker.i = 1
            /\ \A e \in answered : e[1] # worker.post
         \/ /\ worker.first = worker.post /\ <<worker.post, 1>> \in answered
            /\ chunks[worker.post] # <<>>)'
    BY <1>1 DEF IInv, PostOK
  <2> QED BY <1>1, <2>1, <2>2, <2>3, <2>4 DEF PostOK
<1>7. RecordsTrue'
  BY RecordsStayTrue
<1>8. Counted'
  <2>1. Cardinality(Places(d)) \in Nat /\ Cardinality(Places(d)') \in Nat
    <3>1. delivered \in Seq((1..Posts) \X Nat)
      BY DeliveredFacts
    <3> QED BY <1>2, <3>1, PlacesCounted, PlacesStayCounted
  <2>2. Cardinality(Places(d)) <= Retries + 1
    BY <1>1 DEF IInv, Counted
  <2>3. /\ worker.pc = "send" => Cardinality(Places(d)) <= worker.attempt
        /\ worker.pc = "backoff" => Cardinality(Places(d)) <= worker.attempt + 1
    BY <1>1 DEF IInv, Counted
  <2>4. Cardinality(Places(d)') <= Retries + 1
    BY <1>1, <1>2, <2>1, <2>2, <2>3
  <2>5. \A q \in 1..Posts : \A i \in Nat : Cardinality(Places(<<q, i>>)') <= Retries + 1
    BY <1>2, <2>4 DEF IInv, Counted
  <2>6. worker'.pc = "send" => Cardinality(Places(d)') <= worker'.attempt
    BY <1>1, <1>2, <2>1, <2>3
  <2>7. worker'.pc = "backoff" => Cardinality(Places(d)') <= worker'.attempt + 1
    BY <1>1, <1>2, <2>1, <2>3
  <2>8. (worker.pc = "send" => Cardinality(Places(Piece)) <= worker.attempt)'
    <3>1. Places(Piece)' = Places(d)'
      BY <1>1 DEF Places
    <3> QED BY <2>6, <3>1
  <2>9. (worker.pc = "backoff" => Cardinality(Places(Piece)) <= worker.attempt + 1)'
    <3>1. Places(Piece)' = Places(d)'
      BY <1>1 DEF Places
    <3> QED BY <2>7, <3>1
  <2> QED BY <2>5, <2>8, <2>9 DEF Counted
<1> QED BY <1>2, <1>3, <1>4, <1>5, <1>6, <1>7, <1>8 DEF IInv

LEMMA SendFailsStep ==
  ASSUME IInv, SendFails
  PROVE  IInv'
<1>1. /\ worker \in WorkerType /\ worker.pc = "send" /\ Sending
      /\ worker.attempt \in 0..Retries
  BY TurnFacts DEF SendFails, At, Sending
<1>2. \/ UNCHANGED <<delivered, lost>>
      \/ delivered' = Append(delivered, Piece) /\ lost' = lost \cup {Piece}
  BY DEF SendFails, MayArrive
<1>3. UNCHANGED <<kind, ctx, chunks, answered, records, token, typing, loop>>
  BY DEF SendFails
<1>4. /\ worker' \in WorkerType
      /\ worker'.turn = worker.turn /\ worker'.post = worker.post
      /\ worker'.i = worker.i /\ worker'.first = worker.first
      /\ \/ worker'.pc = "endpost" /\ worker'.err # "none"
         \/ /\ worker'.pc = "backoff" /\ worker'.err = worker.err
            /\ worker'.attempt = worker.attempt /\ worker.attempt < Retries
  <2>1. CASE worker.attempt >= Retries
    <3>1. worker' = [worker EXCEPT !.pc = "endpost", !.err = "failed"]
      BY <2>1 DEF SendFails
    <3> QED BY <1>1, <3>1 DEF WorkerType
  <2>2. CASE ~(worker.attempt >= Retries)
    <3>1. worker' = [worker EXCEPT !.pc = "backoff"]
      BY <2>2 DEF SendFails
    <3>2. worker.attempt < Retries
      BY <1>1, <2>2
    <3> QED BY <1>1, <3>1, <3>2 DEF WorkerType
  <2> QED BY <2>1, <2>2
<1>5. worker'.pc # "send"
  BY <1>4
<1> QED BY <1>1, <1>2, <1>3, <1>4, <1>5, UnansweredStep

LEMMA ThreadGoneStep ==
  ASSUME IInv, ThreadGone
  PROVE  IInv'
<1>1. worker \in WorkerType /\ worker.pc = "send" /\ Sending
  BY TurnFacts DEF ThreadGone, At, Sending
<1>2. UNCHANGED <<kind, ctx, chunks, answered, records, token, typing, loop, delivered, lost>>
  BY DEF ThreadGone, post
<1>3. /\ worker' \in WorkerType
      /\ worker'.turn = worker.turn /\ worker'.post = worker.post
      /\ worker'.i = worker.i /\ worker'.first = worker.first
      /\ worker'.pc = "endpost" /\ worker'.err # "none"
  BY <1>1 DEF ThreadGone, WorkerType
<1> QED BY <1>1, <1>2, <1>3, UnansweredStep

LEMMA BackoffStep ==
  ASSUME IInv, Backoff
  PROVE  IInv'
<1>1. /\ worker \in WorkerType /\ worker.pc = "backoff" /\ Sending
      /\ worker.attempt \in 0..Retries /\ worker.attempt < Retries
  BY TurnFacts DEF Backoff, At, Sending, IInv, WorkerOK
<1>2. UNCHANGED <<kind, ctx, chunks, answered, records, token, typing, loop, delivered, lost>>
  BY DEF Backoff, post
<1>3. /\ worker' \in WorkerType
      /\ worker'.turn = worker.turn /\ worker'.post = worker.post
      /\ worker'.i = worker.i /\ worker'.first = worker.first
      /\ \/ worker'.pc = "endpost" /\ worker'.err # "none"
         \/ /\ worker'.pc = "send" /\ worker'.err = worker.err
            /\ worker'.attempt = worker.attempt + 1
  <2>1. CASE worker' = [worker EXCEPT !.pc = "send", !.attempt = @ + 1]
    <3>1. worker.attempt + 1 \in 0..Retries
      BY <1>1
    <3>2. worker' \in WorkerType
      BY <1>1, <2>1, <3>1 DEF WorkerType
    <3>3. /\ worker'.turn = worker.turn /\ worker'.post = worker.post
          /\ worker'.i = worker.i /\ worker'.first = worker.first
          /\ worker'.pc = "send" /\ worker'.err = worker.err
          /\ worker'.attempt = worker.attempt + 1
      BY <1>1, <2>1 DEF WorkerType
    <3> QED BY <3>2, <3>3
  <2>2. CASE worker' = [worker EXCEPT !.pc = "endpost", !.err = "ctx"]
    BY <1>1, <2>2 DEF WorkerType
  <2> QED BY <2>1, <2>2 DEF Backoff
<1> QED BY <1>1, <1>2, <1>3, UnansweredStep

LEMMA SendOKStep ==
  ASSUME IInv, SendOK
  PROVE  IInv'
<1> DEFINE w == [worker EXCEPT !.i = @ + 1, !.first = IF worker.i = 1 THEN worker.post ELSE @]
<1>0. PICK d : d = <<worker.post, worker.i>>
  OBVIOUS
<1>1. /\ worker \in WorkerType /\ worker.pc = "send" /\ Sending /\ InPost
      /\ worker.post \in 1..Posts /\ worker.i \in Nat /\ worker.i >= 1
      /\ worker.attempt \in 0..Retries
      /\ typing = worker.turn /\ worker.turn \in 1..Turns
      /\ Piece = d
  <2>1. worker.pc = "send" /\ Sending /\ InPost
    BY DEF SendOK, At, Sending, InPost
  <2> QED BY <1>0, <2>1, TurnFacts DEF Piece
<1>2. /\ delivered' = Append(delivered, d) /\ answered' = answered \cup {d}
      /\ worker' = NextPiece(w, chunks[worker.post])
      /\ UNCHANGED <<kind, ctx, chunks, lost, records, token, typing, loop>>
  BY <1>1 DEF SendOK
<1>3. /\ worker.i <= Len(chunks[worker.post]) /\ worker.err = "none"
      /\ \/ /\ worker.first = 0 /\ worker.i = 1
            /\ \A e \in answered : e[1] # worker.post
         \/ /\ worker.first = worker.post /\ <<worker.post, 1>> \in answered
            /\ chunks[worker.post] # <<>>
      /\ Len(records) = worker.post - 1
  BY <1>1 DEF IInv, PostOK
<1>4. /\ w \in WorkerType /\ w.turn = worker.turn /\ w.post = worker.post
      /\ w.i = worker.i + 1 /\ w.first = worker.post /\ w.err = "none"
  <2> DEFINE f == IF worker.i = 1 THEN worker.post ELSE worker.first
  <2>1. f = worker.post
    BY <1>1, <1>3
  <2>2. w = [worker EXCEPT !.i = worker.i + 1, !.first = f]
    BY <1>1
  <2>3. worker.i + 1 \in Nat /\ worker.post \in 0..Posts
    BY <1>1
  <2> HIDE DEF w, f
  <2>4. w \in WorkerType
    BY <1>1, <2>1, <2>2, <2>3 DEF WorkerType
  <2>5. /\ w.turn = worker.turn /\ w.post = worker.post
        /\ w.i = worker.i + 1 /\ w.first = worker.post /\ w.err = worker.err
    BY <1>1, <2>1, <2>2 DEF WorkerType
  <2> QED BY <1>3, <2>4, <2>5
<1> HIDE DEF w
<1>5. /\ worker' \in WorkerType /\ worker'.turn = worker.turn /\ worker'.post = worker.post
      /\ worker'.i = worker.i + 1 /\ worker'.first = worker.post
      /\ \/ /\ worker'.pc = "endpost"
            /\ worker'.err = "none" => worker.i + 1 > Len(chunks[worker.post])
         \/ /\ worker'.pc = "send" /\ worker'.attempt = 0 /\ worker'.err = "none"
            /\ ~(worker.i + 1 > Len(chunks[worker.post]))
  <2>1. AfterNext(w, chunks[worker.post], worker')
    BY <1>2, <1>4, NextPieceIs
  <2> QED BY <1>4, <2>1 DEF AfterNext
<1>6. Len(chunks[worker.post]) \in Nat
  BY <1>1 DEF IInv, TypesOK
<1>7. /\ delivered' \in Seq((1..Posts) \X Nat)
      /\ ToSet(delivered)' = ToSet(delivered) \cup {d}
      /\ InOrder'
      /\ Len(delivered') > 0 /\ delivered'[Len(delivered')] = d
      /\ Cardinality(Places(d)') = Cardinality(Places(d)) + 1
      /\ \A e : e # d => Places(e)' = Places(e)
  BY <1>1, <1>2, Arrives
<1>8. /\ DOMAIN delivered = 1..Len(delivered)
      /\ \A k \in DOMAIN delivered :
           /\ delivered[k][1] <= worker.post /\ delivered[k][2] \in Nat
           /\ delivered[k][1] = worker.post => delivered[k][2] <= worker.i
  BY <1>1, DeliveredFacts DEF IInv, NothingAhead
<1>9. TypesOK'
  <2>1. (answered \cup lost) \subseteq ToSet(delivered)
    BY DeliveredFacts
  <2>2. (answered \cup lost \subseteq ToSet(delivered))'
    BY <1>2, <1>7, <2>1
  <2> QED BY <1>2, <1>5, <1>7, <2>2 DEF IInv, TypesOK
<1>10. WorkerOK'
  BY <1>1, <1>2, <1>5 DEF WorkerOK
<1>11. LoopsOK'
  BY <1>1, <1>2, <1>5, LoopsStay
<1>12. PostOK'
  <2>1. InPost' /\ Len(records') = worker'.post - 1
    BY <1>2, <1>3, <1>5 DEF InPost
  <2>2. (Sending => worker.i <= Len(chunks[worker.post]) /\ worker.err = "none")'
    BY <1>1, <1>2, <1>5, <1>6 DEF Sending
  <2>3. (InPost /\ ~Sending /\ worker.err = "none" => worker.i > Len(chunks[worker.post]))'
    BY <1>2, <1>5 DEF Sending
  <2>4. chunks[worker.post] # <<>>
    BY <1>1, <1>3, <1>6, EmptySeq
  <2>5. <<worker.post, 1>> \in answered'
    BY <1>0, <1>1, <1>2, <1>3
  <2> QED BY <1>2, <1>5, <2>1, <2>2, <2>3, <2>4, <2>5 DEF PostOK
<1>13. RecordsTrue'
  <2>1. d[1] \notin DOMAIN records
    BY <1>0, <1>1, <1>3, RecordsFacts
  <2> QED BY <1>2, <2>1, RecordsStayTrue
<1>14. NothingAhead'
  <2>1. d[1] = worker.post /\ d[2] = worker.i
    BY <1>0
  <2>2. d[1] <= worker'.post /\ (Sending' /\ d[1] = worker'.post => d[2] <= worker'.i)
    BY <1>1, <1>5, <2>1
  <2>3. \A k \in DOMAIN delivered :
          /\ delivered[k][1] <= worker'.post
          /\ Sending' /\ delivered[k][1] = worker'.post => delivered[k][2] <= worker'.i
    BY <1>1, <1>5, <1>8
  <2> QED BY <1>1, <1>2, <2>2, <2>3, Arrives
<1>15. Frontier'
  <2>1. d = <<worker'.post, worker'.i - 1>>
    BY <1>0, <1>1, <1>5
  <2> QED BY <1>7, <2>1 DEF Frontier
<1>16. Counted'
  <2>1. /\ Cardinality(Places(d)) \in Nat
        /\ Cardinality(Places(d)) <= worker.attempt
    BY <1>1, DeliveredFacts, PlacesCounted DEF IInv, Counted
  <2>2. Cardinality(Places(d)') <= Retries + 1
    BY <1>1, <1>7, <2>1
  <2>3. \A q \in 1..Posts : \A i \in Nat : Cardinality(Places(<<q, i>>)') <= Retries + 1
    BY <1>7, <2>2 DEF IInv, Counted
  <2>4. PICK e : e = <<worker.post, worker.i + 1>>
    OBVIOUS
  <2>5. e # d
    BY <1>0, <1>1, <2>4
  <2>6. Places(e) = {}
    <3> SUFFICES ASSUME NEW k \in DOMAIN delivered, delivered[k] = e PROVE FALSE
      BY DEF Places
    <3>1. delivered[k][1] = worker.post /\ delivered[k][2] = worker.i + 1
      BY <2>4
    <3> QED BY <1>1, <1>8, <3>1
  <2>7. Cardinality(Places(e)') = 0
    BY <1>7, <2>5, <2>6, FS_EmptySet
  <2>8. Piece' = e
    BY <1>5, <2>4 DEF Piece
  <2>9. Places(Piece)' = Places(e)'
    BY <2>8 DEF Places
  <2>10. (worker.pc = "send" => Cardinality(Places(Piece)) <= worker.attempt)'
    BY <1>5, <2>7, <2>9
  <2>11. worker'.pc # "backoff"
    BY <1>5
  <2> QED BY <2>3, <2>10, <2>11 DEF Counted
<1> QED BY <1>7, <1>9, <1>10, <1>11, <1>12, <1>13, <1>14, <1>15, <1>16 DEF IInv

LEMMA EndPostStep ==
  ASSUME IInv, EndPost
  PROVE  IInv'
<1> DEFINE t == worker.turn
           x == [loop[t] EXCEPT !.posting = 0, !.resume = TRUE, !.owed = TRUE]
<1>1. /\ worker \in WorkerType /\ worker.pc = "endpost" /\ t \in 1..Turns /\ typing = t
      /\ loop \in [1..Turns -> LoopType]
  BY TurnFacts DEF EndPost, At
<1>2. loop[t].posting = 1 /\ loop[t] \in LoopType
  BY <1>1 DEF IInv, LoopsOK
<1>3. /\ loop' = [loop EXCEPT ![t] = x] /\ x \in LoopType
      /\ x.posting = 0 /\ x.resume
  <2> HIDE DEF t
  <2>1. loop' = [loop EXCEPT ![t].posting = @ - 1, ![t].resume = TRUE, ![t].owed = TRUE]
    BY <1>1 DEF EndPost
  <2>2. loop' = [loop EXCEPT ![t] = [loop[t] EXCEPT !.posting = loop[t].posting - 1,
                                                    !.resume = TRUE, !.owed = TRUE]]
    BY <1>1, <2>1
  <2>3. loop[t].posting - 1 = 0
    BY <1>2
  <2> DEFINE l == loop[t]
  <2>4. l \in LoopType
    BY <1>2
  <2> HIDE DEF l
  <2>5. 0 \in 0..1
    OBVIOUS
  <2>6. [l EXCEPT !.posting = 0, !.resume = TRUE, !.owed = TRUE] \in LoopType
    BY <2>4, <2>5 DEF LoopType
  <2>7. [l EXCEPT !.posting = 0, !.resume = TRUE, !.owed = TRUE].posting = 0
    BY <2>4 DEF LoopType
  <2>8. [l EXCEPT !.posting = 0, !.resume = TRUE, !.owed = TRUE].resume
    BY <2>4 DEF LoopType
  <2> QED BY <2>2, <2>3, <2>6, <2>7, <2>8 DEF l
<1> HIDE DEF x
<1>4. worker' = [worker EXCEPT !.pc = "record"]
  BY DEF EndPost, Goto
<1>5. /\ worker' \in WorkerType /\ worker'.pc = "record" /\ worker'.turn = t
      /\ worker'.post = worker.post /\ worker'.i = worker.i /\ worker'.first = worker.first
      /\ worker'.err = worker.err
  BY <1>1, <1>4 DEF WorkerType
<1>6. UNCHANGED <<kind, ctx, token, typing, chunks, delivered, answered, lost, records>>
  BY DEF EndPost, post
<1>7. TypesOK'
  BY <1>1, <1>3, <1>5, <1>6 DEF IInv, TypesOK
<1>8. WorkerOK'
  BY <1>1, <1>5, <1>6 DEF IInv, WorkerOK, InPost
<1>9. LoopsOK'
  <2> SUFFICES ASSUME NEW s \in 1..Turns
               PROVE  /\ s > t => loop'[s] = NoLoop
                      /\ loop'[s].posting = 0
                      /\ loop'[s].owed => loop'[s].resume /\ loop'[s].posting = 0
    BY <1>5 DEF LoopsOK
  <2>1. CASE s = t
    BY <1>1, <1>3, <2>1 DEF WorkerType
  <2>2. CASE s # t
    <3>1. loop'[s] = loop[s]
      BY <1>1, <1>3, <2>2
    <3> QED BY <1>1, <2>2, <3>1 DEF IInv, LoopsOK
  <2> QED BY <2>1, <2>2
<1>10. PostOK'
  <2>1. InPost /\ InPost' /\ ~Sending /\ ~Sending'
    BY <1>1, <1>5 DEF InPost, Sending
  <2> QED BY <1>5, <1>6, <2>1 DEF IInv, PostOK
<1>11. RecordsTrue' /\ InOrder'
  BY <1>6 DEF IInv, RecordsTrue, InOrder
<1>12. NothingAhead' /\ Frontier'
  BY <1>5, <1>6 DEF IInv, NothingAhead, Frontier, Sending
<1>13. Counted'
  BY <1>5, <1>6 DEF IInv, Counted, Places
<1> QED BY <1>7, <1>8, <1>9, <1>10, <1>11, <1>12, <1>13 DEF IInv

LEMMA AppendBotReplyStep ==
  ASSUME IInv, AppendBotReply
  PROVE  IInv'
<1> DEFINE p == worker.post
           aborted == worker.err # "none" /\ worker.first = 0
           r == IF aborted THEN [post |-> p, what |-> "aborted", id |-> 0]
                ELSE [post |-> p, what |-> "bot", id |-> worker.first]
<1>1. /\ worker \in WorkerType /\ worker.pc = "record" /\ p \in 1..Posts
      /\ worker.turn \in 1..Turns /\ typing = worker.turn /\ InPost /\ ~Sending
      /\ worker.first \in 0..Posts /\ worker.turn \in 0..Turns /\ p \in 0..Posts
  BY TurnFacts DEF AppendBotReply, At, InPost, Sending, WorkerType
<1>2. /\ UNCHANGED <<kind, ctx, token, typing, chunks, delivered, answered, lost, loop>>
      /\ records' = Append(records, r)
      /\ worker' = [NoCall EXCEPT !.pc = "turn", !.turn = worker.turn, !.post = p]
  BY DEF AppendBotReply
<1>3. /\ worker.err = "none" => worker.i > Len(chunks[p])
      /\ \/ worker.first = 0 /\ worker.i = 1 /\ \A d \in answered : d[1] # p
         \/ worker.first = p /\ <<p, 1>> \in answered /\ chunks[p] # <<>>
  BY <1>1 DEF IInv, PostOK
<1>4. worker.first = 0 /\ worker.err = "none" => chunks[p] = <<>>
  <2>1. chunks[p] \in Seq(Pieces(MaxChunk))
    BY <1>1 DEF IInv, TypesOK
  <2>2. ASSUME 1 > Len(chunks[p]) PROVE chunks[p] = <<>>
    <3>1. Len(chunks[p]) = 0
      BY <2>1, <2>2
    <3> QED BY <2>1, <3>1, EmptySeq
  <2> QED BY <1>1, <1>3, <2>2
<1>5. /\ r \in RecordType /\ r.post = p
      /\ r.what = "aborted" => \A d \in answered : d[1] # p
      /\ r.what = "bot" => IF chunks[p] = <<>> THEN r.id = 0
                           ELSE r.id = p /\ <<p, 1>> \in answered
  <2>1. 0 \in 0..Posts
    OBVIOUS
  <2>2. r \in RecordType /\ r.post = p
    BY <1>1, <2>1 DEF RecordType
  <2>3. CASE aborted
    BY <1>1, <1>3, <2>2, <2>3
  <2>4. CASE ~aborted
    BY <1>1, <1>3, <1>4, <2>2, <2>4
  <2> QED BY <2>3, <2>4
<1> HIDE DEF r, aborted
<1>6. /\ worker' \in WorkerType /\ worker'.pc = "turn" /\ worker'.turn = worker.turn
      /\ worker'.post = p
  <2>1. worker' = [pc |-> "turn", turn |-> worker.turn, post |-> p, i |-> 0, attempt |-> 0,
                   first |-> 0, err |-> "none"]
    BY <1>2 DEF NoCall
  <2> QED BY <1>1, <2>1 DEF WorkerType
<1>7. /\ records' \in Seq(RecordType) /\ Len(records') = p
      /\ \A k \in DOMAIN records : records'[k] = records[k]
      /\ records'[p] = r
      /\ DOMAIN records' = DOMAIN records \cup {p}
  <2>1. records \in Seq(RecordType) /\ Len(records) = p - 1 /\ DOMAIN records = 1..(p - 1)
    BY <1>1, RecordsFacts
  <2>2. /\ records' \in Seq(RecordType) /\ Len(records') = Len(records) + 1
        /\ \A k \in 1..Len(records) : records'[k] = records[k]
        /\ records'[Len(records) + 1] = r
    BY <1>2, <1>5, <2>1, AppendProperties
  <2>3. DOMAIN records' = 1..p /\ 1..p = (1..(p - 1)) \cup {p}
    BY <1>1, <2>1, <2>2
  <2>4. Len(records') = p /\ records'[p] = r
    BY <1>1, <2>1, <2>2
  <2> QED BY <2>1, <2>2, <2>3, <2>4
<1>8. TypesOK'
  BY <1>2, <1>6, <1>7 DEF IInv, TypesOK
<1>9. WorkerOK'
  BY <1>1, <1>2, <1>6 DEF WorkerOK, InPost
<1>10. LoopsOK'
  BY <1>1, <1>2, <1>6 DEF IInv, LoopsOK
<1>11. PostOK'
  BY <1>6, <1>7 DEF PostOK, InPost, Sending
<1>12. RecordsTrue'
  <2> SUFFICES ASSUME NEW k \in DOMAIN records'
               PROVE  /\ records'[k].post = k
                      /\ records'[k].what = "aborted" => \A d \in answered : d[1] # k
                      /\ records'[k].what = "bot" =>
                           IF chunks[k] = <<>> THEN records'[k].id = 0
                           ELSE records'[k].id = k /\ <<k, 1>> \in answered
    BY <1>2 DEF RecordsTrue
  <2>1. CASE k \in DOMAIN records
    <3>1. records'[k] = records[k]
      BY <1>7, <2>1
    <3> QED BY <2>1, <3>1 DEF IInv, RecordsTrue
  <2>2. CASE k = p
    BY <1>5, <1>7, <2>2
  <2> QED BY <1>7, <2>1, <2>2
<1>13. NothingAhead' /\ InOrder' /\ Frontier'
  BY <1>2, <1>6 DEF IInv, NothingAhead, InOrder, Frontier, Sending
<1>14. Counted'
  BY <1>2, <1>6 DEF IInv, Counted, Places
<1> QED BY <1>8, <1>9, <1>10, <1>11, <1>12, <1>13, <1>14 DEF IInv

LEMMA Stutters ==
  ASSUME IInv, UNCHANGED vars
  PROVE  IInv'
<1>1. UNCHANGED <<kind, ctx, worker, chunks, delivered, answered, lost, records, token, typing, loop>>
  BY DEF vars
<1>2. TypesOK'
  BY <1>1 DEF IInv, TypesOK
<1>3. LoopsOK'
  BY <1>1 DEF IInv, LoopsOK
<1>4. PostsOK'
  <2>1. PostsOK
    BY DEF IInv, PostsOK
  <2> QED BY <1>1, <2>1, PostsStutter
<1> QED BY <1>2, <1>3, <1>4 DEF IInv, PostsOK

LEMMA Inductive == IInv /\ [Next]_vars => IInv'
<1> SUFFICES ASSUME IInv, [Next]_vars PROVE IInv'
  OBVIOUS
<1>1. CASE StartTurn
  BY <1>1, StartTurnStep
<1>2. CASE StopTyping
  BY <1>2, StopTypingStep
<1>3. CASE BeginPost
  BY <1>3, BeginPostStep
<1>4. CASE Posting
  BY <1>4, SendOKStep, SendFailsStep, ThreadGoneStep, BackoffStep, EndPostStep,
     AppendBotReplyStep DEF Posting
<1>5. ASSUME NEW t \in 1..Turns, Loop(t) \/ Tick(t) PROVE IInv'
  BY <1>5, LoopSteps
<1>6. CASE HardCancel \/ TokenArrives
  BY <1>6, OutsideSteps
<1>7. CASE UNCHANGED vars
  BY <1>7, Stutters
<1> QED BY <1>1, <1>2, <1>3, <1>4, <1>5, <1>6, <1>7 DEF Next

LEMMA Invariant == Spec => []IInv
  BY InitEstablishes, Inductive, PTL DEF Spec

----------------------------------------------------------------------------
(* The theorems *)

\* OutboundTypeOK in every reachable state: every variable has its type, and the count
\* of a turn's posts in flight only ever toggles 0 and 1 (typing.go:35).
THEOREM TypeCorrect == Spec => []OutboundTypeOK
<1>1. IInv => OutboundTypeOK
  BY DEF IInv, TypesOK, OutboundTypeOK
<1> QED BY <1>1, Invariant, PTL

\* TypingReturns: a loop that waits, and owes its user the indicator since a post
\* ended, has the nudge of that post's EndPost pending (typing.go:52), however the
\* posts, the ticks and the loops of other turns interleave.
THEOREM TypingComesBack == Spec => []TypingReturns
<1>1. IInv => TypingReturns
  BY DEF IInv, LoopsOK, TypingReturns
<1> QED BY <1>1, Invariant, PTL

\* RecordTellsDelivery: what appendBotReply has written of each post agrees with what
\* reached the thread (bot.go:370): no aborted turn where a send succeeded, no id of a
\* piece that was not answered for, no post left out.
THEOREM RecordsTellDelivery == Spec => []RecordTellsDelivery
<1>1. IInv => RecordTellsDelivery
  <2> SUFFICES ASSUME IInv PROVE RecordTellsDelivery
    OBVIOUS
  <2>1. worker.pc \in {"idle", "turn"} => Len(records) = worker.post
    BY RecordsFacts DEF InPost
  <2> QED BY <2>1 DEF IInv, RecordsTrue, RecordTellsDelivery
<1> QED BY <1>1, Invariant, PTL

\* DeliveredInOrder: for every text, every schedule of failing sends and lost answers,
\* each reply reaches the thread from its first piece on, in order and without a gap, a
\* piece twice only where an answer was lost, and at most Retries + 1 times.
THEOREM InOrderDelivery == Spec => []DeliveredInOrder
<1>1. IInv => DeliveredInOrder
  <2> SUFFICES ASSUME IInv PROVE DeliveredInOrder
    OBVIOUS
  <2>1. \A k \in DOMAIN delivered :
          Cardinality(Places(<<delivered[k][1], delivered[k][2]>>)) <= Retries + 1
    BY DeliveredFacts DEF IInv, Counted
  <2> QED BY <2>1 DEF IInv, InOrder, DeliveredInOrder, Places
<1> QED BY <1>1, Invariant, PTL
====
