-------------------------- MODULE CharStream_proofs --------------------------
(***************************************************************************)
(* For every input as it is described, buffers of every size and every     *)
(* pause of the module: the MQTT message is kept, and a position is read   *)
(* field by field.  What is still to be read, received or not, is known    *)
(* between any two reads; a read takes its own piece of it and leaves the  *)
(* next one's in front.                                                    *)
(***************************************************************************)
EXTENDS CharStream, SequenceTheorems, WellFoundedInduction, TLAPS

\* A literal is a string, which the provers do not know.
Char == STRING \cup Digits
          \cup {Comma, Blank, "\r", "\n", "OK", "NUL", RxStart, RxTopic,
                RxPayload, RxEnd}
Chars == Seq(Char)

-----------------------------------------------------------------------------
(* Sequences *)

LEMMA SameElements ==
  ASSUME NEW S, NEW s \in Seq(S), NEW t \in Seq(S), Len(s) = Len(t),
         \A i \in 1 .. Len(s) : s[i] = t[i]
  PROVE  s = t
OBVIOUS

LEMMA Single ==
  ASSUME NEW S, NEW h \in S
  PROVE  <<h>> \in Seq(S) /\ Len(<<h>>) = 1 /\ <<h>>[1] = h
OBVIOUS

Part(s, n) == SubSeq(s, 1, n)

\* What is in front of a place and what is behind it.
LEMMA Parts ==
  ASSUME NEW S, NEW s \in Seq(S), NEW n \in 0 .. Len(s)
  PROVE  /\ Part(s, n) \in Seq(S) /\ Len(Part(s, n)) = n
         /\ \A i \in 1 .. n : Part(s, n)[i] = s[i]
         /\ Behind(s, n) \in Seq(S) /\ Len(Behind(s, n)) = Len(s) - n
         /\ \A i \in 1 .. Len(s) - n : Behind(s, n)[i] = s[n + i]
<1> DEFINE m == Len(s)
<1>1. m \in Nat /\ n \in Nat /\ n <= m
  OBVIOUS
<1>2. \A i \in 1 .. m : s[i] \in S
  BY ElementOfSeq
<1>3. /\ Part(s, n) \in Seq(S) /\ Len(Part(s, n)) = IF 1 <= n THEN n - 1 + 1 ELSE 0
      /\ \A i \in 1 .. n - 1 + 1 : Part(s, n)[i] = s[1 + i - 1]
  <2>1. \A i \in 1 .. n : s[i] \in S
    BY <1>1, <1>2
  <2> HIDE DEF m
  <2> QED BY <1>1, <2>1, SubSeqProperties DEF Part
<1>4. /\ Behind(s, n) \in Seq(S) /\ Len(Behind(s, n)) = IF n + 1 <= m THEN m - (n + 1) + 1 ELSE 0
      /\ \A i \in 1 .. m - (n + 1) + 1 : Behind(s, n)[i] = s[(n + 1) + i - 1]
  <2> DEFINE a == n + 1
  <2>1. a \in Int /\ \A i \in a .. m : s[i] \in S
    BY <1>1, <1>2
  <2>2. Behind(s, n) = SubSeq(s, a, m)
    BY DEF Behind
  <2> HIDE DEF m, a
  <2>3. /\ Behind(s, n) \in Seq(S) /\ Len(Behind(s, n)) = IF a <= m THEN m - a + 1 ELSE 0
        /\ \A i \in 1 .. m - a + 1 : Behind(s, n)[i] = s[a + i - 1]
    BY <1>1, <2>1, <2>2, SubSeqProperties
  <2> QED BY <2>3 DEF a
<1> HIDE DEF m
<1>5. Len(Part(s, n)) = n /\ \A i \in 1 .. n : Part(s, n)[i] = s[i]
  BY <1>1, <1>3
<1>6. Len(Behind(s, n)) = m - n /\ \A i \in 1 .. m - n : Behind(s, n)[i] = s[n + i]
  BY <1>1, <1>4
<1> QED BY <1>3, <1>4, <1>5, <1>6 DEF m

LEMMA Halves ==
  ASSUME NEW S, NEW s \in Seq(S), NEW t \in Seq(S)
  PROVE  /\ s \o t \in Seq(S) /\ Len(s \o t) = Len(s) + Len(t)
         /\ \A i \in 1 .. Len(s) : (s \o t)[i] = s[i]
         /\ \A i \in 1 .. Len(t) : (s \o t)[Len(s) + i] = t[i]
BY ConcatProperties

Joins(s, t, w) == s \o t = w

LEMMA Joined ==
  ASSUME NEW S, NEW s \in Seq(S), NEW t \in Seq(S), NEW w, Joins(s, t, w)
  PROVE  /\ w \in Seq(S) /\ Len(w) = Len(s) + Len(t)
         /\ \A i \in 1 .. Len(s) : w[i] = s[i]
         /\ \A i \in 1 .. Len(t) : w[Len(s) + i] = t[i]
<1>1. /\ s \o t \in Seq(S) /\ Len(s \o t) = Len(s) + Len(t)
      /\ \A i \in 1 .. Len(s) : (s \o t)[i] = s[i]
      /\ \A i \in 1 .. Len(t) : (s \o t)[Len(s) + i] = t[i]
  BY Halves
<1>2. w = s \o t
  BY DEF Joins
<1> QED BY <1>1, <1>2

\* The same characters, received up to some place and cut at an earlier one.
LEMMA Split ==
  ASSUME NEW S, NEW a \in Seq(S), NEW b \in Seq(S), NEW x \in Seq(S), NEW r \in Seq(S),
         NEW w, Joins(a, b, w), Joins(x, r, w), Len(x) <= Len(a)
  PROVE  Part(a, Len(x)) = x /\ Joins(Behind(a, Len(x)), b, r)
<1> DEFINE n == Len(x)
<1>1. n \in 0 .. Len(a) /\ n \in Nat /\ Len(a) \in Nat /\ Len(b) \in Nat /\ Len(r) \in Nat
  OBVIOUS
<1>3. /\ Len(w) = Len(a) + Len(b)
      /\ \A i \in 1 .. Len(a) : w[i] = a[i]
      /\ \A i \in 1 .. Len(b) : w[Len(a) + i] = b[i]
  BY Joined
<1>4. /\ Len(w) = n + Len(r)
      /\ \A i \in 1 .. n : w[i] = x[i]
      /\ \A i \in 1 .. Len(r) : w[n + i] = r[i]
  BY Joined
<1>5. /\ Part(a, n) \in Seq(S) /\ Len(Part(a, n)) = n
      /\ \A i \in 1 .. n : Part(a, n)[i] = a[i]
      /\ Behind(a, n) \in Seq(S) /\ Len(Behind(a, n)) = Len(a) - n
      /\ \A i \in 1 .. Len(a) - n : Behind(a, n)[i] = a[n + i]
  BY <1>1, Parts
<1> HIDE DEF n
<1>6. Part(a, n) = x
  <2>1. \A i \in 1 .. n : i \in 1 .. Len(a)
    BY <1>1
  <2>2. \A i \in 1 .. n : Part(a, n)[i] = x[i]
    BY <1>3, <1>4, <1>5, <2>1
  <2> QED BY <1>5, <2>2, SameElements DEF n
<1>7. PICK t : t = Behind(a, n) \o b
  OBVIOUS
<1>8. /\ t \in Seq(S) /\ Len(t) = (Len(a) - n) + Len(b)
      /\ \A i \in 1 .. Len(a) - n : t[i] = Behind(a, n)[i]
      /\ \A i \in 1 .. Len(b) : t[(Len(a) - n) + i] = b[i]
  <2>1. PICK z : z = Behind(a, n)
    OBVIOUS
  <2>2. /\ z \o b \in Seq(S) /\ Len(z \o b) = Len(z) + Len(b)
        /\ \A i \in 1 .. Len(z) : (z \o b)[i] = z[i]
        /\ \A i \in 1 .. Len(b) : (z \o b)[Len(z) + i] = b[i]
    BY <1>5, <2>1, Halves
  <2> QED BY <1>5, <1>7, <2>1, <2>2
<1>9. Len(t) = Len(r)
  BY <1>1, <1>3, <1>4, <1>8
<1>10. ASSUME NEW i \in 1 .. Len(r) PROVE t[i] = r[i]
  <2>1. w[n + i] = r[i]
    BY <1>4
  <2>2. CASE i <= Len(a) - n
    <3>1. i \in 1 .. Len(a) - n /\ n + i \in 1 .. Len(a)
      BY <1>1, <2>2
    <3>2. t[i] = a[n + i]
      BY <1>5, <1>8, <3>1
    <3>3. w[n + i] = a[n + i]
      BY <1>3, <3>1
    <3> QED BY <2>1, <3>2, <3>3
  <2>3. CASE ~(i <= Len(a) - n)
    <3> DEFINE j == i - (Len(a) - n)
    <3>1. j \in 1 .. Len(b) /\ (Len(a) - n) + j = i /\ Len(a) + j = n + i
      BY <1>1, <1>8, <1>9, <2>3
    <3> HIDE DEF j
    <3>2. t[(Len(a) - n) + j] = b[j] /\ w[Len(a) + j] = b[j]
      BY <1>3, <1>8, <3>1
    <3> QED BY <2>1, <3>1, <3>2
  <2> QED BY <2>2, <2>3
<1>11. t = r
  BY <1>8, <1>9, <1>10, SameElements
<1> QED BY <1>6, <1>7, <1>11 DEF n, Joins

LEMMA LeastOf ==
  ASSUME NEW T, T \subseteq Nat, T # {}
  PROVE  \E n \in T : \A k \in T : n <= k
<1> DEFINE R == OpToRel(<, Nat)
<1>1. IsWellFoundedOn(R, Nat)
  BY NatLessThanWellFounded
<1>2. PICK n \in T : \A k \in T : <<k, n>> \notin R
  <2> HIDE DEF R
  <2> QED BY <1>1, WFMin
<1>3. ASSUME NEW k \in T PROVE n <= k
  <2>1. k \in Nat /\ n \in Nat
    OBVIOUS
  <2>2. k < n => <<k, n>> \in R
    BY <2>1 DEF OpToRel
  <2>3. ~(k < n)
    <3> HIDE DEF R
    <3> QED BY <1>2, <2>2
  <2> QED BY <2>1, <2>3
<1> QED BY <1>3

LEMMA Induction ==
  ASSUME NEW T, 0 \in T, \A n \in Nat : n \in T => n + 1 \in T
  PROVE  Nat \subseteq T
<1> DEFINE B == Nat \ T
<1>1. CASE B # {}
  <2>1. PICK n \in B : \A k \in B : n <= k
    <3>1. B \subseteq Nat
      OBVIOUS
    <3> HIDE DEF B
    <3> QED BY <1>1, <3>1, LeastOf
  <2>2. n \in Nat /\ n # 0 /\ n - 1 \in Nat /\ n - 1 \notin B /\ (n - 1) + 1 = n
    BY <2>1
  <2> QED BY <2>1, <2>2
<1> QED BY <1>1

-----------------------------------------------------------------------------
(* Pieces *)

LEMMA Suffix ==
  ASSUME NEW S, NEW s \in Seq(S), NEW t \in Seq(S), NEW w, Joins(s, t, w)
  PROVE  Behind(w, Len(s)) = t
<1>1. /\ w \in Seq(S) /\ Len(w) = Len(s) + Len(t)
      /\ \A i \in 1 .. Len(t) : w[Len(s) + i] = t[i]
  BY Joined
<1>2. Len(s) \in 0 .. Len(w) /\ Len(w) - Len(s) = Len(t)
  BY <1>1
<1>3. /\ Behind(w, Len(s)) \in Seq(S) /\ Len(Behind(w, Len(s))) = Len(w) - Len(s)
      /\ \A i \in 1 .. Len(w) - Len(s) : Behind(w, Len(s))[i] = w[Len(s) + i]
  BY <1>1, <1>2, Parts
<1> QED BY <1>1, <1>2, <1>3, SameElements

\* A sequence joined from two of which the first is: the last two are joined as well.
LEMMA Regrouped ==
  ASSUME NEW S, NEW s \in Seq(S), NEW t \in Seq(S), NEW u \in Seq(S), NEW st, NEW w,
         Joins(s, t, st), Joins(st, u, w)
  PROVE  Joins(s, t \o u, w) /\ t \o u \in Seq(S)
<1>1. (s \o t) \o u = s \o (t \o u)
  BY ConcatAssociative
<1>2. st = s \o t /\ w = st \o u
  BY DEF Joins
<1>3. t \o u \in Seq(S)
  BY ConcatProperties
<1> QED BY <1>1, <1>2, <1>3 DEF Joins

IsFlat(f, ps, n) == f = [i \in 1 .. n |-> IF i = 1 THEN ps[i] ELSE f[i - 1] \o ps[i]]

LEMMA FlatExists ==
  ASSUME NEW ps, NEW n \in Nat
  PROVE  \E f : IsFlat(f, ps, n)
<1> DEFINE T == {m \in Nat : \E f : IsFlat(f, ps, m)}
<1>1. 0 \in T
  <2> DEFINE f == [i \in 1 .. 0 |-> i]
  <2>1. IsFlat(f, ps, 0)
    BY DEF IsFlat
  <2> HIDE DEF f
  <2> QED BY <2>1
<1>2. ASSUME NEW m \in Nat, m \in T PROVE m + 1 \in T
  <2>1. PICK f : IsFlat(f, ps, m)
    BY <1>2
  <2> DEFINE g == [i \in 1 .. m + 1 |-> IF i <= m THEN f[i] ELSE IF i = 1 THEN ps[i] ELSE f[m] \o ps[i]]
             h == [i \in 1 .. m + 1 |-> IF i = 1 THEN ps[i] ELSE g[i - 1] \o ps[i]]
  <2>2. ASSUME NEW i \in 1 .. m + 1 PROVE g[i] = h[i]
    <3>1. CASE i = m + 1
      <4>1. i # 1 => i - 1 = m /\ m \in 1 .. m + 1 /\ m <= m
        BY <3>1
      <4>2. i # 1 => g[i - 1] = f[m]
        BY <4>1
      <4>3. g[i] = IF i = 1 THEN ps[i] ELSE f[m] \o ps[i]
        BY <3>1
      <4> HIDE DEF g
      <4> QED BY <4>2, <4>3
    <3>2. CASE i # m + 1
      <4>1. i \in 1 .. m /\ i <= m
        BY <3>2
      <4>2. g[i] = f[i]
        BY <4>1
      <4>3. i # 1 => i - 1 \in 1 .. m + 1 /\ i - 1 <= m
        BY <4>1
      <4>4. i # 1 => g[i - 1] = f[i - 1]
        BY <4>3
      <4>5. f[i] = IF i = 1 THEN ps[i] ELSE f[i - 1] \o ps[i]
        BY <2>1, <4>1 DEF IsFlat
      <4> HIDE DEF g
      <4> QED BY <4>2, <4>4, <4>5
    <3> QED BY <3>1, <3>2
  <2>3. g = h
    <3>1. DOMAIN g = 1 .. m + 1 /\ DOMAIN h = 1 .. m + 1 /\ g = [i \in DOMAIN g |-> g[i]] /\ h = [i \in DOMAIN h |-> h[i]]
      OBVIOUS
    <3> HIDE DEF g, h
    <3> QED BY <2>2, <3>1
  <2>4. IsFlat(g, ps, m + 1)
    <3> HIDE DEF g
    <3> QED BY <2>3 DEF IsFlat
  <2> HIDE DEF g
  <2> QED BY <2>4
<1> HIDE DEF T
<1>3. Nat \subseteq T
  BY <1>1, <1>2, Induction
<1> QED BY <1>3 DEF T

LEMMA FlatPlaces ==
  ASSUME NEW S, NEW ps \in Seq(Seq(S)), ps # <<>>, NEW f, IsFlat(f, ps, Len(ps))
  PROVE  /\ \A k \in 1 .. Len(ps) : f[k] \in Seq(S)
         /\ f[1] = ps[1]
         /\ \A k \in 2 .. Len(ps) : Joins(f[k - 1], ps[k], f[k])
<1> DEFINE n == Len(ps)
           T == {m \in Nat : m \in 1 .. n => f[m] \in Seq(S)}
<1>1. n \in Nat \ {0} /\ \A k \in 1 .. n : ps[k] \in Seq(S)
  BY ElementOfSeq
<1> HIDE DEF n
<1>2. f[1] = ps[1]
  BY <1>1 DEF IsFlat, n
<1>3. ASSUME NEW k \in 2 .. n PROVE f[k] = f[k - 1] \o ps[k]
  <2>1. k \in 1 .. n /\ k # 1
    BY <1>1
  <2> QED BY <2>1 DEF IsFlat, n
<1>4. 0 \in T
  OBVIOUS
<1>5. ASSUME NEW m \in Nat, m \in T PROVE m + 1 \in T
  <2>1. CASE m = 0
    BY <1>1, <1>2, <2>1
  <2>2. CASE m # 0
    <3> SUFFICES ASSUME m + 1 \in 1 .. n PROVE f[m + 1] \in Seq(S)
      OBVIOUS
    <3> DEFINE k == m + 1
    <3>1. m \in 1 .. n /\ k \in 2 .. n /\ k - 1 = m /\ k \in 1 .. n
      BY <1>1, <2>2
    <3>2. f[m] \in Seq(S)
      BY <1>5, <3>1
    <3> HIDE DEF k
    <3>3. f[k] = f[m] \o ps[k] /\ ps[k] \in Seq(S)
      BY <1>1, <1>3, <3>1
    <3>4. f[m] \o ps[k] \in Seq(S)
      BY <3>2, <3>3, ConcatProperties
    <3> QED BY <3>3, <3>4 DEF k
  <2> QED BY <2>1, <2>2
<1> HIDE DEF T
<1>6. Nat \subseteq T
  BY <1>4, <1>5, Induction
<1>7. \A k \in 1 .. n : f[k] \in Seq(S)
  BY <1>6 DEF T
<1> QED BY <1>2, <1>3, <1>7 DEF Joins, n

\* What is still to come when piece k does: the pieces from there on.
Rests(r, ps, S) == /\ r \in [1 .. Len(ps) + 1 -> Seq(S)]
                   /\ \A k \in 1 .. Len(ps) : Joins(ps[k], r[k + 1], r[k])
                   /\ r[Len(ps) + 1] = <<>>

LEMMA Flattened ==
  ASSUME NEW S, NEW ps \in Seq(Seq(S)), ps # <<>>
  PROVE  \E r : Rests(r, ps, S) /\ r[1] = FlattenSeq(ps)
<1> DEFINE n == Len(ps)
           F == CHOOSE f : IsFlat(f, ps, n)
<1>1. n \in Nat \ {0} /\ \A k \in 1 .. n : ps[k] \in Seq(S)
  BY ElementOfSeq
<1>2. IsFlat(F, ps, n)
  BY <1>1, FlatExists
<1>3. FlattenSeq(ps) = F[n]
  BY <1>1 DEF FlattenSeq, IsFlat
<1> HIDE DEF F
<1>4. /\ \A k \in 1 .. n : F[k] \in Seq(S)
      /\ F[1] = ps[1]
      /\ \A k \in 2 .. n : Joins(F[k - 1], ps[k], F[k])
  BY <1>2, FlatPlaces
<1> HIDE DEF n
<1> DEFINE w == F[n]
           q == [k \in 1 .. n |-> Behind(w, Len(F[k]))]
           T == {m \in Nat : m < n => q[n - m] \in Seq(S) /\ Joins(F[n - m], q[n - m], w)}
<1>5. w \in Seq(S)
  BY <1>1, <1>4
<1> HIDE DEF w
<1>6. 0 \in T
  <2>1. n - 0 = n /\ n \in 1 .. n
    BY <1>1
  <2>2. Joins(w, <<>>, w) /\ <<>> \in Seq(S)
    BY <1>5, ConcatEmptySeq DEF Joins
  <2>3. Behind(w, Len(w)) = <<>>
    BY <1>5, <2>2, Suffix
  <2>4. q[n] = <<>>
    BY <2>1, <2>3 DEF w
  <2> HIDE DEF q
  <2> QED BY <2>1, <2>2, <2>4 DEF w
<1>7. ASSUME NEW k \in 2 .. n, q[k] \in Seq(S), Joins(F[k], q[k], w)
      PROVE  q[k - 1] \in Seq(S) /\ Joins(F[k - 1], q[k - 1], w) /\ Joins(ps[k], q[k], q[k - 1])
  <2> DEFINE j == k - 1
  <2>1. j \in 1 .. n /\ k \in 1 .. n
    BY <1>1
  <2> HIDE DEF j
  <2>2. F[j] \in Seq(S) /\ ps[k] \in Seq(S) /\ Joins(F[j], ps[k], F[k])
    BY <1>1, <1>4, <2>1 DEF j
  <2>3. q[j] = Behind(w, Len(F[j]))
    BY <2>1
  <2> HIDE DEF q
  <2>4. Joins(F[j], ps[k] \o q[k], w) /\ ps[k] \o q[k] \in Seq(S)
    BY <1>7, <2>2, Regrouped
  <2>5. q[j] = ps[k] \o q[k]
    BY <2>2, <2>3, <2>4, Suffix
  <2> QED BY <2>4, <2>5 DEF Joins, j
<1>8. ASSUME NEW m \in Nat, m \in T PROVE m + 1 \in T
  <2> SUFFICES ASSUME m + 1 < n
               PROVE  q[n - (m + 1)] \in Seq(S) /\ Joins(F[n - (m + 1)], q[n - (m + 1)], w)
    OBVIOUS
  <2> DEFINE k == n - m
  <2>1. k \in 2 .. n /\ k - 1 = n - (m + 1) /\ m < n
    BY <1>1
  <2>2. q[k] \in Seq(S) /\ Joins(F[k], q[k], w)
    BY <1>8, <2>1
  <2> HIDE DEF k, q, T
  <2> QED BY <1>7, <2>1, <2>2
<1>9. Nat \subseteq T
  <2> HIDE DEF T
  <2> QED BY <1>6, <1>8, Induction
<1>10. ASSUME NEW k \in 1 .. n PROVE q[k] \in Seq(S) /\ Joins(F[k], q[k], w)
  <2> DEFINE m == n - k
  <2>1. m \in Nat /\ m < n /\ n - m = k
    BY <1>1
  <2> HIDE DEF m
  <2>2. m < n => q[n - m] \in Seq(S) /\ Joins(F[n - m], q[n - m], w)
    BY <1>9, <2>1
  <2> HIDE DEF q
  <2> QED BY <2>1, <2>2
<1> DEFINE r == [k \in 1 .. n + 1 |-> IF k = 1 THEN w ELSE q[k - 1]]
<1> HIDE DEF q, T
<1>11. r \in [1 .. n + 1 -> Seq(S)]
  <2>1. \A k \in 1 .. n + 1 : k # 1 => k - 1 \in 1 .. n
    BY <1>1
  <2> QED BY <1>5, <1>10, <2>1
<1>12. \A k \in 1 .. n : r[k + 1] = q[k]
  BY <1>1
<1>13. r[1] = w /\ \A k \in 2 .. n : r[k] = q[k - 1]
  BY <1>1
<1> HIDE DEF r
<1>14. ASSUME NEW k \in 1 .. n PROVE Joins(ps[k], r[k + 1], r[k])
  <2>1. CASE k = 1
    BY <1>4, <1>10, <1>12, <1>13, <2>1
  <2>2. CASE k # 1
    <3>1. k \in 2 .. n
      BY <1>1, <2>2
    <3>2. Joins(ps[k], q[k], q[k - 1])
      BY <1>7, <1>10, <3>1
    <3> QED BY <1>12, <1>13, <3>1, <3>2
  <2> QED BY <2>1, <2>2
<1>15. r[n + 1] = <<>>
  <2>1. n \in 1 .. n
    BY <1>1
  <2>2. q[n] \in Seq(S) /\ Joins(w, q[n], w)
    BY <1>10, <2>1 DEF w
  <2>3. q[n] = <<>>
    BY <1>5, <2>2, ConcatEqualIffEmpty DEF Joins
  <2> QED BY <1>12, <2>1, <2>3
<1>16. Rests(r, ps, S)
  BY <1>11, <1>14, <1>15 DEF Rests, n
<1> QED BY <1>3, <1>13, <1>16 DEF w

-----------------------------------------------------------------------------
(* What is still to be read *)

LEMMA Cutting ==
  ASSUME NEW S, NEW w \in Seq(S), NEW n \in 0 .. Len(w)
  PROVE  Joins(Part(w, n), Behind(w, n), w)
<1> DEFINE a == Part(w, n)
           b == Behind(w, n)
<1>1. /\ a \in Seq(S) /\ Len(a) = n /\ \A i \in 1 .. n : a[i] = w[i]
      /\ b \in Seq(S) /\ Len(b) = Len(w) - n /\ \A i \in 1 .. Len(w) - n : b[i] = w[n + i]
  BY Parts
<1> HIDE DEF a, b
<1>2. /\ a \o b \in Seq(S) /\ Len(a \o b) = Len(a) + Len(b)
      /\ \A i \in 1 .. Len(a) : (a \o b)[i] = a[i]
      /\ \A i \in 1 .. Len(b) : (a \o b)[Len(a) + i] = b[i]
  BY <1>1, Halves
<1>3. Len(a \o b) = Len(w)
  BY <1>1, <1>2
<1>4. ASSUME NEW i \in 1 .. Len(w) PROVE (a \o b)[i] = w[i]
  <2>1. CASE i <= n
    BY <1>1, <1>2, <2>1
  <2>2. CASE ~(i <= n)
    <3>1. PICK j \in 1 .. Len(w) - n : n + j = i
      <4>1. i - n \in 1 .. Len(w) - n /\ n + (i - n) = i
        BY <2>2
      <4> QED BY <4>1
    <3>2. (a \o b)[n + j] = b[j] /\ b[j] = w[n + j]
      BY <1>1, <1>2
    <3> QED BY <3>1, <3>2
  <2> QED BY <2>1, <2>2
<1>5. a \o b = w
  BY <1>2, <1>3, <1>4, SameElements
<1> QED BY <1>5 DEF Joins, a, b

\* Reading n characters that have been received.
LEMMA Taking ==
  ASSUME NEW S, NEW a \in Seq(S), NEW b \in Seq(S), NEW w, Joins(a, b, w), NEW n \in 0 .. Len(a)
  PROVE  /\ w \in Seq(S) /\ n \in 0 .. Len(w)
         /\ Part(a, n) = Part(w, n) /\ Joins(Behind(a, n), b, Behind(w, n))
<1>1. w \in Seq(S) /\ Len(w) = Len(a) + Len(b)
  BY Joined
<1>2. n \in 0 .. Len(w)
  BY <1>1
<1>3. Joins(Part(w, n), Behind(w, n), w)
  BY <1>1, <1>2, Cutting
<1>4. Part(w, n) \in Seq(S) /\ Len(Part(w, n)) = n /\ Behind(w, n) \in Seq(S)
  BY <1>1, <1>2, Parts
<1>5. PICK x : x = Part(w, n)
  OBVIOUS
<1>6. Part(a, Len(x)) = x /\ Joins(Behind(a, Len(x)), b, Behind(w, n))
  <2>1. Joins(x, Behind(w, n), w) /\ x \in Seq(S) /\ Len(x) <= Len(a) /\ Behind(w, n) \in Seq(S)
    BY <1>3, <1>4, <1>5
  <2> QED BY <2>1, Split
<1>7. Len(x) = n
  BY <1>4, <1>5
<1> QED BY <1>1, <1>2, <1>5, <1>6, <1>7

\* The ring, the UART and what has not been received are the text w.
Ahead(g, u, c, w) == Joins(g \o u, c, w)

Types == ring \in Chars /\ uart \in Chars /\ coming \in Chars

LEMMA AheadType ==
  ASSUME NEW g \in Chars, NEW u \in Chars, NEW c \in Chars, NEW w, Ahead(g, u, c, w)
  PROVE  /\ w \in Chars /\ Len(w) = (Len(g) + Len(u)) + Len(c)
         /\ g \o u \in Chars /\ Len(g \o u) = Len(g) + Len(u)
         /\ \A i \in 1 .. Len(g \o u) : (g \o u)[i] = w[i]
<1>1. PICK a : a = g \o u
  OBVIOUS
<1>2. g \o u \in Chars /\ Len(g \o u) = Len(g) + Len(u)
  BY Halves DEF Chars
<1>3. a \in Chars /\ Joins(a, c, w)
  BY <1>1, <1>2 DEF Ahead
<1>4. /\ w \in Chars /\ Len(w) = Len(a) + Len(c)
      /\ \A i \in 1 .. Len(a) : w[i] = a[i]
  BY <1>3, Joined DEF Chars
<1> QED BY <1>1, <1>2, <1>4

\* Without what is in the ring.
LEMMA BehindRing ==
  ASSUME NEW g \in Chars, NEW u \in Chars, NEW c \in Chars, NEW w, Ahead(g, u, c, w)
  PROVE  Joins(u, c, Behind(w, Len(g)))
<1>1. PICK a : a = g \o u
  OBVIOUS
<1>2. Joins(g, u, a) /\ Joins(a, c, w)
  BY <1>1 DEF Joins, Ahead
<1>3. Joins(g, u \o c, w) /\ u \o c \in Chars
  BY <1>2, Regrouped DEF Chars
<1>4. Behind(w, Len(g)) = u \o c
  BY <1>3, Suffix DEF Chars
<1> QED BY <1>4 DEF Joins

LEMMA EmptyRing ==
  ASSUME NEW u \in Chars, NEW c, NEW w
  PROVE  Joins(u, c, w) <=> Ahead(<<>>, u, c, w)
<1>1. <<>> \o u = u
  BY ConcatEmptySeq DEF Chars
<1> QED BY <1>1 DEF Ahead

\* One character more in the ring or in the UART.
LEMMA Received1 ==
  ASSUME Types, NEW w, Ahead(ring, uart, coming, w), Arrive
  PROVE  Types' /\ Ahead(ring', uart', coming', w)
<1>1. ring \in Chars /\ uart \in Chars /\ coming \in Chars /\ coming # <<>>
  BY DEF Types, Arrive
<1> DEFINE h == Head(coming)
<1>2. h \in Char /\ Tail(coming) \in Chars /\ coming = <<h>> \o Tail(coming)
  BY <1>1, HeadTailProperties DEF Chars
<1>3. uart' = uart \o <<h>> /\ coming' = Tail(coming) /\ ring' = ring
  BY <1>1, <1>2, AppendIsConcat DEF Arrive, Chars
<1> HIDE DEF h
<1>4. <<h>> \in Chars
  BY <1>2, Single DEF Chars
<1>5. uart' \in Chars /\ coming' \in Chars
  BY <1>1, <1>2, <1>3, <1>4, ConcatProperties DEF Chars
<1>6. PICK a : a = ring \o uart
  OBVIOUS
<1>7. a \in Chars /\ (ring \o uart) \o <<h>> = ring \o (uart \o <<h>>)
  <2>1. a \in Chars
    BY <1>1, <1>6, ConcatProperties DEF Chars
  <2>2. (ring \o uart) \o <<h>> = ring \o (uart \o <<h>>)
    BY <1>1, <1>4, ConcatAssociative DEF Chars
  <2> QED BY <2>1, <2>2
<1>8. (a \o <<h>>) \o coming' = a \o (<<h>> \o coming')
  BY <1>4, <1>5, <1>7, ConcatAssociative DEF Chars
<1>9. w = a \o coming
  BY <1>6 DEF Ahead, Joins
<1> QED BY <1>1, <1>2, <1>3, <1>5, <1>6, <1>7, <1>8, <1>9 DEF Ahead, Joins, Types

\* consuming characters that have been received.
LEMMA Consumed ==
  ASSUME Types, NEW w, Ahead(ring, uart, coming, w), coming' = coming,
         NEW n \in 0 .. Len(Stream), Consume(n)
  PROVE  /\ Types' /\ Ahead(ring', uart', coming', Behind(w, n))
         /\ Part(Stream, n) = Part(w, n)
         /\ Len(ring') = IF n < Len(ring) THEN Len(ring) - n ELSE 0
<1> DEFINE g == Len(ring)
<1>1. ring \in Chars /\ uart \in Chars /\ coming \in Chars /\ g \in Nat
  BY DEF Types, Chars
<1>2. Stream \in Chars /\ Len(Stream) = g + Len(uart) /\ Len(uart) \in Nat
  BY <1>1, Halves DEF Chars, Stream
<1>3. PICK a : a = Stream
  OBVIOUS
<1>4. a \in Chars /\ Joins(a, coming, w) /\ n \in 0 .. Len(a) /\ Joins(ring, uart, a)
  BY <1>2, <1>3 DEF Ahead, Stream, Joins
<1>5. Part(a, n) = Part(w, n) /\ Joins(Behind(a, n), coming, Behind(w, n))
  BY <1>1, <1>4, Taking DEF Chars
<1>6. /\ Types' /\ ring' \o uart' = Behind(a, n)
      /\ Len(ring') = IF n < g THEN g - n ELSE 0
  <2>1. CASE n <= g
    <3>1. n \in 0 .. Len(ring)
      BY <2>1, <1>4
    <3>2. Behind(ring, n) \in Chars /\ Len(Behind(ring, n)) = g - n
      BY <1>1, <3>1, Parts DEF Chars
    <3>3. Joins(Behind(ring, n), uart, Behind(a, n))
      BY <1>1, <1>4, <3>1, Taking DEF Chars
    <3>4. ring' = Behind(ring, n) /\ uart' = uart
      BY <1>1, <1>4, <2>1 DEF Consume
    <3>5. n \in Nat
      BY <1>4
    <3> HIDE DEF g
    <3>6. g - n = IF n < g THEN g - n ELSE 0
      BY <1>1, <3>5, <2>1
    <3> QED BY <1>1, <3>2, <3>3, <3>4, <3>6 DEF Joins, Types
  <2>2. CASE ~(n <= g)
    <3> DEFINE m == n - g
    <3>1. n > g /\ m \in 0 .. Len(uart) /\ g + m = n
      BY <1>1, <1>2, <1>3, <1>4, <2>2
    <3>2. ring' = <<>> /\ uart' = Behind(uart, m)
      <4>1. ring' = SubSeq(ring, n + 1, Len(ring)) /\ uart' = Behind(uart, n - Len(ring))
        BY <3>1 DEF Consume, Behind
      <4>2. SubSeq(ring, n + 1, Len(ring)) = <<>>
        BY <1>1, <3>1 DEF Chars
      <4> QED BY <4>1, <4>2
    <3> HIDE DEF m
    <3>3. Joins(uart, <<>>, uart) /\ <<>> \in Chars
      BY <1>1, ConcatEmptySeq DEF Joins, Chars
    <3>4. Behind(uart, m) \in Chars /\ Len(Behind(uart, m)) = Len(uart) - m
      BY <1>1, <3>1, Parts DEF Chars
    <3>5. Behind(a, n) = Behind(uart, m)
      <4>1. a \in Seq(Char) /\ uart \in Seq(Char) /\ Len(a) = g + Len(uart)
        BY <1>1, <1>2, <1>3 DEF Chars
      <4>2. \A i \in 1 .. Len(uart) : a[g + i] = uart[i]
        BY <1>1, <1>4, Joined DEF Chars
      <4>3. /\ Behind(a, n) \in Seq(Char) /\ Len(Behind(a, n)) = Len(a) - n
            /\ \A i \in 1 .. Len(a) - n : Behind(a, n)[i] = a[n + i]
        BY <4>1, <1>4, Parts
      <4>4. /\ Behind(uart, m) \in Seq(Char) /\ Len(Behind(uart, m)) = Len(uart) - m
            /\ \A i \in 1 .. Len(uart) - m : Behind(uart, m)[i] = uart[m + i]
        BY <4>1, <3>1, Parts
      <4> HIDE DEF g
      <4>5. Len(a) - n = Len(uart) - m /\ m \in Nat /\ n \in Nat
        BY <1>1, <1>2, <1>4, <4>1, <3>1
      <4>6. ASSUME NEW i \in 1 .. Len(uart) - m PROVE Behind(a, n)[i] = Behind(uart, m)[i]
        <5>1. PICK j \in 1 .. Len(uart) : j = m + i /\ g + j = n + i
          BY <1>1, <1>2, <3>1, <4>5
        <5>2. a[g + j] = uart[j]
          BY <4>2
        <5>3. Behind(a, n)[i] = a[n + i] /\ Behind(uart, m)[i] = uart[m + i]
          BY <4>3, <4>4, <4>5
        <5> QED BY <5>1, <5>2, <5>3
      <4> QED BY <4>3, <4>4, <4>5, <4>6, SameElements
    <3>6. <<>> \o Behind(uart, m) = Behind(uart, m)
      BY <3>4, ConcatEmptySeq DEF Chars
    <3> QED BY <1>1, <3>1, <3>2, <3>3, <3>4, <3>5, <3>6 DEF Types
  <2> QED BY <1>1, <1>4, <2>1, <2>2
<1> QED BY <1>3, <1>5, <1>6 DEF Ahead

-----------------------------------------------------------------------------
(* Reads *)

\* c comes n-th, and not before.
FirstAt(w, n, c) == n \in 1 .. Len(w) /\ w[n] = c /\ \A i \in 1 .. n - 1 : w[i] # c

LEMMA FoundAt ==
  ASSUME NEW a \in Chars, NEW b \in Chars, NEW w, Joins(a, b, w), NEW n, NEW c, FirstAt(w, n, c)
  PROVE  /\ Has(a, c) => n \in 0 .. Len(a) /\ Place(a, c) = n
         /\ b = <<>> => Has(a, c)
<1>1. /\ w \in Chars /\ Len(w) = Len(a) + Len(b)
      /\ \A i \in 1 .. Len(a) : w[i] = a[i]
  BY Joined DEF Chars
<1>2. n \in 1 .. Len(w) /\ w[n] = c /\ \A i \in 1 .. n - 1 : w[i] # c
  BY DEF FirstAt
<1>3. Len(a) \in Nat /\ Len(b) \in Nat /\ DOMAIN a = 1 .. Len(a) /\ Len(<<>>) = 0
  BY DEF Chars
<1>4. ASSUME Has(a, c) PROVE n \in 0 .. Len(a) /\ Place(a, c) = n
  <2>1. PICK i \in 1 .. Len(a) : a[i] = c
    BY <1>3, <1>4 DEF Has
  <2>2. ~(i < n)
    <3>1. i < n => i \in 1 .. n - 1
      BY <1>2, <1>3
    <3> QED BY <1>1, <1>2, <2>1, <3>1
  <2>3. n \in 1 .. Len(a)
    BY <1>2, <1>3, <2>2
  <2>4. a[n] = c /\ \A j \in 1 .. n - 1 : a[j] # c
    BY <1>1, <1>2, <1>3, <2>3
  <2> DEFINE P(k) == a[k] = c /\ \A j \in 1 .. k - 1 : a[j] # c
  <2>5. ASSUME NEW k \in 1 .. Len(a), P(k) PROVE k = n
    <3>1. k < n => k \in 1 .. n - 1
      BY <1>2, <1>3
    <3>2. n < k => n \in 1 .. k - 1
      BY <1>2, <1>3
    <3> QED BY <1>2, <1>3, <2>3, <2>4, <2>5, <3>1, <3>2
  <2>6. Place(a, c) = CHOOSE k \in 1 .. Len(a) : P(k)
    BY <1>3 DEF Place
  <2>7. P(n)
    BY <2>4
  <2> HIDE DEF P
  <2> QED BY <2>3, <2>5, <2>6, <2>7
<1>5. ASSUME b = <<>> PROVE Has(a, c)
  <2>1. n \in 1 .. Len(a)
    BY <1>1, <1>2, <1>3, <1>5
  <2> QED BY <1>1, <1>2, <1>3, <2>1 DEF Has
<1> QED BY <1>4, <1>5

LEMMA StreamType ==
  ASSUME Types, NEW w, Ahead(ring, uart, coming, w)
  PROVE  /\ ring \in Chars /\ uart \in Chars /\ coming \in Chars /\ w \in Chars
         /\ Stream \in Chars /\ Joins(Stream, coming, w)
         /\ Len(ring) \in Nat /\ Len(uart) \in Nat /\ Len(coming) \in Nat
         /\ Len(Stream) \in Nat /\ Len(Stream) = Len(ring) + Len(uart)
         /\ Len(w) \in Nat /\ Len(w) = Len(Stream) + Len(coming)
         /\ \A i \in 1 .. Len(Stream) : Stream[i] = w[i]
<1>1. ring \in Chars /\ uart \in Chars /\ coming \in Chars
  BY DEF Types
<1>2. Stream \in Chars /\ Len(Stream) = Len(ring) + Len(uart) /\ Joins(Stream, coming, w)
  BY <1>1, Halves DEF Stream, Chars, Ahead
<1>3. /\ w \in Chars /\ Len(w) = Len(Stream) + Len(coming)
      /\ \A i \in 1 .. Len(Stream) : w[i] = Stream[i]
  <2>1. PICK a : a = Stream
    OBVIOUS
  <2>2. a \in Seq(Char) /\ coming \in Seq(Char) /\ Joins(a, coming, w)
    BY <1>1, <1>2, <2>1 DEF Chars
  <2>3. /\ w \in Seq(Char) /\ Len(w) = Len(a) + Len(coming)
        /\ \A i \in 1 .. Len(a) : w[i] = a[i]
    BY <2>2, Joined
  <2> QED BY <2>1, <2>3 DEF Chars
<1> QED BY <1>1, <1>2, <1>3 DEF Chars

\* find() leaves what is behind the character.
LEMMA FindOn ==
  ASSUME Types, NEW w, Ahead(ring, uart, coming, w), NEW n, NEW c, FirstAt(w, n, c),
         Find, Stage.arg = c
  PROVE  /\ Types' /\ Ahead(ring', uart', coming', Behind(w, n))
         /\ Len(ring) <= n => ring' = <<>>
         /\ got' = Append(got, <<>>) /\ Continue /\ Alone
<1>1. /\ Stream \in Chars /\ coming \in Chars /\ ring \in Chars /\ Joins(Stream, coming, w)
      /\ Len(ring) \in Nat
  BY StreamType
<1>2. Has(Stream, c) => n \in 0 .. Len(Stream) /\ Place(Stream, c) = n
  BY <1>1, FoundAt
<1>3. NoMore => Has(Stream, c)
  BY <1>1, FoundAt DEF NoMore
<1>4. Consume(n) /\ n \in 0 .. Len(Stream)
  BY <1>2, <1>3 DEF Find
<1>5. got' = Append(got, <<>>) /\ Continue /\ Alone /\ coming' = coming
  BY DEF Find, Alone
<1>6. /\ Types' /\ Ahead(ring', uart', coming', Behind(w, n))
      /\ Len(ring') = IF n < Len(ring) THEN Len(ring) - n ELSE 0
  BY <1>4, <1>5, Consumed
<1>7. Len(ring) <= n => Len(ring') = 0
  BY <1>1, <1>4, <1>6
<1>8. Len(ring') = 0 => ring' = <<>>
  BY <1>6, EmptySeq DEF Types, Chars
<1> QED BY <1>5, <1>6, <1>7, <1>8

\* waitResponse() looks behind the ring, and empties it.
LEMMA WaitOn ==
  ASSUME Types, NEW w, Joins(uart, coming, w), NEW n, NEW c, FirstAt(w, n, c),
         Wait, Stage.arg = c
  PROVE  /\ Types' /\ Ahead(ring', uart', coming', Behind(w, n)) /\ ring' = <<>>
         /\ Continue /\ UNCHANGED <<input, coming, got, hasfix, early, memory, result>>
<1>1. uart \in Chars /\ coming \in Chars /\ <<>> \in Chars
  BY DEF Types, Chars
<1>2. Has(uart, c) => n \in 0 .. Len(uart) /\ Place(uart, c) = n
  BY <1>1, FoundAt
<1>3. NoMore => Has(uart, c)
  BY <1>1, FoundAt DEF NoMore
<1>4. Has(uart, c) /\ n \in 0 .. Len(uart) /\ uart' = Behind(uart, n) /\ Continue /\ result' = result
  BY <1>2, <1>3 DEF Wait
<1>5. ring' = <<>> /\ UNCHANGED <<input, coming, got, hasfix, early, memory>>
  BY DEF Wait
<1>6. uart' \in Chars
  BY <1>1, <1>4, Parts DEF Chars
<1>7. Joins(uart', coming', Behind(w, n))
  BY <1>1, <1>4, <1>5, Taking DEF Chars
<1>8. Ahead(ring', uart', coming', Behind(w, n))
  BY <1>1, <1>5, <1>6, <1>7, EmptyRing
<1> QED BY <1>1, <1>4, <1>5, <1>6, <1>8 DEF Types

LEMMA LeastOfTwo ==
  ASSUME NEW a \in Nat, NEW b \in Nat, b <= a
  PROVE  Min({a, b}) = b
<1>1. \E x \in {a, b} : \A y \in {a, b} : x <= y
  OBVIOUS
<1> QED BY <1>1 DEF Min

\* readBytes() takes n characters when there are n.
LEMMA BytesOn ==
  ASSUME Types, NEW w, Ahead(ring, uart, coming, w), NEW n \in 0 .. Len(w),
         ReadBytes, Stage.arg = n
  PROVE  /\ Types' /\ Ahead(ring', uart', coming', Behind(w, n))
         /\ Len(ring) <= n => ring' = <<>>
         /\ Keep(Part(w, n)) /\ Continue /\ Alone
<1>1. /\ Stream \in Chars /\ Len(Stream) \in Nat /\ Len(coming) \in Nat /\ Len(ring) \in Nat
      /\ Len(w) = Len(Stream) + Len(coming)
  BY StreamType
<1>2. n \in Nat /\ n <= Len(w) /\ Len(<<>>) = 0
  BY <1>1
<1>3. Len(Stream) >= n
  BY <1>1, <1>2 DEF ReadBytes, NoMore
<1>4. Min({Len(Stream), n}) = n
  BY <1>1, <1>2, <1>3, LeastOfTwo
<1>5. n \in 0 .. Len(Stream) /\ Consume(n) /\ Keep(Part(Stream, n)) /\ Continue /\ Alone
  BY <1>1, <1>2, <1>3, <1>4 DEF ReadBytes, Part
<1>6. /\ Types' /\ Ahead(ring', uart', coming', Behind(w, n)) /\ Part(Stream, n) = Part(w, n)
      /\ Len(ring') = IF n < Len(ring) THEN Len(ring) - n ELSE 0
  BY <1>5, Consumed DEF Alone
<1>7. Len(ring) <= n => Len(ring') = 0
  BY <1>1, <1>2, <1>6
<1>8. Len(ring') = 0 => ring' = <<>>
  BY <1>6, EmptySeq DEF Types, Chars
<1> QED BY <1>5, <1>6, <1>7, <1>8

\* read() takes one, unless it comes early.
LEMMA CharOn ==
  ASSUME Types, NEW w, Ahead(ring, uart, coming, w), w # <<>>, ReadChar, ~early'
  PROVE  /\ Types' /\ Ahead(ring', uart', coming', Behind(w, 1))
         /\ Len(ring) <= 1 => ring' = <<>>
         /\ Keep(Part(w, 1)) /\ Continue
         /\ ~early /\ UNCHANGED <<input, coming, hasfix, memory, result>>
<1>1. /\ Stream \in Chars /\ Len(Stream) \in Nat /\ Len(coming) \in Nat /\ Len(ring) \in Nat
      /\ Len(w) = Len(Stream) + Len(coming) /\ w \in Chars /\ Len(w) \in Nat
  BY StreamType
<1>2. Len(<<>>) = 0 /\ Len(w) # 0
  BY <1>1, EmptySeq DEF Chars
<1>3. ~early /\ ~(Stream = <<>> /\ ~NoMore)
  BY DEF ReadChar
<1>4. Stream # <<>> /\ Len(Stream) # 0
  <2>1. Stream = <<>> => Len(Stream) = 0
    BY <1>2
  <2>2. NoMore => Len(coming) = 0
    BY <1>2 DEF NoMore
  <2>3. Len(Stream) = 0 => Stream = <<>>
    BY <1>1, EmptySeq DEF Chars
  <2> QED BY <1>1, <1>2, <1>3, <2>1, <2>2, <2>3
<1>5. Consume(1) /\ Keep(<<Head(Stream)>>) /\ Continue /\ UNCHANGED <<input, coming, hasfix, memory, result>>
  BY <1>4 DEF ReadChar
<1>6. 1 \in 0 .. Len(Stream)
  BY <1>1, <1>4
<1>7. /\ Types' /\ Ahead(ring', uart', coming', Behind(w, 1)) /\ Part(Stream, 1) = Part(w, 1)
      /\ Len(ring') = IF 1 < Len(ring) THEN Len(ring) - 1 ELSE 0
  BY <1>5, <1>6, Consumed
<1>8. Part(Stream, 1) = <<Head(Stream)>>
  <2>1. PICK a : a = Stream
    OBVIOUS
  <2>2. a \in Seq(Char) /\ 1 \in 0 .. Len(a)
    BY <1>1, <1>6, <2>1 DEF Chars
  <2>3. Part(a, 1) \in Seq(Char) /\ Len(Part(a, 1)) = 1 /\ Part(a, 1)[1] = a[1]
    <3>1. /\ Part(a, 1) \in Seq(Char) /\ Len(Part(a, 1)) = 1
          /\ \A i \in 1 .. 1 : Part(a, 1)[i] = a[i]
      BY <2>2, Parts
    <3>2. 1 \in 1 .. 1
      OBVIOUS
    <3> QED BY <3>1, <3>2
  <2>4. a[1] \in Char /\ Head(a) = a[1]
    BY <2>2, ElementOfSeq
  <2>5. <<Head(a)>> \in Seq(Char) /\ Len(<<Head(a)>>) = 1 /\ <<Head(a)>>[1] = Head(a)
    BY <2>4, Single
  <2>6. Part(a, 1) = <<Head(a)>>
    BY <2>3, <2>4, <2>5, SameElements
  <2> QED BY <2>1, <2>6
<1>9. Len(ring) <= 1 => Len(ring') = 0
  BY <1>1, <1>7
<1>10. Len(ring') = 0 => ring' = <<>>
  BY <1>7, EmptySeq DEF Types, Chars
<1> QED BY <1>3, <1>5, <1>7, <1>8, <1>9, <1>10

\* peek() sees the first character, unless it comes early, and on the ESP port the
\* ring holds it from then on.
LEMMA PeekOn ==
  ASSUME Types, NEW w, Ahead(ring, uart, coming, w), w # <<>>, PeekAt, ~early'
  PROVE  /\ Types' /\ Ahead(ring', uart', coming', w)
         /\ Esp /\ ring = <<>> => Len(ring') = 1
         /\ ~Esp \/ ring # <<>> => ring' = ring
         /\ todo' = (IF w[1] = Stage.arg THEN Stage.yes ELSE Stage.no) \o Tail(todo)
         /\ ~early /\ UNCHANGED <<input, coming, got, hasfix, memory, result>>
<1>1. /\ Stream \in Chars /\ Len(Stream) \in Nat /\ Len(coming) \in Nat /\ Len(ring) \in Nat
      /\ Len(w) = Len(Stream) + Len(coming) /\ w \in Chars /\ Len(w) \in Nat
      /\ ring \in Chars /\ uart \in Chars /\ coming \in Chars
      /\ \A i \in 1 .. Len(Stream) : Stream[i] = w[i]
  BY StreamType
<1>2. Len(<<>>) = 0 /\ Len(w) # 0
  BY <1>1, EmptySeq DEF Chars
<1>3. ~early /\ ~(Stream = <<>> /\ ~NoMore)
  BY DEF PeekAt
<1>4. Stream # <<>> /\ Len(Stream) # 0
  <2>1. Stream = <<>> => Len(Stream) = 0
    BY <1>2
  <2>2. NoMore => Len(coming) = 0
    BY <1>2 DEF NoMore
  <2>3. Len(Stream) = 0 => Stream = <<>>
    BY <1>1, EmptySeq DEF Chars
  <2> QED BY <1>1, <1>2, <1>3, <2>1, <2>2, <2>3
<1>5. todo' = (IF w[1] = Stage.arg THEN Stage.yes ELSE Stage.no) \o Tail(todo)
  <2>1. Head(Stream) = w[1]
    <3>1. Head(Stream) = Stream[1] /\ 1 \in 1 .. Len(Stream)
      BY <1>1, <1>4 DEF Chars
    <3> QED BY <1>1, <3>1
  <2> QED BY <1>4, <2>1 DEF PeekAt
<1>6. UNCHANGED <<input, coming, got, hasfix, memory, result>>
  BY DEF PeekAt
<1>7. CASE Esp /\ ring = <<>>
  <2>1. uart # <<>>
    <3>1. ring \o uart = uart
      BY <1>1, <1>7, ConcatEmptySeq DEF Chars
    <3> QED BY <1>4, <3>1 DEF Stream
  <2> DEFINE h == Head(uart)
  <2>2. ring' = <<h>> /\ uart' = Tail(uart)
    BY <1>7, <2>1 DEF PeekAt
  <2>3. h \in Char /\ Tail(uart) \in Chars /\ uart = <<h>> \o Tail(uart)
    BY <1>1, <2>1, HeadTailProperties DEF Chars
  <2> HIDE DEF h
  <2>4. <<h>> \in Chars /\ Len(<<h>>) = 1
    BY <2>3, Single DEF Chars
  <2>5. Joins(uart, coming, w)
    <3>1. Ahead(<<>>, uart, coming, w)
      BY <1>7
    <3> QED BY <1>1, <3>1, EmptyRing
  <2>6. Ahead(ring', uart', coming', w)
    BY <1>6, <2>2, <2>3, <2>5 DEF Ahead
  <2> QED BY <1>1, <1>3, <1>5, <1>6, <1>7, <2>2, <2>3, <2>4, <2>6 DEF Types
<1>8. CASE ~(Esp /\ ring = <<>>)
  <2>1. ring' = ring /\ uart' = uart
    BY <1>8 DEF PeekAt
  <2> QED BY <1>1, <1>3, <1>5, <1>6, <1>8, <2>1 DEF Types
<1> QED BY <1>7, <1>8

\* The first n characters are a number, and the next one is known to end it.
NumberAt(w, n, kind) ==
  /\ n \in Nat /\ n < Len(w) /\ Numeral(Part(w, n), kind)
  /\ w[n + 1] \notin Digits /\ w[n + 1] # "."

LEMMA NumberPlaces ==
  ASSUME NEW w \in Chars, NEW n, NEW kind, NumberAt(w, n, kind)
  PROVE  /\ n \in Nat \ {0} /\ n \in 0 .. Len(w) /\ n + 1 \in 1 .. Len(w)
         /\ w[1] \in Digits \/ w[1] = "-" \/ (w[1] = "." /\ kind = "float")
         /\ \A k \in 2 .. n : \/ w[k] \in Digits
                              \/ w[k] = "." /\ kind = "float" /\ \A j \in 1 .. k - 1 : w[j] # "."
         /\ w[n + 1] \notin Digits /\ w[n + 1] # "."
<1>1. /\ n \in Nat /\ n < Len(w) /\ Numeral(Part(w, n), kind) /\ Len(w) \in Nat
      /\ w[n + 1] \notin Digits /\ w[n + 1] # "."
  BY DEF NumberAt, Chars
<1> DEFINE s == Part(w, n)
<1>2. s \in Seq(Char) /\ Len(s) = n /\ \A i \in 1 .. n : s[i] = w[i]
  <2>1. n \in 0 .. Len(w)
    BY <1>1
  <2> QED BY <2>1, Parts DEF Chars
<1>3. s # <<>> /\ DOMAIN s = 1 .. n
  BY <1>1, <1>2 DEF Numeral
<1>4. n # 0
  <2> HIDE DEF s
  <2> QED BY <1>2, <1>3, EmptySeq
<1>5. \A k \in 1 .. n : \/ s[k] \in Digits
                        \/ s[k] = "-" /\ k = 1
                        \/ s[k] = "." /\ kind = "float" /\ \A j \in 1 .. k - 1 : s[j] # "."
  BY <1>1, <1>3 DEF Numeral
<1> HIDE DEF s
<1>6. n \in 0 .. Len(w) /\ n + 1 \in 1 .. Len(w) /\ 1 \in 1 .. n
  BY <1>1, <1>4
<1>7. ASSUME NEW k \in 2 .. n
      PROVE  \/ w[k] \in Digits
             \/ w[k] = "." /\ kind = "float" /\ \A j \in 1 .. k - 1 : w[j] # "."
  <2>1. k \in 1 .. n /\ k # 1 /\ \A j \in 1 .. k - 1 : j \in 1 .. n
    BY <1>1
  <2> QED BY <1>2, <1>5, <2>1
<1>8. w[1] \in Digits \/ w[1] = "-" \/ (w[1] = "." /\ kind = "float")
  BY <1>2, <1>5, <1>6
<1> QED BY <1>1, <1>4, <1>6, <1>7, <1>8

\* parseInt() and parseFloat() take a number that they see in the UART; the ring
\* loses what it had, and has the character behind the number.
LEMMA ParseOn ==
  ASSUME Types, NEW w, Joins(uart, coming, w), NEW n, NEW kind, NumberAt(w, n, kind),
         kind \in {"int", "float"}, Esp => n < NumberLen, Parse, Stage.arg = kind
  PROVE  /\ Types' /\ Keep(Part(w, n)) /\ Continue /\ Alone
         /\ Esp => Ahead(ring', uart', coming', Behind(w, n)) /\ Len(ring') = 1
         /\ ~Esp => Joins(uart', coming', Behind(w, n)) /\ ring' = ring
<1>1. uart \in Chars /\ coming \in Chars /\ ring \in Chars /\ Len(uart) \in Nat /\ Len(coming) \in Nat
  BY DEF Types, Chars
<1>2. /\ w \in Chars /\ Len(w) = Len(uart) + Len(coming)
      /\ \A i \in 1 .. Len(uart) : w[i] = uart[i]
  BY <1>1, Joined DEF Chars
<1>3. /\ n \in Nat \ {0} /\ n \in 0 .. Len(w) /\ n + 1 \in 1 .. Len(w)
      /\ w[1] \in Digits \/ w[1] = "-" \/ (w[1] = "." /\ kind = "float")
      /\ \A k \in 2 .. n : \/ w[k] \in Digits
                           \/ w[k] = "." /\ kind = "float" /\ \A j \in 1 .. k - 1 : w[j] # "."
      /\ w[n + 1] \notin Digits /\ w[n + 1] # "."
  BY <1>2, NumberPlaces
<1>4. w[1] \in Starters
  BY <1>3 DEF Starters
<1>5. NoMore => Len(uart) = Len(w)
  <2>1. Len(<<>>) = 0
    OBVIOUS
  <2> QED BY <1>1, <1>2, <2>1 DEF NoMore
<1>6. ~(NoMore /\ \A i \in DOMAIN uart : uart[i] \notin Starters)
  <2> SUFFICES ASSUME NoMore, \A i \in DOMAIN uart : uart[i] \notin Starters PROVE FALSE
    OBVIOUS
  <2>1. 1 \in 1 .. Len(uart) /\ DOMAIN uart = 1 .. Len(uart)
    BY <1>1, <1>2, <1>3, <1>5 DEF Chars
  <2> QED BY <1>2, <1>4, <2>1
<1>7. PICK i \in 1 .. Len(uart), j \in 2 .. Len(uart) + 1 :
          /\ IsNumber(i, j) /\ (j <= Len(uart) \/ NoMore)
          /\ Keep(IF Esp /\ j - i >= NumberLen THEN <<>> ELSE SubSeq(uart, i, j - 1))
          /\ IF Esp THEN ring' = Ender(j) /\ uart' = Behind(uart, j)
                    ELSE uart' = Behind(uart, j - 1) /\ UNCHANGED ring
  BY <1>6 DEF Parse
<1>8. Continue /\ Alone
  BY DEF Parse
<1>9. i = 1
  <2>1. \A k \in 1 .. i - 1 : uart[k] \notin Starters
    BY <1>7 DEF IsNumber, Begins
  <2>2. i # 1 => 1 \in 1 .. i - 1
    OBVIOUS
  <2>3. 1 \in 1 .. Len(uart)
    BY <1>1
  <2> QED BY <1>2, <1>4, <2>1, <2>2, <2>3
<1>10. 1 < j /\ (\A k \in 2 .. j - 1 : GoesOn(1, k)) /\ (j <= Len(uart) => ~GoesOn(1, j))
  <2>1. i < j /\ (\A k \in i + 1 .. j - 1 : GoesOn(i, k)) /\ (j <= Len(uart) => ~GoesOn(i, j))
    BY <1>7 DEF IsNumber
  <2>2. i + 1 = 2
    BY <1>9
  <2> QED BY <1>9, <2>1, <2>2
<1>11. ~(j > n + 1)
  <2> SUFFICES ASSUME j > n + 1 PROVE FALSE
    OBVIOUS
  <2> DEFINE k == n + 1
  <2>1. k \in 2 .. j - 1 /\ k \in 1 .. Len(uart)
    BY <1>1, <1>3
  <2>2. w[k] \notin Digits /\ w[k] # "."
    BY <1>3
  <2> HIDE DEF k
  <2>3. GoesOn(1, k)
    BY <1>10, <2>1
  <2>4. uart[k] = w[k]
    BY <1>2, <2>1
  <2> QED BY <2>2, <2>3, <2>4 DEF GoesOn
<1>12. ~(j <= n)
  <2> SUFFICES ASSUME j <= n PROVE FALSE
    OBVIOUS
  <2>1. j \in 2 .. n
    BY <1>3
  <2>2. j <= Len(uart)
    BY <1>1, <1>2, <1>3, <1>5, <1>7
  <2>3. j \in 1 .. Len(uart) /\ \A k \in 1 .. j - 1 : k \in 1 .. Len(uart)
    BY <1>1, <2>1, <2>2
  <2>4. \/ uart[j] \in Digits
        \/ uart[j] = "." /\ kind = "float" /\ \A k \in 1 .. j - 1 : uart[k] # "."
    BY <1>2, <1>3, <2>1, <2>3
  <2>5. GoesOn(1, j)
    BY <2>4 DEF GoesOn
  <2> QED BY <1>10, <2>2, <2>5
<1>13. j = n + 1
  BY <1>1, <1>3, <1>11, <1>12
<1>14. n + 1 <= Len(uart) /\ n \in 0 .. Len(uart) /\ n + 1 \in 0 .. Len(uart)
  BY <1>1, <1>2, <1>3, <1>5, <1>7, <1>13
<1>15. Part(uart, n) = Part(w, n) /\ Joins(Behind(uart, n), coming, Behind(w, n))
  BY <1>1, <1>14, Taking DEF Chars
<1>16. Keep(Part(w, n))
  <2>1. SubSeq(uart, i, j - 1) = Part(uart, n)
    <3>1. i = 1 /\ j - 1 = n
      BY <1>3, <1>9, <1>13
    <3> QED BY <3>1 DEF Part
  <2>2. ~(Esp /\ j - i >= NumberLen)
    <3>1. j - i = n
      BY <1>3, <1>9, <1>13
    <3> QED BY <1>3, <3>1, LengthsAssumption
  <2> QED BY <1>7, <1>15, <2>1, <2>2
<1>17. coming' = coming
  BY <1>8 DEF Alone
<1>18. /\ Behind(uart, n) \in Chars /\ Len(Behind(uart, n)) = Len(uart) - n
       /\ \A k \in 1 .. Len(uart) - n : Behind(uart, n)[k] = uart[n + k]
  BY <1>1, <1>14, Parts DEF Chars
<1>19. CASE Esp
  <2> DEFINE m == n + 1
             c == uart[m]
  <2>1. m \in 1 .. Len(uart) /\ m \in 0 .. Len(uart)
    BY <1>3, <1>14
  <2>2. ring' = SubSeq(uart, m, m) /\ uart' = Behind(uart, m)
    BY <1>7, <1>13, <1>19 DEF Ender
  <2>3. /\ Behind(uart, m) \in Chars /\ Len(Behind(uart, m)) = Len(uart) - m
        /\ \A k \in 1 .. Len(uart) - m : Behind(uart, m)[k] = uart[m + k]
    <3> HIDE DEF m
    <3> QED BY <1>1, <2>1, Parts DEF Chars
  <2>4. c \in Char
    <3> HIDE DEF m
    <3> QED BY <1>1, <2>1, ElementOfSeq DEF Chars
  <2>5. SubSeq(uart, m, m) = <<c>>
    <3> HIDE DEF m
    <3> DEFINE t == SubSeq(uart, m, m)
    <3>1. m \in Int /\ m <= m /\ m - m + 1 = 1 /\ m + 1 - 1 = m
      BY <2>1
    <3>2. \A k \in m .. m : uart[k] \in Char
      BY <2>4, <3>1 DEF c
    <3>3. /\ t \in Seq(Char) /\ Len(t) = IF m <= m THEN m - m + 1 ELSE 0
          /\ \A k \in 1 .. m - m + 1 : t[k] = uart[m + k - 1]
      BY <3>1, <3>2, SubSeqProperties
    <3> HIDE DEF t
    <3>4. Len(t) = 1 /\ t[1] = c
      <4>1. 1 \in 1 .. m - m + 1
        BY <3>1
      <4>2. t[1] = uart[m + 1 - 1]
        BY <3>3, <4>1
      <4>3. Len(t) = 1
        BY <3>1, <3>3
      <4> QED BY <3>1, <4>2, <4>3 DEF c
    <3> HIDE DEF c
    <3>5. <<c>> \in Seq(Char) /\ Len(<<c>>) = 1 /\ <<c>>[1] = c
      BY <2>4, Single
    <3>6. t = <<c>>
      BY <3>3, <3>4, <3>5, SameElements
    <3> QED BY <3>6 DEF t
  <2> HIDE DEF c
  <2>6. <<c>> \in Chars /\ Len(<<c>>) = 1 /\ <<c>>[1] = c
    BY <2>4, Single DEF Chars
  <2>7. <<c>> \o Behind(uart, m) = Behind(uart, n)
    <3>1. PICK u : u = Behind(uart, n)
      OBVIOUS
    <3>2. PICK v : v = Behind(uart, m)
      OBVIOUS
    <3>3. PICK t : t = <<c>>
      OBVIOUS
    <3>4. t \in Seq(Char) /\ Len(t) = 1 /\ t[1] = c
      BY <2>6, <3>3 DEF Chars
    <3>5. v \in Seq(Char) /\ Len(v) = Len(uart) - m /\ \A k \in 1 .. Len(uart) - m : v[k] = uart[m + k]
      BY <2>3, <3>2 DEF Chars
    <3>6. u \in Seq(Char) /\ Len(u) = Len(uart) - n /\ \A k \in 1 .. Len(uart) - n : u[k] = uart[n + k]
      BY <1>18, <3>1 DEF Chars
    <3>7. /\ t \o v \in Seq(Char) /\ Len(t \o v) = Len(t) + Len(v)
          /\ \A k \in 1 .. Len(t) : (t \o v)[k] = t[k]
          /\ \A k \in 1 .. Len(v) : (t \o v)[Len(t) + k] = v[k]
      <4>1. t \in Seq(Char) /\ v \in Seq(Char)
        BY <3>4, <3>5
      <4> QED BY <4>1, Halves
    <3>8. Len(t \o v) = Len(u)
      BY <1>1, <1>3, <3>4, <3>5, <3>6, <3>7
    <3>9. ASSUME NEW k \in 1 .. Len(u) PROVE u[k] = (t \o v)[k]
      <4>1. CASE k = 1
        BY <3>4, <3>6, <3>7, <4>1 DEF c
      <4>2. CASE k # 1
        <5>1. PICK l \in 1 .. Len(v) : Len(t) + l = k /\ m + l = n + k
          <6>1. k - 1 \in 1 .. Len(v) /\ 1 + (k - 1) = k /\ m + (k - 1) = n + k
            BY <1>1, <1>3, <3>5, <3>6, <4>2
          <6> QED BY <3>4, <6>1
        <5>2. (t \o v)[Len(t) + l] = v[l] /\ v[l] = uart[m + l]
          BY <3>5, <3>7
        <5> QED BY <3>6, <5>1, <5>2
      <4> QED BY <4>1, <4>2
    <3>10. t \o v = u
      BY <3>6, <3>7, <3>8, <3>9, SameElements
    <3> QED BY <3>1, <3>2, <3>3, <3>10
  <2> HIDE DEF m
  <2>8. Ahead(ring', uart', coming', Behind(w, n))
    BY <1>15, <1>17, <2>2, <2>5, <2>7 DEF Ahead
  <2> QED BY <1>1, <1>8, <1>16, <1>17, <1>19, <2>2, <2>3, <2>5, <2>6, <2>8 DEF Types
<1>20. CASE ~Esp
  <2>1. ring' = ring /\ uart' = Behind(uart, n)
    <3>1. j - 1 = n
      BY <1>3, <1>13
    <3> QED BY <1>7, <1>20, <3>1
  <2> QED BY <1>1, <1>8, <1>15, <1>16, <1>17, <1>18, <1>20, <2>1 DEF Types
<1> QED BY <1>19, <1>20

-----------------------------------------------------------------------------
(* Lengths in decimal *)

LEMMA DigitOf ==
  ASSUME NEW n \in 0 .. 9
  PROVE  Numerals[n + 1] \in Digits /\ Digit[Numerals[n + 1]] = n /\ Numerals[n + 1] \in Char
<1>1. Numerals[n + 1] \in Digits /\ Numerals[n + 1] \in Char
  <2>1. /\ Numerals[1] = "0" /\ Numerals[2] = "1" /\ Numerals[3] = "2" /\ Numerals[4] = "3"
        /\ Numerals[5] = "4" /\ Numerals[6] = "5" /\ Numerals[7] = "6" /\ Numerals[8] = "7"
        /\ Numerals[9] = "8" /\ Numerals[10] = "9"
    BY DEF Numerals
  <2>2. n + 1 \in {1, 2, 3, 4, 5, 6, 7, 8, 9, 10}
    OBVIOUS
  <2>3. Numerals[n + 1] \in {"0", "1", "2", "3", "4", "5", "6", "7", "8", "9"}
    BY <2>1, <2>2
  <2>4. Digits \subseteq Char
    BY DEF Char
  <2>5. Numerals[n + 1] \in Digits
    BY <2>3 DEF Digits
  <2> QED BY <2>4, <2>5
<1>2. \A m \in 0 .. 9 : Numerals[m + 1] = Numerals[n + 1] => m = n
  BY DEF Numerals
<1>3. Digit[Numerals[n + 1]] = CHOOSE m \in 0 .. 9 : Numerals[m + 1] = Numerals[n + 1]
  BY <1>1 DEF Digit
<1> QED BY <1>1, <1>2, <1>3

LEMMA Tenth ==
  ASSUME NEW n \in Nat
  PROVE  /\ n \div 10 \in Nat /\ n % 10 \in 0 .. 9 /\ 10 * (n \div 10) + (n % 10) = n
         /\ n < 10 => n % 10 = n
<1>1. n \div 10 \in Nat /\ n % 10 \in 0 .. 9
  OBVIOUS
<1>2. 10 * (n \div 10) + (n % 10) = n
  OBVIOUS
<1>3. n < 10 => n % 10 = n
  OBVIOUS
<1> QED BY <1>1, <1>2, <1>3

LEMMA FigureDigit ==
  ASSUME NEW n \in Nat
  PROVE  Figure(n) \in Digits /\ Digit[Figure(n)] = n % 10 /\ Figure(n) \in Char
<1>1. n % 10 \in 0 .. 9
  OBVIOUS
<1> QED BY <1>1, DigitOf DEF Figure

IsValue(v, s) == v = [k \in 0 .. Len(s) |-> IF k = 0 THEN 0 ELSE 10 * v[k - 1] + Digit[s[k]]]

LEMMA ValueExists ==
  ASSUME NEW s, Len(s) \in 1 .. 3
  PROVE  \E v : IsValue(v, s)
<1> DEFINE a == 10 * 0 + Digit[s[1]]
           b == 10 * a + Digit[s[2]]
           c == 10 * b + Digit[s[3]]
           v == [k \in 0 .. Len(s) |-> IF k = 0 THEN 0 ELSE IF k = 1 THEN a ELSE IF k = 2 THEN b ELSE c]
           u == [k \in 0 .. Len(s) |-> IF k = 0 THEN 0 ELSE 10 * v[k - 1] + Digit[s[k]]]
<1>1. ASSUME NEW k \in 0 .. Len(s) PROVE v[k] = u[k]
  <2>1. k = 0 \/ k = 1 \/ k = 2 \/ k = 3
    <3>1. k \in Int /\ 0 <= k /\ k <= 3
      <4>1. PICK l \in 1 .. 3 : l = Len(s)
        OBVIOUS
      <4>2. k \in 0 .. l
        BY <4>1
      <4> QED BY <4>2
    <3> QED BY <3>1
  <2>2. CASE k = 0
    BY <2>2
  <2>3. CASE k = 1
    <3>1. k - 1 = 0 /\ 0 \in 0 .. Len(s)
      BY <2>3
    <3>2. v[0] = 0
      BY <3>1
    <3>3. u[k] = 10 * v[0] + Digit[s[1]]
      BY <2>3, <3>1
    <3> QED BY <2>3, <3>2, <3>3
  <2>4. CASE k = 2
    <3>1. k - 1 = 1 /\ 1 \in 0 .. Len(s)
      BY <2>4
    <3>2. v[1] = a
      BY <3>1
    <3>3. u[k] = 10 * v[1] + Digit[s[2]]
      BY <2>4, <3>1
    <3>4. v[k] = b
      BY <2>4
    <3> HIDE DEF v, u, a
    <3> QED BY <3>2, <3>3, <3>4
  <2>5. CASE k = 3
    <3>1. k - 1 = 2 /\ 2 \in 0 .. Len(s)
      BY <2>5
    <3>2. v[2] = b
      BY <3>1
    <3>3. u[k] = 10 * v[2] + Digit[s[3]]
      BY <2>5, <3>1
    <3>4. v[k] = c
      BY <2>5
    <3> HIDE DEF v, u, b
    <3> QED BY <3>2, <3>3, <3>4
  <2> QED BY <2>1, <2>2, <2>3, <2>4, <2>5
<1>2. v = u
  <2>1. v = [k \in 0 .. Len(s) |-> v[k]] /\ u = [k \in 0 .. Len(s) |-> u[k]]
    OBVIOUS
  <2> HIDE DEF v, u
  <2> QED BY <1>1, <2>1
<1> HIDE DEF v
<1>3. IsValue(v, s)
  BY <1>2 DEF IsValue
<1> QED BY <1>3

LEMMA NumberValue ==
  ASSUME NEW s, Len(s) \in 1 .. 3
  PROVE  \E v : /\ Number(s) = v[Len(s)] /\ v[0] = 0
                /\ \A k \in 1 .. Len(s) : v[k] = 10 * v[k - 1] + Digit[s[k]]
<1> DEFINE V == CHOOSE v : IsValue(v, s)
<1>1. IsValue(V, s)
  BY ValueExists
<1>2. Number(s) = V[Len(s)]
  BY DEF Number, IsValue
<1> HIDE DEF V
<1>3. V[0] = 0
  BY <1>1 DEF IsValue
<1>4. ASSUME NEW k \in 1 .. Len(s) PROVE V[k] = 10 * V[k - 1] + Digit[s[k]]
  <2>1. k \in 0 .. Len(s) /\ k # 0
    OBVIOUS
  <2> QED BY <1>1, <2>1 DEF IsValue
<1> QED BY <1>2, <1>3, <1>4

LEMMA DecimalNumber ==
  ASSUME NEW n \in Nat, n < 1000
  PROVE  /\ Decimal(n) \in Chars /\ Len(Decimal(n)) \in 1 .. 3
         /\ \A k \in 1 .. Len(Decimal(n)) : Decimal(n)[k] \in Digits
         /\ Number(Decimal(n)) = n
<1> DEFINE p == n \div 100
           q == n \div 10
           s == Decimal(n)
<1>1. p \in Nat /\ q \in Nat /\ p % 10 \in 0 .. 9 /\ q % 10 \in 0 .. 9 /\ n % 10 \in 0 .. 9
  OBVIOUS
<1>6. 10 * q + (n % 10) = n
  BY Tenth
<1>7. 10 * p + (q % 10) = q
  <2>1. p = q \div 10
    OBVIOUS
  <2> HIDE DEF p, q
  <2> QED BY <1>1, <2>1, Tenth
<1>2. /\ Figure(p) \in Digits /\ Digit[Figure(p)] = p % 10 /\ Figure(p) \in Char
      /\ Figure(q) \in Digits /\ Digit[Figure(q)] = q % 10 /\ Figure(q) \in Char
      /\ Figure(n) \in Digits /\ Digit[Figure(n)] = n % 10 /\ Figure(n) \in Char
  <2> HIDE DEF p, q
  <2> QED BY <1>1, FigureDigit
<1>3. CASE n < 10
  <2>1. s = <<Figure(n)>> /\ n % 10 = n
    BY <1>3 DEF Decimal
  <2> DEFINE a == Figure(n)
  <2> HIDE DEF a, s
  <2>2. s = <<a>>
    BY <2>1 DEF a
  <2>3. s \in Seq(Char) /\ Len(s) = 1 /\ s[1] = a
    BY <1>2, <2>2 DEF a
  <2>10. Len(s) \in 1 .. 3
    BY <2>3
  <2>4. PICK v : /\ Number(s) = v[Len(s)] /\ v[0] = 0
                 /\ \A k \in 1 .. Len(s) : v[k] = 10 * v[k - 1] + Digit[s[k]]
    BY <2>10, NumberValue
  <2>5. 1 \in 1 .. Len(s) /\ 1 - 1 = 0
    BY <2>3
  <2>6. v[1] = 10 * 0 + Digit[a]
    BY <2>3, <2>4, <2>5
  <2>7. v[1] = n
    BY <1>2, <2>1, <2>6 DEF a
  <2>8. Number(s) = n
    BY <2>3, <2>4, <2>7
  <2> QED BY <1>2, <2>3, <2>8 DEF s, a, Chars
<1>4. CASE ~(n < 10) /\ n < 100
  <2>1. s = <<Figure(q), Figure(n)>>
    BY <1>4 DEF Decimal
  <2>9. q % 10 = q
    <3>1. q < 10
      BY <1>4
    <3> HIDE DEF q
    <3> QED BY <1>1, <3>1, Tenth
  <2> DEFINE a == Figure(q)
             b == Figure(n)
  <2> HIDE DEF a, b, s
  <2>2. s = <<a, b>>
    BY <2>1 DEF a, b
  <2>3. s \in Seq(Char) /\ Len(s) = 2 /\ s[1] = a /\ s[2] = b
    BY <1>2, <2>2 DEF a, b
  <2>10. Len(s) \in 1 .. 3
    BY <2>3
  <2>4. PICK v : /\ Number(s) = v[Len(s)] /\ v[0] = 0
                 /\ \A k \in 1 .. Len(s) : v[k] = 10 * v[k - 1] + Digit[s[k]]
    BY <2>10, NumberValue
  <2>5. 1 \in 1 .. Len(s) /\ 1 - 1 = 0 /\ 2 \in 1 .. Len(s) /\ 2 - 1 = 1
    BY <2>3
  <2>6. v[1] = 10 * 0 + Digit[a] /\ v[2] = 10 * v[1] + Digit[b]
    BY <2>3, <2>4, <2>5
  <2>7. v[1] = q /\ v[2] = n
    <3> HIDE DEF q
    <3>1. Digit[a] = q /\ Digit[b] = n % 10
      BY <1>2, <2>9 DEF a, b
    <3> QED BY <1>1, <1>6, <2>6, <3>1
  <2>8. Number(s) = n
    BY <2>3, <2>4, <2>7
  <2> QED BY <1>2, <2>3, <2>8 DEF s, a, b, Chars
<1>5. CASE ~(n < 100)
  <2>1. s = <<Figure(p), Figure(q), Figure(n)>>
    BY <1>5 DEF Decimal
  <2>2. p % 10 = p
    <3>1. p < 10
      BY <1>5
    <3> HIDE DEF p
    <3> QED BY <1>1, <3>1, Tenth
  <2> DEFINE a == Figure(p)
             b == Figure(q)
             c == Figure(n)
  <2> HIDE DEF a, b, c, s
  <2>3. s = <<a, b, c>>
    BY <2>1 DEF a, b, c
  <2>4. s \in Seq(Char) /\ Len(s) = 3 /\ s[1] = a /\ s[2] = b /\ s[3] = c
    BY <1>2, <2>3 DEF a, b, c
  <2>5. PICK v : /\ Number(s) = v[Len(s)] /\ v[0] = 0
                 /\ \A k \in 1 .. Len(s) : v[k] = 10 * v[k - 1] + Digit[s[k]]
    <3>1. Len(s) \in 1 .. 3
      BY <2>4
    <3> QED BY <3>1, NumberValue
  <2>6. /\ 1 \in 1 .. Len(s) /\ 1 - 1 = 0 /\ 2 \in 1 .. Len(s) /\ 2 - 1 = 1
        /\ 3 \in 1 .. Len(s) /\ 3 - 1 = 2
    BY <2>4
  <2>7. v[1] = 10 * 0 + Digit[a] /\ v[2] = 10 * v[1] + Digit[b] /\ v[3] = 10 * v[2] + Digit[c]
    BY <2>4, <2>5, <2>6
  <2>8. v[1] = p /\ v[2] = q /\ v[3] = n
    <3> HIDE DEF p, q
    <3>1. Digit[a] = p /\ Digit[b] = q % 10 /\ Digit[c] = n % 10
      BY <1>2, <2>2 DEF a, b, c
    <3> QED BY <1>1, <1>6, <1>7, <2>7, <3>1
  <2>9. Number(s) = n
    BY <2>4, <2>5, <2>8
  <2> QED BY <1>2, <2>4, <2>9 DEF s, a, b, c, Chars
<1> QED BY <1>3, <1>4, <1>5

-----------------------------------------------------------------------------
(* Reads still to come *)

From(s, k) == SubSeq(s, k, Len(s))

LEMMA NextRead ==
  ASSUME NEW S, NEW s \in Seq(S), NEW k \in 1 .. Len(s)
  PROVE  From(s, k) \in Seq(S) /\ From(s, k) # <<>> /\ Head(From(s, k)) = s[k] /\ Tail(From(s, k)) = From(s, k + 1)
<1> DEFINE m == Len(s)
           t == From(s, k)
<1>1. m \in Nat /\ k \in Int /\ k <= m /\ 1 <= k
  OBVIOUS
<1>2. \A i \in k .. m : s[i] \in S
  BY ElementOfSeq
<1>3. t = SubSeq(s, k, m)
  BY DEF From
<1> HIDE DEF m, t
<1>4. t \in Seq(S) /\ Len(t) = m - k + 1 /\ \A i \in 1 .. m - k + 1 : t[i] = s[k + i - 1]
  BY <1>1, <1>2, <1>3, SubSeqProperties
<1>5. t # <<>> /\ Head(t) = s[k]
  <2>1. 1 \in 1 .. m - k + 1 /\ k + 1 - 1 = k
    BY <1>1
  <2>2. Len(t) # 0
    BY <1>1, <1>4
  <2>3. t # <<>> /\ Head(t) = t[1]
    BY <1>4, <2>2, EmptySeq
  <2>4. t[1] = s[k + 1 - 1]
    BY <1>4, <2>1
  <2> QED BY <2>1, <2>3, <2>4
<1>6. Tail(t) = From(s, k + 1)
  <2> DEFINE j == k + 1
             u == SubSeq(s, j, m)
  <2>1. j \in Int /\ \A i \in j .. m : s[i] \in S
    BY <1>1, <1>2
  <2>2. /\ u \in Seq(S) /\ Len(u) = IF j <= m THEN m - j + 1 ELSE 0
        /\ \A i \in 1 .. m - j + 1 : u[i] = s[j + i - 1]
    <3> HIDE DEF j
    <3> QED BY <1>1, <2>1, SubSeqProperties
  <2>3. Tail(t) \in Seq(S) /\ Len(Tail(t)) = Len(t) - 1 /\ \A i \in 1 .. Len(Tail(t)) : Tail(t)[i] = t[i + 1]
    BY <1>4, <1>5, HeadTailProperties
  <2>4. Len(u) = Len(Tail(t))
    <3>1. Len(Tail(t)) = m - k
      BY <1>1, <1>4, <2>3
    <3>2. j <= m => m - j + 1 = m - k
      BY <1>1
    <3>3. ~(j <= m) => m - k = 0
      BY <1>1
    <3> HIDE DEF u, j
    <3> QED BY <2>2, <3>1, <3>2, <3>3
  <2>5. ASSUME NEW i \in 1 .. Len(u) PROVE u[i] = Tail(t)[i]
    <3>1. i \in 1 .. m - j + 1 /\ i \in 1 .. Len(Tail(t)) /\ i + 1 \in 1 .. m - k + 1 /\ j + i - 1 = k + (i + 1) - 1
      BY <1>1, <1>4, <2>2, <2>4
    <3>2. t[i + 1] = s[k + (i + 1) - 1]
      BY <1>4, <3>1
    <3> HIDE DEF u, j
    <3> QED BY <2>2, <2>3, <3>1, <3>2
  <2> HIDE DEF u
  <2>6. u = Tail(t)
    BY <2>2, <2>3, <2>4, <2>5, SameElements
  <2> QED BY <2>6 DEF u, From, m
<1> QED BY <1>4, <1>5, <1>6 DEF t

LEMMA FirstRead ==
  ASSUME NEW S, NEW s \in Seq(S)
  PROVE  From(s, 1) = s
BY DEF From

LEMMA LastRead ==
  ASSUME NEW S, NEW s \in Seq(S)
  PROVE  From(s, Len(s) + 1) = <<>>
BY DEF From

\* A piece that ends with the character that is searched for.
LEMMA PieceEnds ==
  ASSUME NEW x \in Chars, NEW rest \in Chars, NEW w, Joins(x, rest, w), NEW c, FirstAt(x, Len(x), c)
  PROVE  FirstAt(w, Len(x), c) /\ Behind(w, Len(x)) = rest /\ w \in Chars
<1>1. /\ w \in Chars /\ Len(w) = Len(x) + Len(rest)
      /\ \A i \in 1 .. Len(x) : w[i] = x[i]
  BY Joined DEF Chars
<1>2. Behind(w, Len(x)) = rest
  BY Suffix DEF Chars
<1>3. Len(x) \in Nat /\ Len(rest) \in Nat /\ Len(x) \in 1 .. Len(x) /\ x[Len(x)] = c
      /\ \A i \in 1 .. Len(x) - 1 : x[i] # c
  BY DEF FirstAt, Chars
<1>4. Len(x) \in 1 .. Len(w) /\ \A i \in 1 .. Len(x) - 1 : i \in 1 .. Len(x)
  BY <1>1, <1>3
<1> QED BY <1>1, <1>2, <1>3, <1>4 DEF FirstAt

LEMMA BehindBehind ==
  ASSUME NEW w \in Chars, NEW m \in Nat, NEW n \in Nat, m + n <= Len(w)
  PROVE  /\ Behind(Behind(w, m), n) = Behind(w, m + n)
         /\ Behind(w, m) \in Chars /\ Len(Behind(w, m)) = Len(w) - m
         /\ \A i \in 1 .. Len(w) - m : Behind(w, m)[i] = w[m + i]
<1> DEFINE v == Behind(w, m)
           k == m + n
<1>1. Len(w) \in Nat /\ m \in 0 .. Len(w) /\ k \in 0 .. Len(w) /\ n \in 0 .. Len(w) - m
  BY DEF Chars
<1>2. v \in Chars /\ Len(v) = Len(w) - m /\ \A i \in 1 .. Len(w) - m : v[i] = w[m + i]
  BY <1>1, Parts DEF Chars
<1> HIDE DEF v
<1>3. n \in 0 .. Len(v)
  BY <1>1, <1>2
<1>4. /\ Behind(v, n) \in Chars /\ Len(Behind(v, n)) = Len(v) - n
      /\ \A i \in 1 .. Len(v) - n : Behind(v, n)[i] = v[n + i]
  BY <1>2, <1>3, Parts DEF Chars
<1>5. /\ Behind(w, k) \in Chars /\ Len(Behind(w, k)) = Len(w) - k
      /\ \A i \in 1 .. Len(w) - k : Behind(w, k)[i] = w[k + i]
  <2> HIDE DEF k
  <2> QED BY <1>1, Parts DEF Chars
<1>6. Len(v) - n = Len(w) - k
  BY <1>1, <1>2
<1>7. ASSUME NEW i \in 1 .. Len(w) - k PROVE Behind(v, n)[i] = Behind(w, k)[i]
  <2>1. i \in 1 .. Len(v) - n
    BY <1>6
  <2>2. PICK j \in 1 .. Len(w) - m : j = n + i /\ m + j = k + i
    BY <1>1
  <2>3. Behind(v, n)[i] = v[j] /\ v[j] = w[m + j] /\ Behind(w, k)[i] = w[k + i]
    BY <1>2, <1>4, <1>5, <2>1, <2>2
  <2> QED BY <2>2, <2>3
<1> HIDE DEF k
<1>8. Behind(v, n) = Behind(w, k)
  BY <1>4, <1>5, <1>6, <1>7, SameElements DEF Chars
<1> QED BY <1>2, <1>8 DEF v, k

\* waitResponse() for the text at the end of a line, the first character of which may
\* be in the ring.
LEMMA WaitAhead ==
  ASSUME Types, NEW x \in Chars, NEW rest \in Chars, NEW w, Joins(x, rest, w), NEW c, FirstAt(x, Len(x), c),
         Ahead(ring, uart, coming, w), Len(ring) < Len(x), Wait, Stage.arg = c
  PROVE  /\ Types' /\ Ahead(ring', uart', coming', rest) /\ ring' = <<>>
         /\ Continue /\ UNCHANGED <<input, coming, got, hasfix, early, memory, result>>
<1> DEFINE g == Len(ring)
           l == Len(x)
           n == l - g
           v == Behind(w, g)
<1>1. ring \in Chars /\ uart \in Chars /\ coming \in Chars /\ g \in Nat /\ l \in Nat /\ g < l
  BY DEF Types, Chars
<1>2. FirstAt(w, l, c) /\ Behind(w, l) = rest /\ w \in Chars
  BY PieceEnds
<1>3. Joins(uart, coming, v)
  BY <1>1, BehindRing
<1> HIDE DEF g, l
<1>4. /\ l \in 1 .. Len(w) /\ w[l] = c /\ (\A i \in 1 .. l - 1 : w[i] # c) /\ Len(w) \in Nat
  BY <1>2 DEF FirstAt, Chars
<1>5. n \in Nat /\ n # 0 /\ g + n = l /\ g + n <= Len(w)
  BY <1>1, <1>4
<1> HIDE DEF n
<1>6. /\ Behind(v, n) = Behind(w, g + n)
      /\ v \in Chars /\ Len(v) = Len(w) - g
      /\ \A i \in 1 .. Len(w) - g : v[i] = w[g + i]
  BY <1>1, <1>2, <1>5, BehindBehind
<1> HIDE DEF v
<1>7. FirstAt(v, n, c)
  <2>1. n \in 1 .. Len(v)
    BY <1>1, <1>4, <1>5, <1>6
  <2>2. v[n] = c
    BY <1>4, <1>5, <1>6, <2>1
  <2>3. ASSUME NEW i \in 1 .. n - 1 PROVE v[i] # c
    <3>1. i \in 1 .. Len(w) - g /\ g + i \in 1 .. l - 1
      BY <1>1, <1>4, <1>5
    <3> QED BY <1>4, <1>6, <3>1
  <2> QED BY <2>1, <2>2, <2>3 DEF FirstAt
<1>8. /\ Types' /\ Ahead(ring', uart', coming', Behind(v, n)) /\ ring' = <<>>
      /\ Continue /\ UNCHANGED <<input, coming, got, hasfix, early, memory, result>>
  BY <1>3, <1>7, WaitOn
<1>9. Behind(v, n) = rest
  BY <1>2, <1>5, <1>6
<1> QED BY <1>8, <1>9

\* find() for the character at the end of a piece.
LEMMA FindAhead ==
  ASSUME Types, NEW x \in Chars, NEW rest \in Chars, NEW w, Joins(x, rest, w), NEW c, FirstAt(x, Len(x), c),
         Ahead(ring, uart, coming, w), Len(ring) <= Len(x), Find, Stage.arg = c
  PROVE  /\ Types' /\ Ahead(ring', uart', coming', rest) /\ ring' = <<>>
         /\ got' = Append(got, <<>>) /\ Continue /\ Alone
<1>1. FirstAt(w, Len(x), c) /\ Behind(w, Len(x)) = rest
  BY PieceEnds
<1>2. /\ Types' /\ Ahead(ring', uart', coming', Behind(w, Len(x)))
      /\ Len(ring) <= Len(x) => ring' = <<>>
      /\ got' = Append(got, <<>>) /\ Continue /\ Alone
  BY <1>1, FindOn
<1> QED BY <1>1, <1>2

-----------------------------------------------------------------------------
(* The memory of a message *)

LEMMA PutPlaces ==
  ASSUME NEW mem, NEW at \in Nat, NEW s \in Chars, DOMAIN mem \subseteq Nat
  PROVE  /\ DOMAIN Put(mem, at, s) = DOMAIN mem
         /\ \A i \in 1 .. Len(s) : at + i - 1 \in DOMAIN mem => Put(mem, at, s)[at + i - 1] = s[i]
         /\ \A a \in DOMAIN mem : a < at \/ a >= at + Len(s) => Put(mem, at, s)[a] = mem[a]
<1>1. DOMAIN s = 1 .. Len(s) /\ Len(s) \in Nat
  BY DEF Chars
<1>2. DOMAIN Put(mem, at, s) = DOMAIN mem
  BY DEF Put
<1>3. ASSUME NEW i \in 1 .. Len(s), at + i - 1 \in DOMAIN mem PROVE Put(mem, at, s)[at + i - 1] = s[i]
  <2> DEFINE a == at + i - 1
  <2>1. a \in DOMAIN mem /\ a - at + 1 = i
    BY <1>1, <1>3
  <2> HIDE DEF a
  <2> QED BY <1>1, <2>1 DEF Put, a
<1>4. ASSUME NEW a \in DOMAIN mem, a < at \/ a >= at + Len(s) PROVE Put(mem, at, s)[a] = mem[a]
  <2>1. a - at + 1 \notin 1 .. Len(s)
    BY <1>1, <1>4
  <2> QED BY <1>1, <2>1 DEF Put
<1> QED BY <1>2, <1>3, <1>4

\* What cannot be kept, then what can, over it, then the terminator.
Skipped(size, s) == IF Len(s) < size THEN 0 ELSE Len(s) - size + 1
Stored(mem, at, size, s) ==
  Put(Put(Put(mem, at, Part(s, Skipped(size, s))), at, Behind(s, Skipped(size, s))),
      at + (IF Len(s) < size THEN Len(s) ELSE size), <<"NUL">>)

Addresses == 0 .. TopicLen + PayloadLen

\* s where there is room for it, or the end of s.
KeptIn(mem, at, size, s) ==
  IF Len(s) < size
  THEN (\A i \in 1 .. Len(s) : mem[at + i - 1] = s[i]) /\ mem[at + Len(s)] = "NUL"
  ELSE /\ \A i \in 1 .. size - 1 : mem[at + i - 1] = s[(Len(s) - size + 1) + i]
       /\ mem[at + size - 1] # "NUL"

Stores(m, mem, at, size, s) == m = Stored(mem, at, size, s)
OnAddresses(mem) == DOMAIN mem = Addresses
Untouched(m, mem, at, size) == \A a \in Addresses : a < at \/ a > at + size => m[a] = mem[a]

LEMMA StoredPlaces ==
  ASSUME NEW mem, OnAddresses(mem), NEW at \in Nat, NEW size \in Nat \ {0},
         at + size <= TopicLen + PayloadLen, NEW s \in Chars, Len(s) < 2 * size,
         \A i \in 1 .. Len(s) : s[i] # "NUL", size > 1 => mem[at + size - 1] # "NUL",
         NEW m, Stores(m, mem, at, size, s)
  PROVE  OnAddresses(m) /\ Untouched(m, mem, at, size) /\ KeptIn(m, at, size, s)
<1> DEFINE l == Len(s)
           skip == Skipped(size, s)
           p == Part(s, skip)
           b == Behind(s, skip)
           over == Put(mem, at, p)
           kept == Put(over, at, b)
           e == at + (IF l < size THEN l ELSE size)
<1>1. l \in Nat /\ TopicLen \in Nat /\ PayloadLen \in Nat
  BY LengthsAssumption DEF Chars
<1>2. skip \in 0 .. l /\ skip <= size /\ l - skip < size
  BY <1>1 DEF Skipped
<1>3. e \in Addresses /\ e \in Nat
  BY <1>1 DEF Addresses
<1>4. Addresses \subseteq Nat
  BY DEF Addresses
<1>5. m = Put(kept, e, <<"NUL">>)
  BY DEF Stores, Stored
<1>6. l < size => skip = 0 /\ e = at + l
  BY DEF Skipped
<1>7. l >= size => skip = l - size + 1 /\ e = at + size
  BY <1>1 DEF Skipped
<1> HIDE DEF skip, e
<1>8. /\ p \in Chars /\ Len(p) = skip /\ \A i \in 1 .. skip : p[i] = s[i]
      /\ b \in Chars /\ Len(b) = l - skip /\ \A i \in 1 .. l - skip : b[i] = s[skip + i]
  <2>1. s \in Seq(Char) /\ skip \in 0 .. Len(s)
    BY <1>2 DEF Chars
  <2> HIDE DEF l
  <2>2. /\ Part(s, skip) \in Seq(Char) /\ Len(Part(s, skip)) = skip
        /\ \A i \in 1 .. skip : Part(s, skip)[i] = s[i]
        /\ Behind(s, skip) \in Seq(Char) /\ Len(Behind(s, skip)) = Len(s) - skip
        /\ \A i \in 1 .. Len(s) - skip : Behind(s, skip)[i] = s[skip + i]
    BY <2>1, Parts
  <2> QED BY <2>2 DEF Chars, l
<1> HIDE DEF p, b
<1>9. /\ DOMAIN over = Addresses
      /\ \A i \in 1 .. Len(p) : at + i - 1 \in Addresses => over[at + i - 1] = p[i]
      /\ \A a \in Addresses : a < at \/ a >= at + Len(p) => over[a] = mem[a]
  <2>1. DOMAIN mem \subseteq Nat /\ p \in Chars
    BY <1>4, <1>8 DEF OnAddresses
  <2>2. PICK d : d = DOMAIN mem
    OBVIOUS
  <2>3. /\ DOMAIN over = d
        /\ \A i \in 1 .. Len(p) : at + i - 1 \in d => over[at + i - 1] = p[i]
        /\ \A a \in d : a < at \/ a >= at + Len(p) => over[a] = mem[a]
    BY <2>1, <2>2, PutPlaces
  <2> HIDE DEF over
  <2> QED BY <2>2, <2>3 DEF OnAddresses
<1> HIDE DEF over
<1>10. /\ DOMAIN kept = Addresses
       /\ \A i \in 1 .. Len(b) : at + i - 1 \in Addresses => kept[at + i - 1] = b[i]
       /\ \A a \in Addresses : a < at \/ a >= at + Len(b) => kept[a] = over[a]
  <2>1. DOMAIN over \subseteq Nat /\ b \in Chars
    BY <1>4, <1>8, <1>9
  <2>2. /\ DOMAIN kept = DOMAIN over
        /\ \A i \in 1 .. Len(b) : at + i - 1 \in DOMAIN over => kept[at + i - 1] = b[i]
        /\ \A a \in DOMAIN over : a < at \/ a >= at + Len(b) => kept[a] = over[a]
    BY <2>1, PutPlaces
  <2> HIDE DEF kept
  <2> QED BY <1>9, <2>2
<1> HIDE DEF kept
<1>11. <<"NUL">> \in Chars /\ Len(<<"NUL">>) = 1 /\ <<"NUL">>[1] = "NUL"
  <2>1. "NUL" \in Char
    BY DEF Char
  <2> QED BY <2>1, Single DEF Chars
<1>12. /\ DOMAIN m = Addresses /\ m[e] = "NUL"
       /\ \A a \in Addresses : a # e => m[a] = kept[a]
  <2>1. PICK t : t = <<"NUL">>
    OBVIOUS
  <2>2. t \in Chars /\ Len(t) = 1 /\ t[1] = "NUL"
    BY <1>11, <2>1
  <2>3. m = Put(kept, e, t)
    BY <1>5, <2>1
  <2>4. t \in Chars /\ DOMAIN kept \subseteq Nat /\ e \in Nat
    BY <1>3, <1>4, <1>10, <2>2
  <2>5. /\ DOMAIN m = DOMAIN kept
        /\ \A i \in 1 .. Len(t) : e + i - 1 \in DOMAIN kept => m[e + i - 1] = t[i]
        /\ \A a \in DOMAIN kept : a < e \/ a >= e + Len(t) => m[a] = kept[a]
    BY <2>3, <2>4, PutPlaces
  <2>6. m[e] = "NUL"
    <3>1. 1 \in 1 .. Len(t) /\ e + 1 - 1 = e
      BY <1>3, <2>2
    <3> QED BY <1>3, <1>10, <2>2, <2>5, <3>1
  <2>7. ASSUME NEW a \in Addresses, a # e PROVE m[a] = kept[a]
    <3>1. a < e \/ a >= e + Len(t)
      BY <1>3, <1>4, <2>2, <2>7
    <3> QED BY <1>10, <2>5, <3>1
  <2> QED BY <1>10, <2>5, <2>6, <2>7
<1>13. ASSUME NEW a \in Addresses, a < at \/ a > at + size PROVE m[a] = mem[a]
  <2>1. a # e
    BY <1>1, <1>4, <1>6, <1>7, <1>13
  <2>2. (a < at \/ a >= at + Len(b)) /\ (a < at \/ a >= at + Len(p))
    BY <1>1, <1>2, <1>4, <1>8, <1>13
  <2> QED BY <1>9, <1>10, <1>12, <2>1, <2>2
<1>14. ASSUME l < size, NEW i \in 1 .. l PROVE m[at + i - 1] = s[i]
  <2>1. at + i - 1 \in Addresses /\ at + i - 1 # e /\ i \in 1 .. Len(b) /\ skip + i = i /\ i \in 1 .. l - skip
    BY <1>1, <1>2, <1>6, <1>8, <1>14 DEF Addresses
  <2>2. m[at + i - 1] = kept[at + i - 1]
    BY <1>12, <2>1
  <2>3. kept[at + i - 1] = b[i] /\ b[i] = s[skip + i]
    BY <1>8, <1>10, <2>1
  <2> QED BY <2>1, <2>2, <2>3
<1>15. ASSUME l >= size, NEW i \in 1 .. size - 1 PROVE m[at + i - 1] = s[(l - size + 1) + i]
  <2>1. at + i - 1 \in Addresses /\ at + i - 1 # e /\ i \in 1 .. Len(b) /\ i \in 1 .. l - skip
    BY <1>1, <1>2, <1>7, <1>8, <1>15 DEF Addresses
  <2>2. m[at + i - 1] = kept[at + i - 1]
    BY <1>12, <2>1
  <2>3. kept[at + i - 1] = b[i] /\ b[i] = s[skip + i]
    BY <1>8, <1>10, <2>1
  <2> QED BY <1>7, <1>15, <2>2, <2>3
<1>16. ASSUME l >= size PROVE m[at + size - 1] # "NUL"
  <2> DEFINE a == at + size - 1
  <2>1. a \in Addresses /\ a # e /\ a >= at + Len(b)
    BY <1>1, <1>2, <1>7, <1>8, <1>16 DEF Addresses
  <2>2. m[a] = over[a]
    <3> HIDE DEF a
    <3> QED BY <1>10, <1>12, <2>1
  <2>3. CASE skip = size
    <3>1. size \in 1 .. Len(p) /\ at + size - 1 \in Addresses /\ size \in 1 .. skip /\ size \in 1 .. l
      BY <1>2, <1>8, <2>1, <2>3
    <3>2. over[a] = p[size] /\ p[size] = s[size]
      BY <1>8, <1>9, <3>1
    <3> QED BY <2>2, <3>1, <3>2
  <2>4. CASE skip # size
    <3>1. a >= at + Len(p) /\ size > 1
      BY <1>1, <1>2, <1>7, <1>8, <1>16, <2>4
    <3>2. over[a] = mem[a]
      <4> HIDE DEF a
      <4> QED BY <1>9, <2>1, <3>1
    <3> QED BY <2>2, <3>1, <3>2
  <2> QED BY <2>3, <2>4
<1>17. l < size => m[at + l] = "NUL"
  BY <1>6, <1>12
<1>18. KeptIn(m, at, size, s)
  <2>1. CASE l < size
    <3>1. \A i \in 1 .. l : m[at + i - 1] = s[i]
      BY <1>14, <2>1
    <3> QED BY <1>17, <2>1, <3>1, Zenon DEF KeptIn
  <2>2. CASE ~(l < size)
    <3>1. l >= size
      BY <1>1, <2>2
    <3>2. \A i \in 1 .. size - 1 : m[at + i - 1] = s[(l - size + 1) + i]
      BY <1>15, <3>1
    <3> QED BY <1>16, <2>2, <3>1, <3>2, Zenon DEF KeptIn
  <2> QED BY <2>1, <2>2
<1> QED BY <1>12, <1>13, <1>18 DEF OnAddresses, Untouched

\* A part of the first part of a sequence.
LEMMA PartOfPart ==
  ASSUME NEW a \in Chars, NEW n \in 0 .. Len(a), NEW k \in 0 .. n
  PROVE  SubSeq(a, 1, k) = Part(Part(a, n), k) /\ SubSeq(a, k + 1, n) = Behind(Part(a, n), k)
<1> DEFINE s == Part(a, n)
           j == k + 1
           u == SubSeq(a, j, n)
<1>1. Len(a) \in Nat /\ n \in Nat /\ k \in Nat /\ k <= n /\ k \in 0 .. Len(a)
  BY DEF Chars
<1>2. s \in Chars /\ Len(s) = n /\ \A i \in 1 .. n : s[i] = a[i]
  BY Parts DEF Chars
<1>3. Part(a, k) \in Chars /\ Len(Part(a, k)) = k /\ \A i \in 1 .. k : Part(a, k)[i] = a[i]
  BY <1>1, Parts DEF Chars
<1> HIDE DEF s
<1>4. /\ Part(s, k) \in Chars /\ Len(Part(s, k)) = k /\ \A i \in 1 .. k : Part(s, k)[i] = s[i]
      /\ Behind(s, k) \in Chars /\ Len(Behind(s, k)) = n - k
      /\ \A i \in 1 .. n - k : Behind(s, k)[i] = s[k + i]
  <2>1. k \in 0 .. Len(s)
    BY <1>2
  <2>2. /\ Part(s, k) \in Chars /\ Len(Part(s, k)) = k /\ \A i \in 1 .. k : Part(s, k)[i] = s[i]
        /\ Behind(s, k) \in Chars /\ Len(Behind(s, k)) = Len(s) - k
        /\ \A i \in 1 .. Len(s) - k : Behind(s, k)[i] = s[k + i]
    BY <1>2, <2>1, Parts DEF Chars
  <2> QED BY <1>2, <2>2
<1>5. Part(a, k) = Part(s, k)
  <2>1. ASSUME NEW i \in 1 .. k PROVE Part(a, k)[i] = Part(s, k)[i]
    <3>1. i \in 1 .. n
      BY <1>1
    <3> QED BY <1>2, <1>3, <1>4, <3>1
  <2> QED BY <1>3, <1>4, <2>1, SameElements DEF Chars
<1>6. u \in Chars /\ Len(u) = n - k /\ \A i \in 1 .. n - k : u[i] = a[k + i]
  <2>1. j \in Int /\ n \in Int /\ \A i \in j .. n : a[i] \in Char
    <3>1. \A i \in j .. n : i \in 1 .. Len(a)
      BY <1>1
    <3> QED BY <1>1, <3>1, ElementOfSeq DEF Chars
  <2>2. /\ u \in Seq(Char) /\ Len(u) = IF j <= n THEN n - j + 1 ELSE 0
        /\ \A i \in 1 .. n - j + 1 : u[i] = a[j + i - 1]
    <3> HIDE DEF j
    <3> QED BY <2>1, SubSeqProperties
  <2> HIDE DEF u
  <2>3. Len(u) = n - k
    BY <1>1, <2>2
  <2>4. ASSUME NEW i \in 1 .. n - k PROVE u[i] = a[k + i]
    <3>1. i \in 1 .. n - j + 1 /\ j + i - 1 = k + i
      BY <1>1
    <3> QED BY <2>2, <3>1
  <2> QED BY <2>2, <2>3, <2>4 DEF Chars
<1> HIDE DEF u
<1>7. u = Behind(s, k)
  <2>1. ASSUME NEW i \in 1 .. n - k PROVE u[i] = Behind(s, k)[i]
    <3>1. k + i \in 1 .. n
      BY <1>1
    <3> QED BY <1>2, <1>4, <1>6, <3>1
  <2> QED BY <1>4, <1>6, <2>1, SameElements DEF Chars
<1> QED BY <1>5, <1>7 DEF s, u, Part

LEMMA StoreOn ==
  ASSUME Types, NEW x \in Chars, NEW rest \in Chars, NEW w, Joins(x, rest, w),
         Ahead(ring, uart, coming, w), ring = <<>>, NEW part \in {"topic", "payload"},
         Announced(part) = Len(x), Store, Stage.arg = part
  PROVE  /\ Types' /\ Ahead(ring', uart', coming', rest) /\ ring' = <<>>
         /\ memory' = Stored(memory, Address(part), Size(part), x)
         /\ Continue /\ UNCHANGED <<input, coming, got, hasfix, early, result>>
<1> DEFINE n == Len(x)
           size == Size(part)
           at == Address(part)
           skip == Skipped(size, x)
<1>1. n \in Nat /\ size \in Nat \ {0} /\ at \in Nat
  BY LengthsAssumption DEF Chars, Size, Address
<1>2. Stream \in Chars /\ Len(Stream) \in Nat /\ ring \in Chars
  BY StreamType
<1>3. skip \in 0 .. n /\ (IF n < size THEN n ELSE skip + size - 1) = n
  BY <1>1 DEF Skipped
<1>4. skip = IF n < size THEN 0 ELSE TooMuch(part)
  <2>1. TooMuch(part) = n - size + 1
    BY DEF TooMuch
  <2> QED BY <2>1 DEF Skipped
<1>5. /\ Len(Stream) >= n /\ Consume(n)
      /\ memory' = Put(Put(Put(memory, at, SubSeq(Stream, 1, skip)), at, SubSeq(Stream, skip + 1, n)),
                       at + (IF n < size THEN n ELSE size), <<"NUL">>)
      /\ Continue /\ UNCHANGED <<input, coming, got, hasfix, early, result>>
  <2> DEFINE a == Announced(part)
             m == IF a < size THEN a ELSE (IF a < size THEN 0 ELSE TooMuch(part)) + size - 1
  <2>1. a = n
    OBVIOUS
  <2>2. /\ Len(Stream) >= m /\ Consume(m)
        /\ memory' = Put(Put(Put(memory, at, SubSeq(Stream, 1, IF a < size THEN 0 ELSE TooMuch(part))), at,
                             SubSeq(Stream, (IF a < size THEN 0 ELSE TooMuch(part)) + 1, m)),
                         at + (IF a < size THEN m ELSE size), <<"NUL">>)
        /\ Continue /\ UNCHANGED <<input, coming, got, hasfix, early, result>>
    <3> HIDE DEF a
    <3>1. Announced(Stage.arg) = a
      BY DEF a
    <3> QED BY <3>1 DEF Store
  <2>3. m = n
    <3> HIDE DEF skip, a, size, n
    <3> QED BY <1>3, <1>4, <2>1
  <2> HIDE DEF m, a, size, at, n, skip
  <2> QED BY <1>4, <2>1, <2>2, <2>3
<1>6. n \in 0 .. Len(Stream) /\ coming' = coming
  BY <1>1, <1>2, <1>5
<1>7. /\ Types' /\ Ahead(ring', uart', coming', Behind(w, n)) /\ Part(Stream, n) = Part(w, n)
      /\ Len(ring') = IF n < Len(ring) THEN Len(ring) - n ELSE 0
  <2> HIDE DEF n
  <2> QED BY <1>5, <1>6, Consumed
<1>8. Behind(w, n) = rest /\ Part(w, n) = x
  <2>1. Behind(w, n) = rest
    BY Suffix DEF Chars
  <2>2. /\ w \in Chars /\ Len(w) = n + Len(rest) /\ \A i \in 1 .. n : w[i] = x[i]
    BY Joined DEF Chars
  <2>3. n \in 0 .. Len(w)
    BY <1>1, <2>2 DEF Chars
  <2>4. Part(w, n) \in Seq(Char) /\ Len(Part(w, n)) = n /\ \A i \in 1 .. n : Part(w, n)[i] = w[i]
    <3> HIDE DEF n
    <3> QED BY <2>2, <2>3, Parts DEF Chars
  <2>5. x \in Seq(Char) /\ Len(x) = n
    BY DEF Chars
  <2> HIDE DEF n
  <2>6. Part(w, n) = x
    BY <2>2, <2>4, <2>5, SameElements
  <2> QED BY <2>1, <2>6
<1>9. ring' = <<>>
  <2>1. Len(<<>>) = 0 /\ ~(n < 0)
    BY <1>1
  <2>2. Len(ring') = 0
    BY <1>7, <2>1
  <2> QED BY <1>7, <2>2, EmptySeq DEF Types, Chars
<1>10. SubSeq(Stream, 1, skip) = Part(x, skip) /\ SubSeq(Stream, skip + 1, n) = Behind(x, skip)
  <2>1. PICK a : a = Stream
    OBVIOUS
  <2>2. a \in Chars /\ n \in 0 .. Len(a) /\ Part(a, n) = x
    BY <1>2, <1>6, <1>7, <1>8, <2>1
  <2>3. skip \in 0 .. n
    BY <1>3
  <2> HIDE DEF n, skip
  <2>4. SubSeq(a, 1, skip) = Part(Part(a, n), skip) /\ SubSeq(a, skip + 1, n) = Behind(Part(a, n), skip)
    BY <2>2, <2>3, PartOfPart
  <2> QED BY <2>1, <2>2, <2>4
<1>11. memory' = Stored(memory, at, size, x)
  <2> HIDE DEF at, size
  <2> QED BY <1>5, <1>10 DEF Stored
<1> QED BY <1>5, <1>7, <1>8, <1>9, <1>11

-----------------------------------------------------------------------------
(* The message *)

topic == input.sent.topic
payload == input.sent.payload

LEMMA TextType ==
  ASSUME NEW s, NEW size, IsText(s, size)
  PROVE  s \in Chars /\ Len(s) \in Nat /\ Len(s) < 1000
<1>1. s \in Seq(STRING) /\ Len(s) < 1000
  BY DEF IsText
<1>2. STRING \subseteq Char
  BY DEF Char
<1>3. s \in Chars
  BY <1>1, <1>2, SeqMonotonic, Zenon DEF Chars
<1> QED BY <1>1, <1>3, LenProperties DEF Chars

\* The characters of which the pieces are made.
LEMMA Literals ==
  /\ "0" \in Char /\ "9" \in Char /\ Comma \in Char /\ "\r" \in Char /\ "\n" \in Char /\ Blank \in Char
  /\ "OK" \in Char /\ RxStart \in Char /\ RxTopic \in Char
  /\ RxPayload \in Char /\ RxEnd \in Char
BY DEF Char, Digits

LEMMA Different ==
  /\ RxStart # Comma /\ RxTopic # "\r" /\ RxTopic # "\n" /\ RxPayload # "\r" /\ RxPayload # "\n"
  /\ RxEnd # "\r" /\ RxEnd # "\n" /\ Blank # Comma /\ Blank \notin Digits
  /\ Comma \notin Digits /\ Comma # "." /\ Comma # "\r" /\ Comma # "0" /\ Comma # "s" /\ Comma # "\n"
BY Zenon DEF Comma, RxStart, RxTopic, RxPayload, RxEnd, Blank, Digits

LEMMA Tuple2 ==
  ASSUME NEW S, NEW a \in S, NEW b \in S
  PROVE  <<a, b>> \in Seq(S)
OBVIOUS

LEMMA Tuple3 ==
  ASSUME NEW S, NEW a \in S, NEW b \in S, NEW c \in S
  PROVE  <<a, b, c>> \in Seq(S)
OBVIOUS

LEMMA Tuple5 ==
  ASSUME NEW S, NEW a \in S, NEW b \in S, NEW c \in S, NEW d \in S, NEW e \in S
  PROVE  <<a, b, c, d, e>> \in Seq(S)
OBVIOUS

LEMMA LinePiece == Line \in Chars /\ Len(Line) = 5 /\ FirstAt(Line, Len(Line), "\n")
<1>1. Line \in Chars
  BY Literals, Tuple5, Zenon DEF Line, Chars
<1>2. Len(Line) = 5 /\ Line[5] = "\n" /\ \A i \in 1 .. 4 : Line[i] # "\n"
  BY Different DEF Line
<1> QED BY <1>1, <1>2 DEF FirstAt

LEMMA EndOfLinePiece ==
  ASSUME NEW c \in Char, c # "\r", c # "\n"
  PROVE  /\ EndOfLine(c) \in Chars /\ Len(EndOfLine(c)) = 3
         /\ FirstAt(EndOfLine(c), Len(EndOfLine(c)), c)
<1>1. EndOfLine(c) \in Chars
  BY Literals, Tuple3, Zenon DEF EndOfLine, Chars
<1>2. Len(EndOfLine(c)) = 3 /\ EndOfLine(c)[3] = c /\ \A i \in 1 .. 2 : EndOfLine(c)[i] # c
  BY DEF EndOfLine
<1> QED BY <1>1, <1>2 DEF FirstAt

Start == <<"0", Comma>>
Separator == <<Comma>>
End == <<"0", "\r", "\n">>

LEMMA ShortPieces ==
  /\ Start \in Chars /\ Len(Start) = 2 /\ FirstAt(Start, Len(Start), Comma)
  /\ Separator \in Chars /\ Len(Separator) = 1 /\ FirstAt(Separator, Len(Separator), Comma)
  /\ End \in Chars /\ Len(End) = 3 /\ FirstAt(End, Len(End), "\n")
<1>1. Start \in Chars /\ End \in Chars
  BY Literals, Tuple2, Tuple3, Zenon DEF Start, End, Chars
<1>2. Separator \in Chars
  BY Literals, Single, Zenon DEF Separator, Chars
<1>3. Len(Start) = 2 /\ Start[2] = Comma /\ \A i \in 1 .. 1 : Start[i] # Comma
  BY Different DEF Start
<1>4. Len(Separator) = 1 /\ Separator[1] = Comma
  BY DEF Separator
<1>5. Len(End) = 3 /\ End[3] = "\n" /\ \A i \in 1 .. 2 : End[i] # "\n"
  BY DEF End
<1>6. FirstAt(Start, Len(Start), Comma)
  <2>1. 2 \in 1 .. 2 /\ \A i \in 1 .. 2 - 1 : i \in 1 .. 1
    OBVIOUS
  <2>2. \A i \in 1 .. 2 - 1 : Start[i] # Comma
    BY <1>3, <2>1
  <2> QED BY <1>3, <2>1, <2>2, Zenon DEF FirstAt
<1>7. FirstAt(Separator, Len(Separator), Comma)
  <2>1. 1 \in 1 .. 1 /\ \A i \in 1 .. 1 - 1 : FALSE
    OBVIOUS
  <2> QED BY <1>4, <2>1, Zenon DEF FirstAt
<1>8. FirstAt(End, Len(End), "\n")
  BY <1>5 DEF FirstAt
<1> QED BY <1>1, <1>2, <1>3, <1>4, <1>5, <1>6, <1>7, <1>8

LEMMA Tuple12 ==
  ASSUME NEW S, NEW a \in S, NEW b \in S, NEW c \in S, NEW d \in S, NEW e \in S, NEW f \in S,
         NEW g \in S, NEW h \in S, NEW i \in S, NEW j \in S, NEW k \in S, NEW l \in S,
         NEW m, m = <<a, b, c, d, e, f, g, h, i, j, k, l>>
  PROVE  /\ m \in Seq(S) /\ Len(m) = 12
         /\ m[1] = a /\ m[2] = b /\ m[3] = c /\ m[4] = d /\ m[5] = e /\ m[6] = f
         /\ m[7] = g /\ m[8] = h /\ m[9] = i /\ m[10] = j /\ m[11] = k /\ m[12] = l
OBVIOUS

\* The pieces m of a message, place by place.
Placed(m, t, p) ==
  /\ m \in Seq(Seq(Char)) /\ Len(m) = 12
  /\ m[1] = Start /\ m[2] = Decimal(Len(t)) /\ m[3] = Separator /\ m[4] = Decimal(Len(p))
  /\ m[5] = EndOfLine(RxTopic) /\ m[6] = Line /\ m[7] = t
  /\ m[8] = EndOfLine(RxPayload) /\ m[9] = Line /\ m[10] = p
  /\ m[11] = EndOfLine(RxEnd) /\ m[12] = End

LEMMA MessagePieces ==
  ASSUME NEW t \in Chars, NEW p \in Chars, Len(t) < 1000, Len(p) < 1000
  PROVE  Placed(Message(t, p), t, p)
<1> DEFINE m == Message(t, p)
<1>1. Len(t) \in Nat /\ Len(p) \in Nat
  BY DEF Chars
<1>2. Decimal(Len(t)) \in Seq(Char) /\ Decimal(Len(p)) \in Seq(Char)
  BY <1>1, DecimalNumber DEF Chars
<1>3. /\ Start \in Seq(Char) /\ Separator \in Seq(Char) /\ End \in Seq(Char) /\ Line \in Seq(Char)
      /\ t \in Seq(Char) /\ p \in Seq(Char)
  BY ShortPieces, LinePiece DEF Chars
<1>4. /\ EndOfLine(RxTopic) \in Seq(Char)
      /\ EndOfLine(RxPayload) \in Seq(Char)
      /\ EndOfLine(RxEnd) \in Seq(Char)
  BY Literals, Different, EndOfLinePiece DEF Chars
<1>5. m = <<Start, Decimal(Len(t)), Separator, Decimal(Len(p)), EndOfLine(RxTopic), Line, t,
            EndOfLine(RxPayload), Line, p, EndOfLine(RxEnd), End>>
  BY DEF Message, Start, Separator, End
<1> HIDE DEF m
<1> DEFINE C == Seq(Char)
           d1 == Decimal(Len(t))
           d2 == Decimal(Len(p))
           e1 == EndOfLine(RxTopic)
           e2 == EndOfLine(RxPayload)
           e3 == EndOfLine(RxEnd)
<1> HIDE DEF C, d1, d2, e1, e2, e3
<1>6. /\ Start \in C /\ d1 \in C /\ Separator \in C /\ d2 \in C /\ e1 \in C /\ Line \in C /\ t \in C
      /\ e2 \in C /\ p \in C /\ e3 \in C /\ End \in C
  BY <1>2, <1>3, <1>4 DEF C, d1, d2, e1, e2, e3
<1>7. m = <<Start, d1, Separator, d2, e1, Line, t, e2, Line, p, e3, End>>
  BY <1>5 DEF d1, d2, e1, e2, e3
<1>8. /\ m \in Seq(C) /\ Len(m) = 12
      /\ m[1] = Start /\ m[2] = d1 /\ m[3] = Separator /\ m[4] = d2 /\ m[5] = e1 /\ m[6] = Line /\ m[7] = t
      /\ m[8] = e2 /\ m[9] = Line /\ m[10] = p /\ m[11] = e3 /\ m[12] = End
  BY <1>6, <1>7, Tuple12
<1>9. Placed(m, t, p)
  BY <1>8 DEF C, d1, d2, e1, e2, e3, Placed
<1> QED BY <1>9 DEF m

LEMMA Process ==
  /\ Len(process) = 12 /\ \E S : process \in Seq(S)
  /\ process[1] = find(Comma) /\ process[2] = parseInt /\ process[3] = find(Comma) /\ process[4] = parseInt
  /\ process[5] = clear(RxTopic) /\ process[6] = find("\n")
  /\ process[7] = Read("store", "topic")
  /\ process[8] = clear(RxPayload) /\ process[9] = find("\n")
  /\ process[10] = Read("store", "payload")
  /\ process[11] = clear(RxEnd) /\ process[12] = find("\n")
<1> DEFINE S == {find(Comma), parseInt, clear(RxTopic), find("\n"), Read("store", "topic"),
                 clear(RxPayload), Read("store", "payload"), clear(RxEnd)}
<1>1. process \in Seq(S) /\ Len(process) = 12
  BY DEF process
<1>2. \E T : process \in Seq(T)
  <2> HIDE DEF S
  <2> QED BY <1>1
<1>3. /\ process[1] = find(Comma) /\ process[2] = parseInt /\ process[3] = find(Comma) /\ process[4] = parseInt
      /\ process[5] = clear(RxTopic) /\ process[6] = find("\n")
      /\ process[7] = Read("store", "topic")
      /\ process[8] = clear(RxPayload) /\ process[9] = find("\n")
      /\ process[10] = Read("store", "payload")
      /\ process[11] = clear(RxEnd) /\ process[12] = find("\n")
  BY DEF process
<1> QED BY <1>1, <1>2, <1>3

Texts == topic \in Chars /\ payload \in Chars /\ IsText(topic, TopicLen) /\ IsText(payload, PayloadLen)

\* What has been read when k - 1 reads have been made.
GotAt(k) == /\ got \in Seq(Chars)
            /\ Len(got) >= (IF k = 1 THEN 1 ELSE IF k <= 3 THEN 2 ELSE 3)
            /\ k <= 6 => Len(got) = (IF k = 1 THEN 1 ELSE IF k <= 3 THEN 2 ELSE 3)
            /\ k = 2 => got[2] = <<>>
            /\ k >= 3 => got[2] = Decimal(Len(topic))
            /\ k = 4 => got[3] = <<>>
            /\ k >= 5 => got[3] = Decimal(Len(payload))

MemoryAt(k) == /\ DOMAIN memory = Addresses
               /\ k <= 7 => \A a \in Addresses : memory[a] # "NUL"
               /\ k <= 10 => \A a \in Addresses : a > TopicLen => memory[a] # "NUL"
               /\ k >= 8 => KeptIn(memory, 0, TopicLen, topic)
               /\ k >= 11 => KeptIn(memory, TopicLen, PayloadLen, payload)

NextText(k, r) == IF k = 1 /\ Esp THEN <<RxStart>> \o r[1] ELSE r[k]

MessageAt(k, r) ==
  /\ todo = From(process, k)
  /\ Ahead(ring, uart, coming, NextText(k, r))
  /\ Len(ring) <= 1 /\ (k \notin {1, 3, 5} => ring = <<>>)
  /\ GotAt(k) /\ MemoryAt(k)
  /\ result = "running" \/ (k = 13 /\ result = "ok")

MessageRests(r) == Rests(r, Message(topic, payload), Char)

MessageInv ==
  input.fn = "process" =>
    Types /\ Texts /\ \E r : MessageRests(r) /\ \E k \in 1 .. 13 : MessageAt(k, r)

LEMMA RestsOf ==
  ASSUME Texts, NEW r, MessageRests(r)
  PROVE  /\ \A k \in 1 .. 13 : r[k] \in Chars
         /\ Joins(Start, r[2], r[1]) /\ Joins(Decimal(Len(topic)), r[3], r[2])
         /\ Joins(Separator, r[4], r[3]) /\ Joins(Decimal(Len(payload)), r[5], r[4])
         /\ Joins(EndOfLine(RxTopic), r[6], r[5]) /\ Joins(Line, r[7], r[6])
         /\ Joins(topic, r[8], r[7])
         /\ Joins(EndOfLine(RxPayload), r[9], r[8]) /\ Joins(Line, r[10], r[9])
         /\ Joins(payload, r[11], r[10])
         /\ Joins(EndOfLine(RxEnd), r[12], r[11]) /\ Joins(End, r[13], r[12])
         /\ r[13] = <<>>
<1> DEFINE m == Message(topic, payload)
<1>1. /\ topic \in Chars /\ payload \in Chars /\ Len(topic) < 1000 /\ Len(payload) < 1000
  BY TextType DEF Texts
<1>2. Placed(m, topic, payload)
  BY <1>1, MessagePieces
<1>3. Rests(r, m, Char)
  BY DEF MessageRests
<1> HIDE DEF m
<1>6. /\ Len(m) = 12
      /\ m[1] = Start /\ m[2] = Decimal(Len(topic)) /\ m[3] = Separator /\ m[4] = Decimal(Len(payload))
      /\ m[5] = EndOfLine(RxTopic) /\ m[6] = Line /\ m[7] = topic
      /\ m[8] = EndOfLine(RxPayload) /\ m[9] = Line /\ m[10] = payload
      /\ m[11] = EndOfLine(RxEnd) /\ m[12] = End
  BY <1>2 DEF Placed
<1>4. r \in [1 .. 13 -> Chars] /\ (\A k \in 1 .. 12 : Joins(m[k], r[k + 1], r[k])) /\ r[13] = <<>>
  <2>1. 12 + 1 = 13
    OBVIOUS
  <2> QED BY <1>3, <1>6, <2>1 DEF Rests, Chars
<1>5. /\ Joins(m[1], r[2], r[1]) /\ Joins(m[2], r[3], r[2]) /\ Joins(m[3], r[4], r[3])
      /\ Joins(m[4], r[5], r[4]) /\ Joins(m[5], r[6], r[5]) /\ Joins(m[6], r[7], r[6])
      /\ Joins(m[7], r[8], r[7]) /\ Joins(m[8], r[9], r[8]) /\ Joins(m[9], r[10], r[9])
      /\ Joins(m[10], r[11], r[10]) /\ Joins(m[11], r[12], r[11]) /\ Joins(m[12], r[13], r[12])
  BY <1>4
<1> QED BY <1>4, <1>5, <1>6

\* The read that is made at k, and what is left of the reads when it has been.
LEMMA ReadAt ==
  ASSUME NEW k \in 1 .. 12, NEW r, MessageAt(k, r)
  PROVE  /\ Stage = process[k] /\ todo # <<>> /\ result = "running"
         /\ Continue => todo' = From(process, k + 1)
<1>1. PICK S : process \in Seq(S)
  BY Process
<1>2. k \in 1 .. Len(process)
  BY Process
<1>3. From(process, k) # <<>> /\ Head(From(process, k)) = process[k] /\ Tail(From(process, k)) = From(process, k + 1)
  BY <1>1, <1>2, NextRead
<1>4. todo = From(process, k) /\ result = "running"
  BY DEF MessageAt
<1> QED BY <1>3, <1>4 DEF Stage, Continue

LEMMA GotFound ==
  ASSUME NEW k \in {1, 3, 6, 9, 12}, GotAt(k), got' = Append(got, <<>>), topic' = topic, payload' = payload
  PROVE  GotAt(k + 1)'
<1>1. got \in Seq(Chars) /\ <<>> \in Chars /\ Len(got) \in Nat
  BY DEF GotAt, Chars
<1>2. /\ got' \in Seq(Chars) /\ Len(got') = Len(got) + 1 /\ got'[Len(got) + 1] = <<>>
      /\ \A i \in 1 .. Len(got) : got'[i] = got[i]
  <2>1. PICK e : e = <<>> /\ e \in Chars
    BY <1>1
  <2>2. got' = Append(got, e)
    BY <2>1
  <2>3. /\ Append(got, e) \in Seq(Chars) /\ Len(Append(got, e)) = Len(got) + 1
        /\ Append(got, e)[Len(got) + 1] = e
        /\ \A i \in 1 .. Len(got) : Append(got, e)[i] = got[i]
    BY <1>1, <2>1, AppendProperties
  <2> QED BY <2>1, <2>2, <2>3
<1>3. CASE k = 1
  <2>1. Len(got) = 1
    BY <1>3 DEF GotAt
  <2>2. Len(got') = 2 /\ got'[2] = <<>> /\ k + 1 = 2
    BY <1>2, <1>3, <2>1
  <2> QED BY <1>2, <2>2 DEF GotAt
<1>4. CASE k = 3
  <2>1. Len(got) = 2 /\ got[2] = Decimal(Len(topic))
    BY <1>4 DEF GotAt
  <2>2. Len(got') = 3 /\ got'[2] = got[2] /\ got'[3] = <<>> /\ k + 1 = 4
    BY <1>2, <1>4, <2>1
  <2> QED BY <1>2, <2>1, <2>2 DEF GotAt
<1>5. CASE k \in {6, 9, 12}
  <2>1. Len(got) >= 3 /\ got[2] = Decimal(Len(topic)) /\ got[3] = Decimal(Len(payload))
    BY <1>1, <1>5 DEF GotAt
  <2>2. Len(got') >= 3 /\ got'[2] = got[2] /\ got'[3] = got[3] /\ k + 1 >= 5 /\ k + 1 > 6
    BY <1>1, <1>2, <1>5, <2>1
  <2> DEFINE l == k + 1
  <2>3. l > 6 /\ l \in Nat /\ GotAt(l)' <=> GotAt(k + 1)'
    BY <2>2
  <2> QED BY <1>2, <1>5, <2>1, <2>2 DEF GotAt
<1> QED BY <1>3, <1>4, <1>5

\* Which piece is for which read.
LEMMA Kinds ==
  /\ \A k \in {1, 3, 6, 9, 12} : process[k].op = "find"
  /\ \A k \in {2, 4} : process[k].op = "parse" /\ process[k].arg = "int"
  /\ \A k \in {5, 8, 11} : process[k].op = "clear"
  /\ \A k \in {7, 10} : process[k].op = "store"
  /\ process[1].arg = Comma /\ process[3].arg = Comma /\ process[6].arg = "\n" /\ process[9].arg = "\n"
  /\ process[12].arg = "\n" /\ process[7].arg = "topic" /\ process[10].arg = "payload"
  /\ process[5].arg = RxTopic /\ process[8].arg = RxPayload
  /\ process[11].arg = RxEnd
<1>1. find(Comma).op = "find" /\ find(Comma).arg = Comma /\ find("\n").op = "find" /\ find("\n").arg = "\n"
  BY DEF find, Read
<1>2. parseInt.op = "parse" /\ parseInt.arg = "int"
  BY DEF parseInt, Read
<1>3. /\ clear(RxTopic).op = "clear"
      /\ clear(RxTopic).arg = RxTopic
      /\ clear(RxPayload).op = "clear"
      /\ clear(RxPayload).arg = RxPayload
      /\ clear(RxEnd).op = "clear"
      /\ clear(RxEnd).arg = RxEnd
  BY DEF clear, Read
<1>4. /\ Read("store", "topic").op = "store" /\ Read("store", "topic").arg = "topic"
      /\ Read("store", "payload").op = "store" /\ Read("store", "payload").arg = "payload"
  BY DEF Read
<1> QED BY <1>1, <1>2, <1>3, <1>4, Process

LEMMA Longer ==
  ASSUME NEW S, NEW c \in S, NEW t \in Seq(S), Len(t) = 2
  PROVE  /\ <<c>> \o t \in Seq(S) /\ Len(<<c>> \o t) = 3
         /\ (<<c>> \o t)[1] = c /\ (<<c>> \o t)[2] = t[1] /\ (<<c>> \o t)[3] = t[2]
<1>1. PICK s : s = <<c>>
  OBVIOUS
<1>2. s \in Seq(S) /\ Len(s) = 1 /\ s[1] = c
  BY <1>1, Single
<1>3. /\ s \o t \in Seq(S) /\ Len(s \o t) = Len(s) + Len(t)
      /\ \A i \in 1 .. Len(s) : (s \o t)[i] = s[i]
      /\ \A i \in 1 .. Len(t) : (s \o t)[Len(s) + i] = t[i]
  <2>1. s \in Seq(S)
    BY <1>2
  <2> QED BY ONLY <2>1, t \in Seq(S), Halves
<1>4. (s \o t)[1] = c /\ (s \o t)[1 + 1] = t[1] /\ (s \o t)[1 + 2] = t[2]
  BY <1>2, <1>3
<1>5. 1 + 1 = 2 /\ 1 + 2 = 3
  OBVIOUS
<1> QED BY <1>1, <1>2, <1>3, <1>4, <1>5

\* The piece x is in front of v, and ends with what is searched for.
Found(x, v, w, c) == x \in Chars /\ Joins(x, v, w) /\ Len(x) >= 1 /\ FirstAt(x, Len(x), c)

\* What is in front of the k-th read, the ring included, ends with what it looks for.
LEMMA PieceFound ==
  ASSUME Texts, NEW r, MessageRests(r), NEW k \in {1, 3, 6, 9, 12}
  PROVE  \E x : Found(x, r[k + 1], NextText(k, r), process[k].arg)
<1>1. CASE k = 1 /\ Esp
  <2> DEFINE s == <<RxStart>>
             x == s \o Start
  <2>1. r[1] \in Chars /\ r[2] \in Chars /\ Joins(Start, r[2], r[1])
    BY RestsOf
  <2>2. s \in Chars /\ Len(s) = 1 /\ s[1] = RxStart
    BY Literals, Single, Zenon DEF Chars
  <2>3. Start \in Chars /\ Len(Start) = 2 /\ Start[1] = "0" /\ Start[2] = Comma
    BY ShortPieces DEF Start
  <2>4. NextText(k, r) = s \o r[1] /\ k + 1 = 2
    BY <1>1 DEF NextText
  <2>5. process[k].arg = Comma
    BY <1>1, Kinds
  <2> HIDE DEF s
  <2>6. s \o (Start \o r[2]) = (s \o Start) \o r[2]
    <3>1. PICK a, t, v : a = s /\ t = Start /\ v = r[2]
      OBVIOUS
    <3>2. a \in Seq(Char) /\ t \in Seq(Char) /\ v \in Seq(Char)
      BY <2>1, <2>2, <2>3, <3>1 DEF Chars
    <3>3. (a \o t) \o v = a \o (t \o v)
      BY ONLY <3>2, ConcatAssociative
    <3> QED BY <3>1, <3>3
  <2>7. Joins(x, r[2], s \o r[1])
    BY <2>1, <2>6 DEF Joins
  <2>8. /\ x \in Chars /\ Len(x) = 3 /\ x[1] = RxStart /\ x[2] = "0" /\ x[3] = Comma
    BY <2>3, Literals, Longer DEF s, Chars
  <2>9. FirstAt(x, Len(x), Comma)
    <3> HIDE DEF x
    <3>1. \A i \in 1 .. 3 - 1 : i = 1 \/ i = 2
      OBVIOUS
    <3>2. 3 \in 1 .. 3
      OBVIOUS
    <3> QED BY <2>8, <3>1, <3>2, Different DEF FirstAt
  <2> HIDE DEF x
  <2>10. Found(x, r[2], s \o r[1], Comma)
    <3>1. Len(x) >= 1
      BY <2>8
    <3> QED BY <2>7, <2>8, <2>9, <3>1, Zenon DEF Found
  <2> QED BY <2>4, <2>5, <2>10
<1>2. CASE k = 1 /\ ~Esp
  <2>1. NextText(k, r) = r[1]
    BY <1>2 DEF NextText
  <2>2. k + 1 = 2
    BY <1>2
  <2>3. process[k].arg = Comma
    BY <1>2, Kinds
  <2>4. Found(Start, r[2], r[1], Comma)
    <3>1. Joins(Start, r[2], r[1])
      BY RestsOf
    <3>2. Start \in Chars /\ Len(Start) >= 1 /\ FirstAt(Start, Len(Start), Comma)
      BY ShortPieces
    <3> QED BY <3>1, <3>2, Zenon DEF Found
  <2> QED BY <2>1, <2>2, <2>3, <2>4
<1>3. CASE k = 3
  <2>1. NextText(k, r) = r[3]
    BY <1>3 DEF NextText
  <2>2. k + 1 = 4
    BY <1>3
  <2>3. process[k].arg = Comma
    BY <1>3, Kinds
  <2>4. Found(Separator, r[4], r[3], Comma)
    <3>1. Joins(Separator, r[4], r[3])
      BY RestsOf
    <3>2. Separator \in Chars /\ Len(Separator) >= 1 /\ FirstAt(Separator, Len(Separator), Comma)
      BY ShortPieces
    <3> QED BY <3>1, <3>2, Zenon DEF Found
  <2> QED BY <2>1, <2>2, <2>3, <2>4
<1>4. CASE k = 6
  <2>1. NextText(k, r) = r[6]
    BY <1>4 DEF NextText
  <2>2. k + 1 = 7
    BY <1>4
  <2>3. process[k].arg = "\n"
    BY <1>4, Kinds
  <2>4. Found(Line, r[7], r[6], "\n")
    BY RestsOf, LinePiece DEF Found
  <2> QED BY <2>1, <2>2, <2>3, <2>4
<1>5. CASE k = 9
  <2>1. NextText(k, r) = r[9]
    BY <1>5 DEF NextText
  <2>2. k + 1 = 10
    BY <1>5
  <2>3. process[k].arg = "\n"
    BY <1>5, Kinds
  <2>4. Found(Line, r[10], r[9], "\n")
    BY RestsOf, LinePiece DEF Found
  <2> QED BY <2>1, <2>2, <2>3, <2>4
<1>6. CASE k = 12
  <2>1. NextText(k, r) = r[12]
    BY <1>6 DEF NextText
  <2>2. k + 1 = 13
    BY <1>6
  <2>3. process[k].arg = "\n"
    BY <1>6, Kinds
  <2>4. Found(End, r[13], r[12], "\n")
    <3>1. Joins(End, r[13], r[12])
      BY RestsOf
    <3>2. End \in Chars /\ Len(End) >= 1 /\ FirstAt(End, Len(End), "\n")
      BY ShortPieces
    <3> QED BY <3>1, <3>2, Zenon DEF Found
  <2> QED BY <2>1, <2>2, <2>3, <2>4
<1> QED BY <1>1, <1>2, <1>3, <1>4, <1>5, <1>6

LEMMA PieceWaited ==
  ASSUME Texts, NEW r, MessageRests(r), NEW k \in {5, 8, 11}
  PROVE  \E x \in Chars : /\ Joins(x, r[k + 1], NextText(k, r)) /\ Len(x) = 3
                          /\ FirstAt(x, Len(x), process[k].arg)
<1>1. /\ Joins(EndOfLine(RxTopic), r[6], r[5])
      /\ Joins(EndOfLine(RxPayload), r[9], r[8])
      /\ Joins(EndOfLine(RxEnd), r[12], r[11])
  BY RestsOf
<1>2. \A c \in Char : c # "\r" /\ c # "\n" => /\ EndOfLine(c) \in Chars /\ Len(EndOfLine(c)) = 3
                                              /\ FirstAt(EndOfLine(c), Len(EndOfLine(c)), c)
  BY EndOfLinePiece
<1>3. NextText(k, r) = r[k] /\ (k = 5 => k + 1 = 6) /\ (k = 8 => k + 1 = 9) /\ (k = 11 => k + 1 = 12)
  BY DEF NextText
<1>4. CASE k = 5
  <2>1. process[k].arg = RxTopic
    BY <1>4, Kinds
  <2> QED BY <1>1, <1>2, <1>3, <1>4, <2>1, Literals, Different
<1>5. CASE k = 8
  <2>1. process[k].arg = RxPayload
    BY <1>5, Kinds
  <2> QED BY <1>1, <1>2, <1>3, <1>5, <2>1, Literals, Different
<1>6. CASE k = 11
  <2>1. process[k].arg = RxEnd
    BY <1>6, Kinds
  <2> QED BY <1>1, <1>2, <1>3, <1>6, <2>1, Literals, Different
<1> QED BY <1>4, <1>5, <1>6

-----------------------------------------------------------------------------
(* The steps of a message *)

LEMMA GotKept ==
  ASSUME NEW k \in {5, 7, 8, 10, 11}, GotAt(k), got' = got, topic' = topic, payload' = payload
  PROVE  GotAt(k + 1)'
<1>1. k >= 5 /\ k + 1 >= 6 /\ k \in Nat /\ (k + 1 <= 6 => k <= 6)
  OBVIOUS
<1>2. /\ got \in Seq(Chars) /\ Len(got) >= 3 /\ (k <= 6 => Len(got) = 3)
      /\ got[2] = Decimal(Len(topic)) /\ got[3] = Decimal(Len(payload))
  BY <1>1 DEF GotAt
<1> DEFINE l == k + 1
<1>3. l \in Nat /\ l >= 6 /\ (l <= 6 => k <= 6)
  BY <1>1
<1> HIDE DEF l
<1>4. GotAt(l)'
  BY <1>2, <1>3 DEF GotAt
<1> QED BY <1>4 DEF l

\* What is kept is put behind what there is.
Puts(h, g, n, d) == h = [g EXCEPT ![n] = @ \o d]

LEMMA Kept1 ==
  ASSUME NEW S, NEW g \in Seq(Seq(S)), NEW n \in 1 .. Len(g), g[n] = <<>>, NEW d \in Seq(S),
         NEW h, Puts(h, g, n, d)
  PROVE  h \in Seq(Seq(S)) /\ Len(h) = Len(g) /\ h[n] = d /\ \A i \in 1 .. Len(g) : i # n => h[i] = g[i]
<1>1. <<>> \o d = d
  BY ConcatEmptySeq
<1>2. h = [g EXCEPT ![n] = d]
  BY <1>1 DEF Puts
<1> QED BY <1>2

LEMMA GotParsed ==
  ASSUME Texts, NEW k \in {2, 4}, GotAt(k), topic' = topic, payload' = payload,
         Keep(Decimal(Len(IF k = 2 THEN topic ELSE payload)))
  PROVE  GotAt(k + 1)'
<1>1. /\ got \in Seq(Seq(Char))
      /\ Decimal(Len(topic)) \in Seq(Char) /\ Decimal(Len(payload)) \in Seq(Char)
  BY TextType, DecimalNumber DEF GotAt, Texts, Chars
<1>2. CASE k = 2
  <2>1. Len(got) = 2 /\ got[2] = <<>>
    BY <1>2 DEF GotAt
  <2>2. PICK d : d = Decimal(Len(topic))
    OBVIOUS
  <2>3. d \in Seq(Char) /\ 2 \in 1 .. Len(got) /\ Puts(got', got, 2, d)
    BY <1>1, <1>2, <2>1, <2>2 DEF Keep, Puts
  <2>4. got' \in Seq(Seq(Char)) /\ Len(got') = Len(got) /\ got'[2] = d
    <3>1. PICK n : n = 2
      OBVIOUS
    <3>2. n \in 1 .. Len(got) /\ got[n] = <<>> /\ Puts(got', got, n, d)
      BY <2>1, <2>3, <3>1
    <3>3. got' \in Seq(Seq(Char)) /\ Len(got') = Len(got) /\ got'[n] = d
      BY ONLY <1>1, <2>3, <3>2, Kept1
    <3> QED BY <3>1, <3>3
  <2>5. GotAt(3)'
    BY <2>1, <2>2, <2>4 DEF GotAt, Chars
  <2>6. k + 1 = 3
    BY <1>2
  <2> QED BY <2>5, <2>6
<1>3. CASE k = 4
  <2>1. Len(got) = 3 /\ got[2] = Decimal(Len(topic)) /\ got[3] = <<>>
    BY <1>3 DEF GotAt
  <2>2. PICK d : d = Decimal(Len(payload))
    OBVIOUS
  <2>3. d \in Seq(Char) /\ 3 \in 1 .. Len(got) /\ Puts(got', got, 3, d)
    BY <1>1, <1>3, <2>1, <2>2 DEF Keep, Puts
  <2>4. got' \in Seq(Seq(Char)) /\ Len(got') = Len(got) /\ got'[3] = d /\ got'[2] = got[2]
    <3>1. /\ got' \in Seq(Seq(Char)) /\ Len(got') = Len(got) /\ got'[3] = d
          /\ \A i \in 1 .. Len(got) : i # 3 => got'[i] = got[i]
      <4>1. PICK n, g, h : n = 3 /\ g = got /\ h = got'
        OBVIOUS
      <4>2. g \in Seq(Seq(Char)) /\ n \in 1 .. Len(g) /\ g[n] = <<>> /\ d \in Seq(Char) /\ Puts(h, g, n, d)
        BY <1>1, <2>1, <2>3, <4>1
      <4>3. /\ h \in Seq(Seq(Char)) /\ Len(h) = Len(g) /\ h[n] = d
            /\ \A i \in 1 .. Len(g) : i # n => h[i] = g[i]
        BY ONLY <4>2, Kept1
      <4> QED BY <4>1, <4>3
    <3>2. 2 \in 1 .. Len(got) /\ 2 # 3
      BY <2>1
    <3> QED BY <3>1, <3>2
  <2>5. GotAt(5)'
    BY <2>1, <2>2, <2>4 DEF GotAt, Chars
  <2>6. k + 1 = 5
    BY <1>3
  <2> QED BY <2>5, <2>6
<1> QED BY <1>2, <1>3

LEMMA MemoryKept ==
  ASSUME NEW k \in 1 .. 12, k # 7, k # 10, MemoryAt(k), memory' = memory,
         topic' = topic, payload' = payload
  PROVE  MemoryAt(k + 1)'
<1> DEFINE l == k + 1
<1>1. /\ (l <= 7 => k <= 7) /\ (l <= 10 => k <= 10) /\ (l >= 8 => k >= 8) /\ (l >= 11 => k >= 11)
  OBVIOUS
<1> HIDE DEF l
<1>2. MemoryAt(l)'
  BY <1>1 DEF MemoryAt, KeptIn
<1> QED BY <1>2 DEF l

LEMMA NextStage ==
  ASSUME NEW r, NEW k \in 1 .. 12, todo' = From(process, k + 1),
         Ahead(ring', uart', coming', r[k + 1]), Len(ring') <= 1,
         k + 1 \notin {1, 3, 5} => ring' = <<>>,
         GotAt(k + 1)', MemoryAt(k + 1)', result' = "running"
  PROVE  MessageAt(k + 1, r)'
<1>1. NextText(k + 1, r)' = r[k + 1]
  <2>1. k + 1 # 1
    OBVIOUS
  <2> QED BY <2>1 DEF NextText
<1> QED BY <1>1 DEF MessageAt

LEMMA FindStep ==
  ASSUME Types, Texts, NEW r, MessageRests(r), NEW k \in 1 .. 12, MessageAt(k, r), Find
  PROVE  Types' /\ MessageAt(k + 1, r)'
<1>1. Stage = process[k] /\ result = "running" /\ (Continue => todo' = From(process, k + 1))
  BY ReadAt
<1>2. process[k].op = "find"
  BY <1>1 DEF Find, At
<1>3. k \in {1, 3, 6, 9, 12}
  <2>1. k \notin {2, 4} /\ k \notin {5, 8, 11} /\ k \notin {7, 10}
    BY <1>2, Kinds
  <2> QED BY <2>1
<1>4. PICK x : Found(x, r[k + 1], NextText(k, r), process[k].arg)
  BY <1>3, PieceFound
<1>5. PICK c, v, w : c = process[k].arg /\ v = r[k + 1] /\ w = NextText(k, r)
  OBVIOUS
<1>6. x \in Chars /\ Joins(x, v, w) /\ Len(x) >= 1 /\ FirstAt(x, Len(x), c)
  BY <1>4, <1>5 DEF Found
<1>7. Stage.arg = c
  BY <1>1, <1>5
<1>8. v \in Chars
  <2>1. k + 1 \in 1 .. 13
    OBVIOUS
  <2> QED BY <1>5, <2>1, RestsOf
<1>9. Ahead(ring, uart, coming, w) /\ Len(ring) <= 1 /\ Len(ring) \in Nat
  BY <1>5 DEF MessageAt, Types, Chars
<1>10. Len(ring) <= Len(x)
  BY <1>6, <1>9 DEF Chars
<1>11. /\ Types' /\ Ahead(ring', uart', coming', v) /\ ring' = <<>>
       /\ got' = Append(got, <<>>) /\ Continue /\ Alone
  BY <1>6, <1>7, <1>8, <1>9, <1>10, FindAhead
<1>12. topic' = topic /\ payload' = payload /\ memory' = memory /\ result' = "running"
  BY <1>1, <1>11 DEF Alone, topic, payload
<1>13. GotAt(k + 1)'
  BY <1>3, <1>11, <1>12, GotFound DEF MessageAt
<1>14. MemoryAt(k + 1)'
  BY <1>3, <1>12, MemoryKept DEF MessageAt
<1>15. Len(ring') <= 1
  BY <1>11
<1>16. todo' = From(process, k + 1) /\ Ahead(ring', uart', coming', r[k + 1]) /\ ring' = <<>>
  BY <1>1, <1>5, <1>11
<1> QED BY <1>11, <1>12, <1>13, <1>14, <1>15, <1>16, NextStage

LEMMA WaitStep ==
  ASSUME Types, Texts, NEW r, MessageRests(r), NEW k \in 1 .. 12, MessageAt(k, r), Wait
  PROVE  Types' /\ MessageAt(k + 1, r)'
<1>1. Stage = process[k] /\ result = "running" /\ (Continue => todo' = From(process, k + 1))
  BY ReadAt
<1>2. process[k].op \in {"wait", "clear"}
  BY <1>1 DEF Wait, At
<1>3. k \in {5, 8, 11}
  <2>1. k \notin {1, 3, 6, 9, 12} /\ k \notin {2, 4} /\ k \notin {7, 10}
    BY <1>2, Kinds
  <2> QED BY <2>1
<1>5. PICK c, v, w : c = process[k].arg /\ v = r[k + 1] /\ w = NextText(k, r)
  OBVIOUS
<1>6. PICK x \in Chars : Joins(x, v, w) /\ Len(x) = 3 /\ FirstAt(x, Len(x), c)
  BY <1>3, <1>5, PieceWaited
<1>7. Stage.arg = c
  BY <1>1, <1>5
<1>8. v \in Chars
  <2>1. k + 1 \in 1 .. 13
    OBVIOUS
  <2> QED BY <1>5, <2>1, RestsOf
<1>9. Ahead(ring, uart, coming, w) /\ Len(ring) <= 1 /\ Len(ring) \in Nat
  BY <1>5 DEF MessageAt, Types, Chars
<1>10. Len(ring) < Len(x)
  BY <1>6, <1>9 DEF Chars
<1>11. /\ Types' /\ Ahead(ring', uart', coming', v) /\ ring' = <<>>
       /\ Continue /\ UNCHANGED <<input, coming, got, hasfix, early, memory, result>>
  BY <1>6, <1>7, <1>8, <1>9, <1>10, WaitAhead
<1>12. topic' = topic /\ payload' = payload /\ memory' = memory /\ got' = got /\ result' = "running"
  BY <1>1, <1>11 DEF topic, payload
<1>13. GotAt(k + 1)'
  BY <1>3, <1>12, GotKept DEF MessageAt
<1>14. MemoryAt(k + 1)'
  BY <1>3, <1>12, MemoryKept DEF MessageAt
<1>15. Len(ring') <= 1
  BY <1>11
<1>16. todo' = From(process, k + 1) /\ Ahead(ring', uart', coming', r[k + 1]) /\ ring' = <<>>
  BY <1>1, <1>5, <1>11
<1> QED BY <1>11, <1>12, <1>13, <1>14, <1>15, <1>16, NextStage

LEMMA Prefix ==
  ASSUME NEW S, NEW s \in Seq(S), NEW t \in Seq(S), NEW w, Joins(s, t, w)
  PROVE  Part(w, Len(s)) = s
<1>1. /\ w \in Seq(S) /\ Len(w) = Len(s) + Len(t) /\ \A i \in 1 .. Len(s) : w[i] = s[i]
  BY Joined
<1>2. Len(s) \in 0 .. Len(w)
  BY <1>1
<1>3. /\ Part(w, Len(s)) \in Seq(S) /\ Len(Part(w, Len(s))) = Len(s)
      /\ \A i \in 1 .. Len(s) : Part(w, Len(s))[i] = w[i]
  BY <1>1, <1>2, Parts
<1> QED BY <1>1, <1>3, SameElements

\* The lengths are followed by what is no part of a number.
LEMMA LengthAhead ==
  ASSUME Texts, NEW r, MessageRests(r), NEW k \in {2, 4}
  PROVE  \E d : /\ d = Decimal(Len(IF k = 2 THEN topic ELSE payload)) /\ d \in Chars /\ Len(d) \in 1 .. 3
                /\ Joins(d, r[k + 1], r[k]) /\ NumberAt(r[k], Len(d), "int")
<1> DEFINE d == Decimal(Len(IF k = 2 THEN topic ELSE payload))
           e == IF k = 2 THEN Separator ELSE EndOfLine(RxTopic)
           u == IF k = 2 THEN r[4] ELSE r[6]
<1>1. /\ Len(topic) \in Nat /\ Len(payload) \in Nat /\ Len(topic) < 1000 /\ Len(payload) < 1000
  BY TextType DEF Texts
<1>2. /\ d \in Chars /\ Len(d) \in 1 .. 3 /\ \A i \in 1 .. Len(d) : d[i] \in Digits
  BY <1>1, DecimalNumber
<1>3. k = 2 \/ k = 4
  OBVIOUS
<1>4. /\ Joins(d, r[k + 1], r[k]) /\ Joins(e, u, r[k + 1])
      /\ r[k] \in Chars /\ r[k + 1] \in Chars /\ u \in Chars
  <2>1. 2 + 1 = 3 /\ 4 + 1 = 5
    OBVIOUS
  <2>2. CASE k = 2
    BY <2>1, <2>2, RestsOf
  <2>3. CASE k = 4
    BY <2>1, <2>3, RestsOf
  <2> QED BY <1>3, <2>2, <2>3
<1>5. e \in Chars /\ Len(e) >= 1 /\ e[1] \notin Digits /\ e[1] # "."
  <2>1. CASE k = 2
    <3>1. e = Separator
      BY <2>1
    <3>2. Separator[1] = Comma
      BY DEF Separator
    <3> QED BY <3>1, <3>2, ShortPieces, Different
  <2>2. CASE k = 4
    <3>1. e = EndOfLine(RxTopic)
      BY <2>2
    <3>2. EndOfLine(RxTopic)[1] = "\r" /\ "\r" \notin Digits /\ "\r" # "."
      BY DEF EndOfLine, Digits
    <3>3. EndOfLine(RxTopic) \in Chars /\ Len(EndOfLine(RxTopic)) = 3
      BY Literals, Different, EndOfLinePiece
    <3> QED BY <3>1, <3>2, <3>3
  <2> QED BY <1>3, <2>1, <2>2
<1> HIDE DEF d, e, u
<1>6. PICK v, w : v = r[k + 1] /\ w = r[k]
  OBVIOUS
<1>7. Joins(d, v, w) /\ Joins(e, u, v) /\ v \in Seq(Char) /\ w \in Seq(Char) /\ d \in Seq(Char)
      /\ e \in Seq(Char) /\ u \in Seq(Char)
  BY <1>2, <1>4, <1>5, <1>6 DEF Chars
<1>8. Len(v) = Len(e) + Len(u) /\ v[1] = e[1] /\ Len(v) >= 1
  <2>1. Len(v) = Len(e) + Len(u) /\ \A i \in 1 .. Len(e) : v[i] = e[i]
    BY <1>7, Joined
  <2> QED BY <1>5, <1>7, <2>1
<1>9. /\ Len(w) = Len(d) + Len(v) /\ \A i \in 1 .. Len(d) : w[i] = d[i]
      /\ \A i \in 1 .. Len(v) : w[Len(d) + i] = v[i]
  BY <1>7, Joined
<1>10. Len(d) < Len(w) /\ w[Len(d) + 1] = v[1] /\ Len(d) \in 0 .. Len(w)
  BY <1>2, <1>7, <1>8, <1>9
<1>11. Part(w, Len(d)) \in Seq(Char) /\ Len(Part(w, Len(d))) = Len(d)
       /\ \A i \in 1 .. Len(d) : Part(w, Len(d))[i] = w[i]
  BY <1>7, <1>10, Parts
<1>12. Part(w, Len(d)) # <<>> /\ \A i \in DOMAIN Part(w, Len(d)) : Part(w, Len(d))[i] \in Digits
  BY <1>2, <1>9, <1>11
<1>13. NumberAt(w, Len(d), "int")
  BY <1>2, <1>5, <1>8, <1>10, <1>12 DEF NumberAt, Numeral
<1> QED BY <1>2, <1>4, <1>6, <1>13 DEF d

LEMMA ParseStep ==
  ASSUME Types, Texts, NEW r, MessageRests(r), NEW k \in 1 .. 12, MessageAt(k, r), Parse
  PROVE  Types' /\ MessageAt(k + 1, r)'
<1>1. Stage = process[k] /\ result = "running" /\ (Continue => todo' = From(process, k + 1))
  BY ReadAt
<1>2. process[k].op = "parse"
  BY <1>1 DEF Parse, At
<1>3. k \in {2, 4}
  <2>1. k \notin {1, 3, 6, 9, 12} /\ k \notin {5, 8, 11} /\ k \notin {7, 10}
    BY <1>2, Kinds
  <2> QED BY <2>1
<1>4. Stage.arg = "int"
  BY <1>1, <1>3, Kinds
<1>5. PICK d : /\ d = Decimal(Len(IF k = 2 THEN topic ELSE payload)) /\ d \in Chars /\ Len(d) \in 1 .. 3
               /\ Joins(d, r[k + 1], r[k]) /\ NumberAt(r[k], Len(d), "int")
  BY <1>3, LengthAhead
<1>6. PICK v, w : v = r[k + 1] /\ w = r[k]
  OBVIOUS
<1>7. Joins(d, v, w) /\ NumberAt(w, Len(d), "int") /\ v \in Chars /\ d \in Chars /\ Len(d) < NumberLen
  <2>1. k + 1 \in 1 .. 13
    OBVIOUS
  <2>2. r[k + 1] \in Chars
    BY <2>1, RestsOf
  <2>3. Len(d) < NumberLen
    <3>1. PICK n : n = Len(d)
      OBVIOUS
    <3>2. n \in 1 .. 3
      BY <1>5, <3>1
    <3>3. n < NumberLen
      BY <3>2, LengthsAssumption DEF LengthsAssumption
    <3> QED BY <3>1, <3>3
  <2> QED BY <1>5, <1>6, <2>2, <2>3
<1>8. Joins(uart, coming, w) /\ ring = <<>>
  <2>1. NextText(k, r) = w /\ ring = <<>> /\ Ahead(ring, uart, coming, NextText(k, r))
    BY <1>3, <1>6 DEF MessageAt, NextText
  <2>2. Ahead(<<>>, uart, coming, w)
    BY <2>1
  <2> QED BY <2>1, <2>2, EmptyRing DEF Types
<1>9. /\ Types' /\ Keep(Part(w, Len(d))) /\ Continue /\ Alone
      /\ Esp => Ahead(ring', uart', coming', Behind(w, Len(d))) /\ Len(ring') = 1
      /\ ~Esp => Joins(uart', coming', Behind(w, Len(d))) /\ ring' = ring
  <2>1. PICK n : n = Len(d)
    OBVIOUS
  <2>2. NumberAt(w, n, "int") /\ n < NumberLen
    BY <1>7, <2>1
  <2>3. /\ Types' /\ Keep(Part(w, n)) /\ Continue /\ Alone
        /\ Esp => Ahead(ring', uart', coming', Behind(w, n)) /\ Len(ring') = 1
        /\ ~Esp => Joins(uart', coming', Behind(w, n)) /\ ring' = ring
    BY <1>4, <1>8, <2>2, ParseOn
  <2> QED BY <2>1, <2>3
<1>10. Part(w, Len(d)) = d /\ Behind(w, Len(d)) = v
  BY <1>7, Prefix, Suffix DEF Chars
<1>11. Types' /\ Ahead(ring', uart', coming', v) /\ Len(ring') <= 1
  <2>1. CASE Esp
    <3>1. Ahead(ring', uart', coming', v) /\ Len(ring') = 1
      BY <1>9, <1>10, <2>1
    <3> QED BY <1>9, <3>1
  <2>2. CASE ~Esp
    <3>1. Joins(uart', coming', v) /\ ring' = <<>>
      BY <1>8, <1>9, <1>10, <2>2
    <3>2. uart' \in Chars
      BY <1>9 DEF Types
    <3>3. Ahead(<<>>, uart', coming', v)
      BY <3>1, <3>2, EmptyRing
    <3> QED BY <1>9, <3>1, <3>3
  <2> QED BY <2>1, <2>2
<1>12. topic' = topic /\ payload' = payload /\ memory' = memory /\ result' = "running"
  BY <1>1, <1>9 DEF Alone, topic, payload
<1>13. GotAt(k + 1)'
  <2>1. Keep(Decimal(Len(IF k = 2 THEN topic ELSE payload)))
    BY <1>5, <1>9, <1>10
  <2> QED BY <1>3, <1>12, <2>1, GotParsed DEF MessageAt
<1>14. MemoryAt(k + 1)'
  BY <1>3, <1>12, MemoryKept DEF MessageAt
<1>15. k + 1 \in {3, 5}
  BY <1>3
<1>16. todo' = From(process, k + 1) /\ Ahead(ring', uart', coming', r[k + 1])
  BY <1>1, <1>6, <1>9, <1>11
<1> QED BY <1>11, <1>12, <1>13, <1>14, <1>15, <1>16, NextStage

LEMMA KeptElsewhere ==
  ASSUME NEW mem, NEW m, NEW size \in Nat \ {0}, NEW s \in Chars, KeptIn(mem, 0, size, s),
         \A a \in Addresses : a < size => m[a] = mem[a], size <= TopicLen
  PROVE  KeptIn(m, 0, size, s)
<1>1. Len(s) \in Nat /\ TopicLen \in Nat /\ PayloadLen \in Nat
  BY LengthsAssumption DEF LengthsAssumption, Chars
<1>2. \A a \in Nat : a < size => m[a] = mem[a]
  BY <1>1 DEF Addresses
<1>3. CASE Len(s) < size
  <2>1. \A i \in 1 .. Len(s) : mem[0 + i - 1] = s[i] /\ 0 + i - 1 \in Nat /\ 0 + i - 1 < size
    BY <1>1, <1>3 DEF KeptIn
  <2>2. mem[0 + Len(s)] = "NUL" /\ 0 + Len(s) \in Nat /\ 0 + Len(s) < size
    BY <1>1, <1>3 DEF KeptIn
  <2> QED BY <1>2, <1>3, <2>1, <2>2 DEF KeptIn
<1>4. CASE ~(Len(s) < size)
  <2>1. \A i \in 1 .. size - 1 : /\ mem[0 + i - 1] = s[(Len(s) - size + 1) + i]
                                 /\ 0 + i - 1 \in Nat /\ 0 + i - 1 < size
    BY <1>1, <1>4 DEF KeptIn
  <2>2. mem[0 + size - 1] # "NUL" /\ 0 + size - 1 \in Nat /\ 0 + size - 1 < size
    BY <1>1, <1>4 DEF KeptIn
  <2> QED BY <1>2, <1>4, <2>1, <2>2 DEF KeptIn
<1> QED BY <1>3, <1>4

LEMMA TopicStored ==
  ASSUME Texts, MemoryAt(7), memory' = Stored(memory, 0, TopicLen, topic),
         topic' = topic, payload' = payload
  PROVE  MemoryAt(8)'
<1>1. TopicLen \in Nat \ {0} /\ PayloadLen \in Nat \ {0} /\ 0 + TopicLen <= TopicLen + PayloadLen
  BY LengthsAssumption DEF LengthsAssumption
<1>2. topic \in Chars /\ Len(topic) \in Nat /\ Len(topic) < 2 * TopicLen
      /\ \A i \in 1 .. Len(topic) : topic[i] # "NUL"
  BY TextType DEF Texts, IsText, Chars
<1>3. DOMAIN memory = Addresses /\ \A a \in Addresses : memory[a] # "NUL"
  BY DEF MemoryAt
<1>4. TopicLen > 1 => memory[0 + TopicLen - 1] # "NUL"
  BY <1>1, <1>3 DEF Addresses
<1>5. PICK s, mem, m : s = topic /\ mem = memory /\ m = memory'
  OBVIOUS
<1>6. OnAddresses(m) /\ Untouched(m, mem, 0, TopicLen) /\ KeptIn(m, 0, TopicLen, s)
  <2>1. /\ OnAddresses(mem) /\ Stores(m, mem, 0, TopicLen, s)
        /\ s \in Chars /\ Len(s) < 2 * TopicLen /\ \A i \in 1 .. Len(s) : s[i] # "NUL"
        /\ TopicLen > 1 => mem[0 + TopicLen - 1] # "NUL"
    BY <1>2, <1>3, <1>4, <1>5 DEF OnAddresses, Stores
  <2>2. 0 \in Nat
    OBVIOUS
  <2> QED BY ONLY <1>1, <2>1, <2>2, StoredPlaces, Zenon
<1>8. \A a \in Addresses : a > TopicLen => m[a] # "NUL"
  BY <1>1, <1>3, <1>5, <1>6 DEF Addresses, Untouched
<1> QED BY <1>5, <1>6, <1>8 DEF MemoryAt, OnAddresses

LEMMA PayloadStored ==
  ASSUME Texts, MemoryAt(10), memory' = Stored(memory, TopicLen, PayloadLen, payload),
         topic' = topic, payload' = payload
  PROVE  MemoryAt(11)'
<1>1. /\ TopicLen \in Nat \ {0} /\ TopicLen \in Nat /\ PayloadLen \in Nat \ {0}
      /\ TopicLen + PayloadLen <= TopicLen + PayloadLen
  BY LengthsAssumption DEF LengthsAssumption
<1>2. payload \in Chars /\ Len(payload) \in Nat /\ Len(payload) < 2 * PayloadLen
      /\ (\A i \in 1 .. Len(payload) : payload[i] # "NUL") /\ topic \in Chars
  BY TextType DEF Texts, IsText, Chars
<1>3. /\ DOMAIN memory = Addresses /\ \A a \in Addresses : a > TopicLen => memory[a] # "NUL"
      /\ KeptIn(memory, 0, TopicLen, topic)
  BY DEF MemoryAt
<1>4. PayloadLen > 1 => memory[TopicLen + PayloadLen - 1] # "NUL"
  <2>1. PayloadLen > 1 => TopicLen + PayloadLen - 1 \in Addresses /\ TopicLen + PayloadLen - 1 > TopicLen
    BY <1>1 DEF Addresses
  <2> QED BY <1>3, <2>1
<1>5. PICK s, mem, m : s = payload /\ mem = memory /\ m = memory'
  OBVIOUS
<1>6. OnAddresses(m) /\ Untouched(m, mem, TopicLen, PayloadLen) /\ KeptIn(m, TopicLen, PayloadLen, s)
  <2>1. /\ OnAddresses(mem) /\ Stores(m, mem, TopicLen, PayloadLen, s)
        /\ s \in Chars /\ Len(s) < 2 * PayloadLen /\ \A i \in 1 .. Len(s) : s[i] # "NUL"
        /\ PayloadLen > 1 => mem[TopicLen + PayloadLen - 1] # "NUL"
    BY <1>2, <1>3, <1>4, <1>5 DEF OnAddresses, Stores
  <2>2. 0 \in Nat
    OBVIOUS
  <2> QED BY ONLY <1>1, <2>1, <2>2, StoredPlaces, Zenon
<1>8. KeptIn(m, 0, TopicLen, topic)
  <2>1. \A a \in Addresses : a < TopicLen => m[a] = mem[a]
    BY <1>6 DEF Untouched
  <2>2. KeptIn(mem, 0, TopicLen, topic) /\ TopicLen <= TopicLen
    BY <1>1, <1>3, <1>5
  <2> QED BY <1>1, <1>2, <2>1, <2>2, KeptElsewhere
<1> QED BY <1>5, <1>6, <1>8 DEF MemoryAt, OnAddresses

LEMMA StoreStep ==
  ASSUME Types, Texts, NEW r, MessageRests(r), NEW k \in 1 .. 12, MessageAt(k, r), Store
  PROVE  Types' /\ MessageAt(k + 1, r)'
<1>1. Stage = process[k] /\ result = "running" /\ (Continue => todo' = From(process, k + 1))
  BY ReadAt
<1>2. process[k].op = "store"
  BY <1>1 DEF Store, At
<1>3. k \in {7, 10}
  <2>1. k \notin {1, 3, 6, 9, 12} /\ k \notin {2, 4} /\ k \notin {5, 8, 11}
    BY <1>2, Kinds
  <2> QED BY <2>1
<1>4. PICK part, x, v, w : /\ part = (IF k = 7 THEN "topic" ELSE "payload")
                           /\ x = (IF k = 7 THEN topic ELSE payload) /\ v = r[k + 1] /\ w = r[k]
  OBVIOUS
<1>5. Stage.arg = part /\ part \in {"topic", "payload"}
  BY <1>1, <1>3, <1>4, Kinds
<1>6. Joins(x, v, w) /\ x \in Chars /\ v \in Chars
  <2>1. r[8] \in Chars /\ r[11] \in Chars /\ Joins(topic, r[8], r[7]) /\ Joins(payload, r[11], r[10])
    BY RestsOf
  <2>2. CASE k = 7
    <3>1. x = topic /\ v = r[8] /\ w = r[7]
      BY <1>4, <2>2
    <3> QED BY <2>1, <3>1 DEF Texts
  <2>3. CASE k = 10
    <3>1. x = payload /\ v = r[11] /\ w = r[10]
      BY <1>4, <2>3
    <3> QED BY <2>1, <3>1 DEF Texts
  <2> QED BY <1>3, <2>2, <2>3
<1>7. Ahead(ring, uart, coming, w) /\ ring = <<>>
  BY <1>3, <1>4 DEF MessageAt, NextText
<1>8. Announced(part) = Len(x)
  <2>1. got[2] = Decimal(Len(topic)) /\ got[3] = Decimal(Len(payload))
    BY <1>3 DEF MessageAt, GotAt
  <2>2. Number(Decimal(Len(topic))) = Len(topic) /\ Number(Decimal(Len(payload))) = Len(payload)
    BY TextType, DecimalNumber DEF Texts
  <2>3. CASE k = 7
    <3>1. part = "topic" /\ x = topic
      BY <1>4, <2>3
    <3> QED BY <2>1, <2>2, <3>1 DEF Announced
  <2>4. CASE k = 10
    <3>1. part = "payload" /\ x = payload
      BY <1>4, <2>4
    <3> QED BY <2>1, <2>2, <3>1 DEF Announced
  <2> QED BY <1>3, <2>3, <2>4
<1>9. /\ Types' /\ Ahead(ring', uart', coming', v) /\ ring' = <<>>
      /\ memory' = Stored(memory, Address(part), Size(part), x)
      /\ Continue /\ UNCHANGED <<input, coming, got, hasfix, early, result>>
  BY <1>5, <1>6, <1>7, <1>8, StoreOn
<1>10. topic' = topic /\ payload' = payload /\ got' = got /\ result' = "running"
  BY <1>1, <1>9 DEF topic, payload
<1>11. GotAt(k + 1)'
  BY <1>3, <1>10, GotKept DEF MessageAt
<1>12. MemoryAt(k + 1)'
  <2>1. CASE k = 7
    <3>1. memory' = Stored(memory, 0, TopicLen, topic) /\ MemoryAt(7) /\ k + 1 = 8
      BY <1>4, <1>9, <2>1 DEF Address, Size, MessageAt
    <3> QED BY <1>10, <3>1, TopicStored
  <2>2. CASE k = 10
    <3>1. memory' = Stored(memory, TopicLen, PayloadLen, payload) /\ MemoryAt(10) /\ k + 1 = 11
      BY <1>4, <1>9, <2>2 DEF Address, Size, MessageAt
    <3> QED BY <1>10, <3>1, PayloadStored
  <2> QED BY <1>3, <2>1, <2>2
<1>13. Len(ring') <= 1
  BY <1>9
<1>14. todo' = From(process, k + 1) /\ Ahead(ring', uart', coming', r[k + 1]) /\ ring' = <<>>
  BY <1>1, <1>4, <1>9
<1> QED BY <1>9, <1>10, <1>11, <1>12, <1>13, <1>14, NextStage

-----------------------------------------------------------------------------
(* The message is kept *)

LEMMA InitMessage ==
  ASSUME Init
  PROVE  MessageInv
<1> SUFFICES ASSUME input.fn = "process" PROVE MessageInv
  BY DEF MessageInv
<1>1. input \in Inputs /\ IsInput(input)
  BY InputsAssumption DEF Init, InputsAssumption
<1>2. Texts
  BY <1>1, TextType DEF IsInput, Texts, topic, payload
<1>3. PICK m : m = Message(topic, payload)
  OBVIOUS
<1>4. Placed(m, topic, payload)
  BY <1>2, <1>3, TextType, MessagePieces DEF Texts
<1>5. m \in Seq(Seq(Char)) /\ m # <<>>
  BY <1>4 DEF Placed
<1>6. PICK r : Rests(r, m, Char) /\ r[1] = FlattenSeq(m)
  BY <1>5, Flattened
<1>7. MessageRests(r)
  BY <1>3, <1>6 DEF MessageRests
<1>8. coming = r[1] /\ r[1] \in Chars
  <2>1. coming = FlattenSeq(m)
    BY <1>3 DEF Init, Text, Pieces, topic, payload
  <2>2. 1 \in 1 .. 13
    OBVIOUS
  <2> QED BY <1>2, <1>6, <1>7, <2>1, <2>2, RestsOf
<1>9. uart = <<>> /\ uart \in Chars /\ ring = IF Esp THEN <<RxStart>> ELSE <<>>
  BY DEF Init, Chars
<1>10. Types /\ Len(ring) <= 1
  <2>1. <<RxStart>> \in Chars /\ Len(<<RxStart>>) = 1
    BY Literals, Single DEF Chars
  <2>2. CASE Esp
    BY <1>8, <1>9, <2>1, <2>2 DEF Types
  <2>3. CASE ~Esp
    BY <1>8, <1>9, <2>3 DEF Types, Chars
  <2> QED BY <2>2, <2>3
<1>11. Ahead(ring, uart, coming, NextText(1, r))
  <2>1. ring \o uart = ring
    BY <1>9, <1>10, ConcatEmptySeq DEF Types, Chars
  <2>2. CASE Esp
    BY <1>8, <1>9, <2>1, <2>2 DEF Ahead, Joins, NextText
  <2>3. CASE ~Esp
    <3>1. <<>> \o r[1] = r[1]
      BY <1>8, ConcatEmptySeq DEF Chars
    <3> QED BY <1>8, <1>9, <2>1, <2>3, <3>1 DEF Ahead, Joins, NextText
  <2> QED BY <2>2, <2>3
<1>12. todo = From(process, 1)
  <2>1. todo = process
    BY DEF Init, Reads
  <2>2. PICK S : process \in Seq(S)
    BY Process
  <2> QED BY <2>1, <2>2, FirstRead
<1>13. GotAt(1)
  <2>1. got = << <<>> >> /\ <<>> \in Chars
    BY DEF Init, Chars
  <2>2. got \in Seq(Chars) /\ Len(got) = 1
    BY <2>1
  <2> QED BY <2>2 DEF GotAt
<1>14. MemoryAt(1)
  BY DEF Init, MemoryAt, Addresses
<1>15. result = "running"
  BY DEF Init
<1>16. MessageAt(1, r)
  BY <1>10, <1>11, <1>12, <1>13, <1>14, <1>15 DEF MessageAt
<1> QED BY <1>2, <1>7, <1>10, <1>16 DEF MessageInv

LEMMA ArriveStep ==
  ASSUME Types, NEW r, NEW k \in 1 .. 13, MessageAt(k, r), Arrive
  PROVE  Types' /\ MessageAt(k, r)'
<1>1. PICK w : w = NextText(k, r)
  OBVIOUS
<1>2. Ahead(ring, uart, coming, w)
  BY <1>1 DEF MessageAt
<1>3. Types' /\ Ahead(ring', uart', coming', w)
  BY <1>2, Received1
<1>4. UNCHANGED <<input, ring, todo, got, hasfix, early, memory, result>>
  BY DEF Arrive
<1>5. NextText(k, r)' = w
  BY <1>1, <1>4 DEF NextText, Esp
<1>6. GotAt(k)' /\ MemoryAt(k)'
  BY <1>4 DEF MessageAt, GotAt, MemoryAt, topic, payload, KeptIn
<1> QED BY <1>3, <1>4, <1>5, <1>6 DEF MessageAt

LEMMA LastStage ==
  ASSUME NEW r, MessageAt(13, r)
  PROVE  todo = <<>>
<1>1. PICK S : process \in Seq(S) /\ Len(process) = 12
  BY Process
<1>2. From(process, 12 + 1) = <<>>
  BY <1>1, LastRead
<1>3. 12 + 1 = 13
  OBVIOUS
<1> QED BY <1>2, <1>3 DEF MessageAt

LEMMA ReturnStep ==
  ASSUME Types, NEW r, NEW k \in 1 .. 13, MessageAt(k, r), Return
  PROVE  Types' /\ MessageAt(k, r)'
<1>1. k = 13
  <2>1. k \notin 1 .. 12
    BY ReadAt DEF Return
  <2> QED BY <2>1
<1>2. /\ result' = "ok"
      /\ UNCHANGED <<input, coming, uart, ring, todo, got, hasfix, early, memory>>
  BY DEF Return
<1>3. NextText(13, r)' = NextText(13, r)
  BY <1>2 DEF NextText, Esp
<1>4. GotAt(13)' /\ MemoryAt(13)'
  BY <1>1, <1>2 DEF MessageAt, GotAt, MemoryAt, topic, payload, KeptIn
<1>5. Types'
  BY <1>2 DEF Types
<1> QED BY <1>1, <1>2, <1>3, <1>4, <1>5 DEF MessageAt

LEMMA OtherReads ==
  ASSUME NEW r, NEW k \in 1 .. 13, MessageAt(k, r)
  PROVE  /\ ~PeekAt /\ ~ReadChar /\ ~ReadBytes /\ ~SetFix
         /\ k = 13 => ~Find /\ ~Wait /\ ~Parse /\ ~Store
<1>1. CASE k = 13
  <2>1. todo = <<>>
    BY <1>1, LastStage
  <2> QED BY <2>1 DEF PeekAt, ReadChar, ReadBytes, SetFix, Find, Wait, Parse, Store, At
<1>2. CASE k # 13
  <2>1. k \in 1 .. 12
    BY <1>2
  <2>2. Stage = process[k]
    BY <2>1, ReadAt
  <2>3. Stage.op \in {"find", "parse", "clear", "store"}
    <3>1. k \in {1, 3, 6, 9, 12} \/ k \in {2, 4} \/ k \in {5, 8, 11} \/ k \in {7, 10}
      BY <2>1
    <3> QED BY <2>2, <3>1, Kinds
  <2> QED BY <1>2, <2>3 DEF PeekAt, ReadChar, ReadBytes, SetFix, At
<1> QED BY <1>1, <1>2

LEMMA NextMessage ==
  ASSUME MessageInv, [Next]_vars
  PROVE  MessageInv'
<1> SUFFICES ASSUME input'.fn = "process" PROVE MessageInv'
  BY DEF MessageInv
<1>1. input' = input
  BY DEF Next, vars, Arrive, PeekAt, ReadChar, Find, ReadBytes, Wait, SetFix, Parse, Store, Return, Alone
<1>2. Types /\ Texts /\ \E r : MessageRests(r) /\ \E k \in 1 .. 13 : MessageAt(k, r)
  BY <1>1 DEF MessageInv
<1>3. PICK r : MessageRests(r) /\ \E k \in 1 .. 13 : MessageAt(k, r)
  BY <1>2
<1>4. PICK k \in 1 .. 13 : MessageAt(k, r)
  BY <1>3
<1>5. Texts' /\ MessageRests(r)'
  BY <1>1, <1>2, <1>3 DEF Texts, MessageRests, topic, payload
<1>6. Types' /\ \E l \in 1 .. 13 : MessageAt(l, r)'
  <2>1. ASSUME Types' /\ MessageAt(k, r)' PROVE Types' /\ \E l \in 1 .. 13 : MessageAt(l, r)'
    BY <2>1
  <2>2. ASSUME Types' /\ MessageAt(k + 1, r)', k # 13 PROVE Types' /\ \E l \in 1 .. 13 : MessageAt(l, r)'
    <3>1. k + 1 \in 1 .. 13
      BY <2>2
    <3> QED BY <2>2, <3>1
  <2>3. k # 13 => k \in 1 .. 12
    OBVIOUS
  <2>4. CASE Arrive
    BY <1>2, <1>4, <2>1, <2>4, ArriveStep
  <2>5. CASE Return
    BY <1>2, <1>4, <2>1, <2>5, ReturnStep
  <2>6. CASE Find
    <3>1. k # 13
      BY <1>4, <2>6, OtherReads
    <3> QED BY <1>2, <1>3, <1>4, <2>2, <2>3, <2>6, <3>1, FindStep
  <2>7. CASE Wait
    <3>1. k # 13
      BY <1>4, <2>7, OtherReads
    <3> QED BY <1>2, <1>3, <1>4, <2>2, <2>3, <2>7, <3>1, WaitStep
  <2>8. CASE Parse
    <3>1. k # 13
      BY <1>4, <2>8, OtherReads
    <3> QED BY <1>2, <1>3, <1>4, <2>2, <2>3, <2>8, <3>1, ParseStep
  <2>9. CASE Store
    <3>1. k # 13
      BY <1>4, <2>9, OtherReads
    <3> QED BY <1>2, <1>3, <1>4, <2>2, <2>3, <2>9, <3>1, StoreStep
  <2>10. CASE UNCHANGED vars
    <3>1. /\ input' = input /\ coming' = coming /\ uart' = uart /\ ring' = ring /\ todo' = todo
          /\ got' = got /\ memory' = memory /\ result' = result
      BY <2>10 DEF vars
    <3>2. Types'
      BY <1>2, <3>1 DEF Types
    <3>3. MessageAt(k, r)'
      BY <1>4, <3>1 DEF MessageAt, NextText, Esp, GotAt, MemoryAt, KeptIn, topic, payload
    <3> QED BY <2>1, <3>2, <3>3
  <2>11. ~PeekAt /\ ~ReadChar /\ ~ReadBytes /\ ~SetFix
    BY <1>4, OtherReads
  <2> QED BY <2>4, <2>5, <2>6, <2>7, <2>8, <2>9, <2>10, <2>11 DEF Next
<1> QED BY <1>5, <1>6 DEF MessageInv

\* The memory as the property sees it.
LEMMA KeptInBuffer ==
  ASSUME NEW part \in {"topic", "payload"}, NEW s \in Chars, KeptIn(memory, Address(part), Size(part), s)
  PROVE  Kept(part, s)
<1> DEFINE at == Address(part)
           size == Size(part)
           b == Buffer(part)
           D == {b[i] : i \in 1 .. size} \cup Char
           l == Len(s)
<1>1. at \in Nat /\ size \in Nat \ {0} /\ l \in Nat /\ KeptIn(memory, at, size, s)
  BY LengthsAssumption DEF LengthsAssumption, Address, Size, Chars
<1>2. b = [i \in 1 .. size |-> memory[at + i - 1]]
  BY DEF Buffer
<1> HIDE DEF at, size, b
<1>3. b \in Seq(D) /\ Len(b) = size
  <2>1. b \in [1 .. size -> D]
    <3>1. \A i \in 1 .. size : b[i] \in D
      OBVIOUS
    <3> HIDE DEF D
    <3> QED BY <1>2, <3>1
  <2> HIDE DEF D
  <2> QED BY <1>1, <2>1
<1>4. s \in Seq(D) /\ "NUL" \in D
  <2>1. Char \subseteq D /\ "NUL" \in Char
    BY DEF Char
  <2> HIDE DEF D
  <2> QED BY <2>1, SeqMonotonic, Zenon DEF Chars
<1> HIDE DEF D
<1>5. \A i \in 1 .. size : b[i] = memory[at + i - 1]
  BY <1>2
<1>6. CASE l < size
  <2> DEFINE p == Part(b, l + 1)
             t == Append(s, "NUL")
  <2>1. (\A i \in 1 .. l : memory[at + i - 1] = s[i]) /\ memory[at + l] = "NUL"
    BY <1>1, <1>6, Zenon DEF KeptIn
  <2>2. l + 1 \in 0 .. Len(b)
    BY <1>1, <1>3, <1>6
  <2>3. p \in Seq(D) /\ Len(p) = l + 1 /\ \A i \in 1 .. l + 1 : p[i] = b[i]
    BY <1>3, <2>2, Parts
  <2>4. t \in Seq(D) /\ Len(t) = l + 1 /\ t[l + 1] = "NUL" /\ \A i \in 1 .. l : t[i] = s[i]
    BY <1>4, AppendProperties
  <2> HIDE DEF p, t
  <2>5. ASSUME NEW i \in 1 .. l + 1 PROVE p[i] = t[i]
    <3>1. i \in 1 .. size
      BY <1>1, <1>6
    <3>2. p[i] = memory[at + i - 1]
      BY <1>5, <2>3, <3>1
    <3>3. CASE i = l + 1
      <4>1. at + i - 1 = at + l
        BY <1>1, <3>3
      <4> QED BY <2>1, <2>4, <3>2, <3>3, <4>1
    <3>4. CASE i # l + 1
      <4>1. i \in 1 .. l
        BY <1>1, <3>4
      <4> QED BY <2>1, <2>4, <3>2, <4>1
    <3> QED BY <3>3, <3>4
  <2>6. p = t
    BY <2>3, <2>4, <2>5, SameElements
  <2> QED BY <1>6, <2>6 DEF Kept, p, t, Part, size, b, l
<1>7. CASE ~(l < size)
  <2> DEFINE p == Part(b, size - 1)
             t == Behind(s, l - size + 1)
  <2>1. /\ \A i \in 1 .. size - 1 : memory[at + i - 1] = s[(l - size + 1) + i]
        /\ memory[at + size - 1] # "NUL"
    BY <1>1, <1>7, Zenon DEF KeptIn
  <2>2. size - 1 \in 0 .. Len(b) /\ l - size + 1 \in 0 .. Len(s) /\ size \in 1 .. size
    BY <1>1, <1>3, <1>7
  <2>3. p \in Seq(D) /\ Len(p) = size - 1 /\ \A i \in 1 .. size - 1 : p[i] = b[i]
    <3>1. PICK v, m : v = b /\ m = size - 1
      OBVIOUS
    <3>2. v \in Seq(D) /\ m \in 0 .. Len(v)
      BY <1>3, <2>2, <3>1
    <3>3. Part(v, m) \in Seq(D) /\ Len(Part(v, m)) = m /\ \A i \in 1 .. m : Part(v, m)[i] = v[i]
      BY ONLY <3>2, Parts
    <3> QED BY <3>1, <3>3
  <2>4. /\ t \in Seq(D) /\ Len(t) = Len(s) - (l - size + 1)
        /\ \A i \in 1 .. Len(s) - (l - size + 1) : t[i] = s[(l - size + 1) + i]
    BY <1>4, <2>2, Parts
  <2>5. Len(s) - (l - size + 1) = size - 1
    BY <1>1
  <2> HIDE DEF p, t
  <2>6. ASSUME NEW i \in 1 .. size - 1 PROVE p[i] = t[i]
    <3>1. i \in 1 .. size
      BY <1>1
    <3>2. p[i] = memory[at + i - 1]
      BY <1>5, <2>3, <3>1
    <3> QED BY <2>1, <2>4, <2>5, <3>2
  <2>7. p = t
    BY <2>3, <2>4, <2>5, <2>6, SameElements
  <2>8. b[size] # "NUL"
    BY <1>5, <2>1, <2>2
  <2> QED BY <1>7, <2>7, <2>8 DEF Kept, p, t, Part, size, b, l
<1> QED BY <1>6, <1>7

LEMMA MessageInvKept ==
  ASSUME MessageInv
  PROVE  MessageKept
<1> SUFFICES ASSUME input.fn = "process", result # "running"
             PROVE  /\ result = "ok" /\ Stream \o coming = <<>>
                    /\ Kept("topic", topic) /\ Kept("payload", payload)
  BY DEF MessageKept, topic, payload
<1>1. PICK r : Types /\ Texts /\ MessageRests(r) /\ \E k \in 1 .. 13 : MessageAt(k, r)
  BY DEF MessageInv
<1>2. MessageAt(13, r) /\ result = "ok"
  BY <1>1 DEF MessageAt
<1>3. Stream \o coming = <<>>
  <2>1. NextText(13, r) = <<>>
    BY <1>1, RestsOf DEF NextText
  <2>2. Ahead(ring, uart, coming, <<>>)
    BY <1>2, <2>1 DEF MessageAt
  <2> QED BY <2>2 DEF Ahead, Joins, Stream
<1>4. KeptIn(memory, 0, TopicLen, topic) /\ KeptIn(memory, TopicLen, PayloadLen, payload)
  BY <1>2 DEF MessageAt, MemoryAt
<1>5. KeptIn(memory, Address("topic"), Size("topic"), topic)
  BY <1>4 DEF Address, Size
<1>6. KeptIn(memory, Address("payload"), Size("payload"), payload)
  BY <1>4 DEF Address, Size
<1> QED BY <1>1, <1>2, <1>3, <1>5, <1>6, KeptInBuffer DEF Texts

(***************************************************************************)
(* Whatever the topic and the payload are made of, wherever the pauses of  *)
(* the module fall and however large the buffers are: when the handler of  *)
(* a message returns, it has kept what fits of the two, and has read the   *)
(* message to its end and nothing behind it.                               *)
(* (MQTTOnMessageRx::process, with the reads of both ports.)               *)
(***************************************************************************)
THEOREM MessageIsKept == Spec => []MessageKept
<1>1. Init => MessageInv
  BY InitMessage
<1>2. MessageInv /\ [Next]_vars => MessageInv'
  BY NextMessage
<1>3. MessageInv => MessageKept
  BY MessageInvKept
<1> QED BY <1>1, <1>2, <1>3, PTL DEF Spec

-----------------------------------------------------------------------------
(* Reads of a position *)

\* h is read next, and u is left.
Then(t, h, u) == t # <<>> /\ Head(t) = h /\ Tail(t) = u

LEMMA Popped ==
  ASSUME NEW S, NEW h \in S, NEW u \in Seq(S)
  PROVE  <<h>> \o u \in Seq(S) /\ Then(<<h>> \o u, h, u)
<1>1. PICK s : s = <<h>>
  OBVIOUS
<1>2. s \in Seq(S) /\ Len(s) = 1 /\ s[1] = h
  BY <1>1, Single
<1>3. PICK t : t = s \o u
  OBVIOUS
<1>4. Joins(s, u, t)
  BY <1>3 DEF Joins
<1>5. t \in Seq(S) /\ Len(t) = Len(s) + Len(u) /\ \A i \in 1 .. Len(s) : t[i] = s[i]
  <2>1. s \in Seq(S)
    BY <1>2
  <2> QED BY ONLY <2>1, u \in Seq(S), <1>4, Joined
<1>6. Behind(t, Len(s)) = u
  <2>1. s \in Seq(S)
    BY <1>2
  <2> QED BY ONLY <2>1, u \in Seq(S), <1>4, Suffix
<1>7. t # <<>> /\ Head(t) = t[1] /\ Tail(t) = SubSeq(t, 2, Len(t))
  BY <1>2, <1>5
<1>8. Tail(t) = u
  BY <1>2, <1>6, <1>7 DEF Behind
<1> QED BY <1>1, <1>2, <1>3, <1>5, <1>7, <1>8 DEF Then

LEMMA ReadFields ==
  ASSUME NEW o, NEW a
  PROVE  Read(o, a).op = o /\ Read(o, a).arg = a
BY DEF Read

\* The reads with find() between two, and the last one.
AllReads(f, last) == Separated(f) \o <<last>>

LEMMA Tabulated ==
  ASSUME NEW n \in Nat, NEW S, NEW u \in [1 .. n -> S]
  PROVE  u \in Seq(S) /\ Len(u) = n
OBVIOUS

LEMMA AllPlaces ==
  ASSUME NEW S, NEW f \in Seq(S), Len(f) >= 1, find(Comma) \in S, NEW last \in S
  PROVE  /\ AllReads(f, last) \in Seq(S) /\ Len(AllReads(f, last)) = 2 * Len(f)
         /\ \A i \in 1 .. Len(f) : AllReads(f, last)[2 * i - 1] = f[i]
         /\ \A i \in 1 .. Len(f) : i < Len(f) => AllReads(f, last)[2 * i] = find(Comma)
         /\ AllReads(f, last)[2 * Len(f)] = last
<1> DEFINE n == Len(f)
           m == 2 * n - 1
           s == Separated(f)
<1>1. n \in Nat /\ n >= 1 /\ m \in Nat /\ f \in [1 .. n -> S]
  OBVIOUS
<1>2. s = [k \in 1 .. m |-> IF k % 2 = 0 THEN find(Comma) ELSE f[(k + 1) \div 2]]
  BY DEF Separated
<1> HIDE DEF n, m, s
<1>3. \A k \in 1 .. m : (IF k % 2 = 0 THEN find(Comma) ELSE f[(k + 1) \div 2]) \in S
  <2> TAKE k \in 1 .. m
  <2>1. (k + 1) \div 2 \in 1 .. n
    BY <1>1 DEF m
  <2> QED BY <1>1, <2>1
<1>4. s \in Seq(S) /\ Len(s) = m
  BY <1>1, <1>2, <1>3
<1>5. \A i \in 1 .. n : s[2 * i - 1] = f[i]
  <2> TAKE i \in 1 .. n
  <2>1. 2 * i - 1 \in 1 .. m /\ (2 * i - 1) % 2 # 0 /\ ((2 * i - 1) + 1) \div 2 = i
    BY <1>1 DEF m
  <2> DEFINE k == 2 * i - 1
  <2>2. k \in 1 .. m /\ k % 2 # 0 /\ (k + 1) \div 2 = i
    BY <2>1
  <2> HIDE DEF k
  <2>3. s[k] = f[i]
    BY <1>2, <2>2
  <2> QED BY <2>3 DEF k
<1>6. \A i \in 1 .. n : i < n => s[2 * i] = find(Comma)
  <2> TAKE i \in 1 .. n
  <2> HAVE i < n
  <2>1. 2 * i \in 1 .. m /\ (2 * i) % 2 = 0
    BY <1>1 DEF m
  <2> DEFINE k == 2 * i
  <2>2. k \in 1 .. m /\ k % 2 = 0
    BY <2>1
  <2> HIDE DEF k
  <2>3. s[k] = find(Comma)
    BY <1>2, <2>2
  <2> QED BY <2>3 DEF k
<1>7. PICK e : e = <<last>>
  OBVIOUS
<1>8. e \in Seq(S) /\ Len(e) = 1 /\ e[1] = last
  BY <1>7, Single
<1>9. PICK a : a = s \o e
  OBVIOUS
<1>10. /\ a \in Seq(S) /\ Len(a) = Len(s) + Len(e)
       /\ \A i \in 1 .. Len(s) : a[i] = s[i]
       /\ \A i \in 1 .. Len(e) : a[Len(s) + i] = e[i]
  <2>1. Joins(s, e, a) /\ s \in Seq(S) /\ e \in Seq(S)
    BY <1>4, <1>8, <1>9 DEF Joins
  <2> QED BY ONLY <2>1, Joined
<1>11. a \in Seq(S) /\ Len(a) = 2 * n /\ a[2 * n] = last
  BY <1>1, <1>4, <1>8, <1>10 DEF m
<1>12. \A i \in 1 .. n : a[2 * i - 1] = f[i] /\ (i < n => a[2 * i] = find(Comma))
  <2> TAKE i \in 1 .. n
  <2>1. 2 * i - 1 \in 1 .. m /\ (i < n => 2 * i \in 1 .. m)
    BY <1>1 DEF m
  <2> QED BY <1>4, <1>5, <1>6, <1>10, <2>1
<1>13. a = AllReads(f, last)
  BY <1>7, <1>9 DEF AllReads, s
<1> QED BY <1>11, <1>12, <1>13 DEF n

-----------------------------------------------------------------------------
(* The text of a position *)

Ending == <<"\r", "\n", "\r", "\n", "OK">>

LEMMA EndingPiece ==
  /\ Ending \in Chars /\ Len(Ending) = 5 /\ Ending[1] = "\r" /\ FirstAt(Ending, Len(Ending), "OK")
  /\ "\r" \notin Digits /\ "\r" # "."
<1>1. Ending \in Chars
  BY Literals, Tuple5, Zenon DEF Ending, Chars
<1>2. /\ Len(Ending) = 5 /\ Ending[1] = "\r" /\ Ending[5] = "OK" /\ \A i \in 1 .. 4 : Ending[i] # "OK"
  BY DEF Ending
<1>3. "\r" \notin Digits /\ "\r" # "."
  BY DEF Digits
<1> QED BY <1>1, <1>2, <1>3 DEF FirstAt

LEMMA PositionPieces ==
  ASSUME NEW p \in Seq(Chars), Len(p) >= 1
  PROVE  /\ Position(p) \in Seq(Chars) /\ Len(Position(p)) = 2 * Len(p)
         /\ \A i \in 1 .. Len(p) : Position(p)[2 * i - 1] = p[i]
         /\ \A i \in 1 .. Len(p) : i < Len(p) => Position(p)[2 * i] = Separator
         /\ Position(p)[2 * Len(p)] = Ending
<1> DEFINE n == Len(p)
           s == Position(p)
           d == 2 * n
<1>1. n \in Nat /\ n >= 1 /\ d \in Nat /\ p \in [1 .. n -> Chars]
  OBVIOUS
<1>2. s = [k \in 1 .. d |-> IF k % 2 = 1 THEN p[(k + 1) \div 2] ELSE IF k < d THEN Separator ELSE Ending]
  BY DEF Position, Separator, Ending
<1>3. Separator \in Chars /\ Ending \in Chars
  BY ShortPieces, EndingPiece
<1> HIDE DEF n, d, s
<1>4. \A k \in 1 .. d : (IF k % 2 = 1 THEN p[(k + 1) \div 2] ELSE IF k < d THEN Separator ELSE Ending) \in Chars
  <2> TAKE k \in 1 .. d
  <2>1. k % 2 = 1 => (k + 1) \div 2 \in 1 .. n
    BY <1>1 DEF d
  <2> QED BY <1>1, <1>3, <2>1
<1>5. s \in Seq(Chars) /\ Len(s) = d
  <2>1. s \in [1 .. d -> Chars]
    BY <1>2, <1>4
  <2> QED BY <1>1, <2>1
<1>6. \A i \in 1 .. n : s[2 * i - 1] = p[i]
  <2> TAKE i \in 1 .. n
  <2>1. 2 * i - 1 \in 1 .. d /\ (2 * i - 1) % 2 = 1 /\ ((2 * i - 1) + 1) \div 2 = i
    BY <1>1 DEF d
  <2> DEFINE k == 2 * i - 1
  <2>2. k \in 1 .. d /\ k % 2 = 1 /\ (k + 1) \div 2 = i
    BY <2>1
  <2> HIDE DEF k
  <2>3. s[k] = p[i]
    BY <1>2, <2>2
  <2> QED BY <2>3 DEF k
<1>7. \A i \in 1 .. n : i < n => s[2 * i] = Separator
  <2> TAKE i \in 1 .. n
  <2> HAVE i < n
  <2>1. 2 * i \in 1 .. d /\ (2 * i) % 2 # 1 /\ 2 * i < d
    BY <1>1 DEF d
  <2> DEFINE k == 2 * i
  <2>2. k \in 1 .. d /\ k % 2 # 1 /\ k < d
    BY <2>1
  <2> HIDE DEF k
  <2>3. s[k] = Separator
    BY <1>2, <2>2
  <2> QED BY <2>3 DEF k
<1>8. s[d] = Ending
  <2>1. d \in 1 .. d /\ d % 2 # 1 /\ ~(d < d)
    BY <1>1 DEF d
  <2> QED BY <1>2, <2>1
<1> QED BY <1>5, <1>6, <1>7, <1>8 DEF n, d, s

PositionRests(r, p) == Rests(r, Position(p), Char)

LEMMA PositionJoins ==
  ASSUME NEW p \in Seq(Chars), Len(p) >= 1, NEW r, PositionRests(r, p)
  PROVE  /\ \A i \in 1 .. Len(p) : r[2 * i - 1] \in Chars /\ r[2 * i] \in Chars
         /\ \A i \in 1 .. Len(p) : Joins(p[i], r[2 * i], r[2 * i - 1])
         /\ \A i \in 1 .. Len(p) : i < Len(p) => Joins(Separator, r[2 * (i + 1) - 1], r[2 * i])
         /\ Joins(Ending, <<>>, r[2 * Len(p)])
<1> DEFINE n == Len(p)
           d == 2 * n
           s == Position(p)
<1>1. n \in Nat /\ n >= 1
  OBVIOUS
<1>2. /\ Len(s) = d /\ s[d] = Ending
      /\ \A i \in 1 .. n : s[2 * i - 1] = p[i] /\ (i < n => s[2 * i] = Separator)
  BY PositionPieces
<1>3. Rests(r, s, Char)
  BY DEF PositionRests
<1> HIDE DEF n, s
<1>4. /\ r \in [1 .. d + 1 -> Chars] /\ (\A k \in 1 .. d : Joins(s[k], r[k + 1], r[k]))
      /\ r[d + 1] = <<>>
  BY <1>2, <1>3 DEF Rests, Chars
<1> HIDE DEF d
<1>5. ASSUME NEW i \in 1 .. n
      PROVE  /\ r[2 * i - 1] \in Chars /\ r[2 * i] \in Chars /\ Joins(p[i], r[2 * i], r[2 * i - 1])
             /\ i < n => Joins(Separator, r[2 * (i + 1) - 1], r[2 * i])
  <2>1. PICK j, k, l : j = 2 * i - 1 /\ k = 2 * i /\ l = 2 * (i + 1) - 1
    OBVIOUS
  <2>2. j \in 1 .. d /\ k \in 1 .. d /\ j \in 1 .. d + 1 /\ k \in 1 .. d + 1 /\ j + 1 = k /\ k + 1 = l
    BY <1>1, <2>1 DEF d
  <2>3. r[j] \in Chars /\ r[k] \in Chars /\ Joins(s[j], r[k], r[j]) /\ Joins(s[k], r[l], r[k])
    <3>1. r[j] \in Chars /\ r[k] \in Chars
      BY <1>4, <2>2
    <3>2. Joins(s[j], r[j + 1], r[j]) /\ Joins(s[k], r[k + 1], r[k])
      BY <1>4, <2>2
    <3> QED BY <2>2, <3>1, <3>2
  <2>4. s[j] = p[i] /\ (i < n => s[k] = Separator)
    BY <1>2, <2>1
  <2> QED BY <2>1, <2>3, <2>4
<1>6. Joins(Ending, <<>>, r[d])
  <2>1. d \in 1 .. d
    BY <1>1 DEF d
  <2>2. Joins(s[d], r[d + 1], r[d])
    BY <1>4, <2>1
  <2> QED BY <1>2, <1>4, <2>2
<1> QED BY <1>5, <1>6 DEF n, d

-----------------------------------------------------------------------------
(* The fields of a position *)

Commands == {"getGNSSInfo", "getGPSInfo", "getAGPSData"}

\* Every read of a position that begins a field, and what ends the command.
FirstReads(call) == CASE call = "getGNSSInfo" -> gnssFields
                      [] call = "getGPSInfo"  -> [i \in 1 .. 9 |-> Unless(i)]
                      [] call = "getAGPSData" -> <<parseInt>>

FinalRead(call) == IF call = "getAGPSData" THEN clear("OK") ELSE waitResponse("OK")

Reading(call) == AllReads(FirstReads(call), FinalRead(call))

\* The fields before which the ESP port has a character in its ring.
PeekedAt(call) == IF call = "getGPSInfo" THEN 1 .. 9 ELSE {1}

\* Four ways to read a field: a number, a character, characters, characters and a number.
OfNumber(x) == \E kind \in {"int", "float"} : x = <<Read("parse", kind)>>
OfChar(x) == x = <<Read("read", 1)>>
OfBytes(x) == \E n \in Nat \ {0} : x = <<Read("bytes", n)>>
OfBoth(x) == \E n \in Nat \ {0} : x = <<Read("bytes", n), Read("parse", "float")>>

Shape(call, i, x) ==
  /\ OfNumber(x) \/ OfChar(x) \/ OfBytes(x) \/ OfBoth(x)
  /\ i \in Numbers(call) <=> OfNumber(x) \/ OfBoth(x)
  /\ i \in Peeked(call) <=> OfNumber(x) /\ i \in PeekedAt(call)

LEMMA Apart ==
  ASSUME NEW x
  PROVE  /\ OfNumber(x) => ~OfChar(x) /\ ~OfBytes(x) /\ ~OfBoth(x)
         /\ OfChar(x) => ~OfBytes(x) /\ ~OfBoth(x)
         /\ OfBytes(x) => ~OfBoth(x)
<1>1. OfNumber(x) => Len(x) = 1 /\ x[1].op = "parse"
  <2>1. ASSUME NEW kind \in {"int", "float"}, x = <<Read("parse", kind)>>
        PROVE  Len(x) = 1 /\ x[1].op = "parse"
    BY <2>1, ReadFields
  <2> QED BY <2>1 DEF OfNumber
<1>2. OfChar(x) => Len(x) = 1 /\ x[1].op = "read"
  BY ReadFields DEF OfChar
<1>3. OfBytes(x) => Len(x) = 1 /\ x[1].op = "bytes"
  <2>1. ASSUME NEW n \in Nat \ {0}, x = <<Read("bytes", n)>>
        PROVE  Len(x) = 1 /\ x[1].op = "bytes"
    BY <2>1, ReadFields
  <2> QED BY <2>1 DEF OfBytes
<1>4. OfBoth(x) => Len(x) = 2
  BY DEF OfBoth
<1> QED BY <1>1, <1>2, <1>3, <1>4

LEMMA Shapes ==
  ASSUME NEW x
  PROVE  /\ x = <<parseInt>> \/ x = <<parseFloat>> => OfNumber(x)
         /\ x = <<readChar>> => OfChar(x)
         /\ \A n \in Nat \ {0} : x = <<readBytes(n)>> => OfBytes(x)
         /\ \A n \in Nat \ {0} : x = <<readBytes(n), parseFloat>> => OfBoth(x)
BY DEF OfNumber, OfChar, OfBytes, OfBoth, parseInt, parseFloat, readChar, readBytes

LEMMA GnssPlaces ==
  /\ Len(gnssFields) = 16 /\ \E S : gnssFields \in Seq(S)
  /\ \A i \in {1, 2, 3, 4} : gnssFields[i] = parseInt
  /\ \A i \in {5, 7, 11, 12, 13, 14, 15, 16} : gnssFields[i] = parseFloat
  /\ \A i \in {6, 8} : gnssFields[i] = readChar
  /\ gnssFields[9] = readBytes(6) /\ gnssFields[10] = readBytes(9)
<1> DEFINE S == {parseInt, parseFloat, readChar, readBytes(6), readBytes(9)}
<1>1. gnssFields \in Seq(S) /\ Len(gnssFields) = 16
  BY DEF gnssFields
<1>2. \E T : gnssFields \in Seq(T)
  <2> HIDE DEF S
  <2> QED BY <1>1
<1>3. /\ \A i \in {1, 2, 3, 4} : gnssFields[i] = parseInt
      /\ \A i \in {5, 7, 11, 12, 13, 14, 15, 16} : gnssFields[i] = parseFloat
      /\ \A i \in {6, 8} : gnssFields[i] = readChar
      /\ gnssFields[9] = readBytes(6) /\ gnssFields[10] = readBytes(9)
  BY DEF gnssFields
<1> QED BY <1>1, <1>2, <1>3

LEMMA GpsPlaces ==
  /\ Len(gpsFields) = 9
  /\ gpsFields[1] = <<readBytes(2), parseFloat>> /\ gpsFields[3] = <<readBytes(3), parseFloat>>
  /\ \A i \in {2, 4} : gpsFields[i] = <<readChar>>
  /\ gpsFields[5] = <<readBytes(6)>> /\ gpsFields[6] = <<readBytes(9)>>
  /\ \A i \in {7, 8, 9} : gpsFields[i] = <<parseFloat>>
BY DEF gpsFields

Fields(call) == IF call = "getGNSSInfo" THEN 16 ELSE IF call = "getGPSInfo" THEN 9 ELSE 1

LEMMA FieldShapes ==
  ASSUME NEW call \in Commands
  PROVE  /\ Len(FieldReads(call)) = Fields(call)
         /\ \A i \in 1 .. Fields(call) : Shape(call, i, FieldReads(call)[i])
<1>1. CASE call = "getGNSSInfo"
  <2>1. FieldReads(call) = [i \in 1 .. 16 |-> <<gnssFields[i]>>] /\ Fields(call) = 16
    BY <1>1 DEF FieldReads, Fields
  <2>2. Len(FieldReads(call)) = 16
    BY <2>1
  <2>3. /\ Numbers(call) = 1 .. 16 \ {6, 8, 9, 10} /\ Peeked(call) = {1} /\ PeekedAt(call) = {1}
    BY <1>1 DEF Numbers, Peeked, PeekedAt
  <2>4. ASSUME NEW i \in 1 .. 16
        PROVE  Shape(call, i, FieldReads(call)[i])
    <3>1. PICK x : x = <<gnssFields[i]>>
      OBVIOUS
    <3>2. FieldReads(call)[i] = x
      BY <2>1, <3>1
    <3>3. CASE i \in {6, 8}
      <4>1. OfChar(x) /\ i \notin Numbers(call) /\ i \notin Peeked(call)
        BY <2>3, <3>1, <3>3, GnssPlaces, Shapes
      <4> QED BY <3>2, <4>1, Apart DEF Shape
    <3>4. CASE i \in {9, 10}
      <4>1. OfBytes(x) /\ i \notin Numbers(call) /\ i \notin Peeked(call)
        BY <2>3, <3>1, <3>4, GnssPlaces, Shapes
      <4> QED BY <3>2, <4>1, Apart DEF Shape
    <3>5. CASE i \notin {6, 8, 9, 10}
      <4>1. i \in {1, 2, 3, 4} \/ i \in {5, 7, 11, 12, 13, 14, 15, 16}
        BY <3>5
      <4>2. OfNumber(x) /\ i \in Numbers(call)
        BY <2>3, <3>1, <3>5, <4>1, GnssPlaces, Shapes
      <4> QED BY <2>3, <3>2, <4>2, Apart DEF Shape
    <3> QED BY <3>3, <3>4, <3>5
  <2> QED BY <2>1, <2>2, <2>4
<1>2. CASE call = "getGPSInfo"
  <2>1. FieldReads(call) = gpsFields /\ Fields(call) = 9
    BY <1>2 DEF FieldReads, Fields
  <2>2. /\ Numbers(call) = {1, 3, 7, 8, 9} /\ Peeked(call) = {7, 8, 9} /\ PeekedAt(call) = 1 .. 9
    BY <1>2 DEF Numbers, Peeked, PeekedAt
  <2>3. ASSUME NEW i \in 1 .. 9
        PROVE  Shape(call, i, gpsFields[i])
    <3>1. PICK x : x = gpsFields[i]
      OBVIOUS
    <3>3. CASE i \in {2, 4}
      <4>1. OfChar(x) /\ i \notin Numbers(call) /\ i \notin Peeked(call)
        BY <2>2, <3>1, <3>3, GpsPlaces, Shapes
      <4> QED BY <3>1, <4>1, Apart DEF Shape
    <3>4. CASE i \in {5, 6}
      <4>1. OfBytes(x) /\ i \notin Numbers(call) /\ i \notin Peeked(call)
        BY <2>2, <3>1, <3>4, GpsPlaces, Shapes
      <4> QED BY <3>1, <4>1, Apart DEF Shape
    <3>5. CASE i \in {1, 3}
      <4>1. OfBoth(x) /\ i \in Numbers(call) /\ i \notin Peeked(call)
        BY <2>2, <3>1, <3>5, GpsPlaces, Shapes
      <4> QED BY <3>1, <4>1, Apart DEF Shape
    <3>6. CASE i \in {7, 8, 9}
      <4>1. OfNumber(x) /\ i \in Numbers(call) /\ i \in Peeked(call) /\ i \in PeekedAt(call)
        BY <2>2, <3>1, <3>6, GpsPlaces, Shapes
      <4> QED BY <3>1, <4>1, Apart DEF Shape
    <3> QED BY <3>3, <3>4, <3>5, <3>6
  <2> QED BY <2>1, <2>3, GpsPlaces
<1>3. CASE call = "getAGPSData"
  <2>1. FieldReads(call) = << <<parseInt>> >> /\ Fields(call) = 1
    BY <1>3 DEF FieldReads, Fields
  <2>2. /\ Numbers(call) = {1} /\ Peeked(call) = {1} /\ PeekedAt(call) = {1}
    BY <1>3 DEF Numbers, Peeked, PeekedAt
  <2>3. PICK x : x = <<parseInt>>
    OBVIOUS
  <2>4. OfNumber(x)
    BY <2>3, Shapes
  <2>5. Shape(call, 1, x)
    BY <2>2, <2>4, Apart DEF Shape
  <2> QED BY <2>1, <2>3, <2>5
<1> QED BY <1>1, <1>2, <1>3 DEF Commands

\* The read that begins a field, and the one behind it.
LEMMA ReadingPlaces ==
  ASSUME NEW call \in Commands
  PROVE  \E S : /\ Reading(call) \in Seq(S) /\ Len(Reading(call)) = 2 * Fields(call)
                /\ \A i \in 1 .. Fields(call) : Reading(call)[2 * i - 1] = FirstReads(call)[i]
                /\ \A i \in 1 .. Fields(call) : i < Fields(call) => Reading(call)[2 * i] = find(Comma)
                /\ Reading(call)[2 * Fields(call)] = FinalRead(call)
                /\ Fix(TRUE) \in S /\ FinalRead(call) \in S
                /\ \A i \in 1 .. Fields(call) : FirstReads(call)[i] \in S
<1>1. \E T : FirstReads(call) \in Seq(T) /\ Len(FirstReads(call)) = Fields(call)
  <2>1. CASE call = "getGNSSInfo"
    BY <2>1, GnssPlaces DEF FirstReads, Fields
  <2>2. CASE call = "getGPSInfo"
    <3> DEFINE T == {Unless(i) : i \in 1 .. 9}
               u == [i \in 1 .. 9 |-> Unless(i)]
    <3>1. u \in [1 .. 9 -> T]
      OBVIOUS
    <3>2. FirstReads(call) = u /\ Fields(call) = 9
      BY <2>2 DEF FirstReads, Fields
    <3> HIDE DEF T, u
    <3>3. u \in Seq(T) /\ Len(u) = 9
      <4>1. 9 \in Nat
        OBVIOUS
      <4> QED BY <3>1, <4>1, Tabulated
    <3> QED BY <3>2, <3>3
  <2>3. CASE call = "getAGPSData"
    <3>1. FirstReads(call) = <<parseInt>> /\ Fields(call) = 1
      BY <2>3 DEF FirstReads, Fields
    <3>2. <<parseInt>> \in Seq({parseInt}) /\ Len(<<parseInt>>) = 1
      OBVIOUS
    <3> QED BY <3>1, <3>2
  <2> QED BY <2>1, <2>2, <2>3 DEF Commands
<1>2. PICK T : FirstReads(call) \in Seq(T) /\ Len(FirstReads(call)) = Fields(call)
  BY <1>1
<1>3. PICK f, l : f = FirstReads(call) /\ l = FinalRead(call)
  OBVIOUS
<1> DEFINE S == T \cup {find(Comma), l, Fix(TRUE)}
<1>4. find(Comma) \in S /\ l \in S /\ Fix(TRUE) \in S /\ T \subseteq S
  OBVIOUS
<1> HIDE DEF S
<1>5. f \in Seq(S) /\ Len(f) = Fields(call) /\ Len(f) >= 1
  <2>1. f \in Seq(S)
    BY <1>2, <1>3, <1>4, SeqMonotonic, Zenon
  <2>2. Fields(call) >= 1
    BY DEF Fields
  <2> QED BY <1>2, <1>3, <2>1, <2>2
<1>6. /\ AllReads(f, l) \in Seq(S) /\ Len(AllReads(f, l)) = 2 * Len(f)
      /\ \A i \in 1 .. Len(f) : AllReads(f, l)[2 * i - 1] = f[i]
      /\ \A i \in 1 .. Len(f) : i < Len(f) => AllReads(f, l)[2 * i] = find(Comma)
      /\ AllReads(f, l)[2 * Len(f)] = l
  BY <1>4, <1>5, AllPlaces
<1>7. AllReads(f, l) = Reading(call)
  BY <1>3 DEF Reading
<1>8. \A i \in 1 .. Len(f) : f[i] \in S
  BY <1>5
<1> QED BY <1>3, <1>4, <1>5, <1>6, <1>7, <1>8

FirstChar(call) == CASE call = "getGNSSInfo" -> Blank
                     [] call = "getGPSInfo"  -> Comma
                     [] call = "getAGPSData" -> "s"

\* What follows the first peek() when there is a position, and when there is none.
Follows(call, t) == IF call = "getAGPSData" THEN t = Reading(call) ELSE Then(t, Fix(TRUE), Reading(call))

LEMMA PeekFields ==
  ASSUME NEW c, NEW yes, NEW no
  PROVE  /\ Peek(c, yes, no).op = "peek" /\ Peek(c, yes, no).arg = c
         /\ Peek(c, yes, no).yes = yes /\ Peek(c, yes, no).no = no
BY DEF Peek

LEMMA ReadsBegin ==
  ASSUME NEW call \in Commands
  PROVE  \E no : /\ Then(Reads(call),
                         Peek(FirstChar(call), IF call = "getAGPSData" THEN <<>> ELSE <<Fix(FALSE)>>, no),
                         <<FinalRead(call)>>)
                 /\ Follows(call, no \o <<FinalRead(call)>>)
<1>1. ASSUME NEW f, NEW p, NEW e, p = << Peek(f, <<Fix(FALSE)>>, e), waitResponse("OK") >>
      PROVE  Then(p, Peek(f, <<Fix(FALSE)>>, e), <<waitResponse("OK")>>)
  BY <1>1 DEF Then
<1>2. ASSUME NEW f, f = FirstReads(call), call # "getAGPSData"
      PROVE  Then((<<Fix(TRUE)>> \o Separated(f)) \o <<FinalRead(call)>>, Fix(TRUE), Reading(call))
  <2>1. PICK S : /\ Reading(call) \in Seq(S) /\ Len(Reading(call)) = 2 * Fields(call)
                 /\ Fix(TRUE) \in S /\ FinalRead(call) \in S
    BY ReadingPlaces
  <2>2. PICK a, s, e : a = <<Fix(TRUE)>> /\ s = Separated(f) /\ e = <<FinalRead(call)>>
    OBVIOUS
  <2>3. a \in Seq(S) /\ e \in Seq(S)
    BY <2>1, <2>2, Single
  <2>4. s \o e = Reading(call)
    BY <1>2, <2>2 DEF Reading, AllReads
  <2>5. \E R : s \in Seq(R)
    <3>1. PICK m : m = 2 * Len(f) - 1
      OBVIOUS
    <3>2. Len(f) \in Nat /\ Len(f) >= 1
      <4>1. CASE call = "getGNSSInfo"
        <5>1. Len(f) = Len(gnssFields)
          BY <1>2, <4>1 DEF FirstReads
        <5> QED BY <5>1, GnssPlaces
      <4>2. CASE call = "getGPSInfo"
        BY <1>2, <4>2 DEF FirstReads
      <4> QED BY <1>2, <4>1, <4>2 DEF Commands
    <3>3. m \in Nat
      BY <3>1, <3>2
    <3>4. s = [k \in 1 .. m |-> IF k % 2 = 0 THEN find(Comma) ELSE f[(k + 1) \div 2]]
      BY <2>2, <3>1 DEF Separated
    <3>5. s \in [1 .. m -> {IF k % 2 = 0 THEN find(Comma) ELSE f[(k + 1) \div 2] : k \in 1 .. m}]
      BY <3>4
    <3> QED BY <3>3, <3>5, Tabulated
  <2>6. PICK R : s \in Seq(R)
    BY <2>5
  <2> DEFINE Q == R \cup S
  <2>7. a \in Seq(Q) /\ s \in Seq(Q) /\ e \in Seq(Q) /\ s \o e \in Seq(Q) /\ Fix(TRUE) \in Q
    <3>1. R \subseteq Q /\ S \subseteq Q
      OBVIOUS
    <3> HIDE DEF Q
    <3>2. a \in Seq(Q) /\ s \in Seq(Q) /\ e \in Seq(Q)
      BY <2>3, <2>6, <3>1, SeqMonotonic, Zenon
    <3> QED BY <2>1, <3>1, <3>2, ConcatProperties
  <2> HIDE DEF Q
  <2>8. (a \o s) \o e = a \o (s \o e)
    BY <2>7, ConcatAssociative
  <2>9. Then(<<Fix(TRUE)>> \o (s \o e), Fix(TRUE), s \o e)
    BY <2>7, Popped
  <2> QED BY <2>2, <2>4, <2>8, <2>9
<1>3. CASE call = "getGNSSInfo"
  <2> DEFINE no == <<Fix(TRUE)>> \o Separated(gnssFields)
  <2>1. FirstReads(call) = gnssFields /\ FinalRead(call) = waitResponse("OK") /\ FirstChar(call) = Blank
    BY <1>3 DEF FirstReads, FinalRead, FirstChar
  <2>2. Reads(call) = << Peek(Blank, <<Fix(FALSE)>>, no), waitResponse("OK") >>
    BY <1>3 DEF Reads, getGNSSInfo
  <2>3. Then(no \o <<FinalRead(call)>>, Fix(TRUE), Reading(call))
    BY <1>2, <1>3, <2>1
  <2> HIDE DEF no
  <2>4. Then(Reads(call), Peek(Blank, <<Fix(FALSE)>>, no), <<waitResponse("OK")>>)
    BY <1>1, <2>2
  <2> QED BY <1>3, <2>1, <2>3, <2>4 DEF Follows
<1>4. CASE call = "getGPSInfo"
  <2> DEFINE u == [i \in 1 .. 9 |-> Unless(i)]
             no == <<Fix(TRUE)>> \o Separated(u)
  <2>1. FirstReads(call) = u /\ FinalRead(call) = waitResponse("OK") /\ FirstChar(call) = Comma
    BY <1>4 DEF FirstReads, FinalRead, FirstChar
  <2>2. Reads(call) = << Peek(Comma, <<Fix(FALSE)>>, no), waitResponse("OK") >>
    BY <1>4 DEF Reads, getGPSInfo
  <2> HIDE DEF u
  <2>3. Then(no \o <<FinalRead(call)>>, Fix(TRUE), Reading(call))
    BY <1>2, <1>4, <2>1
  <2> HIDE DEF no
  <2>4. Then(Reads(call), Peek(Comma, <<Fix(FALSE)>>, no), <<waitResponse("OK")>>)
    BY <1>1, <2>2
  <2> QED BY <1>4, <2>1, <2>3, <2>4 DEF Follows
<1>5. CASE call = "getAGPSData"
  <2>1. FirstReads(call) = <<parseInt>> /\ FinalRead(call) = clear("OK") /\ FirstChar(call) = "s"
    BY <1>5 DEF FirstReads, FinalRead, FirstChar
  <2>2. Reads(call) = << Peek("s", <<>>, <<parseInt>>), clear("OK") >>
    BY <1>5 DEF Reads, getAGPSData
  <2>3. Then(Reads(call), Peek("s", <<>>, <<parseInt>>), <<clear("OK")>>)
    BY <2>2 DEF Then
  <2>4. Separated(<<parseInt>>) = <<parseInt>>
    BY DEF Separated
  <2>5. <<parseInt>> \o <<FinalRead(call)>> = Reading(call)
    BY <2>1, <2>4 DEF Reading, AllReads
  <2> QED BY <1>5, <2>1, <2>3, <2>5 DEF Follows
<1> QED BY <1>3, <1>4, <1>5 DEF Commands

\* The fields that were sent.
Field(i) == input.sent[i]
FieldRead(i) == FieldReads(input.fn)[i]
Count == Fields(input.fn)

Described == /\ input.fn \in Commands /\ input.sent \in Seq(Chars) /\ Len(input.sent) = Count
             /\ IsPosition(input.fn, input.sent)

LEMMA SentFields ==
  ASSUME input.fn # "process", IsInput(input)
  PROVE  Described
<1>1. input.fn \in Commands /\ IsPosition(input.fn, input.sent)
  BY DEF IsInput, Commands
<1>2. input.sent \in Seq(Seq(STRING)) /\ Len(input.sent) = Len(FieldReads(input.fn))
  BY <1>1 DEF IsPosition
<1>3. STRING \subseteq Char
  BY DEF Char
<1>4. Seq(STRING) \subseteq Chars
  BY <1>3, SeqMonotonic, Zenon DEF Chars
<1>5. input.sent \in Seq(Chars)
  BY <1>2, <1>4, SeqMonotonic, Zenon
<1>6. Len(FieldReads(input.fn)) = Count
  BY <1>1, FieldShapes DEF Count
<1> QED BY <1>1, <1>2, <1>5, <1>6 DEF Described

\* A field as it is read, by the shape of its reads.
NumberField(s, x) == \E kind \in {"int", "float"} : x = <<Read("parse", kind)>> /\ Numeral(s, kind)
CharField(s, x) == OfChar(x) /\ Len(s) = 1
BytesField(s, x) == \E n \in Nat \ {0} : x = <<Read("bytes", n)>> /\ Len(s) = n
BothField(s, x) ==
  \E n \in Nat \ {0} : /\ x = <<Read("bytes", n), Read("parse", "float")>> /\ Len(s) >= n
                       /\ Numeral(Behind(s, n), "float")

LEMMA FieldContent ==
  ASSUME NEW s \in Chars, NEW x, OfNumber(x) \/ OfChar(x) \/ OfBytes(x) \/ OfBoth(x), IsField(s, x)
  PROVE  /\ Len(s) >= 1 /\ s[1] # Comma
         /\ NumberField(s, x) \/ CharField(s, x) \/ BytesField(s, x) \/ BothField(s, x)
<1>1. Len(s) >= 1 /\ s[1] # Comma /\ Len(s) \in Nat
  BY EmptySeq DEF IsField, Chars
<1>2. Behind(s, 0) = s
  BY DEF Behind, Chars
<1>3. ASSUME NEW h, x = <<h>> PROVE Head(x) = h /\ Last(x) = h
  BY <1>3 DEF Last
<1>4. ASSUME NEW h, NEW e, x = <<h, e>> PROVE Head(x) = h /\ Last(x) = e
  BY <1>4 DEF Last
<1>5. CASE OfNumber(x)
  <2>1. PICK kind \in {"int", "float"} : x = <<Read("parse", kind)>>
    BY <1>5 DEF OfNumber
  <2>2. PICK h : h = Read("parse", kind)
    OBVIOUS
  <2>3. h.op = "parse" /\ h.arg = kind /\ x = <<h>>
    BY <2>1, <2>2, ReadFields
  <2>4. Head(x) = h /\ Last(x) = h
    BY <1>3, <2>3
  <2>5. Before(x) = 0
    BY <2>3, <2>4 DEF Before
  <2>6. Numeral(Behind(s, Before(x)), Last(x).arg)
    BY <2>3, <2>4 DEF IsField
  <2>7. Numeral(s, kind)
    BY <1>2, <2>3, <2>4, <2>5, <2>6
  <2> QED BY <1>1, <2>1, <2>7 DEF NumberField
<1>6. CASE OfChar(x)
  <2>1. PICK h : h = Read("read", 1)
    OBVIOUS
  <2>2. h.op = "read" /\ h.arg = 1 /\ x = <<h>>
    BY <1>6, <2>1, ReadFields DEF OfChar
  <2>3. Head(x) = h /\ Last(x) = h
    BY <1>3, <2>2
  <2>4. Before(x) = 1 /\ Last(x).op # "parse"
    BY <2>2, <2>3 DEF Before
  <2>5. Len(s) = Before(x)
    BY <2>4 DEF IsField
  <2> QED BY <1>1, <1>6, <2>4, <2>5 DEF CharField
<1>7. CASE OfBytes(x)
  <2>1. PICK n \in Nat \ {0} : x = <<Read("bytes", n)>>
    BY <1>7 DEF OfBytes
  <2>2. PICK h : h = Read("bytes", n)
    OBVIOUS
  <2>3. h.op = "bytes" /\ h.arg = n /\ x = <<h>>
    BY <2>1, <2>2, ReadFields
  <2>4. Head(x) = h /\ Last(x) = h
    BY <1>3, <2>3
  <2>5. Before(x) = n /\ Last(x).op # "parse"
    BY <2>3, <2>4 DEF Before
  <2>6. Len(s) = Before(x)
    BY <2>5 DEF IsField
  <2> QED BY <1>1, <2>1, <2>5, <2>6 DEF BytesField
<1>8. CASE OfBoth(x)
  <2>1. PICK n \in Nat \ {0} : x = <<Read("bytes", n), Read("parse", "float")>>
    BY <1>8 DEF OfBoth
  <2>2. PICK h, e : h = Read("bytes", n) /\ e = Read("parse", "float")
    OBVIOUS
  <2>3. h.op = "bytes" /\ h.arg = n /\ e.op = "parse" /\ e.arg = "float" /\ x = <<h, e>>
    BY <2>1, <2>2, ReadFields
  <2>4. Head(x) = h /\ Last(x) = e
    BY <1>4, <2>3
  <2>5. Before(x) = n
    BY <2>3, <2>4 DEF Before
  <2>6. Len(s) >= Before(x) /\ Numeral(Behind(s, Before(x)), Last(x).arg)
    BY <2>3, <2>4 DEF IsField
  <2>7. Len(s) >= n /\ Numeral(Behind(s, n), "float")
    BY <2>3, <2>4, <2>5, <2>6
  <2> QED BY <1>1, <2>1, <2>7 DEF BothField
<1> QED BY <1>1, <1>5, <1>6, <1>7, <1>8

Nothing == NothingIn(input)

\* A number of which peek() has taken the first character into the ring of the ESP port.
Cut(i) == Esp /\ i \in Peeked(input.fn) /\ input.sent[i] # <<>>

Received(i) == IF Cut(i) THEN Tail(input.sent[i]) ELSE input.sent[i]

Readable == \A i \in Numbers(input.fn) \cap DOMAIN input.sent :
              \/ HasDigit(Received(i)) /\ (Esp => Len(Received(i)) < NumberLen)
              \/ input.fn = "getGPSInfo" /\ input.sent[i] = <<>>

Sound == Described /\ ~Nothing /\ Readable

\* What the ring takes from the UART at peek() and a number does not get back.
Lost(i) == IF Esp /\ i \in PeekedAt(input.fn) THEN 1 ELSE 0

LEMMA NumeralTail ==
  ASSUME NEW s \in Chars, NEW kind, Numeral(s, kind), NEW n \in {0, 1}, Behind(s, n) # <<>>
  PROVE  Numeral(Behind(s, n), kind)
<1>1. Len(s) \in Nat /\ Len(s) >= 1
  BY EmptySeq DEF Numeral, Chars
<1>2. n \in 0 .. Len(s)
  BY <1>1
<1>3. /\ Behind(s, n) \in Chars /\ Len(Behind(s, n)) = Len(s) - n
      /\ \A i \in 1 .. Len(s) - n : Behind(s, n)[i] = s[n + i]
  BY <1>2, Parts DEF Chars
<1>4. PICK t : t = Behind(s, n)
  OBVIOUS
<1>5. DOMAIN t = 1 .. Len(t) /\ Len(t) = Len(s) - n /\ \A i \in 1 .. Len(t) : t[i] = s[n + i]
  BY <1>3, <1>4 DEF Chars
<1>6. \A k \in 1 .. Len(s) : \/ s[k] \in Digits
                             \/ s[k] = "-" /\ k = 1
                             \/ s[k] = "." /\ kind = "float" /\ \A j \in 1 .. k - 1 : s[j] # "."
  BY DEF Numeral, Chars
<1>7. ASSUME NEW k \in 1 .. Len(t)
      PROVE  \/ t[k] \in Digits
             \/ t[k] = "-" /\ k = 1
             \/ t[k] = "." /\ kind = "float" /\ \A j \in 1 .. k - 1 : t[j] # "."
  <2>1. t[k] = s[n + k] /\ n + k \in 1 .. Len(s) /\ (n + k = 1 => k = 1)
    BY <1>1, <1>5
  <2>2. CASE t[k] = "." /\ kind = "float" /\ \A j \in 1 .. (n + k) - 1 : s[j] # "."
    <3>1. ASSUME NEW j \in 1 .. k - 1 PROVE t[j] # "."
      <4>1. n + j \in 1 .. (n + k) - 1 /\ j \in 1 .. Len(t)
        BY <1>1, <1>5
      <4> QED BY <1>5, <2>2, <4>1
    <3> QED BY <2>2, <3>1
  <2> QED BY <1>6, <2>1, <2>2
<1> QED BY <1>4, <1>5, <1>7 DEF Numeral

LEMMA Fields1 ==
  ASSUME Sound, NEW i \in 1 .. Count
  PROVE  /\ Field(i) \in Chars /\ Shape(input.fn, i, FieldRead(i)) /\ input.fn \in Commands
         /\ i \in DOMAIN input.sent
         /\ IF Field(i) = <<>> THEN input.fn = "getGPSInfo" /\ i > 1 /\ Received(i) = <<>>
                               ELSE IsField(Field(i), FieldRead(i))
<1>1. /\ input.fn \in Commands /\ input.sent \in Seq(Chars) /\ Len(input.sent) = Count
      /\ IsPosition(input.fn, input.sent)
  BY DEF Sound, Described
<1>2. Field(i) \in Chars /\ i \in DOMAIN input.sent
  BY <1>1 DEF Field
<1>3. Shape(input.fn, i, FieldRead(i))
  BY <1>1, FieldShapes DEF FieldRead, Count
<1>4. \/ IsField(Field(i), FieldRead(i))
      \/ MayBeEmpty(input.fn, i) /\ Field(i) = <<>>
  <2>1. input.sent \notin {NoGNSSFix, NoGPSFix}
    BY DEF Sound, Nothing, NothingIn
  <2>2. ~(input.fn = "getAGPSData" /\ IsStatus(input.sent[1]))
    <3>1. SUFFICES ASSUME input.fn = "getAGPSData", IsStatus(input.sent[1]) PROVE FALSE
      OBVIOUS
    <3>2. Count = 1
      BY <3>1 DEF Count, Fields
    <3>3. Head(input.sent) = input.sent[1] /\ input.sent[1] \in Chars
      BY <1>1, <3>2
    <3>4. Head(input.sent[1]) = input.sent[1][1]
      BY <3>1, <3>3 DEF IsStatus, Chars
    <3>5. Head(Head(input.sent)) = "s"
      BY <3>1, <3>3, <3>4 DEF IsStatus
    <3> QED BY <3>1, <3>5 DEF Sound, Nothing, NothingIn
  <2> QED BY <1>1, <1>2, <2>1, <2>2 DEF IsPosition, Field, FieldRead
<1>5. Field(i) = <<>> => Received(i) = <<>>
  BY DEF Field, Received, Cut
<1>6. ASSUME Field(i) = <<>> PROVE i \notin Numbers(input.fn) \/ input.fn = "getGPSInfo"
  <2>1. \A k \in DOMAIN input.sent : k \in Numbers(input.fn) =>
          \/ HasDigit(Received(k)) /\ (Esp => Len(Received(k)) < NumberLen)
          \/ input.fn = "getGPSInfo" /\ input.sent[k] = <<>>
    BY DEF Sound, Readable
  <2>2. ~HasDigit(Received(i))
    BY <1>5, <1>6 DEF HasDigit
  <2> QED BY <1>2, <2>1, <2>2
<1>7. ASSUME Field(i) = <<>>, ~IsField(Field(i), FieldRead(i))
      PROVE  input.fn = "getGPSInfo" /\ i > 1
  <2>1. \/ input.fn = "getGPSInfo" /\ i > 1
        \/ input.fn = "getGNSSInfo" /\ gnssFields[i].op = "parse"
    BY <1>4, <1>7 DEF MayBeEmpty
  <2>2. ASSUME input.fn = "getGNSSInfo", gnssFields[i].op = "parse" PROVE FALSE
    <3>1. i \in 1 .. 16 /\ FieldReads(input.fn) = [k \in 1 .. 16 |-> <<gnssFields[k]>>]
      BY <2>2 DEF Count, Fields, FieldReads
    <3>2. FieldRead(i) = <<gnssFields[i]>>
      BY <3>1 DEF FieldRead
    <3>3. i \notin Numbers(input.fn)
      BY <1>6, <1>7, <2>2
    <3>4. OfChar(FieldRead(i)) \/ OfBytes(FieldRead(i))
      BY <1>3, <3>3 DEF Shape
    <3>5. PICK h : h = gnssFields[i]
      OBVIOUS
    <3>6. ASSUME NEW o, NEW a, <<h>> = <<Read(o, a)>> PROVE h.op = o
      <4>1. h = Read(o, a)
        BY <3>6
      <4> QED BY <4>1, ReadFields
    <3>7. h.op = "read" \/ h.op = "bytes"
      BY <3>2, <3>4, <3>5, <3>6 DEF OfChar, OfBytes
    <3> QED BY <2>2, <3>5, <3>7
  <2> QED BY <2>1, <2>2
<1>8. Field(i) = <<>> => ~IsField(Field(i), FieldRead(i))
  BY DEF IsField
<1> QED BY <1>1, <1>2, <1>3, <1>4, <1>5, <1>7, <1>8

LEMMA ReceivedPlain ==
  ASSUME Sound, NEW i \in 1 .. Count, Field(i) # <<>>, ~OfNumber(FieldRead(i))
  PROVE  /\ Received(i) = Field(i)
         /\ Esp /\ OfBoth(FieldRead(i)) => Len(Field(i)) < NumberLen
<1>1. Shape(input.fn, i, FieldRead(i)) /\ i \in DOMAIN input.sent
  BY Fields1
<1>2. i \notin Peeked(input.fn)
  BY <1>1 DEF Shape
<1>3. Received(i) = Field(i)
  BY <1>2 DEF Received, Cut, Field
<1>4. ASSUME Esp, OfBoth(FieldRead(i)) PROVE Len(Field(i)) < NumberLen
  <2>1. i \in Numbers(input.fn)
    BY <1>1, <1>4 DEF Shape
  <2>2. Esp => Len(Received(i)) < NumberLen
    BY <1>1, <2>1 DEF Sound, Readable, Field
  <2> QED BY <1>3, <1>4, <2>2
<1> QED BY <1>3, <1>4

LEMMA ReceivedNumber ==
  ASSUME Sound, NEW i \in 1 .. Count, Field(i) # <<>>, NumberField(Field(i), FieldRead(i))
  PROVE  /\ Received(i) = Behind(Field(i), Lost(i)) /\ Received(i) \in Chars
         /\ NumberField(Received(i), FieldRead(i)) /\ (Esp => Len(Received(i)) < NumberLen)
         /\ Lost(i) \in {0, 1} /\ Lost(i) <= Len(Field(i))
<1>1. Shape(input.fn, i, FieldRead(i)) /\ i \in DOMAIN input.sent /\ Field(i) \in Chars
  BY Fields1
<1>2. OfNumber(FieldRead(i))
  BY DEF NumberField, OfNumber
<1>3. i \in Numbers(input.fn) /\ (i \in Peeked(input.fn) <=> i \in PeekedAt(input.fn))
  BY <1>1, <1>2 DEF Shape
<1>4. HasDigit(Received(i)) /\ (Esp => Len(Received(i)) < NumberLen)
  BY <1>1, <1>3 DEF Sound, Readable, Field
<1>5. PICK s : s = Field(i)
  OBVIOUS
<1>6. s \in Chars /\ s # <<>> /\ Len(s) \in Nat /\ Len(s) >= 1
  BY <1>1, <1>5, EmptySeq DEF Chars
<1>7. Behind(s, 0) = s /\ Tail(s) = Behind(s, 1)
  BY <1>6 DEF Behind, Chars
<1>8. Received(i) = Behind(s, Lost(i)) /\ Lost(i) \in {0, 1}
  <2>1. Cut(i) <=> Lost(i) = 1
    BY <1>3 DEF Cut, Lost, Field
  <2>2. Lost(i) \in {0, 1}
    BY DEF Lost
  <2>3. CASE Lost(i) = 1
    BY <1>5, <1>7, <2>1, <2>3 DEF Received, Field
  <2>4. CASE Lost(i) = 0
    BY <1>5, <1>7, <2>1, <2>4 DEF Received, Field
  <2> QED BY <2>2, <2>3, <2>4
<1>9. PICK n : n = Lost(i)
  OBVIOUS
<1>10. n \in {0, 1} /\ n \in 0 .. Len(s)
  BY <1>6, <1>8, <1>9
<1>11. Behind(s, n) \in Chars /\ Behind(s, n) # <<>>
  <2>1. Behind(s, n) \in Seq(Char)
    BY <1>6, <1>10, Parts DEF Chars
  <2>2. HasDigit(Behind(s, n))
    BY <1>4, <1>8, <1>9
  <2> QED BY <2>1, <2>2 DEF HasDigit, Chars
<1>12. PICK kind \in {"int", "float"} : FieldRead(i) = <<Read("parse", kind)>> /\ Numeral(s, kind)
  BY <1>5 DEF NumberField
<1>13. Numeral(Behind(s, n), kind)
  BY <1>6, <1>10, <1>11, <1>12, NumeralTail
<1>14. NumberField(Behind(s, n), FieldRead(i))
  BY <1>12, <1>13 DEF NumberField
<1> QED BY <1>4, <1>5, <1>8, <1>9, <1>10, <1>11, <1>14

\* What has been read: the fields in front of i, and s of this one.
GotTo(i, s) == /\ got \in Seq(Chars) /\ Len(got) = i /\ got[i] = s
               /\ \A j \in 1 .. i - 1 : got[j] = Received(j)

LEMMA GotMore ==
  ASSUME NEW i \in Nat \ {0}, NEW s \in Chars, NEW t \in Chars, GotTo(i, s), Keep(t), input' = input,
         NEW u, Joins(s, t, u)
  PROVE  GotTo(i, u)'
<1>1. PICK g, h : g = got /\ h = got'
  OBVIOUS
<1>2. g \in Seq(Chars) /\ Len(g) = i /\ g[i] = s /\ \A j \in 1 .. i - 1 : g[j] = Received(j)
  BY <1>1 DEF GotTo
<1>3. h = [g EXCEPT ![i] = s \o t]
  BY <1>1, <1>2 DEF Keep
<1>4. u \in Chars /\ s \o t = u
  BY ConcatProperties DEF Joins, Chars
<1>5. h = [g EXCEPT ![i] = u]
  BY <1>3, <1>4
<1>6. i \in 1 .. Len(g)
  BY <1>2
<1>7. h \in Seq(Chars) /\ Len(h) = i /\ h[i] = u /\ \A j \in 1 .. i - 1 : h[j] = g[j]
  BY <1>2, <1>4, <1>5, <1>6
<1>8. \A j : Received(j)' = Received(j)
  BY DEF Received, Cut, Esp
<1> QED BY <1>1, <1>2, <1>7, <1>8 DEF GotTo

LEMMA GotNext ==
  ASSUME NEW i \in Nat \ {0}, GotTo(i, Received(i)), got' = Append(got, <<>>), input' = input
  PROVE  GotTo(i + 1, <<>>)'
<1>1. PICK g, h, e : g = got /\ h = got' /\ e = <<>>
  OBVIOUS
<1>2. g \in Seq(Chars) /\ Len(g) = i /\ g[i] = Received(i) /\ \A j \in 1 .. i - 1 : g[j] = Received(j)
  BY <1>1 DEF GotTo
<1>3. e \in Chars /\ h = Append(g, e)
  BY <1>1 DEF Chars
<1>4. /\ h \in Seq(Chars) /\ Len(h) = Len(g) + 1 /\ h[Len(g) + 1] = e
      /\ \A j \in 1 .. Len(g) : h[j] = g[j]
  BY <1>2, <1>3, AppendProperties
<1>5. \A j : Received(j)' = Received(j)
  BY DEF Received, Cut, Esp
<1>6. \A j \in 1 .. (i + 1) - 1 : h[j] = Received(j)
  <2> TAKE j \in 1 .. (i + 1) - 1
  <2>1. j \in 1 .. Len(g) /\ (j = i \/ j \in 1 .. i - 1)
    BY <1>2
  <2> QED BY <1>2, <1>4, <2>1
<1> QED BY <1>1, <1>2, <1>4, <1>5, <1>6 DEF GotTo

\* A number at the beginning of what is behind the ring, and what it is followed by.
LEMMA NumeralAhead ==
  ASSUME NEW t \in Chars, NEW v \in Chars, NEW w, Joins(t, v, w), NEW kind, Numeral(t, kind),
         Len(v) >= 1, v[1] \notin Digits, v[1] # "."
  PROVE  NumberAt(w, Len(t), kind) /\ Part(w, Len(t)) = t /\ Behind(w, Len(t)) = v
<1>1. Part(w, Len(t)) = t /\ Behind(w, Len(t)) = v
  BY Prefix, Suffix DEF Chars
<1>2. /\ Len(w) = Len(t) + Len(v)
      /\ \A i \in 1 .. Len(v) : w[Len(t) + i] = v[i]
  BY Joined DEF Chars
<1>3. Len(t) \in Nat /\ Len(t) < Len(w) /\ w[Len(t) + 1] = v[1]
  BY <1>2 DEF Chars
<1> QED BY <1>1, <1>3 DEF NumberAt

LEMMA ParseField ==
  ASSUME Types, NEW t \in Chars, NEW v \in Chars, NEW w, Joins(t, v, w), NEW kind \in {"int", "float"},
         Numeral(t, kind), Len(v) >= 1, v[1] \notin Digits, v[1] # ".",
         Joins(uart, coming, w), ~Esp => ring = <<>>, Esp => Len(t) < NumberLen,
         Parse, Stage.arg = kind
  PROVE  /\ Types' /\ Ahead(ring', uart', coming', v) /\ Len(ring') <= 1 /\ (~Esp => ring' = <<>>)
         /\ Keep(t) /\ Continue /\ Alone
<1>1. NumberAt(w, Len(t), kind) /\ Part(w, Len(t)) = t /\ Behind(w, Len(t)) = v
  BY NumeralAhead
<1>2. PICK n : n = Len(t)
  OBVIOUS
<1>3. /\ Types' /\ Keep(Part(w, n)) /\ Continue /\ Alone
      /\ Esp => Ahead(ring', uart', coming', Behind(w, n)) /\ Len(ring') = 1
      /\ ~Esp => Joins(uart', coming', Behind(w, n)) /\ ring' = ring
  BY <1>1, <1>2, ParseOn
<1>4. CASE Esp
  <2>1. Ahead(ring', uart', coming', v) /\ Len(ring') = 1
    BY <1>1, <1>2, <1>3, <1>4
  <2> QED BY <1>1, <1>2, <1>3, <1>4, <2>1
<1>5. CASE ~Esp
  <2>1. Joins(uart', coming', v) /\ ring' = <<>>
    BY <1>1, <1>2, <1>3, <1>5
  <2>2. uart' \in Chars
    BY <1>3 DEF Types
  <2>3. Ahead(<<>>, uart', coming', v)
    BY <2>1, <2>2, EmptyRing
  <2> QED BY <1>1, <1>2, <1>3, <1>5, <2>1, <2>3
<1> QED BY <1>4, <1>5

-----------------------------------------------------------------------------
(* The stages of a position *)

\* The reads x come next, and u is left.
Queued(x, t, u) == IF Len(x) = 2 THEN Then(t, x[1], Tail(t)) /\ Then(Tail(t), x[2], u)
                                 ELSE Then(t, x[1], u)

Rest(k) == From(Reading(input.fn), k)
FixKnown == hasfix = (input.fn # "getAGPSData")

\* Before the first peek().
AtFirst(r, w) == /\ Running /\ todo = Reads(input.fn) /\ ring = <<>> /\ GotTo(1, <<>>)
                 /\ hasfix = FALSE /\ w = r[1]

AtFix(r, w) == /\ Running /\ input.fn # "getAGPSData"
               /\ Then(todo, Fix(TRUE), Reading(input.fn))
               /\ Len(ring) = Lost(1) /\ GotTo(1, <<>>) /\ w = r[1]

\* Before field i: it is peeked at, ...
AtPeek(i, r, w) == /\ Running /\ FixKnown /\ input.fn = "getGPSInfo"
                   /\ Then(todo, Unless(i), Rest(2 * i))
                   /\ Len(ring) = (IF i = 1 THEN Lost(1) ELSE 0)
                   /\ GotTo(i, <<>>) /\ w = r[2 * i - 1]

\* ... or there is something to read.
AtField(i, r, w) == /\ Running /\ FixKnown /\ Field(i) # <<>>
                    /\ Queued(FieldRead(i), todo, Rest(2 * i))
                    /\ Len(ring) = Lost(i) /\ GotTo(i, <<>>) /\ w = r[2 * i - 1]

\* Between the characters and the number of a field.
AtNumber(i, r, w) ==
  /\ Running /\ FixKnown /\ OfBoth(FieldRead(i)) /\ Field(i) # <<>>
  /\ Then(todo, Read("parse", "float"), Rest(2 * i)) /\ ring = <<>>
  /\ \E n \in 0 .. Len(Field(i)) : /\ Numeral(Behind(Field(i), n), "float")
                                   /\ GotTo(i, Part(Field(i), n))
                                   /\ Joins(Behind(Field(i), n), r[2 * i], w)

\* Behind field i.
AtEnd(i, r, w) == /\ Running /\ FixKnown /\ todo = Rest(2 * i)
                  /\ Len(ring) <= 1 /\ GotTo(i, Received(i)) /\ w = r[2 * i]

AtReturn(w) == /\ result \in {"running", "ok"} /\ FixKnown /\ todo = <<>>
               /\ GotTo(Count, Received(Count)) /\ w = <<>>

PositionAt(r, w) == \/ AtFirst(r, w) \/ AtFix(r, w) \/ AtReturn(w)
                    \/ \E i \in 1 .. Count : \/ AtPeek(i, r, w) \/ AtField(i, r, w)
                                             \/ AtNumber(i, r, w) \/ AtEnd(i, r, w)

\* w is to be read, and what has been read and is left of the reads agrees with it.
OnPosition(r, w) == /\ Types /\ Ahead(ring, uart, coming, w) /\ (~Esp => ring = <<>>)
                    /\ PositionAt(r, w)

\* What a position is depends on what is sent alone.
LEMMA Unmoved ==
  ASSUME input' = input
  PROVE  /\ Esp' = Esp /\ Count' = Count /\ (Sound => Sound')
         /\ \A i : /\ Field(i)' = Field(i) /\ FieldRead(i)' = FieldRead(i) /\ Lost(i)' = Lost(i)
                   /\ Received(i)' = Received(i)
         /\ \A k : Rest(k)' = Rest(k)
<1>1. Esp' = Esp /\ Count' = Count /\ \A k : Rest(k)' = Rest(k)
  BY DEF Esp, Count, Rest
<1>2. \A i : Field(i)' = Field(i) /\ FieldRead(i)' = FieldRead(i) /\ Lost(i)' = Lost(i)
  BY <1>1 DEF Field, FieldRead, Lost
<1>3. \A i : Received(i)' = Received(i)
  BY <1>1 DEF Received, Cut
<1>4. Sound => Sound'
  BY <1>1, <1>3 DEF Sound, Described, Nothing, NothingIn, Readable
<1> QED BY <1>1, <1>2, <1>3, <1>4

\* The read that comes next is the one that is made.
LEMMA Acts ==
  ASSUME Next, ~Arrive, NEW h, NEW u, Then(todo, h, u)
  PROVE  /\ Stage = h /\ Tail(todo) = u
         /\ (h.op = "peek" => PeekAt) /\ (h.op = "read" => ReadChar)
         /\ (h.op = "find" => Find) /\ (h.op = "bytes" => ReadBytes)
         /\ (h.op \in {"wait", "clear"} => Wait)
         /\ (h.op = "fix" => SetFix) /\ (h.op = "parse" => Parse)
<1>1. Stage = h /\ Tail(todo) = u /\ todo # <<>>
  BY DEF Then, Stage
<1>2. \/ (PeekAt /\ h.op = "peek")
      \/ (ReadChar /\ h.op = "read")
      \/ (Find /\ h.op = "find")
      \/ (ReadBytes /\ h.op = "bytes")
      \/ (Wait /\ h.op \in {"wait", "clear"})
      \/ (SetFix /\ h.op = "fix")
      \/ (Parse /\ h.op = "parse")
      \/ (Store /\ h.op = "store")
  <2>1. ~Return
    BY <1>1 DEF Return
  <2>2. /\ (PeekAt => h.op = "peek") /\ (ReadChar => h.op = "read") /\ (Find => h.op = "find")
        /\ (ReadBytes => h.op = "bytes") /\ (Wait => h.op \in {"wait", "clear"})
        /\ (SetFix => h.op = "fix") /\ (Parse => h.op = "parse") /\ (Store => h.op = "store")
    <3>1. ASSUME NEW o, At(o) PROVE h.op = o
      BY <1>1, <3>1 DEF At
    <3>2. /\ (PeekAt => At("peek")) /\ (ReadChar => At("read")) /\ (Find => At("find"))
          /\ (ReadBytes => At("bytes")) /\ (Wait => At("wait") \/ At("clear"))
          /\ (SetFix => At("fix")) /\ (Parse => At("parse")) /\ (Store => At("store"))
      BY Zenon DEF PeekAt, ReadChar, Find, ReadBytes, Wait, SetFix, Parse, Store
    <3>3. At("wait") \/ At("clear") => h.op \in {"wait", "clear"}
      <4>1. (At("wait") => h.op = "wait") /\ (At("clear") => h.op = "clear")
        BY <3>1, Zenon
      <4> QED BY <4>1
    <3> QED BY <3>1, <3>2, <3>3, Zenon
  <2> QED BY <2>1, <2>2 DEF Next
<1> QED BY <1>1, <1>2

LEMMA Pair ==
  ASSUME NEW S, NEW a \in S, NEW b \in S
  PROVE  <<a>> \o <<b>> = <<a, b>>
<1>1. PICK y, z, t, w : y = <<a>> /\ z = <<b>> /\ t = <<a, b>> /\ w = y \o z
  OBVIOUS
<1>2. y \in Seq(S) /\ z \in Seq(S)
  BY <1>1
<1>3. Len(y) = 1 /\ Len(z) = 1 /\ y[1] = a /\ z[1] = b
  BY <1>1
<1>4. /\ w \in Seq(S) /\ Len(w) = Len(y) + Len(z)
      /\ \A i \in 1 .. Len(y) : w[i] = y[i]
      /\ \A i \in 1 .. Len(z) : w[Len(y) + i] = z[i]
  <2>1. Joins(y, z, w)
    BY <1>1 DEF Joins
  <2> QED BY ONLY <1>2, <2>1, Joined
<1>5. t \in Seq(S) /\ Len(t) = 2 /\ t[1] = a /\ t[2] = b
  BY <1>1
<1>6. Len(w) = 2 /\ w[1] = a /\ w[2] = b
  <2>1. 1 \in 1 .. Len(y) /\ 1 \in 1 .. Len(z) /\ Len(y) + 1 = 2
    BY <1>3
  <2> QED BY <1>3, <1>4, <2>1
<1>7. \A i \in 1 .. Len(w) : w[i] = t[i]
  BY <1>5, <1>6
<1>8. w = t
  BY ONLY <1>4, <1>5, <1>6, <1>7, SameElements
<1> QED BY <1>1, <1>8

\* What is in front of the reads of one field.
LEMMA QueuedReads ==
  ASSUME NEW S, NEW u \in Seq(S), NEW x, OfNumber(x) \/ OfChar(x) \/ OfBytes(x) \/ OfBoth(x)
  PROVE  Queued(x, x \o u, u)
<1>1. ASSUME NEW a, x = <<a>> PROVE Queued(x, x \o u, u)
  <2> DEFINE Q == S \cup {a}
  <2>1. u \in Seq(Q) /\ a \in Q
    <3>1. S \subseteq Q /\ a \in Q
      OBVIOUS
    <3> HIDE DEF Q
    <3> QED BY <3>1, SeqMonotonic, Zenon
  <2> HIDE DEF Q
  <2>2. Then(<<a>> \o u, a, u)
    BY <2>1, Popped
  <2>3. Len(x) = 1 /\ x[1] = a
    BY <1>1
  <2>4. Then(x \o u, x[1], u)
    BY <1>1, <2>2, <2>3
  <2> QED BY <2>3, <2>4 DEF Queued
<1>2. ASSUME NEW a, NEW b, x = <<a, b>> PROVE Queued(x, x \o u, u)
  <2> DEFINE Q == S \cup {a, b}
  <2>1. u \in Seq(Q) /\ a \in Q /\ b \in Q
    <3>1. S \subseteq Q /\ a \in Q /\ b \in Q
      OBVIOUS
    <3> HIDE DEF Q
    <3> QED BY <3>1, SeqMonotonic, Zenon
  <2> HIDE DEF Q
  <2>2. PICK v, y, z : v = <<b>> \o u /\ y = <<a>> /\ z = <<b>>
    OBVIOUS
  <2>3. v \in Seq(Q) /\ Then(v, b, u)
    BY <2>1, <2>2, Popped
  <2>4. Then(<<a>> \o v, a, v)
    BY <2>1, <2>3, Popped
  <2>5. x = y \o z
    <3>1. <<a>> \o <<b>> = <<a, b>>
      BY <2>1, Pair
    <3> QED BY <1>2, <2>2, <3>1
  <2>6. y \in Seq(Q) /\ z \in Seq(Q)
    BY <2>1, <2>2
  <2>7. x \o u = y \o v
    BY <2>1, <2>2, <2>5, <2>6, ConcatAssociative
  <2>8. Then(x \o u, a, v)
    BY <2>2, <2>4, <2>7
  <2>9. Len(x) = 2 /\ x[1] = a /\ x[2] = b
    BY <1>2
  <2>10. Tail(x \o u) = v
    BY <2>8 DEF Then
  <2> QED BY <2>3, <2>8, <2>9, <2>10 DEF Queued
<1> QED BY <1>1, <1>2 DEF OfNumber, OfChar, OfBytes, OfBoth

-----------------------------------------------------------------------------
(* From stage to stage *)

\* The reads from field i on: peek(), or those of the field itself.
LEMMA ReadsOfField ==
  ASSUME Sound, NEW i \in 1 .. Count, NEW t, t = Rest(2 * i - 1)
  PROVE  IF input.fn = "getGPSInfo" THEN Then(t, Unless(i), Rest(2 * i))
         ELSE Field(i) # <<>> /\ Queued(FieldRead(i), t, Rest(2 * i))
<1>1. input.fn \in Commands /\ Shape(input.fn, i, FieldRead(i)) /\ Count = Fields(input.fn)
  BY Fields1 DEF Count
<1>2. PICK s : s = Reading(input.fn)
  OBVIOUS
<1>3. PICK S : s \in Seq(S) /\ Len(s) = 2 * Count /\ s[2 * i - 1] = FirstReads(input.fn)[i]
  BY <1>1, <1>2, ReadingPlaces
<1>4. PICK k : k = 2 * i - 1
  OBVIOUS
<1>5. k \in 1 .. Len(s) /\ k + 1 = 2 * i
  <2>1. Count \in Nat
    BY DEF Count, Fields
  <2> QED BY <1>3, <1>4, <2>1
<1>6. Then(t, FirstReads(input.fn)[i], Rest(2 * i))
  <2>1. /\ From(s, k) # <<>> /\ Head(From(s, k)) = s[k] /\ Tail(From(s, k)) = From(s, k + 1)
    BY <1>3, <1>5, NextRead
  <2>2. t = From(s, k) /\ Rest(2 * i) = From(s, k + 1) /\ s[k] = FirstReads(input.fn)[i]
    BY <1>2, <1>3, <1>4, <1>5 DEF Rest
  <2> QED BY <2>1, <2>2 DEF Then
<1>7. CASE input.fn = "getGPSInfo"
  <2>1. FirstReads(input.fn)[i] = Unless(i)
    <3>1. i \in 1 .. 9
      BY <1>7 DEF Count, Fields
    <3> QED BY <1>7, <3>1 DEF FirstReads
  <2> QED BY <1>6, <1>7, <2>1
<1>8. CASE input.fn # "getGPSInfo"
  <2>1. Field(i) # <<>>
    BY <1>8, Fields1
  <2>2. FieldRead(i) = <<FirstReads(input.fn)[i]>>
    <3>1. CASE input.fn = "getGNSSInfo"
      <4>1. i \in 1 .. 16
        BY <3>1 DEF Count, Fields
      <4> QED BY <3>1, <4>1 DEF FirstReads, FieldRead, FieldReads
    <3>2. CASE input.fn = "getAGPSData"
      <4>1. i = 1
        BY <3>2 DEF Count, Fields
      <4> QED BY <3>2, <4>1 DEF FirstReads, FieldRead, FieldReads
    <3> QED BY <1>1, <1>8, <3>1, <3>2 DEF Commands
  <2>3. PICK x, h : x = FieldRead(i) /\ h = FirstReads(input.fn)[i]
    OBVIOUS
  <2>4. x = <<h>>
    BY <2>2, <2>3
  <2>5. Len(x) # 2 /\ x[1] = h
    BY <2>4
  <2>6. Queued(x, t, Rest(2 * i))
    BY <1>6, <2>3, <2>5 DEF Queued
  <2> QED BY <1>8, <2>1, <2>3, <2>6
<1> QED BY <1>7, <1>8

\* The same, when a field has been come to.
LEMMA FieldComes ==
  ASSUME Sound, input' = input, NEW i \in 1 .. Count, NEW r, todo' = Rest(2 * i - 1),
         Running', FixKnown', GotTo(i, <<>>)', Len(ring') = IF i = 1 THEN Lost(1) ELSE 0
  PROVE  AtPeek(i, r, r[2 * i - 1])' \/ AtField(i, r, r[2 * i - 1])'
<1>1. PICK t : t = todo' /\ t = Rest(2 * i - 1)
  OBVIOUS
<1>2. IF input.fn = "getGPSInfo" THEN Then(t, Unless(i), Rest(2 * i))
      ELSE Field(i) # <<>> /\ Queued(FieldRead(i), t, Rest(2 * i))
  BY <1>1, ReadsOfField
<1>3. /\ Field(i)' = Field(i) /\ FieldRead(i)' = FieldRead(i) /\ Lost(i)' = Lost(i) /\ Lost(1)' = Lost(1)
      /\ Rest(2 * i)' = Rest(2 * i)
  BY Unmoved
<1>4. CASE input.fn = "getGPSInfo"
  <2>1. Then(todo', Unless(i), Rest(2 * i)') /\ Len(ring') = IF i = 1 THEN Lost(1)' ELSE 0
    BY <1>1, <1>2, <1>3, <1>4
  <2>2. AtPeek(i, r, r[2 * i - 1])'
    BY <1>4, <2>1 DEF AtPeek, Then
  <2> QED BY <2>2
<1>5. CASE input.fn # "getGPSInfo"
  <2>1. Field(i)' # <<>> /\ Queued(FieldRead(i), t, Rest(2 * i))
    BY <1>2, <1>3, <1>5
  <2>2. Lost(i) = IF i = 1 THEN Lost(1) ELSE 0
    BY <1>5 DEF Lost, PeekedAt
  <2>3. Queued(FieldRead(i), todo, Rest(2 * i))'
    BY <1>1, <1>3, <2>1 DEF Queued, Then
  <2>4. Len(ring') = Lost(i)'
    BY <1>3, <2>2
  <2>5. AtField(i, r, r[2 * i - 1])'
    BY <2>1, <2>3, <2>4 DEF AtField
  <2> QED BY <2>5
<1> QED BY <1>4, <1>5

\* What is behind a field.
LEMMA BehindField ==
  ASSUME Sound, NEW r, PositionRests(r, input.sent), NEW i \in 1 .. Count
  PROVE  /\ r[2 * i - 1] \in Chars /\ r[2 * i] \in Chars /\ Joins(Field(i), r[2 * i], r[2 * i - 1])
         /\ Len(r[2 * i]) >= 1 /\ r[2 * i][1] \notin Digits /\ r[2 * i][1] # "."
         /\ r[2 * i][1] = IF i = Count THEN "\r" ELSE Comma
         /\ IF i = Count THEN Joins(Ending, <<>>, r[2 * i])
            ELSE Joins(Separator, r[2 * (i + 1) - 1], r[2 * i]) /\ r[2 * (i + 1) - 1] \in Chars
<1>1. input.sent \in Seq(Chars) /\ Len(input.sent) = Count /\ Count >= 1 /\ Count \in Nat
  BY DEF Sound, Described, Count, Fields
<1>2. /\ \A k \in 1 .. Count : r[2 * k - 1] \in Chars /\ r[2 * k] \in Chars
      /\ \A k \in 1 .. Count : Joins(input.sent[k], r[2 * k], r[2 * k - 1])
      /\ \A k \in 1 .. Count : k < Count => Joins(Separator, r[2 * (k + 1) - 1], r[2 * k])
      /\ Joins(Ending, <<>>, r[2 * Count])
  BY <1>1, PositionJoins
<1>3. r[2 * i - 1] \in Chars /\ r[2 * i] \in Chars /\ Joins(Field(i), r[2 * i], r[2 * i - 1])
  BY <1>2 DEF Field
<1>4. CASE i = Count
  <2>1. Joins(Ending, <<>>, r[2 * i]) /\ <<>> \in Chars
    BY <1>2, <1>4 DEF Chars
  <2>2. PICK v, e : v = r[2 * i] /\ e = <<>>
    OBVIOUS
  <2>3. Joins(Ending, e, v) /\ e \in Seq(Char) /\ Ending \in Seq(Char)
    BY <2>1, <2>2, EndingPiece DEF Chars
  <2>4. Len(v) = Len(Ending) + Len(e) /\ \A k \in 1 .. Len(Ending) : v[k] = Ending[k]
    BY <2>3, Joined
  <2>5. Len(v) >= 1 /\ v[1] = "\r"
    BY <2>2, <2>4, EndingPiece
  <2> QED BY <1>3, <1>4, <2>1, <2>2, <2>5, EndingPiece
<1>5. CASE i # Count
  <2>1. i < Count /\ i + 1 \in 1 .. Count
    BY <1>1, <1>5
  <2>2. Joins(Separator, r[2 * (i + 1) - 1], r[2 * i]) /\ r[2 * (i + 1) - 1] \in Chars
    BY <1>2, <2>1
  <2>3. PICK v, e : v = r[2 * i] /\ e = r[2 * (i + 1) - 1]
    OBVIOUS
  <2>4. Joins(Separator, e, v) /\ e \in Seq(Char) /\ Separator \in Seq(Char)
    BY <2>2, <2>3, ShortPieces DEF Chars
  <2>5. Len(v) = Len(Separator) + Len(e) /\ \A k \in 1 .. Len(Separator) : v[k] = Separator[k]
    BY <2>4, Joined
  <2>6. Separator[1] = Comma /\ Len(Separator) = 1
    BY ShortPieces DEF Separator
  <2>7. Len(v) >= 1 /\ v[1] = Comma
    <3>1. Len(e) \in Nat
      BY <2>4
    <3> QED BY <2>5, <2>6, <3>1
  <2> QED BY <1>3, <1>5, <2>2, <2>3, <2>7, Different
<1> QED BY <1>4, <1>5

\* No number begins with what the first peek() looks for.
LEMMA NumeralBegins ==
  ASSUME NEW s \in Chars, NEW kind, Numeral(s, kind)
  PROVE  Len(s) >= 1 /\ s[1] # Blank /\ s[1] # "s" /\ s[1] # "\r"
<1>1. Len(s) \in Nat /\ Len(s) >= 1 /\ 1 \in DOMAIN s
  BY EmptySeq DEF Numeral, Chars
<1>2. s[1] \in Digits \/ s[1] = "-" \/ s[1] = "."
  BY <1>1 DEF Numeral
<1>3. Blank # "-" /\ Blank # "." /\ Blank \notin Digits
  <2>1. Blank # "-" /\ Blank # "."
    BY Zenon DEF Blank
  <2> QED BY <2>1, Different
<1>4. "s" \notin Digits /\ "\r" \notin Digits /\ "s" # "-" /\ "s" # "." /\ "\r" # "-" /\ "\r" # "."
  BY DEF Digits
<1> QED BY <1>1, <1>2, <1>3, <1>4

LEMMA FieldKinds ==
  ASSUME Sound, NEW i \in 1 .. Count, Field(i) # <<>>
  PROVE  /\ Field(i) \in Chars /\ Len(Field(i)) >= 1 /\ Field(i)[1] # Comma
         /\ \/ NumberField(Field(i), FieldRead(i)) /\ OfNumber(FieldRead(i))
            \/ CharField(Field(i), FieldRead(i)) /\ ~OfNumber(FieldRead(i))
            \/ BytesField(Field(i), FieldRead(i)) /\ ~OfNumber(FieldRead(i))
            \/ BothField(Field(i), FieldRead(i)) /\ OfBoth(FieldRead(i)) /\ ~OfNumber(FieldRead(i))
<1>1. PICK s, x : s = Field(i) /\ x = FieldRead(i)
  OBVIOUS
<1>2. s \in Chars /\ IsField(s, x) /\ (OfNumber(x) \/ OfChar(x) \/ OfBytes(x) \/ OfBoth(x))
  BY <1>1, Fields1 DEF Shape
<1>3. /\ Len(s) >= 1 /\ s[1] # Comma
      /\ NumberField(s, x) \/ CharField(s, x) \/ BytesField(s, x) \/ BothField(s, x)
  BY <1>2, FieldContent
<1>4. /\ NumberField(s, x) => OfNumber(x)
      /\ CharField(s, x) => OfChar(x)
      /\ BytesField(s, x) => OfBytes(x)
      /\ BothField(s, x) => OfBoth(x)
  BY DEF NumberField, CharField, BytesField, BothField, OfNumber, OfBytes, OfBoth
<1>5. OfChar(x) \/ OfBytes(x) \/ OfBoth(x) => ~OfNumber(x)
  BY Apart
<1> QED BY <1>1, <1>2, <1>3, <1>4, <1>5

LEMMA NoFirstChar ==
  ASSUME Sound
  PROVE  1 \in 1 .. Count /\ Field(1) # <<>> /\ Field(1)[1] # FirstChar(input.fn)
<1>1. 1 \in 1 .. Count
  BY DEF Count, Fields
<1>2. input.fn \in Commands /\ Shape(input.fn, 1, FieldRead(1)) /\ Field(1) # <<>>
  BY <1>1, Fields1
<1>3. CASE input.fn = "getGPSInfo"
  <2>1. FirstChar(input.fn) = Comma
    BY <1>3 DEF FirstChar
  <2> QED BY <1>1, <1>2, <2>1, FieldKinds
<1>4. CASE input.fn # "getGPSInfo"
  <2>1. Peeked(input.fn) = {1}
    BY <1>2, <1>4 DEF Commands, Peeked
  <2>2. OfNumber(FieldRead(1))
    BY <1>2, <2>1 DEF Shape
  <2>3. Field(1) \in Chars /\ NumberField(Field(1), FieldRead(1))
    BY <1>1, <1>2, <2>2, FieldKinds
  <2>4. PICK kind : Numeral(Field(1), kind)
    BY <2>3 DEF NumberField
  <2>5. Field(1)[1] # Blank /\ Field(1)[1] # "s"
    BY <2>3, <2>4, NumeralBegins
  <2>6. FirstChar(input.fn) \in {Blank, "s"}
    BY <1>2, <1>4 DEF Commands, FirstChar
  <2> QED BY <1>1, <1>2, <2>5, <2>6
<1> QED BY <1>3, <1>4

-----------------------------------------------------------------------------
(* The steps of a position *)

LEMMA FirstPeekStep ==
  ASSUME Sound, NEW r, PositionRests(r, input.sent), NEW w, OnPosition(r, w), AtFirst(r, w),
         Next, ~Arrive, ~early'
  PROVE  OnPosition(r, w)'
<1>1. PICK call : call = input.fn
  OBVIOUS
<1>2. call \in Commands
  BY <1>1 DEF Sound, Described
<1>3. PICK no : /\ Then(Reads(call),
                        Peek(FirstChar(call), IF call = "getAGPSData" THEN <<>> ELSE <<Fix(FALSE)>>, no),
                        <<FinalRead(call)>>)
                /\ Follows(call, no \o <<FinalRead(call)>>)
  BY <1>2, ReadsBegin
<1>4. PICK h : h = Peek(FirstChar(call), IF call = "getAGPSData" THEN <<>> ELSE <<Fix(FALSE)>>, no)
  OBVIOUS
<1>5. h.op = "peek" /\ h.arg = FirstChar(call) /\ h.no = no
  BY <1>4, PeekFields
<1>6. Then(todo, h, <<FinalRead(call)>>)
  BY <1>1, <1>3, <1>4 DEF AtFirst
<1>7. PeekAt /\ Stage = h /\ Tail(todo) = <<FinalRead(call)>>
  BY <1>5, <1>6, Acts
<1>8. 1 \in 1 .. Count /\ Field(1) # <<>> /\ Field(1)[1] # FirstChar(call)
  BY <1>1, NoFirstChar
<1>9. w \in Chars /\ w # <<>> /\ w[1] = Field(1)[1]
  <2>1. w = r[2 * 1 - 1]
    BY DEF AtFirst
  <2>2. r[2 * 1 - 1] \in Chars /\ Joins(Field(1), r[2 * 1], r[2 * 1 - 1]) /\ r[2 * 1] \in Chars
    BY <1>8, BehindField
  <2>3. PICK v, f : v = r[2 * 1] /\ f = Field(1)
    OBVIOUS
  <2>4. Joins(f, v, w) /\ v \in Seq(Char) /\ f \in Seq(Char) /\ Len(f) >= 1
    BY <1>8, <2>1, <2>2, <2>3, FieldKinds DEF Chars
  <2>5. w \in Seq(Char) /\ Len(w) = Len(f) + Len(v) /\ \A i \in 1 .. Len(f) : w[i] = f[i]
    BY <2>4, Joined
  <2> QED BY <2>3, <2>4, <2>5 DEF Chars
<1>10. /\ Types' /\ Ahead(ring', uart', coming', w)
       /\ Esp /\ ring = <<>> => Len(ring') = 1
       /\ ~Esp \/ ring # <<>> => ring' = ring
       /\ todo' = (IF w[1] = Stage.arg THEN Stage.yes ELSE Stage.no) \o Tail(todo)
       /\ UNCHANGED <<input, coming, got, hasfix, memory, result>>
  BY <1>9, <1>7, PeekOn DEF OnPosition
<1>11. todo' = no \o <<FinalRead(call)>>
  BY <1>5, <1>7, <1>8, <1>9, <1>10
<1>12. Follows(call, todo')
  BY <1>3, <1>11
<1>13. ring = <<>> /\ Running /\ GotTo(1, <<>>) /\ hasfix = FALSE /\ w = r[1]
  BY DEF AtFirst
<1>14. Len(ring') = Lost(1)' /\ Lost(1)' = Lost(1)
  <2>1. Lost(1) = IF Esp THEN 1 ELSE 0
    BY <1>1, <1>2 DEF Lost, PeekedAt
  <2>2. Lost(1)' = Lost(1)
    BY <1>10, Unmoved
  <2>3. Len(ring') = Lost(1)
    BY <1>10, <1>13, <2>1
  <2> QED BY <2>2, <2>3
<1>15. GotTo(1, <<>>)' /\ Running' /\ (~Esp => ring = <<>>)'
  <2>1. GotTo(1, <<>>)'
    BY <1>10, <1>13, Unmoved DEF GotTo
  <2>2. Running'
    BY <1>10, <1>13 DEF Running
  <2>3. (~Esp => ring = <<>>)'
    BY <1>10, <1>13, Unmoved
  <2> QED BY <2>1, <2>2, <2>3
<1>16. PositionAt(r, w)'
  <2>1. CASE call = "getAGPSData"
    <3>1. todo' = Reading(call)
      BY <1>12, <2>1 DEF Follows
    <3>2. PICK S : Reading(call) \in Seq(S)
      BY <1>2, ReadingPlaces
    <3>3. todo' = Rest(2 * 1 - 1)
      BY <1>1, <3>1, <3>2, FirstRead DEF Rest
    <3>4. FixKnown'
      BY <1>1, <1>10, <1>13, <2>1 DEF FixKnown
    <3>5. AtPeek(1, r, r[2 * 1 - 1])' \/ AtField(1, r, r[2 * 1 - 1])'
      BY <1>8, <1>10, <1>14, <1>15, <3>3, <3>4, FieldComes
    <3>6. w = r[2 * 1 - 1] /\ 1 \in 1 .. Count'
      BY <1>8, <1>10, <1>13, Unmoved
    <3> QED BY <3>5, <3>6 DEF PositionAt
  <2>2. CASE call # "getAGPSData"
    <3>1. Then(todo', Fix(TRUE), Reading(call))
      BY <1>12, <2>2 DEF Follows
    <3>2. input'.fn = call
      BY <1>1, <1>10
    <3>3. AtFix(r, w)'
      BY <1>13, <1>14, <1>15, <2>2, <3>1, <3>2 DEF AtFix, Then
    <3> QED BY <3>3 DEF PositionAt
  <2> QED BY <2>1, <2>2
<1> QED BY <1>10, <1>15, <1>16 DEF OnPosition

LEMMA FixStep ==
  ASSUME Sound, NEW r, PositionRests(r, input.sent), NEW w, OnPosition(r, w), AtFix(r, w),
         Next, ~Arrive
  PROVE  OnPosition(r, w)'
<1>1. Then(todo, Fix(TRUE), Reading(input.fn)) /\ Fix(TRUE).op = "fix" /\ Fix(TRUE).arg = TRUE
  BY ReadFields DEF AtFix, Fix
<1>2. SetFix /\ Stage = Fix(TRUE) /\ Tail(todo) = Reading(input.fn)
  BY <1>1, Acts
<1>3. /\ hasfix' = TRUE /\ todo' = Reading(input.fn)
      /\ UNCHANGED <<input, coming, uart, ring, got, early, memory, result>>
  BY <1>1, <1>2 DEF SetFix, Continue
<1>4. input.fn \in Commands /\ 1 \in 1 .. Count
  BY NoFirstChar DEF Sound, Described
<1>5. todo' = Rest(2 * 1 - 1)
  <2>1. PICK S : Reading(input.fn) \in Seq(S)
    BY <1>4, ReadingPlaces
  <2> QED BY <1>3, <2>1, FirstRead DEF Rest
<1>6. FixKnown' /\ Running' /\ Len(ring') = Lost(1) /\ w = r[2 * 1 - 1]
  <2>1. FixKnown'
    <3>1. input'.fn # "getAGPSData" /\ hasfix' = TRUE
      BY <1>3 DEF AtFix
    <3> QED BY <3>1 DEF FixKnown
  <2>2. Running' /\ Len(ring') = Lost(1)
    BY <1>3 DEF AtFix, Running
  <2> QED BY <2>1, <2>2 DEF AtFix
<1>7. GotTo(1, <<>>)'
  BY <1>3, Unmoved DEF AtFix, GotTo
<1>8. AtPeek(1, r, r[2 * 1 - 1])' \/ AtField(1, r, r[2 * 1 - 1])'
  BY <1>3, <1>4, <1>5, <1>6, <1>7, FieldComes
<1>9. PositionAt(r, w)'
  BY <1>3, <1>4, <1>6, <1>8, Unmoved DEF PositionAt
<1>10. Types' /\ Ahead(ring', uart', coming', w) /\ (~Esp => ring = <<>>)'
  BY <1>3, Unmoved DEF OnPosition, Types
<1> QED BY <1>9, <1>10 DEF OnPosition

\* A field has been read.
LEMMA FieldEnds ==
  ASSUME Sound, NEW r, PositionRests(r, input.sent), NEW i \in 1 .. Count, input' = input, Types',
         Ahead(ring', uart', coming', r[2 * i]), (~Esp => ring = <<>>)', Len(ring') <= 1,
         Running, FixKnown, result' = result, hasfix' = hasfix, todo' = Rest(2 * i),
         NEW s, s = Received(i), GotTo(i, s)'
  PROVE  OnPosition(r, r[2 * i])'
<1>1. Rest(2 * i)' = Rest(2 * i) /\ Received(i)' = s /\ Count' = Count
  BY Unmoved
<1>2. Running' /\ FixKnown'
  BY DEF Running, FixKnown
<1>3. GotTo(i, Received(i))'
  BY <1>1 DEF GotTo
<1>4. AtEnd(i, r, r[2 * i])'
  BY <1>1, <1>2, <1>3 DEF AtEnd
<1>5. PositionAt(r, r[2 * i])'
  BY <1>1, <1>4 DEF PositionAt
<1> QED BY <1>5 DEF OnPosition

LEMMA PeekStep ==
  ASSUME Sound, NEW r, PositionRests(r, input.sent), NEW w, OnPosition(r, w),
         NEW i \in 1 .. Count, AtPeek(i, r, w), Next, ~Arrive, ~early'
  PROVE  OnPosition(r, w)'
<1>1. /\ Running /\ FixKnown /\ input.fn = "getGPSInfo" /\ Then(todo, Unless(i), Rest(2 * i))
      /\ Len(ring) = (IF i = 1 THEN Lost(1) ELSE 0) /\ GotTo(i, <<>>) /\ w = r[2 * i - 1]
  BY DEF AtPeek
<1>2. PICK h : h = Unless(i)
  OBVIOUS
<1>3. /\ h.op = "peek" /\ h.arg = (IF i = 9 THEN "\r" ELSE Comma) /\ h.yes = <<>>
      /\ h.no = FieldRead(i)
  <2>1. FieldRead(i) = gpsFields[i]
    BY <1>1 DEF FieldRead, FieldReads
  <2> QED BY <1>2, <2>1, PeekFields DEF Unless
<1>4. PeekAt /\ Stage = h /\ Tail(todo) = Rest(2 * i)
  BY <1>1, <1>2, <1>3, Acts
<1>5. PICK v, f : v = r[2 * i] /\ f = Field(i)
  OBVIOUS
<1>6. /\ w \in Chars /\ v \in Chars /\ f \in Chars /\ Joins(f, v, w) /\ Len(v) >= 1
      /\ v[1] = IF i = Count THEN "\r" ELSE Comma
  BY <1>1, <1>5, BehindField, Fields1
<1>7. /\ Len(w) = Len(f) + Len(v) /\ Len(f) \in Nat /\ Len(v) \in Nat
      /\ \A k \in 1 .. Len(f) : w[k] = f[k]
      /\ \A k \in 1 .. Len(v) : w[Len(f) + k] = v[k]
  BY <1>6, Joined DEF Chars
<1>8. w # <<>>
  BY <1>6, <1>7
<1>9. /\ Types' /\ Ahead(ring', uart', coming', w)
      /\ Esp /\ ring = <<>> => Len(ring') = 1
      /\ ~Esp \/ ring # <<>> => ring' = ring
      /\ todo' = (IF w[1] = Stage.arg THEN Stage.yes ELSE Stage.no) \o Tail(todo)
      /\ UNCHANGED <<input, coming, got, hasfix, memory, result>>
  BY <1>4, <1>6, <1>8, PeekOn DEF OnPosition
<1>10. Count = 9
  BY <1>1 DEF Count, Fields
<1>11. Len(ring') = Lost(i) /\ Lost(i) \in {0, 1} /\ (~Esp => ring = <<>>)' /\ Esp' = Esp
  <2>1. Lost(i) = (IF Esp THEN 1 ELSE 0) /\ Lost(1) = (IF Esp THEN 1 ELSE 0)
    BY <1>1, <1>10 DEF Lost, PeekedAt
  <2>2. Len(ring) \in Nat /\ (Len(ring) = 0 => ring = <<>>) /\ (ring = <<>> => Len(ring) = 0)
    BY EmptySeq DEF OnPosition, Types, Chars
  <2>3. Esp' = Esp
    BY <1>9, Unmoved
  <2> QED BY <1>1, <1>9, <2>1, <2>2, <2>3 DEF OnPosition
<1>12. Running' /\ FixKnown' /\ input'.fn = "getGPSInfo"
  BY <1>1, <1>9 DEF Running, FixKnown
<1>13. PICK S : Rest(2 * i) \in Seq(S)
  <2>1. PICK S : Reading(input.fn) \in Seq(S) /\ Len(Reading(input.fn)) = 2 * Count
    BY ReadingPlaces DEF Sound, Described, Count
  <2>2. 2 * i \in 1 .. Len(Reading(input.fn))
    BY <1>10, <2>1
  <2>3. Rest(2 * i) \in Seq(S)
    BY <2>1, <2>2, NextRead DEF Rest
  <2> QED BY <2>3
<1>14. CASE f = <<>>
  <2>1. w = v
    <3>1. <<>> \o v = v
      BY <1>6, ConcatEmptySeq DEF Chars
    <3> QED BY <1>6, <1>14, <3>1 DEF Joins
  <2>2. w[1] = Stage.arg
    BY <1>3, <1>4, <1>6, <1>10, <2>1
  <2>3. todo' = Rest(2 * i)
    <3>1. <<>> \o Rest(2 * i) = Rest(2 * i)
      BY <1>13, ConcatEmptySeq
    <3> QED BY <1>3, <1>4, <1>9, <2>2, <3>1
  <2>4. Received(i) = <<>>
    BY <1>5, <1>14, Fields1
  <2>5. GotTo(i, <<>>)'
    BY <1>1, <1>9, Unmoved DEF GotTo
  <2>6. Len(ring') <= 1 /\ result' = result /\ hasfix' = hasfix /\ input' = input
    BY <1>9, <1>11
  <2>7. OnPosition(r, r[2 * i])'
    BY <1>1, <1>5, <1>9, <1>11, <2>1, <2>3, <2>4, <2>5, <2>6, FieldEnds
  <2> QED BY <1>5, <2>1, <2>7
<1>15. CASE f # <<>>
  <2>1. Len(f) >= 1 /\ f[1] # Comma /\ (i = 9 => f[1] # "\r")
    <3>1. Len(f) >= 1 /\ f[1] # Comma
      BY <1>5, <1>15, FieldKinds
    <3>2. ASSUME i = 9 PROVE f[1] # "\r"
      <4>1. Shape(input.fn, i, FieldRead(i))
        BY Fields1
      <4>2. i \in Peeked(input.fn)
        BY <1>1, <3>2 DEF Peeked
      <4>3. OfNumber(FieldRead(i))
        BY <4>1, <4>2 DEF Shape
      <4>4. NumberField(f, FieldRead(i))
        BY <1>5, <1>15, <4>3, FieldKinds
      <4>5. PICK kind : Numeral(f, kind)
        BY <4>4 DEF NumberField
      <4> QED BY <1>6, <4>5, NumeralBegins
    <3> QED BY <3>1, <3>2
  <2>2. w[1] # Stage.arg
    <3>1. w[1] = f[1]
      BY <1>7, <2>1
    <3> QED BY <1>3, <1>4, <2>1, <3>1
  <2>3. todo' = FieldRead(i) \o Rest(2 * i)
    BY <1>3, <1>4, <1>9, <2>2
  <2>4. Queued(FieldRead(i), todo', Rest(2 * i))
    <3>1. OfNumber(FieldRead(i)) \/ OfChar(FieldRead(i)) \/ OfBytes(FieldRead(i)) \/ OfBoth(FieldRead(i))
      BY Fields1 DEF Shape
    <3>2. PICK x, u : x = FieldRead(i) /\ u = Rest(2 * i)
      OBVIOUS
    <3>3. Queued(x, x \o u, u)
      BY <1>13, <3>1, <3>2, QueuedReads
    <3> QED BY <2>3, <3>2, <3>3
  <2>5. /\ Field(i)' = Field(i) /\ FieldRead(i)' = FieldRead(i) /\ Lost(i)' = Lost(i)
        /\ Rest(2 * i)' = Rest(2 * i) /\ Count' = Count
    BY <1>9, Unmoved
  <2>6. Queued(FieldRead(i), todo, Rest(2 * i))'
    BY <2>4, <2>5 DEF Queued, Then
  <2>7. GotTo(i, <<>>)'
    BY <1>1, <1>9, Unmoved DEF GotTo
  <2>8. AtField(i, r, w)'
    BY <1>1, <1>5, <1>11, <1>12, <1>15, <2>5, <2>6, <2>7 DEF AtField
  <2>9. PositionAt(r, w)'
    BY <2>5, <2>8 DEF PositionAt
  <2> QED BY <1>9, <1>11, <2>9 DEF OnPosition
<1> QED BY <1>14, <1>15

\* The first read of a field, and of its characters the ones that the ring may hold.
LEMMA FieldBegins ==
  ASSUME Sound, NEW r, PositionRests(r, input.sent), NEW w, OnPosition(r, w),
         NEW i \in 1 .. Count, AtField(i, r, w)
  PROVE  /\ Field(i) \in Chars /\ r[2 * i] \in Chars /\ w \in Chars /\ Joins(Field(i), r[2 * i], w)
         /\ Len(Field(i)) \in Nat /\ Len(Field(i)) >= 1 /\ Lost(i) \in {0, 1} /\ Len(ring) = Lost(i)
         /\ Running /\ FixKnown /\ Queued(FieldRead(i), todo, Rest(2 * i)) /\ GotTo(i, <<>>)
         /\ Types /\ Ahead(ring, uart, coming, w) /\ (~Esp => ring = <<>>)
<1>1. /\ w = r[2 * i - 1] /\ Field(i) # <<>> /\ Len(ring) = Lost(i)
      /\ Running /\ FixKnown /\ Queued(FieldRead(i), todo, Rest(2 * i)) /\ GotTo(i, <<>>)
  BY DEF AtField
<1>2. Field(i) \in Chars /\ r[2 * i] \in Chars /\ w \in Chars /\ Joins(Field(i), r[2 * i], w)
  BY <1>1, BehindField, Fields1
<1>3. Len(Field(i)) \in Nat /\ Len(Field(i)) >= 1
  BY <1>1, <1>2, FieldKinds DEF Chars
<1>4. Lost(i) \in {0, 1}
  BY DEF Lost
<1> QED BY <1>1, <1>2, <1>3, <1>4 DEF OnPosition

LEMMA NumberStep ==
  ASSUME Sound, NEW r, PositionRests(r, input.sent), NEW w, OnPosition(r, w),
         NEW i \in 1 .. Count, AtField(i, r, w), NumberField(Field(i), FieldRead(i)), Next, ~Arrive
  PROVE  OnPosition(r, r[2 * i])'
<1>1. PICK f, v, n : f = Field(i) /\ v = r[2 * i] /\ n = Lost(i)
  OBVIOUS
<1>2. /\ f \in Chars /\ v \in Chars /\ w \in Chars /\ Joins(f, v, w) /\ Len(f) \in Nat
      /\ Len(ring) = n /\ Running /\ FixKnown /\ Queued(FieldRead(i), todo, Rest(2 * i)) /\ GotTo(i, <<>>)
      /\ Types /\ Ahead(ring, uart, coming, w) /\ (~Esp => ring = <<>>)
  BY <1>1, FieldBegins
<1>3. PICK t : t = Received(i)
  OBVIOUS
<1>4. /\ t = Behind(f, n) /\ t \in Chars /\ NumberField(t, FieldRead(i)) /\ (Esp => Len(t) < NumberLen)
      /\ n \in {0, 1} /\ n <= Len(f)
  BY <1>1, <1>3, ReceivedNumber DEF AtField
<1>5. PICK kind \in {"int", "float"} : FieldRead(i) = <<Read("parse", kind)>> /\ Numeral(t, kind)
  BY <1>4 DEF NumberField
<1>6. PICK h, x : h = Read("parse", kind) /\ x = FieldRead(i)
  OBVIOUS
<1>7. h.op = "parse" /\ h.arg = kind
  BY <1>6, ReadFields
<1>8. Then(todo, h, Rest(2 * i))
  <2>1. x = <<h>>
    BY <1>5, <1>6
  <2>2. Len(x) # 2 /\ x[1] = h
    BY <2>1
  <2> QED BY <1>2, <1>6, <2>2 DEF Queued
<1>9. Parse /\ Stage.arg = kind /\ Tail(todo) = Rest(2 * i)
  BY <1>7, <1>8, Acts
<1>10. PICK u : u = Behind(w, n)
  OBVIOUS
<1>11. Joins(uart, coming, u)
  BY <1>2, <1>10, BehindRing DEF Types
<1>12. Joins(t, v, u)
  <2>1. n \in 0 .. Len(f)
    BY <1>2, <1>4
  <2>2. Joins(Behind(f, n), v, Behind(w, n))
    BY <1>2, <2>1, Taking DEF Chars
  <2> QED BY <1>4, <1>10, <2>2
<1>13. Len(v) >= 1 /\ v[1] \notin Digits /\ v[1] # "."
  BY <1>1, BehindField
<1>14. /\ Types' /\ Ahead(ring', uart', coming', v) /\ Len(ring') <= 1 /\ (~Esp => ring' = <<>>)
       /\ Keep(t) /\ Continue /\ Alone
  BY <1>2, <1>4, <1>5, <1>9, <1>11, <1>12, <1>13, ParseField
<1>15. input' = input /\ result' = result /\ hasfix' = hasfix /\ todo' = Rest(2 * i)
  BY <1>9, <1>14 DEF Alone, Continue
<1>16. GotTo(i, t)'
  <2>1. <<>> \in Chars /\ Joins(<<>>, t, t)
    BY <1>4, ConcatEmptySeq DEF Chars, Joins
  <2>2. i \in Nat \ {0}
    OBVIOUS
  <2>3. PICK e : e = <<>>
    OBVIOUS
  <2>4. e \in Chars /\ Joins(e, t, t) /\ GotTo(i, e)
    BY <1>2, <2>1, <2>3
  <2> QED BY <1>4, <1>14, <1>15, <2>2, <2>4, GotMore
<1>17. (~Esp => ring = <<>>)'
  BY <1>14, <1>15, Unmoved
<1> QED BY <1>1, <1>2, <1>3, <1>14, <1>15, <1>16, <1>17, FieldEnds

\* Characters from the beginning of a field.
LEMMA FieldPart ==
  ASSUME NEW f \in Chars, NEW v \in Chars, NEW w, Joins(f, v, w), NEW n \in 0 .. Len(f)
  PROVE  /\ Part(w, n) = Part(f, n) /\ Part(f, n) \in Chars /\ n \in 0 .. Len(w)
         /\ Joins(Behind(f, n), v, Behind(w, n)) /\ Behind(f, n) \in Chars
         /\ n = Len(f) => Part(f, n) = f /\ Behind(w, n) = v
<1>1. Part(f, n) = Part(w, n) /\ n \in 0 .. Len(w) /\ Joins(Behind(f, n), v, Behind(w, n))
  BY Taking DEF Chars
<1>2. Part(f, n) \in Chars /\ Behind(f, n) \in Chars
  BY Parts DEF Chars
<1>3. ASSUME n = Len(f) PROVE Part(f, n) = f /\ Behind(w, n) = v
  BY <1>1, <1>3, Prefix, Suffix DEF Chars
<1> QED BY <1>1, <1>2, <1>3

LEMMA CharStep ==
  ASSUME Sound, NEW r, PositionRests(r, input.sent), NEW w, OnPosition(r, w),
         NEW i \in 1 .. Count, AtField(i, r, w), CharField(Field(i), FieldRead(i)),
         ~OfNumber(FieldRead(i)), Next, ~Arrive, ~early'
  PROVE  OnPosition(r, r[2 * i])'
<1>1. PICK f, v, n : f = Field(i) /\ v = r[2 * i] /\ n = Lost(i)
  OBVIOUS
<1>2. /\ f \in Chars /\ v \in Chars /\ w \in Chars /\ Joins(f, v, w) /\ Len(f) \in Nat
      /\ Len(ring) = n /\ Running /\ FixKnown /\ Queued(FieldRead(i), todo, Rest(2 * i)) /\ GotTo(i, <<>>)
      /\ Types /\ Ahead(ring, uart, coming, w) /\ (~Esp => ring = <<>>) /\ n \in {0, 1}
  BY <1>1, FieldBegins
<1>3. f = Received(i)
  BY <1>1, ReceivedPlain DEF AtField
<1>4. FieldRead(i) = <<Read("read", 1)>> /\ Len(f) = 1
  BY <1>1 DEF CharField, OfChar
<1>5. PICK h, x : h = Read("read", 1) /\ x = FieldRead(i)
  OBVIOUS
<1>6. h.op = "read"
  BY <1>5, ReadFields
<1>7. Then(todo, h, Rest(2 * i))
  <2>1. x = <<h>>
    BY <1>4, <1>5
  <2>2. Len(x) # 2 /\ x[1] = h
    BY <2>1
  <2> QED BY <1>2, <1>5, <2>2 DEF Queued
<1>8. ReadChar /\ Tail(todo) = Rest(2 * i)
  BY <1>6, <1>7, Acts
<1>9. Part(w, 1) = f /\ Behind(w, 1) = v /\ w # <<>>
  <2>1. 1 \in 0 .. Len(f)
    BY <1>4
  <2>2. Part(w, 1) = f /\ Behind(w, 1) = v /\ 1 \in 0 .. Len(w)
    <3>1. PICK m : m = 1
      OBVIOUS
    <3>2. m \in 0 .. Len(f) /\ m = Len(f)
      BY <1>4, <2>1, <3>1
    <3>3. Part(w, m) = Part(f, m) /\ m \in 0 .. Len(w) /\ Part(f, m) = f /\ Behind(w, m) = v
      BY <1>2, <3>2, FieldPart
    <3> QED BY <3>1, <3>3
  <2>3. w # <<>>
    BY <2>2
  <2> QED BY <2>2, <2>3
<1>10. /\ Types' /\ Ahead(ring', uart', coming', Behind(w, 1))
       /\ Len(ring) <= 1 => ring' = <<>>
       /\ Keep(Part(w, 1)) /\ Continue
       /\ UNCHANGED <<input, coming, hasfix, memory, result>>
  BY <1>2, <1>8, <1>9, CharOn
<1>11. ring' = <<>> /\ Len(ring') <= 1 /\ Ahead(ring', uart', coming', v) /\ Keep(f)
  BY <1>2, <1>9, <1>10
<1>12. input' = input /\ result' = result /\ hasfix' = hasfix /\ todo' = Rest(2 * i)
  BY <1>8, <1>10 DEF Continue
<1>13. GotTo(i, f)'
  <2>1. <<>> \in Chars /\ Joins(<<>>, f, f)
    BY <1>2, ConcatEmptySeq DEF Chars, Joins
  <2>2. PICK e : e = <<>>
    OBVIOUS
  <2>3. e \in Chars /\ Joins(e, f, f) /\ GotTo(i, e) /\ i \in Nat \ {0}
    BY <1>2, <2>1, <2>2
  <2> QED BY <1>2, <1>11, <1>12, <2>3, GotMore
<1>14. (~Esp => ring = <<>>)'
  BY <1>11
<1> QED BY <1>1, <1>2, <1>3, <1>10, <1>11, <1>12, <1>13, <1>14, FieldEnds

LEMMA BytesStep ==
  ASSUME Sound, NEW r, PositionRests(r, input.sent), NEW w, OnPosition(r, w),
         NEW i \in 1 .. Count, AtField(i, r, w), BytesField(Field(i), FieldRead(i)),
         ~OfNumber(FieldRead(i)), Next, ~Arrive
  PROVE  OnPosition(r, r[2 * i])'
<1>1. PICK f, v : f = Field(i) /\ v = r[2 * i]
  OBVIOUS
<1>2. /\ f \in Chars /\ v \in Chars /\ w \in Chars /\ Joins(f, v, w) /\ Len(f) \in Nat /\ Len(f) >= 1
      /\ Len(ring) <= 1 /\ Running /\ FixKnown /\ Queued(FieldRead(i), todo, Rest(2 * i)) /\ GotTo(i, <<>>)
      /\ Types /\ Ahead(ring, uart, coming, w) /\ (~Esp => ring = <<>>)
  BY <1>1, FieldBegins
<1>3. f = Received(i)
  BY <1>1, ReceivedPlain DEF AtField
<1>4. PICK n \in Nat \ {0} : FieldRead(i) = <<Read("bytes", n)>> /\ Len(f) = n
  BY <1>1 DEF BytesField
<1>5. PICK h, x : h = Read("bytes", n) /\ x = FieldRead(i)
  OBVIOUS
<1>6. h.op = "bytes" /\ h.arg = n
  BY <1>5, ReadFields
<1>7. Then(todo, h, Rest(2 * i))
  <2>1. x = <<h>>
    BY <1>4, <1>5
  <2>2. Len(x) # 2 /\ x[1] = h
    BY <2>1
  <2> QED BY <1>2, <1>5, <2>2 DEF Queued
<1>8. ReadBytes /\ Stage.arg = n /\ Tail(todo) = Rest(2 * i)
  BY <1>6, <1>7, Acts
<1>9. Part(w, n) = f /\ Behind(w, n) = v /\ n \in 0 .. Len(w)
  <2>1. n \in 0 .. Len(f)
    BY <1>2, <1>4
  <2> QED BY <1>2, <1>4, <2>1, FieldPart
<1>10. /\ Types' /\ Ahead(ring', uart', coming', Behind(w, n))
       /\ Len(ring) <= n => ring' = <<>>
       /\ Keep(Part(w, n)) /\ Continue /\ Alone
  BY <1>2, <1>8, <1>9, BytesOn
<1>11. ring' = <<>> /\ Len(ring') <= 1 /\ Ahead(ring', uart', coming', v) /\ Keep(f)
  <2>1. Len(ring) <= n
    <3>1. Len(ring) \in Nat
      BY <1>2 DEF Types, Chars
    <3> QED BY <1>2, <1>4, <3>1
  <2> QED BY <1>9, <1>10, <2>1
<1>12. input' = input /\ result' = result /\ hasfix' = hasfix /\ todo' = Rest(2 * i)
  BY <1>8, <1>10 DEF Continue, Alone
<1>13. GotTo(i, f)'
  <2>1. <<>> \in Chars /\ Joins(<<>>, f, f)
    BY <1>2, ConcatEmptySeq DEF Chars, Joins
  <2>2. PICK e : e = <<>>
    OBVIOUS
  <2>3. e \in Chars /\ Joins(e, f, f) /\ GotTo(i, e) /\ i \in Nat \ {0}
    BY <1>2, <2>1, <2>2
  <2> QED BY <1>2, <1>11, <1>12, <2>3, GotMore
<1>14. (~Esp => ring = <<>>)'
  BY <1>11
<1> QED BY <1>1, <1>2, <1>3, <1>10, <1>11, <1>12, <1>13, <1>14, FieldEnds

\* The characters of a field that has a number behind them.
LEMMA BothStep ==
  ASSUME Sound, NEW r, PositionRests(r, input.sent), NEW w, OnPosition(r, w),
         NEW i \in 1 .. Count, AtField(i, r, w), BothField(Field(i), FieldRead(i)), Next, ~Arrive
  PROVE  \E u : OnPosition(r, u)'
<1>1. PICK f, v : f = Field(i) /\ v = r[2 * i]
  OBVIOUS
<1>2. /\ f \in Chars /\ v \in Chars /\ w \in Chars /\ Joins(f, v, w) /\ Len(f) \in Nat /\ Len(f) >= 1
      /\ Len(ring) \in {0, 1} /\ Running /\ FixKnown /\ Queued(FieldRead(i), todo, Rest(2 * i))
      /\ GotTo(i, <<>>) /\ Types /\ Ahead(ring, uart, coming, w)
  BY <1>1, FieldBegins
<1>3. PICK n \in Nat \ {0} : /\ FieldRead(i) = <<Read("bytes", n), Read("parse", "float")>> /\ Len(f) >= n
                             /\ Numeral(Behind(f, n), "float")
  BY <1>1 DEF BothField
<1>4. PICK h, e, x : h = Read("bytes", n) /\ e = Read("parse", "float") /\ x = FieldRead(i)
  OBVIOUS
<1>5. h.op = "bytes" /\ h.arg = n
  BY <1>4, ReadFields
<1>6. Then(todo, h, Tail(todo)) /\ Then(Tail(todo), e, Rest(2 * i))
  <2>1. x = <<h, e>>
    BY <1>3, <1>4
  <2>2. Len(x) = 2 /\ x[1] = h /\ x[2] = e
    BY <2>1
  <2> QED BY <1>2, <1>4, <2>2 DEF Queued
<1>7. ReadBytes /\ Stage.arg = n
  BY <1>5, <1>6, Acts
<1>8. PICK p, q, u : p = Part(f, n) /\ q = Behind(f, n) /\ u = Behind(w, n)
  OBVIOUS
<1>9. n \in 0 .. Len(f) /\ Part(w, n) = p /\ Joins(q, v, u) /\ p \in Chars /\ q \in Chars /\ n \in 0 .. Len(w)
  <2>1. n \in 0 .. Len(f)
    BY <1>2, <1>3
  <2> QED BY <1>2, <1>8, <2>1, FieldPart
<1>10. /\ Types' /\ Ahead(ring', uart', coming', u)
       /\ Len(ring) <= n => ring' = <<>>
       /\ Keep(p) /\ Continue /\ Alone
  BY <1>2, <1>7, <1>8, <1>9, BytesOn
<1>11. ring' = <<>>
  <2>1. Len(ring) <= n
    <3>1. PICK m : m = Len(ring)
      OBVIOUS
    <3>2. m \in {0, 1} /\ n \in Nat /\ n >= 1
      BY <1>2, <1>3, <3>1
    <3>3. m <= n
      BY <3>2
    <3> QED BY <3>1, <3>3
  <2> QED BY <1>10, <2>1
<1>12. input' = input /\ result' = result /\ hasfix' = hasfix /\ todo' = Tail(todo)
  BY <1>10 DEF Continue, Alone
<1>13. GotTo(i, p)'
  <2>1. <<>> \in Chars /\ Joins(<<>>, p, p)
    BY <1>9, ConcatEmptySeq DEF Chars, Joins
  <2>2. PICK d : d = <<>>
    OBVIOUS
  <2>3. d \in Chars /\ Joins(d, p, p) /\ GotTo(i, d) /\ i \in Nat \ {0}
    BY <1>2, <2>1, <2>2
  <2> QED BY <1>9, <1>10, <1>12, <2>3, GotMore
<1>14. /\ Field(i)' = f /\ FieldRead(i)' = x /\ Rest(2 * i)' = Rest(2 * i) /\ Count' = Count
  BY <1>1, <1>4, <1>12, Unmoved
<1>15. Running' /\ FixKnown'
  BY <1>2, <1>12 DEF Running, FixKnown
<1>16. OfBoth(x) /\ f # <<>>
  <2>1. OfBoth(x)
    BY <1>3, <1>4 DEF OfBoth
  <2> QED BY <1>2, <2>1
<1>17. Then(todo', Read("parse", "float"), Rest(2 * i)')
  BY <1>4, <1>6, <1>12, <1>14
<1>18. AtNumber(i, r, u)'
  <2>1. (/\ n \in 0 .. Len(Field(i)) /\ Numeral(Behind(Field(i), n), "float")
         /\ GotTo(i, Part(Field(i), n)) /\ Joins(Behind(Field(i), n), r[2 * i], u))'
    <3>1. (n \in 0 .. Len(Field(i)) /\ Numeral(Behind(Field(i), n), "float")
             /\ Joins(Behind(Field(i), n), r[2 * i], u))'
      BY <1>1, <1>3, <1>8, <1>9, <1>14
    <3>2. Part(Field(i), n)' = p
      BY <1>8, <1>14
    <3>3. GotTo(i, Part(Field(i), n))'
      BY <1>13, <3>2 DEF GotTo
    <3> QED BY <3>1, <3>3
  <2> QED BY <1>1, <1>11, <1>14, <1>15, <1>16, <1>17, <2>1 DEF AtNumber, Then
<1>19. PositionAt(r, u)'
  BY <1>14, <1>18 DEF PositionAt
<1>20. OnPosition(r, u)'
  BY <1>10, <1>11, <1>19 DEF OnPosition
<1> QED BY <1>20

\* ... and the number.
LEMMA LastNumberStep ==
  ASSUME Sound, NEW r, PositionRests(r, input.sent), NEW w, OnPosition(r, w),
         NEW i \in 1 .. Count, AtNumber(i, r, w), Next, ~Arrive
  PROVE  OnPosition(r, r[2 * i])'
<1>1. PICK f, v : f = Field(i) /\ v = r[2 * i]
  OBVIOUS
<1>2. /\ Running /\ FixKnown /\ OfBoth(FieldRead(i)) /\ f # <<>>
      /\ Then(todo, Read("parse", "float"), Rest(2 * i)) /\ ring = <<>>
  BY <1>1 DEF AtNumber
<1>3. PICK n \in 0 .. Len(f) : /\ Numeral(Behind(f, n), "float") /\ GotTo(i, Part(f, n))
                               /\ Joins(Behind(f, n), v, w)
  BY <1>1 DEF AtNumber
<1>4. /\ f \in Chars /\ v \in Chars /\ Len(v) >= 1 /\ v[1] \notin Digits /\ v[1] # "." /\ Len(f) \in Nat
      /\ Types /\ Ahead(ring, uart, coming, w)
  BY <1>1, BehindField, Fields1 DEF OnPosition, Chars
<1>5. PICK p, t : p = Part(f, n) /\ t = Behind(f, n)
  OBVIOUS
<1>6. p \in Chars /\ t \in Chars /\ Joins(p, t, f) /\ Len(t) = Len(f) - n
  BY <1>3, <1>4, <1>5, Parts, Cutting DEF Chars
<1>7. ~OfNumber(FieldRead(i))
  BY <1>2, Apart
<1>8. Received(i) = f /\ (Esp => Len(f) < NumberLen)
  BY <1>1, <1>2, <1>7, ReceivedPlain
<1>9. Esp => Len(t) < NumberLen
  <2>1. NumberLen \in Nat
    BY LengthsAssumption DEF LengthsAssumption
  <2> QED BY <1>3, <1>4, <1>6, <1>8, <2>1
<1>10. PICK h : h = Read("parse", "float")
  OBVIOUS
<1>11. h.op = "parse" /\ h.arg = "float" /\ Then(todo, h, Rest(2 * i))
  BY <1>2, <1>10, ReadFields
<1>12. Parse /\ Stage.arg = "float" /\ Tail(todo) = Rest(2 * i)
  BY <1>11, Acts
<1>13. Joins(uart, coming, w)
  <2>1. Ahead(<<>>, uart, coming, w)
    BY <1>2, <1>4
  <2> QED BY <1>4, <2>1, EmptyRing DEF Types
<1>14. /\ Types' /\ Ahead(ring', uart', coming', v) /\ Len(ring') <= 1 /\ (~Esp => ring' = <<>>)
       /\ Keep(t) /\ Continue /\ Alone
  <2>1. Joins(t, v, w) /\ Numeral(t, "float") /\ (~Esp => ring = <<>>)
    BY <1>2, <1>3, <1>5
  <2>2. PICK kind \in {"int", "float"} : kind = "float"
    OBVIOUS
  <2>3. Numeral(t, kind) /\ Stage.arg = kind
    BY <1>12, <2>1, <2>2
  <2> QED BY <1>4, <1>6, <1>9, <1>12, <1>13, <2>1, <2>3, ParseField
<1>15. input' = input /\ result' = result /\ hasfix' = hasfix /\ todo' = Rest(2 * i)
  BY <1>12, <1>14 DEF Alone, Continue
<1>16. GotTo(i, f)'
  <2>1. GotTo(i, p) /\ i \in Nat \ {0}
    BY <1>3, <1>5
  <2> QED BY <1>6, <1>14, <1>15, <2>1, GotMore
<1>17. (~Esp => ring = <<>>)'
  BY <1>14, <1>15, Unmoved
<1> QED BY <1>1, <1>2, <1>8, <1>14, <1>15, <1>16, <1>17, FieldEnds

\* find() between two fields.
LEMMA SeparatorStep ==
  ASSUME Sound, NEW r, PositionRests(r, input.sent), NEW w, OnPosition(r, w),
         NEW i \in 1 .. Count, i # Count, AtEnd(i, r, w), Next, ~Arrive
  PROVE  OnPosition(r, r[2 * (i + 1) - 1])'
<1>1. /\ Running /\ FixKnown /\ todo = Rest(2 * i) /\ Len(ring) <= 1 /\ GotTo(i, Received(i)) /\ w = r[2 * i]
  BY DEF AtEnd
<1>2. i \in Nat \ {0} /\ i + 1 \in 1 .. Count /\ i < Count /\ Count \in Nat
  BY DEF Count, Fields
<1>3. PICK s, k : s = Reading(input.fn) /\ k = 2 * i
  OBVIOUS
<1>4. PICK S : s \in Seq(S) /\ Len(s) = 2 * Count /\ s[k] = find(Comma)
  BY <1>2, <1>3, ReadingPlaces DEF Sound, Described, Count
<1>5. k \in 1 .. Len(s) /\ k + 1 = 2 * (i + 1) - 1
  BY <1>2, <1>3, <1>4
<1>6. Then(todo, find(Comma), Rest(2 * (i + 1) - 1))
  <2>1. From(s, k) # <<>> /\ Head(From(s, k)) = s[k] /\ Tail(From(s, k)) = From(s, k + 1)
    BY <1>4, <1>5, NextRead
  <2>2. todo = From(s, k) /\ Rest(2 * (i + 1) - 1) = From(s, k + 1)
    BY <1>1, <1>3, <1>5 DEF Rest
  <2> QED BY <1>4, <2>1, <2>2 DEF Then
<1>7. find(Comma).op = "find" /\ find(Comma).arg = Comma
  BY ReadFields DEF find
<1>8. Find /\ Stage.arg = Comma /\ Tail(todo) = Rest(2 * (i + 1) - 1)
  BY <1>6, <1>7, Acts
<1>9. PICK v : v = r[2 * (i + 1) - 1]
  OBVIOUS
<1>10. Joins(Separator, v, w) /\ v \in Chars
  BY <1>1, <1>9, BehindField
<1>11. /\ Types' /\ Ahead(ring', uart', coming', v) /\ ring' = <<>>
       /\ got' = Append(got, <<>>) /\ Continue /\ Alone
  <2>1. Types /\ Ahead(ring, uart, coming, w)
    BY DEF OnPosition
  <2>2. PICK x : x = Separator
    OBVIOUS
  <2>3. x \in Chars /\ Joins(x, v, w) /\ FirstAt(x, Len(x), Comma) /\ Len(ring) <= Len(x)
    BY <1>1, <1>10, <2>2, ShortPieces
  <2> QED BY <1>8, <1>10, <2>1, <2>3, FindAhead
<1>12. input' = input /\ result' = result /\ hasfix' = hasfix /\ todo' = Rest(2 * (i + 1) - 1)
  BY <1>8, <1>11 DEF Alone, Continue
<1>13. GotTo(i + 1, <<>>)'
  BY <1>1, <1>2, <1>11, <1>12, GotNext
<1>14. Running' /\ FixKnown' /\ Len(ring') = 0 /\ i + 1 # 1
  BY <1>1, <1>2, <1>11, <1>12 DEF Running, FixKnown
<1>15. AtPeek(i + 1, r, r[2 * (i + 1) - 1])' \/ AtField(i + 1, r, r[2 * (i + 1) - 1])'
  <2>1. PICK j : j = i + 1
    OBVIOUS
  <2>2. j \in 1 .. Count /\ todo' = Rest(2 * j - 1) /\ GotTo(j, <<>>)' /\ Len(ring') = IF j = 1 THEN Lost(1) ELSE 0
    BY <1>2, <1>12, <1>13, <1>14, <2>1
  <2>3. AtPeek(j, r, r[2 * j - 1])' \/ AtField(j, r, r[2 * j - 1])'
    BY <1>12, <1>14, <2>2, FieldComes
  <2> QED BY <2>1, <2>3
<1>16. PositionAt(r, v)'
  <2>1. i + 1 \in 1 .. Count'
    BY <1>2, <1>12, Unmoved
  <2> QED BY <1>9, <1>15, <2>1 DEF PositionAt
<1> QED BY <1>9, <1>11, <1>16 DEF OnPosition

\* The wait for the end.
LEMMA LastWaitStep ==
  ASSUME Sound, NEW r, PositionRests(r, input.sent), NEW w, OnPosition(r, w),
         AtEnd(Count, r, w), Next, ~Arrive
  PROVE  \E u : OnPosition(r, u)'
<1>1. /\ Running /\ FixKnown /\ todo = Rest(2 * Count) /\ Len(ring) <= 1
      /\ GotTo(Count, Received(Count)) /\ w = r[2 * Count]
  BY DEF AtEnd
<1>2. Count \in 1 .. Count /\ Count \in Nat /\ Count >= 1
  BY DEF Count, Fields
<1>3. PICK s, k : s = Reading(input.fn) /\ k = 2 * Count
  OBVIOUS
<1>4. PICK S : s \in Seq(S) /\ Len(s) = k /\ s[k] = FinalRead(input.fn)
  BY <1>2, <1>3, ReadingPlaces DEF Sound, Described, Count
<1>5. k \in 1 .. Len(s)
  BY <1>2, <1>3, <1>4
<1>6. Then(todo, FinalRead(input.fn), <<>>)
  <2>1. From(s, k) # <<>> /\ Head(From(s, k)) = s[k] /\ Tail(From(s, k)) = From(s, k + 1)
    BY <1>4, <1>5, NextRead
  <2>2. From(s, k + 1) = <<>>
    BY <1>4, LastRead
  <2>3. todo = From(s, k)
    BY <1>1, <1>3 DEF Rest
  <2> QED BY <1>4, <2>1, <2>2, <2>3 DEF Then
<1>7. PICK h : h = FinalRead(input.fn)
  OBVIOUS
<1>8. h.op \in {"wait", "clear"} /\ h.arg = "OK"
  BY <1>7, ReadFields DEF FinalRead, waitResponse, clear
<1>9. Wait /\ Stage.arg = "OK" /\ Tail(todo) = <<>>
  BY <1>6, <1>7, <1>8, Acts
<1>10. PICK x, u : x = Ending /\ u = <<>>
  OBVIOUS
<1>11. x \in Chars /\ u \in Chars /\ Joins(x, u, w) /\ FirstAt(x, Len(x), "OK") /\ Len(ring) < Len(x)
  <2>1. Joins(x, u, w)
    BY <1>1, <1>2, <1>10, BehindField
  <2>2. u \in Chars
    BY <1>10 DEF Chars
  <2>3. x \in Chars /\ FirstAt(x, Len(x), "OK") /\ Len(x) = 5
    BY <1>10, EndingPiece
  <2>4. Len(ring) \in Nat
    BY DEF OnPosition, Types, Chars
  <2> QED BY <1>1, <2>1, <2>2, <2>3, <2>4
<1>12. /\ Types' /\ Ahead(ring', uart', coming', u) /\ ring' = <<>>
       /\ Continue /\ UNCHANGED <<input, coming, got, hasfix, early, memory, result>>
  BY <1>9, <1>11, WaitAhead DEF OnPosition
<1>13. Count' = Count /\ \A i : Received(i)' = Received(i)
  BY <1>12, Unmoved
<1>14. AtReturn(u)'
  <2>1. result' \in {"running", "ok"} /\ FixKnown' /\ todo' = <<>>
    BY <1>1, <1>9, <1>12 DEF Running, FixKnown, Continue
  <2>2. GotTo(Count, Received(Count))'
    BY <1>1, <1>12, <1>13 DEF GotTo
  <2> QED BY <1>10, <2>1, <2>2 DEF AtReturn
<1>15. PositionAt(r, u)'
  BY <1>14 DEF PositionAt
<1> QED BY <1>12, <1>15 DEF OnPosition

LEMMA ReturnedStep ==
  ASSUME Sound, NEW r, NEW w, OnPosition(r, w), AtReturn(w), Next, ~Arrive
  PROVE  OnPosition(r, w)'
<1>1. Return
  BY DEF AtReturn, Next, PeekAt, ReadChar, Find, ReadBytes, Wait, SetFix, Parse, Store, At
<1>2. result' = "ok" /\ UNCHANGED <<input, coming, uart, ring, todo, got, hasfix, early, memory>>
  BY <1>1 DEF Return
<1>3. Count' = Count /\ Esp' = Esp /\ \A i : Received(i)' = Received(i)
  BY <1>2, Unmoved
<1>4. AtReturn(w)'
  <2>1. GotTo(Count, Received(Count))'
    BY <1>2, <1>3 DEF AtReturn, GotTo
  <2>2. FixKnown'
    BY <1>2 DEF AtReturn, FixKnown
  <2> QED BY <1>2, <2>1, <2>2 DEF AtReturn
<1>5. PositionAt(r, w)' /\ Types' /\ Ahead(ring', uart', coming', w) /\ (~Esp => ring = <<>>)'
  BY <1>2, <1>3, <1>4 DEF PositionAt, OnPosition, Types
<1> QED BY <1>5 DEF OnPosition

\* A stage depends on the reads, on what has been read and on the ring.
LEMMA StageStays ==
  ASSUME NEW r, NEW w, PositionAt(r, w), UNCHANGED <<input, ring, todo, got, hasfix, result>>
  PROVE  PositionAt(r, w)'
<1>1. /\ Count' = Count /\ FixKnown' = FixKnown /\ Running' = Running
      /\ \A i : /\ Field(i)' = Field(i) /\ FieldRead(i)' = FieldRead(i) /\ Lost(i)' = Lost(i)
                /\ Received(i)' = Received(i)
      /\ \A k : Rest(k)' = Rest(k)
  BY Unmoved DEF FixKnown, Running
<1>2. \A i, x : GotTo(i, x)' <=> GotTo(i, x)
  BY <1>1 DEF GotTo
<1>3. ASSUME AtFirst(r, w) PROVE AtFirst(r, w)'
  BY <1>1, <1>2, <1>3 DEF AtFirst
<1>4. ASSUME AtFix(r, w) PROVE AtFix(r, w)'
  BY <1>1, <1>2, <1>4 DEF AtFix, Then
<1>5. ASSUME AtReturn(w) PROVE AtReturn(w)'
  BY <1>1, <1>2, <1>5 DEF AtReturn, GotTo
<1>6. ASSUME NEW i, AtPeek(i, r, w) PROVE AtPeek(i, r, w)'
  BY <1>1, <1>2, <1>6 DEF AtPeek, Then
<1>7. ASSUME NEW i, AtField(i, r, w) PROVE AtField(i, r, w)'
  BY <1>1, <1>2, <1>7 DEF AtField, Queued, Then
<1>8. ASSUME NEW i, AtNumber(i, r, w) PROVE AtNumber(i, r, w)'
  BY <1>1, <1>2, <1>8 DEF AtNumber, Then, GotTo
<1>9. ASSUME NEW i, AtEnd(i, r, w) PROVE AtEnd(i, r, w)'
  BY <1>1, <1>2, <1>9 DEF AtEnd, GotTo
<1> QED BY <1>1, <1>3, <1>4, <1>5, <1>6, <1>7, <1>8, <1>9 DEF PositionAt

LEMMA PositionArrives ==
  ASSUME Sound, NEW r, NEW w, OnPosition(r, w), Arrive
  PROVE  OnPosition(r, w)'
<1>1. UNCHANGED <<input, ring, todo, got, hasfix, early, memory, result>>
  BY DEF Arrive
<1>2. Types' /\ Ahead(ring', uart', coming', w)
  BY Received1 DEF OnPosition
<1>3. PositionAt(r, w)' /\ (~Esp => ring = <<>>)'
  BY <1>1, StageStays DEF OnPosition, Esp
<1> QED BY <1>2, <1>3 DEF OnPosition

LEMMA PositionStays ==
  ASSUME Sound, NEW r, NEW w, OnPosition(r, w), UNCHANGED vars
  PROVE  OnPosition(r, w)'
<1>1. UNCHANGED <<input, coming, uart, ring, todo, got, hasfix, result>>
  BY DEF vars
<1>2. Types' /\ Ahead(ring', uart', coming', w)
  BY <1>1 DEF OnPosition, Types
<1>3. PositionAt(r, w)' /\ (~Esp => ring = <<>>)'
  BY <1>1, StageStays DEF OnPosition, Esp
<1> QED BY <1>2, <1>3 DEF OnPosition

LEMMA FieldStep ==
  ASSUME Sound, NEW r, PositionRests(r, input.sent), NEW w, OnPosition(r, w),
         NEW i \in 1 .. Count, AtField(i, r, w), Next, ~Arrive, ~early'
  PROVE  \E u : OnPosition(r, u)'
<1>1. Field(i) # <<>>
  BY DEF AtField
<1>2. CASE NumberField(Field(i), FieldRead(i))
  BY <1>2, NumberStep
<1>3. CASE CharField(Field(i), FieldRead(i)) /\ ~OfNumber(FieldRead(i))
  BY <1>3, CharStep
<1>4. CASE BytesField(Field(i), FieldRead(i)) /\ ~OfNumber(FieldRead(i))
  BY <1>4, BytesStep
<1>5. CASE BothField(Field(i), FieldRead(i))
  BY <1>5, BothStep
<1> QED BY <1>1, <1>2, <1>3, <1>4, <1>5, FieldKinds

LEMMA PositionStep ==
  ASSUME Sound, NEW r, PositionRests(r, input.sent), NEW w, OnPosition(r, w), [Next]_vars, ~early'
  PROVE  \E u : OnPosition(r, u)'
<1>1. CASE UNCHANGED vars
  BY <1>1, PositionStays
<1>2. CASE Arrive
  BY <1>2, PositionArrives
<1>3. CASE Next /\ ~Arrive
  <2>1. CASE AtFirst(r, w)
    BY <1>3, <2>1, FirstPeekStep
  <2>2. CASE AtFix(r, w)
    BY <1>3, <2>2, FixStep
  <2>3. CASE AtReturn(w)
    BY <1>3, <2>3, ReturnedStep
  <2>4. ASSUME NEW i \in 1 .. Count, AtPeek(i, r, w) PROVE \E u : OnPosition(r, u)'
    BY <1>3, <2>4, PeekStep
  <2>5. ASSUME NEW i \in 1 .. Count, AtField(i, r, w) PROVE \E u : OnPosition(r, u)'
    BY <1>3, <2>5, FieldStep
  <2>6. ASSUME NEW i \in 1 .. Count, AtNumber(i, r, w) PROVE \E u : OnPosition(r, u)'
    BY <1>3, <2>6, LastNumberStep
  <2>7. ASSUME NEW i \in 1 .. Count, AtEnd(i, r, w) PROVE \E u : OnPosition(r, u)'
    <3>1. CASE i = Count
      <4>1. AtEnd(Count, r, w)
        BY <2>7, <3>1
      <4> QED BY <1>3, <4>1, LastWaitStep
    <3>2. CASE i # Count
      BY <1>3, <2>7, <3>2, SeparatorStep
    <3> QED BY <3>1, <3>2
  <2> QED BY <2>1, <2>2, <2>3, <2>4, <2>5, <2>6, <2>7 DEF OnPosition, PositionAt
<1> QED BY <1>1, <1>2, <1>3

-----------------------------------------------------------------------------
(* No position *)

\* There is an OK, and what the first peek() looks for in front of it.
NoPosition(w) == w \in Chars /\ w # <<>> /\ w[1] = FirstChar(input.fn) /\ Has(w, "OK")

OnNothing ==
  /\ Types /\ hasfix = FALSE /\ got = << <<>> >>
  /\ \E w : /\ Ahead(ring, uart, coming, w)
            /\ \/ /\ Running /\ NoPosition(w) /\ Len(ring) <= 1
                  /\ \/ todo = Reads(input.fn)
                     \/ Then(todo, Fix(FALSE), <<FinalRead(input.fn)>>)
                     \/ todo = <<FinalRead(input.fn)>>
               \/ todo = <<>> /\ result \in {"running", "ok"}

LEMMA HasBehind ==
  ASSUME NEW x \in Chars, NEW y \in Chars, NEW w, Joins(x, y, w), NEW c, Has(y, c)
  PROVE  w \in Chars /\ Has(w, c)
<1>1. /\ w \in Seq(Char) /\ Len(w) = Len(x) + Len(y) /\ Len(x) \in Nat /\ Len(y) \in Nat
      /\ \A i \in 1 .. Len(y) : w[Len(x) + i] = y[i]
  BY Joined DEF Chars
<1>2. PICK i \in 1 .. Len(y) : y[i] = c
  BY DEF Has, Chars
<1>3. Len(x) + i \in DOMAIN w /\ w[Len(x) + i] = c
  BY <1>1, <1>2
<1> QED BY <1>1, <1>3 DEF Has, Chars

LEMMA FirstOf ==
  ASSUME NEW w \in Chars, NEW c, Has(w, c), w[1] # c
  PROVE  \E x \in Chars, rest \in Chars : Joins(x, rest, w) /\ FirstAt(x, Len(x), c) /\ Len(x) >= 2
<1> DEFINE T == {n \in 1 .. Len(w) : w[n] = c}
<1>1. Len(w) \in Nat
  BY DEF Chars
<1>2. T \subseteq Nat /\ T # {}
  BY DEF Has, Chars
<1>3. PICK n \in T : \A k \in T : n <= k
  <2> HIDE DEF T
  <2> QED BY <1>2, LeastOf
<1>4. n \in 0 .. Len(w) /\ n \in 1 .. Len(w) /\ w[n] = c /\ n >= 2 /\ \A i \in 1 .. n - 1 : w[i] # c
  <2>1. n \in 1 .. Len(w) /\ w[n] = c
    BY <1>3
  <2>2. ASSUME NEW i \in 1 .. n - 1 PROVE w[i] # c
    <3>1. i \in 1 .. Len(w) /\ ~(n <= i)
      BY <1>1, <2>1
    <3> QED BY <1>3, <3>1
  <2> QED BY <1>1, <2>1, <2>2
<1>5. PICK x, rest : x = Part(w, n) /\ rest = Behind(w, n)
  OBVIOUS
<1>6. /\ x \in Chars /\ rest \in Chars /\ Joins(x, rest, w) /\ Len(x) = n
      /\ \A i \in 1 .. n : x[i] = w[i]
  <2>1. w \in Seq(Char) /\ n \in 0 .. Len(w)
    BY <1>4 DEF Chars
  <2>2. /\ x \in Seq(Char) /\ rest \in Seq(Char) /\ Len(x) = n
        /\ \A i \in 1 .. n : x[i] = w[i]
    BY ONLY <1>5, <2>1, Parts
  <2>3. Joins(x, rest, w)
    BY ONLY <1>5, <2>1, Cutting
  <2> QED BY <2>2, <2>3 DEF Chars
<1>7. FirstAt(x, Len(x), c)
  <2>1. n \in 1 .. n /\ \A i \in 1 .. n - 1 : i \in 1 .. n
    BY <1>4
  <2> QED BY <1>4, <1>6, <2>1 DEF FirstAt
<1> QED BY <1>4, <1>6, <1>7

\* The OK at the end is at the end of what is behind any field.
LEMMA OkBehind ==
  ASSUME Described, NEW r, PositionRests(r, input.sent)
  PROVE  /\ r[1] \in Chars /\ r[2] \in Chars /\ Joins(Field(1), r[2], r[1]) /\ Has(r[1], "OK")
         /\ Count > 1 => Len(r[2]) >= 1 /\ r[2][1] = Comma
<1>1. input.sent \in Seq(Chars) /\ Len(input.sent) = Count /\ Count >= 1 /\ Count \in Nat
  BY DEF Described, Count, Fields
<1>2. /\ \A k \in 1 .. Count : r[2 * k - 1] \in Chars /\ r[2 * k] \in Chars
      /\ \A k \in 1 .. Count : Joins(input.sent[k], r[2 * k], r[2 * k - 1])
      /\ \A k \in 1 .. Count : k < Count => Joins(Separator, r[2 * (k + 1) - 1], r[2 * k])
      /\ Joins(Ending, <<>>, r[2 * Count])
  BY <1>1, PositionJoins
<1>3. \A k \in 1 .. Count : input.sent[k] \in Chars
  BY <1>1
<1> DEFINE T == {m \in Nat : m < Count => Has(r[2 * (Count - m)], "OK")}
<1>4. 0 \in T
  <2>1. PICK e, v : e = <<>> /\ v = r[2 * Count]
    OBVIOUS
  <2>2. Joins(Ending, e, v) /\ e \in Seq(Char) /\ Ending \in Seq(Char)
    BY <1>2, <2>1, EndingPiece DEF Chars
  <2>3. v \in Seq(Char) /\ Len(v) = Len(Ending) + Len(e) /\ \A k \in 1 .. Len(Ending) : v[k] = Ending[k]
    BY <2>2, Joined
  <2>4. Ending[5] = "OK" /\ Len(Ending) = 5 /\ Len(e) \in Nat
    BY <2>2, EndingPiece DEF FirstAt
  <2>5. 5 \in 1 .. Len(Ending) /\ 5 \in DOMAIN v
    BY <2>3, <2>4
  <2>6. Has(v, "OK")
    BY <2>3, <2>4, <2>5 DEF Has
  <2>7. 2 * (Count - 0) = 2 * Count
    BY <1>1
  <2> QED BY <2>1, <2>6, <2>7
<1>5. ASSUME NEW m \in Nat, m \in T PROVE m + 1 \in T
  <2>1. SUFFICES ASSUME m + 1 < Count PROVE Has(r[2 * (Count - (m + 1))], "OK")
    OBVIOUS
  <2>2. PICK k, l : k = Count - (m + 1) /\ l = Count - m
    OBVIOUS
  <2>3. k \in 1 .. Count /\ l \in 1 .. Count /\ k < Count /\ k + 1 = l /\ m < Count
    BY <1>1, <2>1, <2>2
  <2>4. Has(r[2 * l], "OK")
    BY <1>5, <2>2, <2>3
  <2>5. /\ r[2 * l] \in Chars /\ r[2 * l - 1] \in Chars /\ Joins(input.sent[l], r[2 * l], r[2 * l - 1])
        /\ Joins(Separator, r[2 * l - 1], r[2 * k]) /\ input.sent[l] \in Chars
    <3>1. Joins(Separator, r[2 * (k + 1) - 1], r[2 * k])
      BY <1>2, <2>3
    <3> QED BY <1>2, <1>3, <2>3, <3>1
  <2>6. Has(r[2 * l - 1], "OK")
    BY <2>4, <2>5, HasBehind
  <2>7. Has(r[2 * k], "OK")
    BY <2>5, <2>6, ShortPieces, HasBehind
  <2> QED BY <2>2, <2>7
<1>6. Nat \subseteq T
  <2> HIDE DEF T
  <2> QED BY <1>4, <1>5, Induction
<1>7. 1 \in 1 .. Count /\ 2 * 1 = 2 /\ 2 * 1 - 1 = 1
  BY <1>1
<1>8. Has(r[2], "OK")
  <2>1. Count - 1 \in Nat /\ Count - 1 < Count /\ Count - (Count - 1) = 1
    BY <1>1
  <2>2. Count - 1 \in T
    BY <1>6, <2>1
  <2> QED BY <1>7, <2>1, <2>2
<1>9. r[1] \in Chars /\ r[2] \in Chars /\ Joins(Field(1), r[2], r[1]) /\ Field(1) \in Chars
  BY <1>2, <1>3, <1>7 DEF Field
<1>10. ASSUME Count > 1 PROVE Len(r[2]) >= 1 /\ r[2][1] = Comma
  <2>1. PICK e, v : e = r[2 * (1 + 1) - 1] /\ v = r[2 * 1]
    OBVIOUS
  <2>2. Joins(Separator, e, v) /\ e \in Chars
    <3>1. 1 + 1 \in 1 .. Count
      BY <1>1, <1>10
    <3> QED BY <1>2, <1>7, <1>10, <2>1, <3>1
  <2>3. e \in Seq(Char) /\ Separator \in Seq(Char)
    BY <2>2, ShortPieces DEF Chars
  <2>4. Len(v) = Len(Separator) + Len(e) /\ \A k \in 1 .. Len(Separator) : v[k] = Separator[k]
    BY <2>2, <2>3, Joined
  <2>5. Separator[1] = Comma /\ Len(Separator) = 1 /\ Len(e) \in Nat
    BY <2>3, ShortPieces DEF Separator
  <2>6. Len(v) >= 1 /\ v[1] = Comma
    BY <2>4, <2>5
  <2> QED BY <1>7, <2>1, <2>6
<1>11. Has(r[1], "OK")
  BY <1>8, <1>9, HasBehind
<1> QED BY <1>9, <1>10, <1>11

LEMMA NoneSent ==
  ASSUME Described, Nothing, NEW r, PositionRests(r, input.sent)
  PROVE  NoPosition(r[1])
<1>1. /\ r[1] \in Chars /\ r[2] \in Chars /\ Joins(Field(1), r[2], r[1]) /\ Has(r[1], "OK")
      /\ Count > 1 => Len(r[2]) >= 1 /\ r[2][1] = Comma
  BY OkBehind
<1>2. input.fn \in Commands /\ input.sent \in Seq(Chars) /\ Len(input.sent) = Count
  BY DEF Described
<1>3. Field(1) \in Chars
  <2>1. 1 \in 1 .. Len(input.sent)
    BY <1>2 DEF Count, Fields
  <2> QED BY <1>2, <2>1 DEF Field
<1>4. PICK f, v, w : f = Field(1) /\ v = r[2] /\ w = r[1]
  OBVIOUS
<1>5. /\ f \in Seq(Char) /\ v \in Seq(Char) /\ w \in Seq(Char) /\ Joins(f, v, w)
      /\ Len(w) = Len(f) + Len(v) /\ Len(f) \in Nat /\ Len(v) \in Nat
      /\ \A i \in 1 .. Len(f) : w[i] = f[i]
  <2>1. f \in Seq(Char) /\ v \in Seq(Char) /\ w \in Seq(Char) /\ Joins(f, v, w)
    BY <1>1, <1>3, <1>4 DEF Chars
  <2>2. Len(w) = Len(f) + Len(v) /\ \A i \in 1 .. Len(f) : w[i] = f[i]
    BY ONLY <2>1, Joined
  <2> QED BY <2>1, <2>2
<1>6. ASSUME Len(f) >= 1, f[1] = FirstChar(input.fn) PROVE w # <<>> /\ w[1] = FirstChar(input.fn)
  BY <1>5, <1>6
<1>7. w # <<>> /\ w[1] = FirstChar(input.fn)
  <2>1. CASE input.sent = NoGNSSFix
    <3>1. PICK a, b : a = << <<Blank>> >> /\ b = [i \in 1 .. 15 |-> <<>>]
      OBVIOUS
    <3>2. a \in Seq(Chars) /\ Len(a) = 1 /\ a[1] = <<Blank>>
      <4>1. <<Blank>> \in Chars
        BY Literals, Single DEF Chars
      <4> QED BY <3>1, <4>1, Single
    <3>3. b \in Seq(Chars) /\ Len(b) = 15
      <4>1. <<>> \in Chars /\ 15 \in Nat
        BY DEF Chars
      <4>2. b \in [1 .. 15 -> Chars]
        BY <3>1, <4>1
      <4> QED BY <4>1, <4>2, Tabulated
    <3>4. Joins(a, b, input.sent)
      BY <2>1, <3>1 DEF Joins, NoGNSSFix
    <3>5. Len(input.sent) = Len(a) + Len(b) /\ \A i \in 1 .. Len(a) : input.sent[i] = a[i]
      <4>1. a \in Seq(Chars) /\ b \in Seq(Chars)
        BY <3>2, <3>3
      <4>2. PICK t : t = input.sent
        OBVIOUS
      <4>3. Joins(a, b, t)
        BY <3>4, <4>2
      <4>4. Len(t) = Len(a) + Len(b) /\ \A i \in 1 .. Len(a) : t[i] = a[i]
        BY ONLY <4>1, <4>3, Joined
      <4> QED BY <4>2, <4>4
    <3>6. Count = 16 /\ input.sent[1] = <<Blank>>
      BY <1>2, <3>2, <3>3, <3>5
    <3>7. input.fn = "getGNSSInfo"
      BY <3>6 DEF Count, Fields
    <3>8. FirstChar(input.fn) = Blank
      BY <3>7 DEF FirstChar
    <3>9. f = <<Blank>>
      BY <1>4, <3>6 DEF Field
    <3>10. Len(f) >= 1 /\ f[1] = Blank
      BY <3>9
    <3> QED BY <1>6, <3>8, <3>10
  <2>2. CASE input.sent = NoGPSFix
    <3>1. Len(NoGPSFix) = 9 /\ NoGPSFix[1] = <<>>
      BY DEF NoGPSFix
    <3>2. Count = 9 /\ f = <<>>
      BY <1>2, <1>4, <2>2, <3>1 DEF Field
    <3>3. input.fn = "getGPSInfo"
      BY <3>2 DEF Count, Fields
    <3>4. FirstChar(input.fn) = Comma
      BY <3>3 DEF FirstChar
    <3>5. w = v
      <4>1. <<>> \o v = v
        BY <1>5, ConcatEmptySeq
      <4> QED BY <1>5, <3>2, <4>1 DEF Joins
    <3>6. Len(v) >= 1 /\ v[1] = Comma
      BY <1>1, <1>4, <3>2
    <3> QED BY <1>5, <3>4, <3>5, <3>6
  <2>3. CASE /\ input.fn = "getAGPSData" /\ Head(Head(input.sent)) = "s"
             /\ input.sent # NoGNSSFix /\ input.sent # NoGPSFix
    <3>1. FirstChar(input.fn) = "s"
      BY <2>3 DEF FirstChar
    <3>2. Len(input.sent) = 1
      BY <1>2, <2>3 DEF Count, Fields
    <3>3. Head(input.sent) = f
      BY <1>2, <1>4, <3>2 DEF Field
    <3>4. f # <<>>
      <4>1. ~MayBeEmpty(input.fn, 1)
        BY <2>3 DEF MayBeEmpty
      <4>2. IsStatus(input.sent[1]) \/ IsField(input.sent[1], FieldReads(input.fn)[1])
        <5>1. 1 \in DOMAIN input.sent
          BY <1>2, <3>2
        <5> QED BY <2>3, <4>1, <5>1 DEF Described, IsPosition
      <4> QED BY <1>4, <4>2 DEF IsStatus, IsField, Field
    <3>5. Len(f) >= 1 /\ f[1] = "s"
      <4>1. Len(f) >= 1
        BY <1>5, <3>4, EmptySeq
      <4>2. Head(f) = f[1]
        BY <1>5, <3>4
      <4> QED BY <2>3, <3>3, <4>1, <4>2
    <3> QED BY <1>6, <3>1, <3>5
  <2> QED BY <2>1, <2>2, <2>3 DEF Nothing, NothingIn
<1> QED BY <1>1, <1>4, <1>7 DEF NoPosition

LEMMA NothingPeek ==
  ASSUME input.fn \in Commands, OnNothing, todo = Reads(input.fn), NEW w, Ahead(ring, uart, coming, w),
         Running, NoPosition(w), Len(ring) <= 1, Next, ~Arrive, ~early'
  PROVE  OnNothing'
<1>1. PICK call, last : call = input.fn /\ last = FinalRead(input.fn)
  OBVIOUS
<1>2. PICK yes, no : /\ yes = (IF call = "getAGPSData" THEN <<>> ELSE <<Fix(FALSE)>>)
                     /\ Then(Reads(call), Peek(FirstChar(call), yes, no), <<last>>)
  BY <1>1, ReadsBegin
<1>3. PICK h : h = Peek(FirstChar(call), yes, no)
  OBVIOUS
<1>4. h.op = "peek" /\ h.arg = FirstChar(call) /\ h.yes = yes /\ Then(todo, h, <<last>>)
  BY <1>1, <1>2, <1>3, PeekFields
<1>5. PeekAt /\ Stage = h /\ Tail(todo) = <<last>>
  BY <1>4, Acts
<1>6. w # <<>> /\ w[1] = FirstChar(call)
  BY <1>1 DEF NoPosition
<1>7. /\ Types' /\ Ahead(ring', uart', coming', w)
      /\ Esp /\ ring = <<>> => Len(ring') = 1
      /\ ~Esp \/ ring # <<>> => ring' = ring
      /\ todo' = (IF w[1] = Stage.arg THEN Stage.yes ELSE Stage.no) \o Tail(todo)
      /\ UNCHANGED <<input, coming, got, hasfix, memory, result>>
  BY <1>5, <1>6, PeekOn DEF OnNothing
<1>8. todo' = yes \o <<last>> /\ Len(ring') <= 1
  <2>1. w[1] = Stage.arg /\ Stage.yes = yes
    BY <1>4, <1>5, <1>6
  <2>2. todo' = yes \o <<last>>
    BY <1>5, <1>7, <2>1
  <2>3. Len(ring') <= 1
    <3>1. CASE Esp /\ ring = <<>>
      <4>1. PICK n : n = Len(ring')
        OBVIOUS
      <4>2. n = 1
        BY <1>7, <3>1, <4>1
      <4> QED BY <4>1, <4>2
    <3>2. CASE ~Esp \/ ring # <<>>
      BY <1>7, <3>2
    <3> QED BY <3>1, <3>2
  <2> QED BY <2>2, <2>3
<1>9. Then(todo', Fix(FALSE), <<last>>) \/ todo' = <<last>>
  <2> DEFINE S == {last, Fix(FALSE)}
  <2>1. last \in S /\ Fix(FALSE) \in S
    OBVIOUS
  <2> HIDE DEF S
  <2>2. <<last>> \in Seq(S)
    BY <2>1, Single
  <2>3. CASE call = "getAGPSData"
    <3>1. <<>> \o <<last>> = <<last>>
      BY <2>2, ConcatEmptySeq
    <3> QED BY <1>2, <1>8, <2>3, <3>1
  <2>4. CASE call # "getAGPSData"
    <3>1. Then(<<Fix(FALSE)>> \o <<last>>, Fix(FALSE), <<last>>)
      BY <2>1, <2>2, Popped
    <3> QED BY <1>2, <1>8, <2>4, <3>1
  <2> QED BY <2>3, <2>4
<1>10. Running' /\ NoPosition(w)' /\ hasfix' = FALSE /\ got' = << <<>> >> /\ FinalRead(input'.fn) = last
  BY <1>1, <1>7 DEF Running, NoPosition, OnNothing
<1> QED BY <1>7, <1>8, <1>9, <1>10 DEF OnNothing, Then

LEMMA NothingFix ==
  ASSUME OnNothing, Then(todo, Fix(FALSE), <<FinalRead(input.fn)>>), NEW w, Ahead(ring, uart, coming, w),
         Running, NoPosition(w), Len(ring) <= 1, Next, ~Arrive
  PROVE  OnNothing'
<1>1. Fix(FALSE).op = "fix" /\ Fix(FALSE).arg = FALSE
  BY ReadFields DEF Fix
<1>2. SetFix /\ Stage.arg = FALSE /\ Tail(todo) = <<FinalRead(input.fn)>>
  BY <1>1, Acts
<1>3. /\ hasfix' = FALSE /\ todo' = <<FinalRead(input.fn)>>
      /\ UNCHANGED <<input, coming, uart, ring, got, early, memory, result>>
  BY <1>2 DEF SetFix, Continue
<1>4. Types' /\ Running' /\ NoPosition(w)' /\ got' = << <<>> >> /\ todo' = <<FinalRead(input'.fn)>>
      /\ Ahead(ring', uart', coming', w) /\ Len(ring') <= 1
  BY <1>3 DEF Types, Running, NoPosition, OnNothing
<1> QED BY <1>3, <1>4 DEF OnNothing

LEMMA NothingWait ==
  ASSUME input.fn \in Commands, OnNothing, todo = <<FinalRead(input.fn)>>, NEW w,
         Ahead(ring, uart, coming, w), Running, NoPosition(w), Len(ring) <= 1, Next, ~Arrive
  PROVE  OnNothing'
<1>1. PICK h : h = FinalRead(input.fn)
  OBVIOUS
<1>2. h.op \in {"wait", "clear"} /\ h.arg = "OK"
  BY <1>1, ReadFields DEF FinalRead, waitResponse, clear
<1>3. Then(todo, h, <<>>)
  BY <1>1 DEF Then
<1>4. Wait /\ Stage.arg = "OK" /\ Tail(todo) = <<>>
  BY <1>2, <1>3, Acts
<1>5. w \in Chars /\ Has(w, "OK") /\ w[1] # "OK"
  <2>1. FirstChar(input.fn) # "OK"
    <3>1. Blank # "OK" /\ Comma # "OK"
      BY Zenon DEF Blank, Comma
    <3> QED BY <3>1 DEF FirstChar, Commands
  <2> QED BY <2>1 DEF NoPosition
<1>6. PICK x \in Chars, rest \in Chars : Joins(x, rest, w) /\ FirstAt(x, Len(x), "OK") /\ Len(x) >= 2
  BY <1>5, FirstOf
<1>7. Len(ring) < Len(x)
  <2>1. Len(ring) \in Nat /\ Len(x) \in Nat
    BY DEF OnNothing, Types, Chars
  <2> QED BY <1>6, <2>1
<1>8. /\ Types' /\ Ahead(ring', uart', coming', rest)
      /\ Continue /\ UNCHANGED <<input, coming, got, hasfix, early, memory, result>>
  BY <1>4, <1>6, <1>7, WaitAhead DEF OnNothing
<1>9. todo' = <<>> /\ result' \in {"running", "ok"} /\ hasfix' = FALSE /\ got' = << <<>> >>
  BY <1>4, <1>8 DEF Continue, Running, OnNothing
<1> QED BY <1>8, <1>9 DEF OnNothing

LEMMA NothingStep ==
  ASSUME input.fn \in Commands, OnNothing, [Next]_vars, ~early'
  PROVE  OnNothing'
<1>1. PICK w : /\ Ahead(ring, uart, coming, w)
               /\ \/ /\ Running /\ NoPosition(w) /\ Len(ring) <= 1
                     /\ \/ todo = Reads(input.fn)
                        \/ Then(todo, Fix(FALSE), <<FinalRead(input.fn)>>)
                        \/ todo = <<FinalRead(input.fn)>>
                  \/ todo = <<>> /\ result \in {"running", "ok"}
  BY DEF OnNothing
<1>2. ASSUME UNCHANGED <<input, ring, todo, got, hasfix, result>>, Types', Ahead(ring', uart', coming', w)
      PROVE  OnNothing'
  BY <1>1, <1>2 DEF OnNothing, Running, NoPosition, Then
<1>3. CASE UNCHANGED vars
  <2>1. UNCHANGED <<input, coming, uart, ring, todo, got, hasfix, result>>
    BY <1>3 DEF vars
  <2>2. Types' /\ Ahead(ring', uart', coming', w)
    BY <1>1, <2>1 DEF Types, OnNothing
  <2> QED BY <1>2, <2>1, <2>2
<1>4. CASE Arrive
  <2>1. UNCHANGED <<input, ring, todo, got, hasfix, result>>
    BY <1>4 DEF Arrive
  <2>2. Types' /\ Ahead(ring', uart', coming', w)
    BY <1>1, <1>4, Received1 DEF OnNothing
  <2> QED BY <1>2, <2>1, <2>2
<1>5. CASE Next /\ ~Arrive
  <2>1. CASE todo = <<>> /\ result \in {"running", "ok"}
    <3>1. Return
      BY <1>5, <2>1 DEF Next, PeekAt, ReadChar, Find, ReadBytes, Wait, SetFix, Parse, Store, At
    <3>2. result' = "ok" /\ UNCHANGED <<input, coming, uart, ring, todo, got, hasfix, early, memory>>
      BY <3>1 DEF Return
    <3>3. Types' /\ Ahead(ring', uart', coming', w) /\ todo' = <<>> /\ hasfix' = FALSE /\ got' = << <<>> >>
      BY <1>1, <2>1, <3>2 DEF Types, OnNothing
    <3> QED BY <3>2, <3>3 DEF OnNothing
  <2>2. CASE todo = Reads(input.fn) /\ Running /\ NoPosition(w) /\ Len(ring) <= 1
    BY <1>1, <1>5, <2>2, NothingPeek
  <2>3. CASE Then(todo, Fix(FALSE), <<FinalRead(input.fn)>>) /\ Running /\ NoPosition(w) /\ Len(ring) <= 1
    BY <1>1, <1>5, <2>3, NothingFix
  <2>4. CASE todo = <<FinalRead(input.fn)>> /\ Running /\ NoPosition(w) /\ Len(ring) <= 1
    BY <1>1, <1>5, <2>4, NothingWait
  <2> QED BY <1>1, <2>1, <2>2, <2>3, <2>4
<1> QED BY <1>3, <1>4, <1>5

-----------------------------------------------------------------------------
(* The theorem *)

PositionInv ==
  input.fn # "process" /\ ~early =>
    /\ Described
    /\ Nothing => OnNothing
    /\ Sound => \E r : PositionRests(r, input.sent) /\ \E w : OnPosition(r, w)

LEMMA InitPosition ==
  ASSUME Init
  PROVE  PositionInv
<1> SUFFICES ASSUME input.fn # "process" PROVE PositionInv
  BY DEF PositionInv
<1>1. Described
  <2>1. input \in Inputs
    BY DEF Init
  <2>2. IsInput(input)
    BY <2>1, InputsAssumption DEF InputsAssumption
  <2> QED BY <2>2, SentFields
<1>2. input.fn \in Commands /\ input.sent \in Seq(Chars) /\ Len(input.sent) = Count /\ Count \in Nat /\ Count >= 1
  BY <1>1 DEF Described, Count, Fields
<1>3. PICK p, s : p = input.sent /\ s = Position(p)
  OBVIOUS
<1>4. s \in Seq(Seq(Char)) /\ s # <<>>
  <2>1. p \in Seq(Chars) /\ Len(p) >= 1
    BY <1>2, <1>3
  <2>2. s \in Seq(Chars) /\ Len(s) = 2 * Len(p)
    BY <1>3, <2>1, PositionPieces
  <2>3. Len(s) # 0
    BY <2>1, <2>2
  <2> QED BY <2>2, <2>3 DEF Chars
<1>5. PICK r : Rests(r, s, Char) /\ r[1] = FlattenSeq(s)
  BY <1>4, Flattened
<1>6. PositionRests(r, input.sent)
  BY <1>3, <1>5 DEF PositionRests
<1>7. r[1] \in Chars /\ coming = r[1]
  <2>1. coming = FlattenSeq(s)
    BY <1>3 DEF Init, Text, Pieces
  <2>2. r[1] \in Chars
    BY <1>1, <1>6, OkBehind
  <2> QED BY <1>5, <2>1, <2>2
<1>8. uart = <<>> /\ ring = <<>> /\ <<>> \in Chars
  BY DEF Init, Chars
<1>9. Types /\ Ahead(ring, uart, coming, r[1]) /\ Len(ring) = 0
  <2>1. Types /\ Len(ring) = 0
    BY <1>7, <1>8 DEF Types
  <2>2. <<>> \o <<>> = <<>> /\ <<>> \o r[1] = r[1]
    BY <1>7, <1>8, ConcatEmptySeq DEF Chars
  <2> QED BY <1>7, <1>8, <2>1, <2>2 DEF Ahead, Joins
<1>10. todo = Reads(input.fn) /\ got = << <<>> >> /\ hasfix = FALSE /\ Running
  BY DEF Init, Running
<1>11. ASSUME Nothing PROVE OnNothing
  <2>1. NoPosition(r[1])
    BY <1>1, <1>6, <1>11, NoneSent
  <2> QED BY <1>9, <1>10, <2>1 DEF OnNothing
<1>12. OnPosition(r, r[1])
  <2>1. got \in Seq(Chars) /\ Len(got) = 1 /\ got[1] = <<>>
    BY <1>8, <1>10
  <2>2. GotTo(1, <<>>)
    BY <2>1 DEF GotTo
  <2>3. AtFirst(r, r[1])
    BY <1>8, <1>10, <2>2 DEF AtFirst
  <2> QED BY <1>8, <1>9, <2>3 DEF OnPosition, PositionAt
<1> QED BY <1>1, <1>6, <1>11, <1>12 DEF PositionInv

LEMMA NextPosition ==
  ASSUME PositionInv, [Next]_vars
  PROVE  PositionInv'
<1>1. input' = input
  BY DEF vars, Next, Arrive, PeekAt, ReadChar, Find, ReadBytes, Wait, SetFix, Parse, Store, Return, Alone
<1>2. early => early'
  BY DEF vars, Next, Arrive, PeekAt, ReadChar, Find, ReadBytes, Wait, SetFix, Parse, Store, Return, Alone
<1> SUFFICES ASSUME input.fn # "process", ~early' PROVE PositionInv'
  BY <1>1 DEF PositionInv
<1>3. /\ Described
      /\ Nothing => OnNothing
      /\ Sound => \E r : PositionRests(r, input.sent) /\ \E w : OnPosition(r, w)
  BY <1>2 DEF PositionInv
<1>4. input.fn \in Commands
  BY <1>3 DEF Described
<1>5. Described' /\ Nothing' = Nothing /\ Sound' = Sound
  <2>1. Esp' = Esp /\ Count' = Count
    BY <1>1, Unmoved
  <2>2. Described' /\ Nothing' = Nothing
    BY <1>1, <1>3, <2>1 DEF Described, Nothing, NothingIn
  <2>3. Readable' = Readable
    <3>1. \A i : Received(i)' = Received(i)
      BY <1>1, Unmoved
    <3> QED BY <1>1, <2>1, <3>1 DEF Readable
  <2> QED BY <1>3, <2>2, <2>3 DEF Sound
<1>6. ASSUME Nothing PROVE OnNothing'
  BY <1>3, <1>4, <1>6, NothingStep
<1>7. ASSUME Sound PROVE \E r : PositionRests(r, input'.sent) /\ \E w : OnPosition(r, w)'
  <2>1. PICK r, w : PositionRests(r, input.sent) /\ OnPosition(r, w)
    BY <1>3, <1>7
  <2>2. \E u : OnPosition(r, u)'
    BY <1>7, <2>1, PositionStep
  <2> QED BY <1>1, <2>1, <2>2
<1> QED BY <1>5, <1>6, <1>7 DEF PositionInv

\* On either port, what a position is read as: what was sent, less the character that
\* peek() took from a number.
PositionIsReceived ==
  input.fn # "process" /\ result # "running" /\ ~early =>
    /\ Nothing => result = "ok" /\ ~hasfix /\ got = << <<>> >>
    /\ ~Nothing /\ Readable =>
         /\ result = "ok" /\ FixKnown
         /\ got = [i \in DOMAIN input.sent |-> Received(i)]

LEMMA PositionInvRead ==
  ASSUME PositionInv
  PROVE  PositionIsReceived
<1> SUFFICES ASSUME input.fn # "process", result # "running", ~early
             PROVE  /\ Nothing => result = "ok" /\ ~hasfix /\ got = << <<>> >>
                    /\ ~Nothing /\ Readable =>
                         /\ result = "ok" /\ FixKnown
                         /\ got = [i \in DOMAIN input.sent |-> Received(i)]
  BY DEF PositionIsReceived
<1>1. /\ Described
      /\ Nothing => OnNothing
      /\ Sound => \E r : PositionRests(r, input.sent) /\ \E w : OnPosition(r, w)
  BY DEF PositionInv
<1>2. ASSUME Nothing PROVE result = "ok" /\ ~hasfix /\ got = << <<>> >>
  BY <1>1, <1>2 DEF OnNothing, Running
<1>3. ASSUME ~Nothing, Readable
      PROVE  result = "ok" /\ FixKnown /\ got = [i \in DOMAIN input.sent |-> Received(i)]
  <2>1. PICK r, w : OnPosition(r, w)
    BY <1>1, <1>3 DEF Sound
  <2>2. AtReturn(w)
    <3>1. PositionAt(r, w) /\ ~Running
      BY <2>1 DEF OnPosition, Running
    <3> QED BY <3>1 DEF PositionAt, AtFirst, AtFix, AtPeek, AtField, AtNumber, AtEnd
  <2>3. result = "ok" /\ FixKnown /\ GotTo(Count, Received(Count))
    BY <2>2 DEF AtReturn
  <2>4. Len(input.sent) = Count /\ input.sent \in Seq(Chars) /\ Count \in Nat
    BY <1>1 DEF Described, Count, Fields
  <2>5. DOMAIN input.sent = 1 .. Count /\ DOMAIN got = 1 .. Count /\ got \in Seq(Chars)
    BY <2>3, <2>4 DEF GotTo
  <2>6. \A i \in 1 .. Count : got[i] = Received(i)
    <3>1. ASSUME NEW i \in 1 .. Count PROVE i = Count \/ i \in 1 .. Count - 1
      BY <2>4
    <3> QED BY <2>3, <3>1 DEF GotTo
  <2>7. got = [i \in 1 .. Count |-> got[i]]
    BY <2>5
  <2> QED BY <2>3, <2>5, <2>6, <2>7
<1> QED BY <1>2, <1>3

\* A legible position has no number that was peeked at.
LEMMA LegibleRead ==
  ASSUME PositionInv, PositionIsReceived, Legible(input)
  PROVE  PositionIsRead
<1> SUFFICES ASSUME input.fn # "process", result # "running", ~early
             PROVE  /\ result = "ok"
                    /\ IF Nothing THEN ~hasfix /\ got = << <<>> >>
                       ELSE FixKnown /\ got = input.sent
  BY DEF PositionIsRead, FixKnown, Nothing
<1>1. CASE Nothing
  BY <1>1 DEF PositionIsReceived
<1>2. CASE ~Nothing
  <2>1. \A k \in Numbers(input.fn) :
          \/ input.fn = "getGPSInfo" /\ input.sent[k] = <<>>
          \/ /\ HasDigit(input.sent[k])
             /\ Esp => Len(input.sent[k]) < NumberLen /\ k \notin Peeked(input.fn)
    BY <1>2 DEF Legible, Nothing, Esp
  <2>2. input.fn \in Commands /\ input.sent \in Seq(Chars)
    BY DEF PositionInv, Described
  <2>3. Peeked(input.fn) \subseteq Numbers(input.fn)
    BY <2>2 DEF Peeked, Numbers, Commands
  <2>4. ASSUME NEW k PROVE Received(k) = input.sent[k]
    <3>1. ~Cut(k)
      BY <2>1, <2>3 DEF Cut
    <3> QED BY <3>1 DEF Received
  <2>5. Readable
    BY <2>1, <2>4 DEF Readable
  <2>6. result = "ok" /\ FixKnown /\ got = [k \in DOMAIN input.sent |-> Received(k)]
    BY <1>2, <2>5 DEF PositionIsReceived
  <2>7. input.sent = [k \in DOMAIN input.sent |-> input.sent[k]]
    BY <2>2
  <2>8. got = input.sent
    <3>1. [k \in DOMAIN input.sent |-> Received(k)] = [k \in DOMAIN input.sent |-> input.sent[k]]
      BY <2>4
    <3> QED BY <2>6, <2>7, <3>1
  <2> QED BY <1>2, <2>6, <2>8
<1> QED BY <1>1, <1>2

\* The inputs of a program that has none of the answers its code cannot read.
AllLegible == \A i \in Inputs : Legible(i)

LEMMA InputStays ==
  ASSUME [Next]_vars
  PROVE  input' = input
BY DEF vars, Next, Arrive, PeekAt, ReadChar, Find, ReadBytes, Wait, SetFix, Parse, Store, Return, Alone

(***************************************************************************)
(* Wherever the pauses of the module fall, and whatever the fields of a    *)
(* position are, as long as each is what the driver reads it with and no   *)
(* number was peeked at on the ESP port: what is read is what was sent,    *)
(* field by field, with success, and there is a fix exactly when the       *)
(* module has one.  Only a peek() or read() that came before its character *)
(* is left out.                                                            *)
(* (getGNSSInfo, getGPSInfo, getAGPSData; parseInt and parseFloat.)        *)
(***************************************************************************)
THEOREM PositionsAreRead == AllLegible => (Spec => []PositionIsRead)
<1> SUFFICES ASSUME AllLegible PROVE Spec => []PositionIsRead
  OBVIOUS
<1>1. Init => PositionInv
  BY InitPosition
<1>2. PositionInv /\ [Next]_vars => PositionInv'
  BY NextPosition
<1>3. Init => Legible(input)
  BY DEF Init, AllLegible
<1>4. Legible(input) /\ [Next]_vars => Legible(input)'
  BY InputStays DEF Legible, NothingIn
<1>5. PositionInv /\ Legible(input) => PositionIsRead
  BY PositionInvRead, LegibleRead
<1> QED BY <1>1, <1>2, <1>3, <1>4, <1>5, PTL DEF Spec
=============================================================================
