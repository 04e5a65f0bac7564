--------------------------- MODULE SequenceLemmas ---------------------------
(***************************************************************************)
(* Facts about sequences that the proofs of the components share: what     *)
(* appending, removing by position and erasing by value do to the elements.*)
(* The library's induction rules take a predicate as a parameter, so that  *)
(* induction is stated here for a set of numbers.                          *)
(***************************************************************************)
EXTENDS EraseWhere, SequencesExt, SequenceTheorems, WellFoundedInduction, TLAPS

\* A set of numbers has a least one.
LEMMA HasLeast ==
    ASSUME NEW F, F \subseteq Nat, F # {}
    PROVE  \E n \in F : \A k \in F : n <= k
  <1>1. \E n \in F : \A m \in F : ~(<<m, n>> \in OpToRel(<, Nat))
    BY WFMin, NatLessThanWellFounded, Zenon
  <1>2. \A m, n \in Nat : m < n => <<m, n>> \in OpToRel(<, Nat)
    BY DEF OpToRel
  <1>3. PICK n \in F : \A m \in F : ~(m < n)
    BY <1>1, <1>2, Zenon
  <1>4. \A m \in F : n <= m
    BY <1>3
  <1> QED
    BY <1>4

\* Induction over the natural numbers, for a set instead of a predicate.
LEMMA SetInduction ==
    ASSUME NEW T, 0 \in T, \A n \in Nat : n \in T => n + 1 \in T
    PROVE  Nat \subseteq T
  <1> SUFFICES ASSUME Nat \ T # {} PROVE FALSE
    OBVIOUS
  <1> DEFINE F == Nat \ T
  <1>1. F \subseteq Nat /\ F # {}
    OBVIOUS
  <1> HIDE DEF F
  <1>2. PICK n \in F : \A m \in F : n <= m
    BY <1>1, HasLeast
  <1> USE DEF F
  <1>3. n \in Nat \ {0}
    BY <1>2
  <1>4. n - 1 \in Nat /\ n - 1 < n
    BY <1>3
  <1>5. n - 1 \in T
    BY <1>2, <1>4
  <1> QED
    BY <1>2, <1>3, <1>4, <1>5

\* f is the local function of EraseWhere, up to n.
IsKept(f, s, gone, n) ==
    f = [i \in 0 .. n |-> IF i = 0 THEN << >>
                          ELSE IF s[i] \in gone THEN f[i - 1] ELSE Append(f[i - 1], s[i])]

\* The recursive definition of kept in EraseWhere has a solution ...
LEMMA KeptExists ==
    ASSUME NEW S, NEW s \in Seq(S), NEW gone, NEW n \in Nat
    PROVE  \E f : IsKept(f, s, gone, n)
  <1> DEFINE T == {m \in Nat : \E f : IsKept(f, s, gone, m)}
  <1>1. 0 \in T
    <2>1. IsKept([i \in 0 .. 0 |-> << >>], s, gone, 0)
      BY DEF IsKept
    <2> QED
      BY <2>1
  <1>2. ASSUME NEW m \in Nat, m \in T PROVE m + 1 \in T
    <2>1. PICK f : IsKept(f, s, gone, m)
      BY <1>2
    <2> DEFINE g == [i \in 0 .. m + 1 |->
                       IF i = m + 1
                         THEN IF s[i] \in gone THEN f[m] ELSE Append(f[m], s[i])
                         ELSE f[i]]
    <2>2. ASSUME NEW i \in 0 .. m + 1
          PROVE  g[i] = IF i = 0 THEN << >>
                        ELSE IF s[i] \in gone THEN g[i - 1] ELSE Append(g[i - 1], s[i])
      <3>1. CASE i = m + 1
        <4>1. g[i - 1] = f[m]
          BY <3>1
        <4> QED
          BY <3>1, <4>1
      <3>2. CASE i # m + 1 /\ i # 0
        <4>1. i \in 0 .. m /\ i - 1 \in 0 .. m /\ i - 1 # m + 1
          BY <3>2
        <4>2. g[i] = f[i] /\ g[i - 1] = f[i - 1]
          BY <4>1, <3>2
        <4> QED
          BY <2>1, <3>2, <4>1, <4>2 DEF IsKept
      <3>3. CASE i = 0
        <4>1. g[i] = f[0]
          BY <3>3
        <4> QED
          BY <2>1, <3>3, <4>1 DEF IsKept
      <3> QED
        BY <3>1, <3>2, <3>3
    <2>3. IsKept(g, s, gone, m + 1)
      BY <2>2 DEF IsKept
    <2> QED
      BY <2>3
  <1> HIDE DEF T
  <1>3. Nat \subseteq T
    BY <1>1, <1>2, SetInduction
  <1> QED
    BY <1>3 DEF T

\* ... whose last value is what EraseWhere returns.
LEMMA KeptIsErase ==
    ASSUME NEW S, NEW s \in Seq(S), NEW gone
    PROVE  \E f : IsKept(f, s, gone, Len(s)) /\ EraseWhere(s, gone) = f[Len(s)]
  <1>1. Len(s) \in Nat
    OBVIOUS
  <1>2. \E f : IsKept(f, s, gone, Len(s))
    BY <1>1, KeptExists
  <1> DEFINE c == CHOOSE f : IsKept(f, s, gone, Len(s))
  <1>3. IsKept(c, s, gone, Len(s))
    BY <1>2
  <1>4. EraseWhere(s, gone) = c[Len(s)]
    BY Zenon DEF EraseWhere, IsKept
  <1> QED
    BY <1>3, <1>4

\* What appending does to the elements of a sequence.
LEMMA AppendElements ==
    ASSUME NEW S, NEW s \in Seq(S), NEW e \in S
    PROVE  /\ Append(s, e) \in Seq(S)
           /\ \A x : Contains(Append(s, e), x) <=> Contains(s, x) \/ x = e
           /\ IsInjective(s) /\ ~Contains(s, e) => IsInjective(Append(s, e))
  <1> DEFINE a == Append(s, e)
  <1>1. /\ a \in Seq(S) /\ Len(s) \in Nat
        /\ DOMAIN s = 1 .. Len(s) /\ DOMAIN a = 1 .. Len(s) + 1
        /\ a[Len(s) + 1] = e
        /\ \A i \in 1 .. Len(s) : a[i] = s[i]
    OBVIOUS
  <1> HIDE DEF a
  <1>2. \A i \in 1 .. Len(s) + 1 : i \in 1 .. Len(s) \/ i = Len(s) + 1
    BY <1>1
  <1>3. \A i \in 1 .. Len(s) : i \in 1 .. Len(s) + 1
    BY <1>1
  <1>4. Len(s) + 1 \in 1 .. Len(s) + 1
    BY <1>1
  <1>5. \A x : Contains(a, x) <=> Contains(s, x) \/ x = e
    BY <1>1, <1>2, <1>3, <1>4 DEF Contains
  <1>6. IsInjective(s) /\ ~Contains(s, e) => IsInjective(a)
    BY <1>1, <1>2 DEF Contains, IsInjective
  <1> QED
    BY <1>1, <1>5, <1>6 DEF a

\* EraseWhere keeps the elements that are not to go, and no element twice that
\* was there once.
LEMMA EraseWhereElements ==
    ASSUME NEW S, NEW s \in Seq(S), NEW gone
    PROVE  /\ EraseWhere(s, gone) \in Seq(S)
           /\ \A x : Contains(EraseWhere(s, gone), x) <=> x \notin gone /\ Contains(s, x)
           /\ IsInjective(s) => IsInjective(EraseWhere(s, gone))
  <1> DEFINE InFirst(x, n) == \E i \in 1 .. n : s[i] = x
  <1>1. Len(s) \in Nat /\ DOMAIN s = 1 .. Len(s) /\ \A i \in 1 .. Len(s) : s[i] \in S
    OBVIOUS
  <1>2. PICK f : IsKept(f, s, gone, Len(s)) /\ EraseWhere(s, gone) = f[Len(s)]
    BY KeptIsErase
  <1>3. /\ f[0] = << >>
        /\ \A n \in 1 .. Len(s) :
             f[n] = IF s[n] \in gone THEN f[n - 1] ELSE Append(f[n - 1], s[n])
    <2>1. ASSUME NEW n \in 0 .. Len(s)
          PROVE  f[n] = IF n = 0 THEN << >>
                        ELSE IF s[n] \in gone THEN f[n - 1] ELSE Append(f[n - 1], s[n])
      BY <1>2, Zenon DEF IsKept
    <2>2. 0 \in 0 .. Len(s) /\ \A n \in 1 .. Len(s) : n \in 0 .. Len(s) /\ n # 0
      BY <1>1
    <2> QED
      BY <2>1, <2>2, Zenon
  <1> DEFINE P(n) == /\ f[n] \in Seq(S)
                     /\ \A x : Contains(f[n], x) <=> x \notin gone /\ InFirst(x, n)
                     /\ IsInjective(s) => IsInjective(f[n])
             T == {n \in Nat : n <= Len(s) => P(n)}
  <1>4. 0 \in T
    <2>1. f[0] \in Seq(S) /\ DOMAIN f[0] = {} /\ Len(f[0]) = 0 /\ 1 .. 0 = {}
      BY <1>3
    <2>2. P(0)
      BY <2>1 DEF Contains, IsInjective
    <2> QED
      BY <2>2
  <1>5. ASSUME NEW n \in Nat, n \in T PROVE n + 1 \in T
    <2> SUFFICES ASSUME n + 1 <= Len(s) PROVE P(n + 1)
      OBVIOUS
    <2>1. n + 1 \in 1 .. Len(s) /\ n <= Len(s) /\ s[n + 1] \in S
      BY <1>1
    <2>2. P(n)
      BY <1>5, <2>1
    <2>3. f[n + 1] = IF s[n + 1] \in gone THEN f[n] ELSE Append(f[n], s[n + 1])
      BY <1>3, <2>1
    <2>4. \A x : InFirst(x, n + 1) <=> InFirst(x, n) \/ x = s[n + 1]
      <3>1. \A i : i \in 1 .. n + 1 <=> i \in 1 .. n \/ i = n + 1
        OBVIOUS
      <3> QED
        BY <3>1
    <2>5. IsInjective(s) => ~InFirst(s[n + 1], n)
      <3>1. \A i \in 1 .. n : i \in DOMAIN s /\ i # n + 1
        BY <1>1, <2>1
      <3>2. n + 1 \in DOMAIN s
        BY <1>1, <2>1
      <3> QED
        BY <3>1, <3>2 DEF IsInjective
    <2> HIDE DEF InFirst
    <2>6. CASE s[n + 1] \in gone
      BY <2>2, <2>3, <2>4, <2>6
    <2>7. CASE s[n + 1] \notin gone
      <3>1. f[n + 1] = Append(f[n], s[n + 1])
        BY <2>3, <2>7
      <3>2. /\ f[n + 1] \in Seq(S)
            /\ \A x : Contains(f[n + 1], x) <=> Contains(f[n], x) \/ x = s[n + 1]
            /\ IsInjective(f[n]) /\ ~Contains(f[n], s[n + 1]) => IsInjective(f[n + 1])
        BY <2>1, <2>2, <3>1, AppendElements
      <3> QED
        BY <2>2, <2>4, <2>5, <2>7, <3>2
    <2> QED
      BY <2>6, <2>7
  <1> HIDE DEF T
  <1>6. Nat \subseteq T
    BY <1>4, <1>5, SetInduction
  <1>7. P(Len(s))
    <2>1. Len(s) \in T
      BY <1>1, <1>6
    <2> QED
      BY <1>1, <2>1 DEF T
  <1>8. \A x : InFirst(x, Len(s)) <=> Contains(s, x)
    BY <1>1 DEF Contains
  <1> QED
    BY <1>2, <1>7, <1>8

\* An element of a sequence is its head or in its tail.
LEMMA HeadOrTail ==
    ASSUME NEW S, NEW s \in Seq(S), s # << >>
    PROVE  /\ Head(s) \in S /\ Tail(s) \in Seq(S)
           /\ \A x : Contains(s, x) => x = Head(s) \/ Contains(Tail(s), x)
  <1>1. /\ Len(s) \in Nat \ {0} /\ DOMAIN s = 1 .. Len(s) /\ Head(s) = s[1]
        /\ Tail(s) \in Seq(S) /\ DOMAIN Tail(s) = 1 .. Len(s) - 1 /\ s[1] \in S
    OBVIOUS
  <1>2. \A i \in 1 .. Len(s) : i # 1 => i - 1 \in 1 .. Len(s) - 1 /\ Tail(s)[i - 1] = s[i]
    BY <1>1
  <1> QED
    BY <1>1, <1>2 DEF Contains

\* If q is what a holds after its first n elements, appending an element to
\* both keeps it so.
LEMMA AppendBoth ==
    ASSUME NEW S, NEW a \in Seq(S), NEW q \in Seq(S), NEW b \in S, NEW n \in Nat,
           Len(a) = n + Len(q), \A j \in 1 .. Len(q) : a[n + j] = q[j]
    PROVE  /\ Len(Append(a, b)) = n + Len(Append(q, b))
           /\ \A j \in 1 .. Len(Append(q, b)) : Append(a, b)[n + j] = Append(q, b)[j]
  <1>1. /\ Len(Append(a, b)) = Len(a) + 1 /\ Len(Append(q, b)) = Len(q) + 1
        /\ Len(a) \in Nat /\ Len(q) \in Nat
    OBVIOUS
  <1>2. /\ Append(a, b)[Len(a) + 1] = b /\ Append(q, b)[Len(q) + 1] = b
    OBVIOUS
  <1>3. ASSUME NEW j \in 1 .. Len(q) PROVE Append(a, b)[n + j] = Append(q, b)[j]
    <2>1. n + j \in 1 .. Len(a)
      BY <1>1
    <2>2. Append(a, b)[n + j] = a[n + j] /\ Append(q, b)[j] = q[j]
      BY <2>1
    <2> QED
      BY <2>2
  <1>4. n + (Len(q) + 1) = Len(a) + 1
    BY <1>1
  <1> QED
    BY <1>1, <1>2, <1>3, <1>4

\* Replacing the only element of a sequence leaves it the only one.
LEMMA ReplaceOnly ==
    ASSUME NEW S, NEW w \in Seq(S), DOMAIN w = {1}, NEW e \in S
    PROVE  LET v == [w EXCEPT ![1] = e] IN DOMAIN v = {1} /\ Len(v) = Len(w) /\ v[1] = e
  <1>1. Len(w) \in Nat /\ 1 \in 1 .. Len(w)
    OBVIOUS
  <1>2. Len([w EXCEPT ![1] = e]) = Len(w)
    BY <1>1, ExceptSeq
  <1> QED
    BY <1>2

-----------------------------------------------------------------------------
(* Removing by position: the list of outstanding operations.               *)

\* Removing an element of a sequence leaves a sequence over the same set, one
\* shorter, with the other elements.
LEMMA RemoveAtType ==
    ASSUME NEW S, NEW s \in Seq(S), NEW i \in DOMAIN s
    PROVE  RemoveAt(s, i) \in Seq(S)
  <1>1. SubSeq(s, 1, i - 1) \in Seq(S)
    OBVIOUS
  <1>2. SubSeq(s, i + 1, Len(s)) \in Seq(S)
    OBVIOUS
  <1> QED
    BY <1>1, <1>2 DEF RemoveAt

LEMMA RemoveAtElements ==
    ASSUME NEW S, NEW s \in Seq(S), NEW i \in DOMAIN s
    PROVE  /\ Len(RemoveAt(s, i)) = Len(s) - 1
           /\ \A j \in 1 .. Len(s) - 1 :
                RemoveAt(s, i)[j] = IF j < i THEN s[j] ELSE s[j + 1]
           /\ \A x : Contains(RemoveAt(s, i), x) => Contains(s, x)
           /\ \A x : Contains(s, x) /\ x # s[i] => Contains(RemoveAt(s, i), x)
  <1> DEFINE r == RemoveAt(s, i)
  <1>1. i \in 1 .. Len(s) /\ Len(s) \in Nat
    OBVIOUS
  <1>2. Len(r) = Len(s) - 1 /\ \A j \in 1 .. Len(s) - 1 : r[j] = IF j < i THEN s[j] ELSE s[j + 1]
    <2> DEFINE a == SubSeq(s, 1, i - 1)
               b == SubSeq(s, i + 1, Len(s))
    <2>1. a \in Seq(S) /\ b \in Seq(S) /\ Len(a) = i - 1 /\ Len(b) = Len(s) - i
      BY <1>1
    <2>2. \A j \in 1 .. i - 1 : a[j] = s[j]
      BY <1>1
    <2>3. \A j \in 1 .. Len(s) - i : b[j] = s[i + j]
      BY <1>1
    <2> HIDE DEF a, b
    <2>4. r = a \o b
      BY DEF r, RemoveAt, a, b
    <2>5. Len(a \o b) = Len(s) - 1
      BY <1>1, <2>1
    <2>6. ASSUME NEW j \in 1 .. Len(s) - 1 PROVE (a \o b)[j] = IF j < i THEN s[j] ELSE s[j + 1]
      <3>1. CASE j < i
        <4>1. j \in 1 .. i - 1 /\ j \in 1 .. Len(a)
          BY <1>1, <2>1, <3>1
        <4>2. (a \o b)[j] = a[j]
          BY <2>1, <4>1
        <4> QED
          BY <2>2, <3>1, <4>1, <4>2
      <3>2. CASE ~(j < i)
        <4>1. j - (i - 1) \in 1 .. Len(s) - i /\ i + (j - (i - 1)) = j + 1
          BY <1>1, <3>2
        <4>2. (a \o b)[j] = b[j - (i - 1)]
          BY <1>1, <2>1, <3>2
        <4> QED
          BY <2>3, <3>2, <4>1, <4>2
      <3> QED
        BY <3>1, <3>2
    <2> QED
      BY <2>4, <2>5, <2>6
  <1> HIDE DEF r
  <1>3. ASSUME NEW x, Contains(r, x) PROVE Contains(s, x)
    <2>1. PICK j \in 1 .. Len(s) - 1 : r[j] = x
      BY <1>2, <1>3 DEF Contains
    <2>2. j \in 1 .. Len(s) /\ j + 1 \in 1 .. Len(s)
      BY <1>1
    <2>3. s[j] = x \/ s[j + 1] = x
      BY <1>2, <2>1
    <2> QED
      BY <2>2, <2>3 DEF Contains
  <1>4. ASSUME NEW x, Contains(s, x), x # s[i] PROVE Contains(r, x)
    <2>1. PICK j \in 1 .. Len(s) : s[j] = x
      BY <1>4 DEF Contains
    <2>2. CASE j < i
      <3>1. j \in 1 .. Len(s) - 1
        BY <1>1, <2>2
      <3>2. r[j] = x
        BY <1>2, <2>1, <2>2, <3>1
      <3> QED
        BY <1>2, <3>1, <3>2 DEF Contains
    <2>3. CASE ~(j < i)
      <3>1. j # i
        BY <1>4, <2>1
      <3>2. j - 1 \in 1 .. Len(s) - 1 /\ ~(j - 1 < i) /\ (j - 1) + 1 = j
        BY <1>1, <2>3, <3>1
      <3>3. r[j - 1] = x
        BY <1>2, <2>1, <3>2
      <3> QED
        BY <1>2, <3>2, <3>3 DEF Contains
    <2> QED
      BY <2>2, <2>3
  <1> QED
    BY <1>2, <1>3, <1>4 DEF r

\* Removing the only element of a sequence leaves the empty one.
LEMMA RemoveOnly ==
    ASSUME NEW S, NEW s \in Seq(S), Len(s) <= 1, NEW i \in DOMAIN s
    PROVE  RemoveAt(s, i) = << >>
  <1>1. i = 1 /\ Len(s) < 2
    OBVIOUS
  <1>2. SubSeq(s, 1, i - 1) = << >>
    BY <1>1
  <1>3. SubSeq(s, i + 1, Len(s)) = << >>
    BY <1>1
  <1> QED
    BY <1>2, <1>3 DEF RemoveAt

\* A sequence mapped over its own domain is a sequence.
LEMMA MapSeq ==
    ASSUME NEW S, NEW n \in Nat, NEW f \in [1 .. n -> S]
    PROVE  f \in Seq(S)
  OBVIOUS

-----------------------------------------------------------------------------
(* A sequence that is cut into parts: a stream of bytes and its messages.  *)

\* s is made of ms[d + 1], ms[d + 2], ... one after another: e[i] is where ms[i]
\* ends.
CutsAt(e, s, ms, d) ==
    /\ e[d] = 0 /\ e[Len(ms)] = Len(s)
    /\ \A i, k \in d .. Len(ms) : i <= k => e[i] <= e[k]
    /\ \A i \in d + 1 .. Len(ms) :
         /\ e[i] = e[i - 1] + Len(ms[i])
         /\ \A j \in 1 .. Len(ms[i]) : s[e[i - 1] + j] = ms[i][j]

Made(s, ms, d) ==
    d \in 0 .. Len(ms) /\ \E e \in [d .. Len(ms) -> 0 .. Len(s)] : CutsAt(e, s, ms, d)

\* SeqOf is the sequences up to a length.
LEMMA SeqOfIs ==
    ASSUME NEW S, NEW n \in Nat, NEW s
    PROVE  s \in SeqOf(S, n) <=> s \in Seq(S) /\ Len(s) <= n
  <1>1. ASSUME s \in SeqOf(S, n) PROVE s \in Seq(S) /\ Len(s) <= n
    <2>1. PICK m \in 0 .. n : s \in [1 .. m -> S]
      BY <1>1 DEF SeqOf
    <2>2. s \in Seq(S) /\ Len(s) = m
      BY <2>1
    <2> QED
      BY <2>1, <2>2
  <1>2. ASSUME s \in Seq(S), Len(s) <= n PROVE s \in SeqOf(S, n)
    <2>1. Len(s) \in 0 .. n /\ s \in [1 .. Len(s) -> S]
      BY <1>2
    <2> QED
      BY <2>1 DEF SeqOf
  <1> QED
    BY <1>1, <1>2

\* v is a with the first k elements of b, w is the rest of b.
Split(S, a, b, k, v, w) ==
    /\ v = a \o SubSeq(b, 1, k) /\ w = SubSeq(b, k + 1, Len(b))
    /\ v \in Seq(S) /\ w \in Seq(S) /\ Len(v) = Len(a) + k
    /\ \A j \in 1 .. Len(v) : v[j] = (a \o b)[j]
    /\ v \o w = a \o b

\* A read moves bytes from one part of the stream to the other.
LEMMA SplitAt ==
    ASSUME NEW S, NEW a \in Seq(S), NEW b \in Seq(S), NEW k \in 0 .. Len(b)
    PROVE  \E v, w : Split(S, a, b, k, v, w)
  <1> DEFINE h == SubSeq(b, 1, k)
             c == a \o h
             r == SubSeq(b, k + 1, Len(b))
             s == a \o b
  <1>1. h \in Seq(S) /\ Len(h) = k /\ \A j \in 1 .. k : h[j] = b[j]
    OBVIOUS
  <1>2. r \in Seq(S) /\ Len(r) = Len(b) - k /\ \A j \in 1 .. Len(b) - k : r[j] = b[k + j]
    OBVIOUS
  <1> HIDE DEF h, r
  <1>3. /\ c \in Seq(S) /\ Len(c) = Len(a) + k
        /\ \A j \in 1 .. Len(a) + k : c[j] = IF j <= Len(a) THEN a[j] ELSE h[j - Len(a)]
    BY <1>1
  <1>4. /\ s \in Seq(S) /\ Len(s) = Len(a) + Len(b)
        /\ \A j \in 1 .. Len(a) + Len(b) : s[j] = IF j <= Len(a) THEN a[j] ELSE b[j - Len(a)]
    OBVIOUS
  <1> HIDE DEF c, s
  <1>5. \A j \in 1 .. Len(c) : c[j] = s[j]
    <2> SUFFICES ASSUME NEW j \in 1 .. Len(c) PROVE c[j] = s[j]
      OBVIOUS
    <2>1. CASE j <= Len(a)
      BY <1>3, <1>4, <2>1
    <2>2. CASE ~(j <= Len(a))
      <3>1. j - Len(a) \in 1 .. k
        BY <1>3, <2>2
      <3> QED
        BY <1>1, <1>3, <1>4, <2>2, <3>1
    <2> QED
      BY <2>1, <2>2
  <1>6. /\ c \o r \in Seq(S) /\ Len(c \o r) = Len(a) + Len(b)
        /\ \A j \in 1 .. Len(a) + Len(b) : (c \o r)[j] = IF j <= Len(c) THEN c[j] ELSE r[j - Len(c)]
    <2>1. /\ c \o r \in Seq(S) /\ Len(c \o r) = Len(c) + Len(r)
          /\ \A j \in 1 .. Len(c) + Len(r) : (c \o r)[j] = IF j <= Len(c) THEN c[j] ELSE r[j - Len(c)]
      <3>1. c \in Seq(S) /\ r \in Seq(S)
        BY <1>2, <1>3
      <3> QED
        BY <3>1
    <2>2. Len(c) + Len(r) = Len(a) + Len(b)
      BY <1>2, <1>3
    <2> QED
      BY <2>1, <2>2
  <1>7. ASSUME NEW j \in 1 .. Len(a) + Len(b) PROVE (c \o r)[j] = s[j]
    <2>1. CASE j <= Len(c)
      BY <1>3, <1>5, <1>6, <2>1
    <2>2. CASE ~(j <= Len(c))
      <3>1. /\ j - Len(c) \in 1 .. Len(b) - k /\ ~(j <= Len(a)) /\ k + (j - Len(c)) = j - Len(a)
        BY <1>3, <2>2
      <3> QED
        BY <1>2, <1>4, <1>6, <2>2, <3>1
    <2> QED
      BY <2>1, <2>2
  <1>8. c \o r = s
    BY <1>4, <1>6, <1>7
  <1>9. c = a \o SubSeq(b, 1, k) /\ r = SubSeq(b, k + 1, Len(b)) /\ s = a \o b
    BY DEF c, h, r, s
  <1> QED
    BY <1>2, <1>3, <1>4, <1>5, <1>8, <1>9, Zenon DEF Split

\* Nothing is made of no parts.
LEMMA MadeEmpty == Made(<< >>, << >>, 0)
  <1> DEFINE e == [i \in 0 .. 0 |-> 0]
  <1>1. e \in [0 .. Len(<< >>) -> 0 .. Len(<< >>)]
    OBVIOUS
  <1>2. CutsAt(e, << >>, << >>, 0)
    BY DEF CutsAt
  <1> QED
    BY <1>1, <1>2 DEF Made

\* One more message at the end.
LEMMA MadeAppend ==
    ASSUME NEW S, NEW s \in Seq(S), NEW ms \in Seq(Seq(S)), NEW d, Made(s, ms, d),
           NEW m \in Seq(S)
    PROVE  Made(s \o m, Append(ms, m), d)
  <1> DEFINE n == Len(ms)
             t == s \o m
             ns == Append(ms, m)
  <1>1. PICK e \in [d .. n -> 0 .. Len(s)] : CutsAt(e, s, ms, d)
    BY DEF Made
  <1>2. /\ t \in Seq(S) /\ Len(t) = Len(s) + Len(m) /\ Len(s) \in Nat /\ Len(m) \in Nat
        /\ \A j \in 1 .. Len(s) : t[j] = s[j]
        /\ \A j \in 1 .. Len(m) : t[Len(s) + j] = m[j]
    OBVIOUS
  <1>3. /\ n \in Nat /\ d \in 0 .. n /\ Len(ns) = n + 1 /\ ns[n + 1] = m
        /\ \A i \in 1 .. n : ns[i] = ms[i] /\ ms[i] \in Seq(S) /\ Len(ms[i]) \in Nat
    BY DEF Made
  <1> DEFINE f == [i \in d .. n + 1 |-> IF i = n + 1 THEN Len(s) + Len(m) ELSE e[i]]
  <1> HIDE DEF n, t, ns
  <1>4. \A i \in d .. n : /\ f[i] = e[i] /\ e[i] \in 0 .. Len(s) /\ i \in d .. n + 1
    BY <1>3
  <1>5. f[n + 1] = Len(t)
    BY <1>2, <1>3
  <1>6. f \in [d .. n + 1 -> 0 .. Len(t)]
    BY <1>2, <1>3, <1>4
  <1>7. DOMAIN f = d .. n + 1 /\ \A i \in d .. n + 1 : i \in d .. n \/ i = n + 1
    BY <1>3
  <1> HIDE DEF f
  <1>8. /\ e[d] = 0 /\ e[n] = Len(s)
        /\ \A i, k \in d .. n : i <= k => e[i] <= e[k]
        /\ \A i \in d + 1 .. n : /\ e[i] = e[i - 1] + Len(ms[i])
                                 /\ \A j \in 1 .. Len(ms[i]) : s[e[i - 1] + j] = ms[i][j]
    BY <1>1 DEF CutsAt, n
  <1>9. f[d] = 0
    BY <1>3, <1>4, <1>8
  <1>10. ASSUME NEW i \in d .. n + 1, NEW k \in d .. n + 1, i <= k PROVE f[i] <= f[k]
    <2>1. CASE k = n + 1
      BY <1>5, <1>6, <2>1
    <2>2. CASE k \in d .. n
      <3>1. i \in d .. n
        BY <1>3, <1>10, <2>2
      <3> QED
        BY <1>4, <1>8, <1>10, <2>2, <3>1
    <2> QED
      BY <1>7, <2>1, <2>2
  <1>11. ASSUME NEW i \in d + 1 .. n + 1
         PROVE  /\ f[i] = f[i - 1] + Len(ns[i])
                /\ \A j \in 1 .. Len(ns[i]) : t[f[i - 1] + j] = ns[i][j]
    <2>1. CASE i = n + 1
      <3>1. i - 1 = n /\ n \in d .. n
        BY <1>3, <2>1
      <3>2. f[i - 1] = Len(s)
        BY <1>4, <1>8, <3>1
      <3> QED
        BY <1>2, <1>3, <1>5, <2>1, <3>2
    <2>2. CASE i # n + 1
      <3>1. i \in d + 1 .. n /\ i - 1 \in d .. n /\ i \in d .. n /\ i \in 1 .. n
        BY <1>3, <2>2
      <3>2. f[i] = e[i] /\ f[i - 1] = e[i - 1] /\ e[i] \in 0 .. Len(s) /\ e[i - 1] \in 0 .. Len(s)
        BY <1>4, <3>1
      <3>3. /\ e[i] = e[i - 1] + Len(ms[i])
            /\ \A j \in 1 .. Len(ms[i]) : s[e[i - 1] + j] = ms[i][j]
        BY <1>8, <3>1
      <3>4. ns[i] = ms[i] /\ Len(ms[i]) \in Nat
        BY <1>3, <3>1
      <3>5. ASSUME NEW j \in 1 .. Len(ms[i]) PROVE e[i - 1] + j \in 1 .. Len(s)
        <4>1. e[i - 1] + j <= e[i] /\ e[i - 1] + j \in Int /\ e[i - 1] + j >= 1
          BY <3>2, <3>3, <3>4
        <4> QED
          BY <1>2, <3>2, <4>1
      <3> QED
        BY <1>2, <3>2, <3>3, <3>4, <3>5
    <2> QED
      BY <2>1, <2>2
  <1>12. CutsAt(f, t, ns, d)
    BY <1>3, <1>5, <1>9, <1>10, <1>11 DEF CutsAt
  <1>13. d \in 0 .. Len(ns)
    BY <1>3
  <1> QED
    BY <1>3, <1>6, <1>12, <1>13 DEF Made, t, ns

\* If there are bytes there is a first message, and they begin with it.
LEMMA MadeFirst ==
    ASSUME NEW S, NEW s \in Seq(S), NEW ms \in Seq(Seq(S)), NEW d, Made(s, ms, d),
           s # << >>
    PROVE  /\ d + 1 \in 1 .. Len(ms) /\ d \in Nat /\ Len(ms[d + 1]) <= Len(s)
           /\ \A j \in 1 .. Len(ms[d + 1]) : s[j] = ms[d + 1][j]
  <1> DEFINE n == Len(ms)
  <1>1. PICK e \in [d .. n -> 0 .. Len(s)] : CutsAt(e, s, ms, d)
    BY DEF Made
  <1>2. n \in Nat /\ d \in 0 .. n /\ Len(s) \in Nat /\ Len(s) # 0
    BY DEF Made
  <1>3. /\ e[d] = 0 /\ e[n] = Len(s)
        /\ \A i \in d + 1 .. n : /\ e[i] = e[i - 1] + Len(ms[i])
                                 /\ \A j \in 1 .. Len(ms[i]) : s[e[i - 1] + j] = ms[i][j]
    BY <1>1 DEF CutsAt
  <1>4. d # n
    BY <1>2, <1>3
  <1>5. d + 1 \in d + 1 .. n /\ (d + 1) - 1 = d /\ d + 1 \in 1 .. n /\ d + 1 \in d .. n
    BY <1>2, <1>4
  <1>6. ms[d + 1] \in Seq(S) /\ Len(ms[d + 1]) \in Nat
    BY <1>5
  <1>7. e[d + 1] = Len(ms[d + 1]) /\ e[d + 1] \in 0 .. Len(s)
    BY <1>3, <1>5, <1>6
  <1>8. \A j \in 1 .. Len(ms[d + 1]) : s[j] = ms[d + 1][j]
    <2>1. \A j \in 1 .. Len(ms[d + 1]) : s[e[d] + j] = ms[d + 1][j]
      <3>1. \A j \in 1 .. Len(ms[d + 1]) : s[e[(d + 1) - 1] + j] = ms[d + 1][j]
        BY <1>3, <1>5, Zenon
      <3> QED
        BY <1>5, <3>1, Zenon
    <2>2. \A j \in 1 .. Len(ms[d + 1]) : e[d] + j = j
      BY <1>3
    <2> QED
      BY <2>1, <2>2
  <1> QED
    BY <1>2, <1>5, <1>7, <1>8

\* r is what s holds after its first l elements.
IsRest(r, s, l) == Len(s) = l + Len(r) /\ \A j \in 1 .. Len(r) : r[j] = s[l + j]

\* A position in a part is one in the whole.
LEMMA Within ==
    ASSUME NEW x \in Int, NEW y \in Int, NEW w \in Nat, NEW j \in Int, NEW n \in Nat,
           y = x + w, 0 <= x, y <= n, 1 <= j, j <= w
    PROVE  x + j \in 1 .. n
  OBVIOUS

\* Without the first message the bytes are the other messages.
LEMMA MadeRest ==
    ASSUME NEW S, NEW s \in Seq(S), NEW ms \in Seq(Seq(S)), NEW d, Made(s, ms, d),
           d + 1 \in 1 .. Len(ms), NEW r \in Seq(S), NEW l, l = Len(ms[d + 1]),
           IsRest(r, s, l)
    PROVE  Made(r, ms, d + 1)
  <1> DEFINE n == Len(ms)
  <1>1. PICK e \in [d .. n -> 0 .. Len(s)] : CutsAt(e, s, ms, d)
    BY DEF Made
  <1>2. n \in Nat /\ d \in 0 .. n /\ Len(s) \in Nat /\ l \in Nat /\ Len(r) \in Nat
        /\ d + 1 \in d .. n /\ (d + 1) - 1 = d /\ d + 1 \in d + 1 .. n
    BY DEF Made
  <1>13. Len(s) = l + Len(r)
    BY DEF IsRest
  <1>14. \A j \in 1 .. Len(r) : r[j] = s[l + j]
    BY DEF IsRest
  <1>3. /\ e[d] = 0 /\ e[n] = Len(s)
        /\ \A i, k \in d .. n : i <= k => e[i] <= e[k]
        /\ \A i \in d + 1 .. n : /\ e[i] = e[i - 1] + Len(ms[i])
                                 /\ \A j \in 1 .. Len(ms[i]) : s[e[i - 1] + j] = ms[i][j]
    BY <1>1 DEF CutsAt
  <1>4. e[d + 1] = l
    <2>1. e[d + 1] = e[(d + 1) - 1] + Len(ms[d + 1])
      BY <1>2, <1>3
    <2>2. e[(d + 1) - 1] = 0
      BY <1>2, <1>3
    <2> QED
      BY <1>2, <2>1, <2>2
  <1>5. ASSUME NEW i \in d + 1 .. n
        PROVE  i \in d .. n /\ e[i] >= l /\ e[i] \in 0 .. Len(s) /\ i \in 1 .. n
    <2>1. i \in d .. n /\ d + 1 <= i /\ i \in 1 .. n
      BY <1>2
    <2>2. e[d + 1] <= e[i] /\ e[i] \in 0 .. Len(s)
      BY <1>1, <1>2, <1>3, <2>1
    <2> QED
      BY <1>2, <1>4, <2>1, <2>2
  <1> DEFINE f == [i \in d + 1 .. n |-> e[i] - l]
  <1>15. \A y \in Int : y >= l /\ y \in 0 .. Len(s) => y - l \in 0 .. Len(r)
    BY <1>2, <1>13
  <1>6. \A i \in d + 1 .. n : f[i] = e[i] - l /\ f[i] \in 0 .. Len(r)
    <2> SUFFICES ASSUME NEW i \in d + 1 .. n PROVE f[i] = e[i] - l /\ f[i] \in 0 .. Len(r)
      BY Zenon
    <2>1. f[i] = e[i] - l
      BY Zenon
    <2>2. e[i] \in 0 .. Len(s) /\ e[i] >= l
      BY <1>5, Zenon
    <2>3. e[i] \in Int
      BY <1>2, <2>2
    <2>4. e[i] - l \in 0 .. Len(r)
      BY <1>15, <2>2, <2>3, Zenon
    <2> QED
      BY <2>1, <2>4, Zenon
  <1>7. f \in [d + 1 .. n -> 0 .. Len(r)]
    BY <1>6
  <1> HIDE DEF f
  <1>8. f[d + 1] = 0 /\ f[n] = Len(r)
    <2>1. n \in d + 1 .. n
      BY <1>2
    <2>2. f[d + 1] = e[d + 1] - l /\ f[n] = e[n] - l
      BY <1>2, <1>6, <2>1
    <2> QED
      BY <1>2, <1>3, <1>4, <1>13, <2>2
  <1>9. \A i, k \in d + 1 .. n : i <= k => f[i] <= f[k]
    <2> SUFFICES ASSUME NEW i \in d + 1 .. n, NEW k \in d + 1 .. n, i <= k PROVE f[i] <= f[k]
      OBVIOUS
    <2>1. e[i] <= e[k] /\ e[i] \in Int /\ e[k] \in Int
      BY <1>3, <1>5
    <2> QED
      BY <1>2, <1>6, <2>1
  <1>10. ASSUME NEW i \in (d + 1) + 1 .. n
         PROVE  /\ f[i] = f[i - 1] + Len(ms[i])
                /\ \A j \in 1 .. Len(ms[i]) : r[f[i - 1] + j] = ms[i][j]
    <2>1. i \in d + 1 .. n /\ i - 1 \in d + 1 .. n /\ i \in 1 .. n
      <3>1. d \in Nat /\ n \in Nat /\ i \in Int /\ d + 2 <= i /\ i <= n
        BY <1>2
      <3> QED
        BY <3>1
    <2>2. ms[i] \in Seq(S) /\ Len(ms[i]) \in Nat
      BY <2>1
    <2>3. /\ e[i] = e[i - 1] + Len(ms[i])
          /\ \A j \in 1 .. Len(ms[i]) : s[e[i - 1] + j] = ms[i][j]
      BY <1>3, <2>1
    <2>4. /\ f[i] = e[i] - l /\ f[i - 1] = e[i - 1] - l
          /\ e[i] \in Int /\ e[i - 1] \in Int /\ f[i] \in 0 .. Len(r) /\ f[i - 1] \in 0 .. Len(r)
      <3>1. e[i] \in 0 .. Len(s) /\ e[i - 1] \in 0 .. Len(s)
        BY <1>5, <2>1, Zenon
      <3>2. /\ f[i] = e[i] - l /\ f[i - 1] = e[i - 1] - l
            /\ f[i] \in 0 .. Len(r) /\ f[i - 1] \in 0 .. Len(r)
        BY <1>6, <2>1, Zenon
      <3>3. e[i] \in Int /\ e[i - 1] \in Int
        BY <3>1
      <3> QED
        BY <3>2, <3>3
    <2> DEFINE a == e[i - 1]
               b == e[i]
               x == f[i - 1]
               y == f[i]
               w == Len(ms[i])
    <2>5. /\ a \in Int /\ b \in Int /\ w \in Nat /\ l \in Nat /\ Len(r) \in Nat
          /\ x \in 0 .. Len(r) /\ y \in 0 .. Len(r)
          /\ y = b - l /\ x = a - l /\ b = a + w
          /\ \A j \in 1 .. w : s[a + j] = ms[i][j]
      BY <1>2, <2>2, <2>3, <2>4
    <2> HIDE DEF a, b, x, y, w
    <2>9. a \in Int /\ b \in Int /\ w \in Nat /\ l \in Nat /\ y = b - l /\ x = a - l /\ b = a + w
      BY <2>5
    <2>6. y = x + w
      BY <2>9
    <2>7. ASSUME NEW j \in 1 .. w PROVE x + j \in 1 .. Len(r) /\ l + (x + j) = a + j
      <3>1. j \in Int /\ x \in Int /\ 1 <= j /\ j <= w /\ 0 <= x /\ y <= Len(r) /\ x = a - l
        BY <2>5
      <3>5. w \in Nat /\ y \in Int /\ Len(r) \in Nat
        BY <2>5
      <3>2. x + j \in 1 .. Len(r)
        BY <2>6, <3>1, <3>5, Within, Zenon
      <3>4. l + (x + j) = a + j
        BY <2>5, <3>1
      <3> QED
        BY <3>2, <3>4, Zenon
    <2>8. \A j \in 1 .. w : r[x + j] = ms[i][j]
      BY <1>14, <2>5, <2>7
    <2> QED
      BY <2>6, <2>8 DEF x, y, w
  <1>11. CutsAt(f, r, ms, d + 1)
    BY <1>8, <1>9, <1>10 DEF CutsAt
  <1>12. d + 1 \in 0 .. n
    BY <1>2
  <1> QED
    BY <1>7, <1>11, <1>12 DEF Made

\* Concatenation is associative.
LEMMA ConcatThree ==
    ASSUME NEW S, NEW a \in Seq(S), NEW b \in Seq(S), NEW c \in Seq(S)
    PROVE  a \o (b \o c) = (a \o b) \o c
  OBVIOUS

\* After the first message in v, the stream v \o w is the other messages.
LEMMA RestIsMade ==
    ASSUME NEW S, NEW v \in Seq(S), NEW w \in Seq(S), NEW ms \in Seq(Seq(S)), NEW d,
           Made(v \o w, ms, d), d + 1 \in 1 .. Len(ms), Len(ms[d + 1]) <= Len(v)
    PROVE  Made(SubSeq(v, Len(ms[d + 1]) + 1, Len(v)) \o w, ms, d + 1)
  <1>1. ms[d + 1] \in Seq(S)
    OBVIOUS
  <1>2. PICK l \in 0 .. Len(v) : l = Len(ms[d + 1])
    BY <1>1
  <1>3. PICK t \in Seq(S) : t = SubSeq(v, l + 1, Len(v))
    <2>1. SubSeq(v, l + 1, Len(v)) \in Seq(S)
      BY <1>2
    <2> QED
      BY <2>1, Zenon
  <1>4. PICK r \in Seq(S) : r = t \o w
    <2>1. t \o w \in Seq(S)
      OBVIOUS
    <2> QED
      BY <2>1, Zenon
  <1>5. PICK s \in Seq(S) : s = v \o w
    <2>1. v \o w \in Seq(S)
      OBVIOUS
    <2> QED
      BY <2>1, Zenon
  <1>6. Len(s) = l + Len(r) /\ \A j \in 1 .. Len(r) : r[j] = s[l + j]
    <2>1. Len(t) = Len(v) - l /\ \A j \in 1 .. Len(v) - l : t[j] = v[l + j]
      <3>1. /\ Len(SubSeq(v, l + 1, Len(v))) = Len(v) - l
            /\ \A j \in 1 .. Len(v) - l : SubSeq(v, l + 1, Len(v))[j] = v[l + j]
        OBVIOUS
      <3> QED
        BY <1>3, <3>1, Zenon
    <2>2. /\ Len(s) = Len(v) + Len(w)
          /\ \A j \in 1 .. Len(v) + Len(w) : s[j] = IF j <= Len(v) THEN v[j] ELSE w[j - Len(v)]
      BY <1>5
    <2>3. /\ Len(r) = Len(t) + Len(w)
          /\ \A j \in 1 .. Len(t) + Len(w) : r[j] = IF j <= Len(t) THEN t[j] ELSE w[j - Len(t)]
      BY <1>4
    <2>4. PICK lv \in Nat : lv = Len(v)
      OBVIOUS
    <2>5. PICK lw \in Nat : lw = Len(w)
      OBVIOUS
    <2>6. PICK lt \in Nat : lt = Len(t)
      OBVIOUS
    <2>7. l \in 0 .. lv /\ lt = lv - l /\ Len(s) = lv + lw /\ Len(r) = lt + lw
      BY <1>2, <2>1, <2>2, <2>3, <2>4, <2>5, <2>6
    <2>8. Len(s) = l + Len(r)
      BY <2>4, <2>5, <2>6, <2>7
    <2>9. ASSUME NEW j \in 1 .. Len(r) PROVE r[j] = s[l + j]
      <3>1. j \in 1 .. lt + lw /\ l + j \in 1 .. lv + lw
        BY <2>4, <2>5, <2>6, <2>7
      <3>2. CASE j <= lt
        <4>1. l + j <= lv /\ j \in 1 .. lv - l
          BY <2>4, <2>6, <2>7, <3>1, <3>2
        <4>2. t[j] = v[l + j]
          BY <2>1, <2>4, <4>1
        <4>3. r[j] = t[j]
          BY <2>3, <2>5, <2>6, <3>1, <3>2
        <4>4. s[l + j] = v[l + j]
          BY <2>2, <2>4, <2>5, <3>1, <4>1
        <4> QED
          BY <4>2, <4>3, <4>4
      <3>3. CASE ~(j <= lt)
        <4>1. ~(l + j <= lv) /\ (l + j) - lv = j - lt
          BY <2>4, <2>6, <2>7, <3>1, <3>3
        <4>2. r[j] = w[j - lt]
          BY <2>3, <2>5, <2>6, <3>1, <3>3
        <4>3. s[l + j] = w[(l + j) - lv]
          BY <2>2, <2>4, <2>5, <3>1, <4>1
        <4> QED
          BY <4>1, <4>2, <4>3
      <3> QED
        BY <3>2, <3>3
    <2> QED
      BY <2>8, <2>9
  <1>7. Made(s, ms, d)
    BY <1>5
  <1>9. IsRest(r, s, l)
    BY <1>6 DEF IsRest
  <1>8. Made(r, ms, d + 1)
    BY <1>2, <1>7, <1>9, MadeRest
  <1> QED
    BY <1>2, <1>3, <1>4, <1>8

\* A part of v that agrees with f is f.
LEMMA FirstPart ==
    ASSUME NEW S, NEW v \in Seq(S), NEW f \in Seq(S), Len(f) <= Len(v),
           \A j \in 1 .. Len(f) : v[j] = f[j]
    PROVE  SubSeq(v, 1, Len(f)) = f
  <1>1. /\ SubSeq(v, 1, Len(f)) \in Seq(S) /\ Len(SubSeq(v, 1, Len(f))) = Len(f)
        /\ \A j \in 1 .. Len(f) : SubSeq(v, 1, Len(f))[j] = v[j]
    OBVIOUS
  <1> QED
    BY <1>1

=============================================================================
