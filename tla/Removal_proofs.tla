--------------------------- MODULE Removal_proofs ---------------------------
(***************************************************************************)
(* What Without leaves of a sequence, for every sequence.                  *)
(*                                                                         *)
(* The argument is an induction over the prefixes of the sequence.  It is  *)
(* made with sets of numbers in place of a predicate: a set that holds 0   *)
(* and with every number the next one is Nat, since what it lacked would   *)
(* have a least element (WFMin).                                           *)
(***************************************************************************)
EXTENDS Removal, WellFoundedInduction, TLAPS

LessThan == { p \in Nat \X Nat : p[1] < p[2] }

\* Every set of natural numbers has a least element.
LEMMA LeastNumber ==
    ASSUME NEW T \in SUBSET Nat, T # {}
    PROVE  \E x \in T : \A y \in T : x <= y
  <1>1. IsWellFoundedOn(LessThan, Nat)
    <2>1. LessThan = OpToRel(<, Nat)
      BY DEF LessThan, OpToRel
    <2> QED
      BY <2>1, NatLessThanWellFounded
  <1>2. \E x \in T : \A y \in T : ~(<<y, x>> \in LessThan)
    BY <1>1, WFMin
  <1>3. \A x, y \in T : y < x => <<y, x>> \in LessThan
    BY DEF LessThan
  <1>4. \A x, y \in T : x <= y \/ y < x
    OBVIOUS
  <1> QED
    BY <1>2, <1>3, <1>4

\* Induction, for a set of natural numbers.
LEMMA SetInduction ==
    ASSUME NEW T \in SUBSET Nat, 0 \in T, \A n \in T : n + 1 \in T
    PROVE  T = Nat
  <1> SUFFICES ASSUME T # Nat PROVE FALSE
    OBVIOUS
  <1>1. PICK x \in Nat \ T : \A y \in Nat \ T : x <= y
    BY LeastNumber
  <1>2. x - 1 \in T
    BY <1>1
  <1> QED
    BY <1>1, <1>2

-----------------------------------------------------------------------------
\* g holds what is left of the first 0, 1, ..., n elements of s.
Leaves(g, s, gone, n) ==
    g = [k \in 0 .. n |->
            IF k = 0 THEN << >>
            ELSE IF s[k] \in gone THEN g[k - 1] ELSE Append(g[k - 1], s[k])]

\* The recursive function Without is defined by exists.
LEMMA LeavesExists ==
    ASSUME NEW s, NEW gone, NEW n \in Nat
    PROVE  \E g : Leaves(g, s, gone, n)
  <1> DEFINE Good == { m \in Nat : \E g : Leaves(g, s, gone, m) }
  <1>1. 0 \in Good
    <2> DEFINE g == [k \in 0 .. 0 |-> << >>]
    <2>1. Leaves(g, s, gone, 0)
      BY DEF Leaves
    <2> QED
      BY <2>1
  <1>2. ASSUME NEW m \in Good PROVE m + 1 \in Good
    <2>1. PICK g : Leaves(g, s, gone, m)
      OBVIOUS
    <2> DEFINE last == IF s[m + 1] \in gone THEN g[m] ELSE Append(g[m], s[m + 1])
               h == [k \in 0 .. m + 1 |-> IF k = m + 1 THEN last ELSE g[k]]
    <2>2. \A k \in 0 .. m :
             g[k] = IF k = 0 THEN << >>
                    ELSE IF s[k] \in gone THEN g[k - 1] ELSE Append(g[k - 1], s[k])
      BY <2>1 DEF Leaves
    <2>3. \A k \in 0 .. m : h[k] = g[k]
      OBVIOUS
    <2>4. h[m + 1] = last /\ h = [k \in 0 .. m + 1 |-> h[k]]
      OBVIOUS
    <2> HIDE DEF h
    <2>5. ASSUME NEW k \in 0 .. m + 1
          PROVE  h[k] = IF k = 0 THEN << >>
                        ELSE IF s[k] \in gone THEN h[k - 1] ELSE Append(h[k - 1], s[k])
      <3>1. CASE k = m + 1
        BY <3>1, <2>3, <2>4
      <3>2. CASE k \in 0 .. m
        BY <3>2, <2>2, <2>3
      <3> QED
        BY <3>1, <3>2
    <2>6. Leaves(h, s, gone, m + 1)
      BY <2>4, <2>5 DEF Leaves
    <2> QED
      BY <2>6
  <1>3. Good = Nat
    BY <1>1, <1>2, SetInduction
  <1> QED
    BY <1>3

\* Without is the last value of such a function.
LEMMA WithoutIsLast ==
    ASSUME NEW T, NEW s \in Seq(T), NEW gone
    PROVE  \E g : Leaves(g, s, gone, Len(s)) /\ Without(s, gone) = g[Len(s)]
  <1> DEFINE g == CHOOSE g : Leaves(g, s, gone, Len(s))
  <1>1. Len(s) \in Nat
    OBVIOUS
  <1>2. Leaves(g, s, gone, Len(s))
    BY <1>1, LeavesExists, Zenon
  <1>3. Without(s, gone) = g[Len(s)]
    BY DEF Without, Leaves
  <1> QED
    BY <1>2, <1>3

\* What is left of a sequence: only its elements that are not gone, all of
\* them, and in their order, so that a relation between every element and
\* the later ones still holds.
LEMMA WithoutProperties ==
    ASSUME NEW T, NEW s \in Seq(T), NEW gone, NEW R
    PROVE  LET r == Without(s, gone) IN
           /\ r \in Seq(T)
           /\ \A k \in 1 .. Len(r) : r[k] \notin gone
           /\ \A k \in 1 .. Len(r) : \E l \in 1 .. Len(s) : r[k] = s[l]
           /\ \A l \in 1 .. Len(s) :
                s[l] \notin gone => \E k \in 1 .. Len(r) : r[k] = s[l]
           /\ (\A k, l \in 1 .. Len(s) : k < l => <<s[k], s[l]>> \in R)
                => \A k, l \in 1 .. Len(r) : k < l => <<r[k], r[l]>> \in R
  <1>0. Len(s) \in Nat /\ \A l \in 1 .. Len(s) : s[l] \in T
    OBVIOUS
  <1>1. PICK g : Leaves(g, s, gone, Len(s)) /\ Without(s, gone) = g[Len(s)]
    BY WithoutIsLast
  <1> DEFINE Ordered(t, n) == \A k, l \in 1 .. n : k < l => <<t[k], t[l]>> \in R
             P(n) == /\ g[n] \in Seq(T)
                     /\ \A k \in 1 .. Len(g[n]) : g[n][k] \notin gone
                     /\ \A k \in 1 .. Len(g[n]) : \E l \in 1 .. n : g[n][k] = s[l]
                     /\ \A l \in 1 .. n : s[l] \notin gone =>
                            \E k \in 1 .. Len(g[n]) : g[n][k] = s[l]
                     /\ Ordered(s, Len(s)) => Ordered(g[n], Len(g[n]))
             Good == { n \in Nat : n <= Len(s) => P(n) }
  <1>2. \A n \in 0 .. Len(s) :
           g[n] = IF n = 0 THEN << >>
                  ELSE IF s[n] \in gone THEN g[n - 1] ELSE Append(g[n - 1], s[n])
    BY <1>1 DEF Leaves
  <1>3. 0 \in Good
    <2>1. g[0] = << >>
      BY <1>0, <1>2
    <2>2. P(0)
      BY <2>1
    <2> QED
      BY <2>2
  <1>4. ASSUME NEW n \in Good PROVE n + 1 \in Good
    <2> SUFFICES ASSUME n + 1 <= Len(s) PROVE P(n + 1)
      OBVIOUS
    <2>1. n \in Nat /\ n \in 0 .. Len(s) /\ n + 1 \in 1 .. Len(s) /\ P(n)
      BY <1>0
    <2>2. g[n + 1] = IF s[n + 1] \in gone THEN g[n] ELSE Append(g[n], s[n + 1])
      BY <1>0, <1>2, <2>1
    <2>3. CASE s[n + 1] \in gone
      <3>1. g[n + 1] = g[n]
        BY <2>2, <2>3
      <3>2. \A l \in 1 .. n + 1 : s[l] \notin gone => l \in 1 .. n
        BY <2>1, <2>3
      <3> QED
        BY <2>1, <3>1, <3>2
    <2>4. CASE s[n + 1] \notin gone
      <3> DEFINE a == g[n]
                 b == g[n + 1]
                 e == s[n + 1]
      <3>1. b = Append(a, e) /\ e \in T
        BY <1>0, <2>1, <2>2, <2>4
      <3>2. /\ a \in Seq(T)
            /\ \A k \in 1 .. Len(a) : a[k] \notin gone
            /\ \A k \in 1 .. Len(a) : \E l \in 1 .. n : a[k] = s[l]
            /\ \A l \in 1 .. n : s[l] \notin gone =>
                    \E k \in 1 .. Len(a) : a[k] = s[l]
            /\ Ordered(s, Len(s)) => Ordered(a, Len(a))
        BY <2>1
      <3> HIDE DEF a, b
      <3>3. /\ b \in Seq(T) /\ Len(b) = Len(a) + 1 /\ Len(a) \in Nat
            /\ \A k \in 1 .. Len(a) : b[k] = a[k]
            /\ b[Len(a) + 1] = e
        BY <3>1, <3>2
      <3>4. \A k \in 1 .. Len(b) : k \in 1 .. Len(a) \/ k = Len(a) + 1
        BY <3>3
      <3>5. \A k \in 1 .. Len(b) : b[k] \notin gone
        BY <2>4, <3>2, <3>3, <3>4
      <3>6. \A k \in 1 .. Len(b) : \E l \in 1 .. n + 1 : b[k] = s[l]
        <4>1. ASSUME NEW k \in 1 .. Len(a) PROVE \E l \in 1 .. n + 1 : b[k] = s[l]
          <5>1. PICK l \in 1 .. n : a[k] = s[l]
            BY <3>2
          <5>2. l \in 1 .. n + 1 /\ b[k] = s[l]
            BY <2>1, <3>3, <5>1
          <5> QED
            BY <5>2
        <4>2. n + 1 \in 1 .. n + 1 /\ b[Len(a) + 1] = s[n + 1]
          BY <2>1, <3>3
        <4> QED
          BY <3>4, <4>1, <4>2
      <3>7. \A l \in 1 .. n + 1 : s[l] \notin gone =>
                \E k \in 1 .. Len(b) : b[k] = s[l]
        <4> SUFFICES ASSUME NEW l \in 1 .. n + 1, s[l] \notin gone
                     PROVE  \E k \in 1 .. Len(b) : b[k] = s[l]
          OBVIOUS
        <4>1. CASE l = n + 1
          <5>1. Len(a) + 1 \in 1 .. Len(b)
            BY <3>3
          <5> QED
            BY <3>3, <4>1, <5>1
        <4>2. CASE l \in 1 .. n
          <5>1. PICK k \in 1 .. Len(a) : a[k] = s[l]
            BY <3>2, <4>2
          <5>2. k \in 1 .. Len(b) /\ b[k] = s[l]
            BY <3>3, <5>1
          <5> QED
            BY <5>2
        <4> QED
          BY <2>1, <4>1, <4>2
      <3>8. Ordered(s, Len(s)) => Ordered(b, Len(b))
        <4> SUFFICES ASSUME Ordered(s, Len(s)),
                            NEW k \in 1 .. Len(b), NEW l \in 1 .. Len(b), k < l
                     PROVE  <<b[k], b[l]>> \in R
          OBVIOUS
        <4>1. k \in 1 .. Len(a) /\ b[k] = a[k]
          BY <3>3
        <4>2. CASE l \in 1 .. Len(a)
          BY <3>2, <3>3, <4>1, <4>2
        <4>3. CASE l = Len(a) + 1
          <5>1. PICK p \in 1 .. n : a[k] = s[p]
            BY <3>2, <4>1
          <5>2. p \in 1 .. Len(s) /\ p < n + 1
            BY <1>0, <2>1
          <5>3. <<s[p], e>> \in R
            BY <2>1, <5>2
          <5> QED
            BY <3>3, <4>1, <4>3, <5>1, <5>3
        <4> QED
          BY <3>4, <4>2, <4>3
      <3> HIDE DEF Ordered
      <3> QED
        BY <3>3, <3>5, <3>6, <3>7, <3>8 DEF a, b
    <2> QED
      BY <2>3, <2>4
  <1>5. Good = Nat
    <2> HIDE DEF P
    <2>1. Good \in SUBSET Nat
      OBVIOUS
    <2> HIDE DEF Good
    <2> QED
      BY <1>3, <1>4, <2>1, SetInduction
  <1>6. P(Len(s))
    <2> HIDE DEF P
    <2> QED
      BY <1>0, <1>5
  <1> QED
    BY <1>1, <1>6

-----------------------------------------------------------------------------
Holds(s, x) == \E k \in 1 .. Len(s) : s[k] = x
Distinct(s) == \A k, l \in 1 .. Len(s) : k # l => s[k] # s[l]

\* The same with Holds: what is gone is held no longer, all else still is, and
\* nothing is held twice that was not before.
LEMMA WithoutHolds ==
    ASSUME NEW T, NEW s \in Seq(T), NEW gone
    PROVE  /\ Without(s, gone) \in Seq(T)
           /\ \A x : Holds(Without(s, gone), x) <=> Holds(s, x) /\ x \notin gone
           /\ Distinct(s) => Distinct(Without(s, gone))
  <1> DEFINE r == Without(s, gone)
             R == { p \in T \X T : p[1] # p[2] }
  <1>1. /\ r \in Seq(T)
        /\ \A k \in 1 .. Len(r) : r[k] \notin gone
        /\ \A k \in 1 .. Len(r) : \E l \in 1 .. Len(s) : r[k] = s[l]
        /\ \A l \in 1 .. Len(s) :
             s[l] \notin gone => \E k \in 1 .. Len(r) : r[k] = s[l]
        /\ (\A k, l \in 1 .. Len(s) : k < l => <<s[k], s[l]>> \in R)
             => \A k, l \in 1 .. Len(r) : k < l => <<r[k], r[l]>> \in R
    BY WithoutProperties, Zenon
  <1> HIDE DEF r
  <1>2. \A x : Holds(r, x) <=> Holds(s, x) /\ x \notin gone
    <2>1. ASSUME NEW x, Holds(r, x) PROVE Holds(s, x) /\ x \notin gone
      <3>1. PICK k \in 1 .. Len(r) : r[k] = x
        BY <2>1 DEF Holds
      <3>2. PICK l \in 1 .. Len(s) : r[k] = s[l]
        BY <1>1
      <3>3. r[k] \notin gone
        BY <1>1
      <3> QED
        BY <3>1, <3>2, <3>3 DEF Holds
    <2>2. ASSUME NEW x, Holds(s, x), x \notin gone PROVE Holds(r, x)
      <3>1. PICK l \in 1 .. Len(s) : s[l] = x
        BY <2>2 DEF Holds
      <3>2. PICK k \in 1 .. Len(r) : r[k] = s[l]
        BY <1>1, <2>2, <3>1
      <3> QED
        BY <3>1, <3>2 DEF Holds
    <2> QED
      BY <2>1, <2>2
  <1>3. ASSUME Distinct(s) PROVE Distinct(r)
    <2>1. ASSUME NEW k \in 1 .. Len(s), NEW l \in 1 .. Len(s), k < l
          PROVE  <<s[k], s[l]>> \in R
      BY <1>3, <2>1 DEF Distinct
    <2>2. \A k, l \in 1 .. Len(r) : k < l => <<r[k], r[l]>> \in R
      BY <1>1, <2>1
    <2>3. \A k, l \in 1 .. Len(r) : k < l => r[k] # r[l]
      BY <2>2
    <2>4. ASSUME NEW k \in 1 .. Len(r), NEW l \in 1 .. Len(r), k # l
          PROVE  r[k] # r[l]
      <3>1. k < l \/ l < k
        BY <1>1, <2>4
      <3> QED
        BY <2>3, <3>1
    <2> QED
      BY <2>4 DEF Distinct
  <1> QED
    BY <1>1, <1>2, <1>3 DEF r

\* One element more.
LEMMA AppendHolds ==
    ASSUME NEW T, NEW s \in Seq(T), NEW e \in T
    PROVE  /\ Append(s, e) \in Seq(T)
           /\ \A x : Holds(Append(s, e), x) <=> Holds(s, x) \/ x = e
           /\ Distinct(s) /\ ~Holds(s, e) => Distinct(Append(s, e))
  <1> DEFINE r == Append(s, e)
  <1>1. /\ r \in Seq(T) /\ Len(r) = Len(s) + 1 /\ Len(s) \in Nat
        /\ \A k \in 1 .. Len(s) : r[k] = s[k]
        /\ r[Len(s) + 1] = e
    OBVIOUS
  <1> HIDE DEF r
  <1>2. \A k \in 1 .. Len(r) : k \in 1 .. Len(s) \/ k = Len(s) + 1
    BY <1>1
  <1>3. /\ Len(s) + 1 \in 1 .. Len(r)
        /\ \A k \in 1 .. Len(s) : k \in 1 .. Len(r)
    BY <1>1
  <1>4. \A x : Holds(r, x) <=> Holds(s, x) \/ x = e
    BY <1>1, <1>2, <1>3 DEF Holds
  <1>5. Distinct(s) /\ ~Holds(s, e) => Distinct(r)
    BY <1>1, <1>2 DEF Distinct, Holds
  <1> QED
    BY <1>1, <1>4, <1>5 DEF r

\* The first element less.
LEMMA TailHolds ==
    ASSUME NEW T, NEW s \in Seq(T), s # << >>
    PROVE  /\ Tail(s) \in Seq(T) /\ Head(s) \in T /\ Holds(s, Head(s))
           /\ \A x : Holds(Tail(s), x) => Holds(s, x)
           /\ Distinct(s) => Distinct(Tail(s)) /\ ~Holds(Tail(s), Head(s))
  <1> DEFINE r == Tail(s)
  <1>1. /\ r \in Seq(T) /\ Len(r) = Len(s) - 1 /\ Len(s) \in Nat /\ Len(s) > 0
        /\ \A k \in 1 .. Len(r) : r[k] = s[k + 1]
        /\ Head(s) = s[1] /\ s[1] \in T
    OBVIOUS
  <1> HIDE DEF r
  <1>2. /\ 1 \in 1 .. Len(s)
        /\ \A k \in 1 .. Len(r) : k + 1 \in 1 .. Len(s) /\ k + 1 # 1
    BY <1>1
  <1>3. \A x : Holds(r, x) => Holds(s, x)
    BY <1>1, <1>2 DEF Holds
  <1>4. Distinct(s) => ~Holds(r, Head(s))
    BY <1>1, <1>2 DEF Distinct, Holds
  <1>5. Distinct(s) => Distinct(r)
    BY <1>1, <1>2 DEF Distinct
  <1> QED
    BY <1>1, <1>2, <1>3, <1>4, <1>5 DEF r, Holds

\* Two elements more, one after the other.
LEMMA TwoMore ==
    ASSUME NEW T, NEW s \in Seq(T), NEW a \in T, NEW b \in T
    PROVE  s \o <<a, b>> = Append(Append(s, a), b)
  OBVIOUS

=============================================================================
