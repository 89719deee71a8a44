----------------------------- MODULE SeqLemmas -----------------------------
(* Facts about natural numbers and sequences that the proofs share. *)
EXTENDS Integers, SequencesExt, SequenceTheorems, WellFoundedInduction, TLAPS

\* Every non-empty set of natural numbers has a least element.
LEMMA LeastNat ==
    ASSUME NEW T, T \subseteq Nat, T # {}
    PROVE  \E x \in T : \A y \in T : x <= y
<1>1. \E x \in T : \A y \in T : ~ (<<y, x>> \in OpToRel(<, Nat))
  BY WFMin, NatLessThanWellFounded
<1>2. PICK x \in T : \A y \in T : ~ (<<y, x>> \in OpToRel(<, Nat))
  BY <1>1
<1>3. ASSUME NEW y \in T
      PROVE  x <= y
  <2>1. x \in Nat /\ y \in Nat
    OBVIOUS
  <2>2. y < x => <<y, x>> \in OpToRel(<, Nat)
    BY <2>1, Zenon DEF OpToRel
  <2>3. ~(y < x)
    BY <1>2, <2>2, Zenon
  <2>4. QED
    BY <2>1, <2>3
<1>4. QED
  BY <1>3

\* A bounded function on a non-empty set of numbers has a first maximum.
LEMMA FirstMaximum ==
    ASSUME NEW S, S \subseteq Nat, S # {}, NEW B \in Nat, NEW f \in [S -> 0..B]
    PROVE  \E i \in S : \A j \in S : f[j] < f[i] \/ (f[j] = f[i] /\ i <= j)
<1> DEFINE D == {B - f[i] : i \in S}
<1>1. D \subseteq Nat /\ D # {}
  <2>1. \A i \in S : B - f[i] \in Nat
    OBVIOUS
  <2>2. QED
    BY <2>1
<1>2. PICK m \in D : \A y \in D : m <= y
  <2> HIDE DEF D
  <2> QED BY <1>1, LeastNat
<1> DEFINE T == {i \in S : B - f[i] = m}
<1>3. T \subseteq Nat /\ T # {}
  OBVIOUS
<1>4. PICK k \in T : \A y \in T : k <= y
  <2> HIDE DEF T
  <2> QED BY <1>3, LeastNat
<1>5. ASSUME NEW j \in S
      PROVE  f[j] < f[k] \/ (f[j] = f[k] /\ k <= j)
  <2>1. f[j] \in 0..B /\ f[k] \in 0..B /\ B - f[k] = m /\ m <= B - f[j]
    BY <1>2
  <2>2. f[j] = f[k] => k <= j
    BY <1>4, <2>1
  <2>3. QED
    BY <2>1, <2>2
<1>6. QED
  BY <1>5

\* What removing one position of a sequence leaves: the elements before it where
\* they were, the ones after it one place to the left.
LEMMA RemoveAtElements ==
    ASSUME NEW S, NEW q \in Seq(S), NEW i \in 1..Len(q)
    PROVE  /\ RemoveAt(q, i) \in Seq(S)
           /\ Len(RemoveAt(q, i)) = Len(q) - 1
           /\ \A j \in 1..(Len(q) - 1) : RemoveAt(q, i)[j] = IF j < i THEN q[j] ELSE q[j + 1]
<1> DEFINE a == SubSeq(q, 1, i - 1)
           b == SubSeq(q, i + 1, Len(q))
<1>1. a \in Seq(S) /\ Len(a) = i - 1 /\ \A j \in 1..(i - 1) : a[j] = q[j]
  BY SubSeqProperties, LenProperties
<1>2. b \in Seq(S) /\ Len(b) = Len(q) - i /\ \A j \in 1..(Len(q) - i) : b[j] = q[i + j]
  BY SubSeqProperties, LenProperties
<1> HIDE DEF a, b
<1>3. /\ a \o b \in Seq(S)
      /\ Len(a \o b) = Len(a) + Len(b)
      /\ \A j \in 1..(Len(a) + Len(b)) :
            (a \o b)[j] = IF j <= Len(a) THEN a[j] ELSE b[j - Len(a)]
  BY <1>1, <1>2, ConcatProperties
<1>4. ASSUME NEW j \in 1..(Len(q) - 1)
      PROVE  (a \o b)[j] = IF j < i THEN q[j] ELSE q[j + 1]
  <2>1. Len(q) \in Nat
    BY LenProperties
  <2>2. CASE j < i
    BY <1>1, <1>2, <1>3, <2>1, <2>2
  <2>3. CASE ~(j < i)
    <3>1. j - (i - 1) \in 1..(Len(q) - i) /\ i + (j - (i - 1)) = j + 1
      BY <2>1, <2>3
    <3>2. (a \o b)[j] = b[j - (i - 1)]
      BY <1>1, <1>2, <1>3, <2>1, <2>3
    <3>3. QED
      BY <1>2, <2>3, <3>1, <3>2
  <2>4. QED
    BY <2>2, <2>3
<1>5. RemoveAt(q, i) = a \o b
  BY DEF RemoveAt, a, b
<1>6. Len(q) \in Nat
  BY LenProperties
<1>7. (a \o b) \in Seq(S) /\ Len(a \o b) = Len(q) - 1
  BY <1>1, <1>2, <1>3, <1>6
<1>8. QED
  BY <1>4, <1>5, <1>7, Zenon

\* Appending a new element keeps a sequence free of duplicates and adds exactly
\* that element to it.
LEMMA AppendNew ==
    ASSUME NEW S, NEW q \in Seq(S), NEW e \in S,
           IsInjective(q), e \notin Range(q)
    PROVE  /\ Append(q, e) \in Seq(S)
           /\ IsInjective(Append(q, e))
           /\ Range(Append(q, e)) = Range(q) \union {e}
<1> DEFINE r == Append(q, e)
<1>1. /\ r \in Seq(S)
      /\ Len(r) = Len(q) + 1
      /\ \A j \in 1..Len(q) : r[j] = q[j]
      /\ r[Len(q) + 1] = e
  BY AppendProperties
<1>2. Len(q) \in Nat /\ DOMAIN q = 1..Len(q) /\ DOMAIN r = 1..(Len(q) + 1)
  BY <1>1, LenProperties
<1> HIDE DEF r
<1>3. IsInjective(r)
  BY <1>1, <1>2 DEF IsInjective, Range
<1>4. Range(r) = Range(q) \union {e}
  BY <1>1, <1>2 DEF Range
<1>5. QED
  BY <1>1, <1>3, <1>4 DEF r

\* Removing a position of a sequence without duplicates removes exactly the
\* element that was there.
LEMMA RemoveAtInjective ==
    ASSUME NEW S, NEW q \in Seq(S), NEW i \in 1..Len(q), IsInjective(q)
    PROVE  /\ RemoveAt(q, i) \in Seq(S)
           /\ IsInjective(RemoveAt(q, i))
           /\ Range(RemoveAt(q, i)) = Range(q) \ {q[i]}
<1> DEFINE r == RemoveAt(q, i)
<1>1. /\ r \in Seq(S)
      /\ Len(r) = Len(q) - 1
      /\ \A j \in 1..(Len(q) - 1) : r[j] = IF j < i THEN q[j] ELSE q[j + 1]
  BY RemoveAtElements
<1>2. Len(q) \in Nat /\ DOMAIN q = 1..Len(q) /\ DOMAIN r = 1..(Len(q) - 1)
  BY <1>1, LenProperties
<1> HIDE DEF r
<1>3. IsInjective(r)
  <2> SUFFICES ASSUME NEW a \in 1..(Len(q) - 1), NEW b \in 1..(Len(q) - 1), r[a] = r[b]
               PROVE  a = b
    BY <1>2 DEF IsInjective
  <2>1. PICK c \in 1..Len(q) : r[a] = q[c] /\ c = (IF a < i THEN a ELSE a + 1)
    BY <1>1, <1>2
  <2>2. PICK d \in 1..Len(q) : r[b] = q[d] /\ d = (IF b < i THEN b ELSE b + 1)
    BY <1>1, <1>2
  <2>3. c = d
    BY <1>2, <2>1, <2>2 DEF IsInjective
  <2>4. QED
    BY <1>2, <2>1, <2>2, <2>3
<1>4. ASSUME NEW x \in Range(r)
      PROVE  x \in Range(q) \ {q[i]}
  <2>1. PICK a \in 1..(Len(q) - 1) : x = r[a]
    BY <1>2 DEF Range
  <2>2. PICK c \in 1..Len(q) : x = q[c] /\ c # i
    BY <1>1, <1>2, <2>1
  <2>3. QED
    BY <1>2, <2>2 DEF Range, IsInjective
<1>5. ASSUME NEW x \in Range(q) \ {q[i]}
      PROVE  x \in Range(r)
  <2>1. PICK c \in 1..Len(q) : x = q[c] /\ c # i
    BY <1>2 DEF Range
  <2>2. PICK a \in 1..(Len(q) - 1) : a = IF c < i THEN c ELSE c - 1
    BY <1>2, <2>1
  <2>3. r[a] = q[c]
    BY <1>1, <1>2, <2>1, <2>2
  <2>4. QED
    BY <1>2, <2>1, <2>3 DEF Range
<1>6. QED
  BY <1>1, <1>3, <1>4, <1>5 DEF r

\* An element pushed at the front of a sequence (free_frame pushes a frame).
LEMMA PushElements ==
    ASSUME NEW S, NEW s \in Seq(S), NEW e \in S
    PROVE  /\ Cons(e, s) \in Seq(S)
           /\ Len(Cons(e, s)) = Len(s) + 1
           /\ Cons(e, s) # <<>>
           /\ Cons(e, s)[1] = e
           /\ \A i \in 1..Len(s) : Cons(e, s)[i + 1] = s[i]
           /\ Range(Cons(e, s)) = Range(s) \union {e}
           /\ IsInjective(s) /\ e \notin Range(s) => IsInjective(Cons(e, s))
<1> DEFINE c == Cons(e, s)
<1>1. <<e>> \in Seq(S) /\ Len(<<e>>) = 1 /\ <<e>>[1] = e
  OBVIOUS
<1>2. /\ c \in Seq(S)
      /\ Len(c) = Len(s) + 1
      /\ Len(s) \in Nat
      /\ \A i \in 1..(Len(s) + 1) : c[i] = IF i <= 1 THEN <<e>>[i] ELSE s[i - 1]
  BY <1>1, ConcatProperties, LenProperties DEF Cons
<1> HIDE DEF c
<1>3. c[1] = e /\ \A i \in 1..Len(s) : c[i + 1] = s[i]
  BY <1>1, <1>2
<1>4. DOMAIN c = 1..(Len(s) + 1) /\ DOMAIN s = 1..Len(s)
  BY <1>2, LenProperties
<1>5. \A i \in DOMAIN c : i = 1 \/ (i - 1 \in DOMAIN s /\ c[i] = s[i - 1])
  BY <1>1, <1>2, <1>4
<1>6. Range(c) = Range(s) \union {e}
  <2>1. ASSUME NEW i \in DOMAIN c PROVE c[i] \in Range(s) \union {e}
    BY <1>3, <1>5 DEF Range
  <2>2. ASSUME NEW i \in DOMAIN s PROVE s[i] \in Range(c)
    BY <1>2, <1>3, <1>4 DEF Range
  <2>3. e \in Range(c)
    BY <1>2, <1>3, <1>4 DEF Range
  <2>4. QED
    BY <2>1, <2>2, <2>3 DEF Range
<1>7. ASSUME IsInjective(s), e \notin Range(s) PROVE IsInjective(c)
  <2>1. SUFFICES ASSUME NEW a \in DOMAIN c, NEW b \in DOMAIN c, c[a] = c[b]
                 PROVE  a = b
    BY DEF IsInjective
  <2>2. a \in Int /\ b \in Int
    BY <1>2, <1>4
  <2>3. CASE a = 1 \/ b = 1
    BY <1>3, <1>5, <1>7, <2>1, <2>3 DEF Range
  <2>4. CASE a # 1 /\ b # 1
    <3>1. a - 1 \in DOMAIN s /\ b - 1 \in DOMAIN s /\ s[a - 1] = s[b - 1]
      BY <1>5, <2>1, <2>4
    <3>2. a - 1 = b - 1
      BY <1>7, <3>1, Zenon DEF IsInjective
    <3>3. QED
      BY <2>2, <3>2
  <2>5. QED
    BY <2>3, <2>4
<1>8. c # <<>>
  BY <1>2
<1>9. QED
  BY <1>2, <1>3, <1>6, <1>7, <1>8 DEF c

\* The first element popped off an injective sequence (pop_free pops a frame).
LEMMA PopElements ==
    ASSUME NEW S, NEW s \in Seq(S), s # <<>>, IsInjective(s)
    PROVE  /\ Len(s) \in Nat /\ Len(s) > 0 /\ s[1] \in S
           /\ Tail(s) \in Seq(S)
           /\ Len(Tail(s)) = Len(s) - 1
           /\ \A i \in 1..(Len(s) - 1) : Tail(s)[i] = s[i + 1]
           /\ Range(Tail(s)) = Range(s) \ {s[1]}
           /\ s[1] \in Range(s)
           /\ IsInjective(Tail(s))
<1> DEFINE t == Tail(s)
<1>1. /\ t \in Seq(S) /\ Len(t) = Len(s) - 1 /\ Len(s) \in Nat /\ Len(s) > 0
      /\ \A i \in 1..(Len(s) - 1) : t[i] = s[i + 1]
  BY HeadTailProperties, LenProperties, EmptySeq
<1> HIDE DEF t
<1>2. DOMAIN t = 1..(Len(s) - 1) /\ DOMAIN s = 1..Len(s) /\ 1 \in DOMAIN s
  BY <1>1, LenProperties
<1>3. \A i \in DOMAIN t : i \in Int /\ i + 1 \in DOMAIN s /\ i + 1 # 1 /\ t[i] = s[i + 1]
  BY <1>1, <1>2
<1>4. \A i \in DOMAIN s : i # 1 => i - 1 \in DOMAIN t /\ t[i - 1] = s[i]
  BY <1>1, <1>2
<1>5. Range(t) = Range(s) \ {s[1]}
  <2>1. ASSUME NEW i \in DOMAIN t PROVE t[i] \in Range(s) \ {s[1]}
    <3>1. i + 1 \in DOMAIN s /\ i + 1 # 1 /\ t[i] = s[i + 1]
      BY <1>3
    <3>2. QED
      BY <1>2, <3>1, Zenon DEF IsInjective, Range
  <2>2. ASSUME NEW i \in DOMAIN s, s[i] # s[1] PROVE s[i] \in Range(t)
    BY <1>4, <2>2, Zenon DEF Range
  <2>3. QED
    BY <2>1, <2>2, Zenon DEF Range
<1>6. IsInjective(t)
  <2>1. SUFFICES ASSUME NEW a \in DOMAIN t, NEW b \in DOMAIN t, t[a] = t[b]
                 PROVE  a = b
    BY DEF IsInjective
  <2>2. a + 1 = b + 1
    BY <1>3, <2>1, Zenon DEF IsInjective
  <2>3. QED
    BY <1>3, <2>2
<1>7. s[1] \in S
  BY <1>1, <1>2, ElementOfSeq
<1>8. QED
  BY <1>1, <1>2, <1>5, <1>6, <1>7, Zenon DEF Range, t

=============================================================================
