----------------------------- MODULE SequenceFacts -----------------------------
(***************************************************************************)
(* Facts about sequences that the proofs about several components cite:    *)
(* what the operators of SequencesExt the models are built from return,    *)
(* and that they keep a sequence free of duplicates.                       *)
(***************************************************************************)
EXTENDS SequencesExt, WellFoundedInduction, TLAPS

\* A nonempty set of natural numbers has a least element.
LEMMA LeastNatural ==
    ASSUME NEW T, T \subseteq Nat, T # {}
    PROVE  \E n \in T : \A m \in T : n <= m
<1> DEFINE R == OpToRel(<, Nat)
<1>1. IsWellFoundedOn(R, Nat)
  BY NatLessThanWellFounded, Zenon
<1>2. \A m, n \in Nat : m < n => <<m, n>> \in R
  BY DEF OpToRel
<1> HIDE DEF R
<1>3. PICK n \in T : \A m \in T : ~(<<m, n>> \in R)
  BY <1>1, WFMin
<1>4. ASSUME NEW m \in T PROVE n <= m
  <2>1. m \in Nat /\ n \in Nat
    OBVIOUS
  <2>2. ~(m < n)
    BY <1>2, <1>3, <2>1
  <2> QED BY <2>1, <2>2
<1> QED BY <1>4

\* A sequence over a set is one over any larger set.
LEMMA SeqMonotone ==
    ASSUME NEW S, NEW T, S \subseteq T, NEW s \in Seq(S)
    PROVE  s \in Seq(T)
OBVIOUS

\* The elements of a sequence are what stands at its places.
LEMMA InRange ==
    ASSUME NEW S, NEW s \in Seq(S), NEW x
    PROVE  x \in Range(s) <=> \E i \in 1 .. Len(s) : s[i] = x
BY DEF Range

\* The empty sequence has no elements.
LEMMA EmptyFacts ==
    ASSUME NEW S
    PROVE  <<>> \in Seq(S) /\ Len(<<>>) = 0 /\ IsInjective(<<>>) /\ Range(<<>>) = {}
BY DEF IsInjective, Range

\* What stands at each place of two joined sequences.
LEMMA ConcatElements ==
    ASSUME NEW S, NEW s \in Seq(S), NEW t \in Seq(S)
    PROVE  /\ s \o t \in Seq(S) /\ Len(s \o t) = Len(s) + Len(t)
           /\ \A i \in 1 .. Len(s) : (s \o t)[i] = s[i]
           /\ \A i \in 1 .. Len(t) : (s \o t)[Len(s) + i] = t[i]
OBVIOUS

\* Joining two sequences without common elements.
LEMMA ConcatFacts ==
    ASSUME NEW S, NEW s \in Seq(S), NEW t \in Seq(S)
    PROVE  /\ s \o t \in Seq(S) /\ Len(s \o t) = Len(s) + Len(t)
           /\ Range(s \o t) = Range(s) \cup Range(t)
           /\ s # <<>> => Head(s \o t) = Head(s)
           /\ IsInjective(s) /\ IsInjective(t) /\ Range(s) \cap Range(t) = {}
                => IsInjective(s \o t)
<1> DEFINE u == s \o t
<1>1. /\ u \in Seq(S) /\ Len(u) = Len(s) + Len(t)
      /\ \A i \in 1 .. Len(u) : u[i] = IF i <= Len(s) THEN s[i] ELSE t[i - Len(s)]
  BY ConcatElements
<1>2. Range(u) \subseteq Range(s) \cup Range(t)
  BY <1>1 DEF Range
<1>3. Range(s) \subseteq Range(u)
  BY <1>1 DEF Range
<1>4. Range(t) \subseteq Range(u)
  <2> SUFFICES ASSUME NEW i \in 1 .. Len(t) PROVE t[i] \in Range(u)
    BY InRange
  <2>1. i + Len(s) \in 1 .. Len(u) /\ u[i + Len(s)] = t[i]
    BY <1>1
  <2> QED BY <2>1, <1>1, InRange
<1>5. s # <<>> => Head(u) = Head(s)
  BY <1>1
<1>6. ASSUME IsInjective(s), IsInjective(t), Range(s) \cap Range(t) = {}
      PROVE  IsInjective(u)
  <2> SUFFICES ASSUME NEW i \in 1 .. Len(u), NEW j \in 1 .. Len(u), u[i] = u[j]
               PROVE  i = j
    BY <1>1 DEF IsInjective
  <2>1. CASE i <= Len(s) /\ j <= Len(s)
    BY <1>1, <1>6, <2>1 DEF IsInjective
  <2>2. CASE i > Len(s) /\ j > Len(s)
    <3>1. i - Len(s) \in 1 .. Len(t) /\ j - Len(s) \in 1 .. Len(t)
          /\ t[i - Len(s)] = t[j - Len(s)]
      BY <1>1, <2>2
    <3> QED BY <3>1, <1>6 DEF IsInjective
  <2>3. CASE i <= Len(s) /\ j > Len(s)
    <3>1. j - Len(s) \in 1 .. Len(t) /\ s[i] = t[j - Len(s)]
      BY <1>1, <2>3
    <3> QED BY <3>1, <2>3, <1>6 DEF Range
  <2>4. CASE i > Len(s) /\ j <= Len(s)
    <3>1. i - Len(s) \in 1 .. Len(t) /\ s[j] = t[i - Len(s)]
      BY <1>1, <2>4
    <3> QED BY <3>1, <2>4, <1>6 DEF Range
  <2> QED BY <2>1, <2>2, <2>3, <2>4, <1>1
<1> QED BY <1>1, <1>2, <1>3, <1>4, <1>5, <1>6

\* A prefix or suffix keeps what it needs of the whole.
LEMMA SubSeqFacts ==
    ASSUME NEW S, NEW s \in Seq(S), NEW m \in 1 .. Len(s) + 1, NEW n \in 0 .. Len(s)
    PROVE  /\ SubSeq(s, m, n) \in Seq(S)
           /\ Len(SubSeq(s, m, n)) = IF m <= n THEN n - m + 1 ELSE 0
           /\ \A i \in 1 .. Len(SubSeq(s, m, n)) : SubSeq(s, m, n)[i] = s[m + i - 1]
           /\ Range(SubSeq(s, m, n)) \subseteq Range(s)
           /\ IsInjective(s) => IsInjective(SubSeq(s, m, n))
<1> DEFINE u == SubSeq(s, m, n)
<1>1. /\ u \in Seq(S) /\ Len(u) = IF m <= n THEN n - m + 1 ELSE 0
      /\ \A i \in 1 .. Len(u) : u[i] = s[m + i - 1] /\ m + i - 1 \in 1 .. Len(s)
  OBVIOUS
<1>2. Range(u) \subseteq Range(s)
  BY <1>1 DEF Range
<1>3. IsInjective(s) => IsInjective(u)
  BY <1>1 DEF IsInjective
<1> QED BY <1>1, <1>2, <1>3

\* Reversing keeps length, elements and distinctness.
LEMMA ReverseFacts ==
    ASSUME NEW S, NEW s \in Seq(S)
    PROVE  /\ Reverse(s) \in Seq(S) /\ Range(Reverse(s)) = Range(s)
           /\ IsInjective(s) => IsInjective(Reverse(s))
<1> DEFINE u == Reverse(s)
<1>1. /\ u \in Seq(S) /\ Len(u) = Len(s)
      /\ \A i \in 1 .. Len(s) : u[i] = s[Len(s) - i + 1]
  BY DEF Reverse
<1>2. \A i \in 1 .. Len(s) : Len(s) - i + 1 \in 1 .. Len(s) /\ u[Len(s) - i + 1] = s[i]
  BY <1>1
<1> HIDE DEF u
<1>3. Range(u) = Range(s)
  <2>1. ASSUME NEW x \in Range(u) PROVE x \in Range(s)
    <3>1. PICK i \in 1 .. Len(s) : u[i] = x
      BY <1>1, InRange
    <3>2. Len(s) - i + 1 \in 1 .. Len(s) /\ s[Len(s) - i + 1] = x
      BY <1>1, <3>1
    <3> QED BY <3>2, InRange
  <2>2. ASSUME NEW x \in Range(s) PROVE x \in Range(u)
    <3>1. PICK i \in 1 .. Len(s) : s[i] = x
      BY InRange
    <3>2. Len(s) - i + 1 \in 1 .. Len(u) /\ u[Len(s) - i + 1] = x
      BY <1>1, <1>2, <3>1
    <3> QED BY <3>2, <1>1, InRange
  <2> QED BY <2>1, <2>2
<1>4. ASSUME IsInjective(s) PROVE IsInjective(u)
  <2> SUFFICES ASSUME NEW i \in 1 .. Len(s), NEW j \in 1 .. Len(s), u[i] = u[j]
               PROVE  i = j
    BY <1>1 DEF IsInjective
  <2>1. /\ Len(s) - i + 1 \in 1 .. Len(s) /\ Len(s) - j + 1 \in 1 .. Len(s)
        /\ s[Len(s) - i + 1] = s[Len(s) - j + 1]
    BY <1>1
  <2>2. Len(s) - i + 1 = Len(s) - j + 1
    BY <2>1, <1>4 DEF IsInjective
  <2> QED BY <2>2
<1> QED BY <1>1, <1>3, <1>4 DEF u

\* Inserting a new element puts it in and moves nothing before its place.
LEMMA InsertFacts ==
    ASSUME NEW S, NEW s \in Seq(S), NEW id \in S, NEW i \in 1 .. Len(s) + 1
    PROVE  /\ InsertAt(s, i, id) \in Seq(S)
           /\ Len(InsertAt(s, i, id)) = Len(s) + 1
           /\ Range(InsertAt(s, i, id)) = Range(s) \cup {id}
           /\ IsInjective(s) /\ id \notin Range(s) => IsInjective(InsertAt(s, i, id))
           /\ i > 1 => Head(InsertAt(s, i, id)) = Head(s)
<1> DEFINE a == SubSeq(s, 1, i - 1) \o <<id>>
           b == SubSeq(s, i, Len(s))
           u == InsertAt(s, i, id)
<1>1. /\ a \in Seq(S) /\ Len(a) = i
      /\ \A j \in 1 .. i - 1 : a[j] = s[j]
      /\ a[i] = id
  <2>1. /\ SubSeq(s, 1, i - 1) \in Seq(S) /\ Len(SubSeq(s, 1, i - 1)) = i - 1
        /\ \A j \in 1 .. i - 1 : SubSeq(s, 1, i - 1)[j] = s[j]
    OBVIOUS
  <2>2. <<id>> \in Seq(S) /\ Len(<<id>>) = 1 /\ <<id>>[1] = id
    OBVIOUS
  <2> QED BY <2>1, <2>2, ConcatElements
<1>2. /\ b \in Seq(S) /\ Len(b) = Len(s) - i + 1
      /\ \A j \in 1 .. Len(s) - i + 1 : b[j] = s[i + j - 1]
  OBVIOUS
<1>3. u = a \o b
  BY DEF InsertAt
<1> HIDE DEF a, b, u
<1>4. /\ u \in Seq(S) /\ Len(u) = Len(a) + Len(b)
      /\ \A j \in 1 .. Len(a) : u[j] = a[j]
      /\ \A j \in 1 .. Len(b) : u[Len(a) + j] = b[j]
  BY <1>1, <1>2, <1>3, ConcatElements
<1>5. /\ Len(u) = Len(s) + 1
      /\ \A j \in 1 .. i - 1 : u[j] = s[j]
      /\ u[i] = id
  BY <1>1, <1>2, <1>4
<1>6. ASSUME NEW j \in i + 1 .. Len(s) + 1 PROVE u[j] = s[j - 1]
  <2>1. j - i \in 1 .. Len(b)
    BY <1>2, <1>5
  <2>2. u[i + (j - i)] = s[i + (j - i) - 1]
    BY <2>1, <1>1, <1>2, <1>4
  <2> QED BY <2>2, <1>5
<1>7. Range(u) \subseteq Range(s) \cup {id}
  <2> SUFFICES ASSUME NEW j \in 1 .. Len(s) + 1, u[j] # id PROVE u[j] \in Range(s)
    BY <1>4, <1>5, InRange
  <2>1. CASE j < i
    BY <2>1, <1>5, InRange
  <2>2. CASE j > i
    <3>1. j - 1 \in 1 .. Len(s) /\ u[j] = s[j - 1]
      BY <2>2, <1>6
    <3> QED BY <3>1, InRange
  <2> QED BY <2>1, <2>2, <1>5
<1>8. id \in Range(u)
  BY <1>4, <1>5, InRange
<1>9. Range(s) \subseteq Range(u)
  <2> SUFFICES ASSUME NEW j \in 1 .. Len(s) PROVE s[j] \in Range(u)
    BY InRange
  <2>1. CASE j < i
    BY <2>1, <1>4, <1>5, InRange
  <2>2. CASE j >= i
    <3>1. j + 1 \in i + 1 .. Len(s) + 1 /\ j + 1 - 1 = j
      BY <2>2
    <3>2. u[j + 1] = s[j + 1 - 1]
      BY <3>1, <1>6
    <3>3. j + 1 \in 1 .. Len(u) /\ u[j + 1] = s[j]
      BY <3>1, <3>2, <1>5
    <3> QED BY <3>3, <1>4, InRange
  <2> QED BY <2>1, <2>2
<1>10. ASSUME IsInjective(s), id \notin Range(s) PROVE IsInjective(u)
  <2> DEFINE old(j) == IF j < i THEN j ELSE j - 1
  <2>1. \A j \in 1 .. Len(u) : j # i => old(j) \in 1 .. Len(s) /\ u[j] = s[old(j)]
    BY <1>5, <1>6
  <2>2. \A j \in 1 .. Len(u) : j # i => u[j] # id
    BY <2>1, <1>10, InRange
  <2> SUFFICES ASSUME NEW j \in 1 .. Len(u), NEW k \in 1 .. Len(u), u[j] = u[k]
               PROVE  j = k
    BY <1>4 DEF IsInjective
  <2>3. CASE j = i \/ k = i
    BY <2>2, <2>3, <1>5
  <2>4. CASE j # i /\ k # i
    <3>1. old(j) = old(k)
      BY <2>1, <2>4, <1>10 DEF IsInjective
    <3> QED BY <3>1, <2>4
  <2> QED BY <2>3, <2>4
<1>11. i > 1 => Head(u) = Head(s)
  BY <1>4, <1>5
<1> QED BY <1>4, <1>5, <1>7, <1>8, <1>9, <1>10, <1>11 DEF u

\* Removing place p keeps the others in order.
LEMMA RemoveAtFacts ==
    ASSUME NEW S, NEW s \in Seq(S), NEW p \in 1 .. Len(s)
    PROVE  /\ RemoveAt(s, p) \in Seq(S)
           /\ Len(RemoveAt(s, p)) = Len(s) - 1
           /\ \A i \in 1 .. Len(s) - 1 :
                 RemoveAt(s, p)[i] = IF i < p THEN s[i] ELSE s[i + 1]
<1> DEFINE a == SubSeq(s, 1, p - 1)
           b == SubSeq(s, p + 1, Len(s))
           w == RemoveAt(s, p)
<1>1. /\ a \in Seq(S) /\ Len(a) = p - 1
      /\ \A i \in 1 .. p - 1 : a[i] = s[i]
  OBVIOUS
<1>2. /\ b \in Seq(S) /\ Len(b) = Len(s) - p
      /\ \A i \in 1 .. Len(s) - p : b[i] = s[p + i]
  OBVIOUS
<1>3. w = a \o b
  BY DEF RemoveAt
<1> HIDE DEF a, b, w
<1>4. /\ w \in Seq(S) /\ Len(w) = Len(a) + Len(b)
      /\ \A i \in 1 .. Len(a) : w[i] = a[i]
      /\ \A i \in 1 .. Len(b) : w[Len(a) + i] = b[i]
  <2>1. a \in Seq(S) /\ b \in Seq(S)
    BY <1>1, <1>2
  <2> QED BY <2>1, <1>3, ConcatElements
<1>5. /\ w \in Seq(S) /\ Len(w) = Len(s) - 1
      /\ \A i \in 1 .. p - 1 : w[i] = a[i]
      /\ \A i \in 1 .. Len(s) - p : w[p - 1 + i] = b[i]
  BY <1>1, <1>2, <1>4
<1>6. ASSUME NEW i \in 1 .. Len(s) - 1, ~(i < p) PROVE w[i] = s[i + 1]
  <2>1. i - p + 1 \in 1 .. Len(s) - p
    BY <1>5, <1>6
  <2>2. w[p - 1 + (i - p + 1)] = s[p + (i - p + 1)]
    BY <2>1, <1>2, <1>5
  <2> QED BY <2>2, <1>5
<1> QED BY <1>1, <1>5, <1>6 DEF w

\* Removing the place of an element from a sequence without duplicates drops the
\* element and leaves no duplicates.
LEMMA RemoveOneFacts ==
    ASSUME NEW S, NEW s \in Seq(S), IsInjective(s), NEW p \in 1 .. Len(s)
    PROVE  /\ RemoveAt(s, p) \in Seq(S)
           /\ Len(RemoveAt(s, p)) = Len(s) - 1
           /\ IsInjective(RemoveAt(s, p))
           /\ Range(RemoveAt(s, p)) = Range(s) \ {s[p]}
<1> DEFINE w == RemoveAt(s, p)
<1>1. /\ w \in Seq(S) /\ Len(w) = Len(s) - 1
      /\ \A i \in 1 .. Len(w) : w[i] = IF i < p THEN s[i] ELSE s[i + 1]
  BY RemoveAtFacts
<1> HIDE DEF w
<1>2. IsInjective(w)
  BY <1>1, SMTT(30) DEF IsInjective
<1>3. Range(w) \subseteq Range(s) \ {s[p]}
  <2> SUFFICES ASSUME NEW x \in Range(w)
               PROVE  x \in Range(s) /\ x # s[p]
    OBVIOUS
  <2>1. PICK j \in 1 .. Len(w) : w[j] = x
    BY <1>1, InRange
  <2>2. PICK i \in 1 .. Len(s) : i # p /\ w[j] = s[i]
    BY <2>1, <1>1
  <2>3. s[i] # s[p]
    BY <2>2 DEF IsInjective
  <2> QED BY <2>1, <2>2, <2>3, InRange
<1>4. Range(s) \ {s[p]} \subseteq Range(w)
  <2> SUFFICES ASSUME NEW x \in Range(s), x # s[p]
               PROVE  x \in Range(w)
    OBVIOUS
  <2>1. PICK i \in 1 .. Len(s) : s[i] = x
    BY InRange
  <2>2. CASE i < p
    <3>1. i \in 1 .. Len(w) /\ w[i] = s[i]
      BY <2>2, <1>1
    <3> QED BY <3>1, <2>1, <1>1, InRange
  <2>3. CASE i > p
    <3>1. i - 1 \in 1 .. Len(w) /\ w[i - 1] = s[i]
      BY <2>3, <1>1
    <3> QED BY <3>1, <2>1, <1>1, InRange
  <2> QED BY <2>1, <2>2, <2>3
<1> QED BY <1>1, <1>2, <1>3, <1>4 DEF w

\* Appending an element adds it, and keeps a sequence without duplicates so if the
\* element is new.
LEMMA AppendFacts ==
    ASSUME NEW S, NEW s \in Seq(S), NEW x \in S
    PROVE  /\ Append(s, x) \in Seq(S) /\ Len(Append(s, x)) = Len(s) + 1
           /\ \A i \in 1 .. Len(s) : Append(s, x)[i] = s[i]
           /\ Append(s, x)[Len(s) + 1] = x
           /\ Range(Append(s, x)) = Range(s) \cup {x}
           /\ IsInjective(s) /\ x \notin Range(s) => IsInjective(Append(s, x))
<1> DEFINE u == Append(s, x)
<1>1. /\ u \in Seq(S) /\ Len(u) = Len(s) + 1
      /\ \A i \in 1 .. Len(s) : u[i] = s[i]
      /\ u[Len(s) + 1] = x
  OBVIOUS
<1> HIDE DEF u
<1>2. ASSUME IsInjective(s), x \notin Range(s) PROVE IsInjective(u)
  <2> SUFFICES ASSUME NEW i \in 1 .. Len(s) + 1, NEW j \in 1 .. Len(s) + 1, u[i] = u[j]
               PROVE  i = j
    BY <1>1 DEF IsInjective
  <2>1. \A k \in 1 .. Len(s) : s[k] # x
    BY <1>2, InRange
  <2>2. CASE i \in 1 .. Len(s) /\ j \in 1 .. Len(s)
    BY <1>1, <1>2, <2>2 DEF IsInjective
  <2>3. CASE ~(i \in 1 .. Len(s) /\ j \in 1 .. Len(s))
    BY <1>1, <2>1, <2>3
  <2> QED BY <2>2, <2>3
<1>3. Range(u) = Range(s) \cup {x}
  <2>1. ASSUME NEW y \in Range(u) PROVE y \in Range(s) \cup {x}
    <3>1. PICK i \in 1 .. Len(s) + 1 : u[i] = y
      BY <1>1, InRange
    <3> QED BY <3>1, <1>1, InRange
  <2>2. ASSUME NEW y \in Range(s) PROVE y \in Range(u)
    <3>1. PICK i \in 1 .. Len(s) : s[i] = y
      BY InRange
    <3>2. i \in 1 .. Len(u) /\ u[i] = y
      BY <3>1, <1>1
    <3> QED BY <3>2, <1>1, InRange
  <2>3. x \in Range(u)
    <3>1. Len(s) + 1 \in 1 .. Len(u)
      BY <1>1
    <3> QED BY <3>1, <1>1, InRange
  <2> QED BY <2>1, <2>2, <2>3
<1> QED BY <1>1, <1>2, <1>3 DEF u

===============================================================================
