----------------------------- MODULE PageFeedProofs -----------------------------
(***************************************************************************)
(* The page's feed, for any lines, connections, caps and faults: what the  *)
(* lists of chat lines are made of, that the page catches up with the      *)
(* room, that deletions reach it, and that its roster converges.           *)
(***************************************************************************)
EXTENDS PageFeed, SequenceFacts

-----------------------------------------------------------------------------
(* The lists of lines *)

\* What filter keeps of the first n elements.
KeptNext(k, s, W, i) ==
    IF i = 0 THEN <<>> ELSE IF s[i] \in W THEN Append(k[i - 1], s[i]) ELSE k[i - 1]
KeptUpTo(k, s, W, n) == k = [i \in 0 .. n |-> KeptNext(k, s, W, i)]

\* The recursive function of Kept exists.
LEMMA KeptExists ==
    ASSUME NEW s, NEW W, NEW n \in Nat
    PROVE  \E k : KeptUpTo(k, s, W, n)
<1> DEFINE Missing == {m \in Nat : ~\E k : KeptUpTo(k, s, W, m)}
<1>1. SUFFICES ASSUME Missing # {} PROVE FALSE
    OBVIOUS
<1>2. PICK m \in Missing : \A j \in Missing : m <= j
    BY <1>1, LeastNatural
<1>3. m # 0
    <2>1. KeptUpTo([i \in 0 .. 0 |-> <<>>], s, W, 0)
        BY DEF KeptUpTo, KeptNext
    <2> QED BY <2>1
<1>4. PICK g : KeptUpTo(g, s, W, m - 1)
    BY <1>2, <1>3
<1> DEFINE h == [i \in 0 .. m |-> IF i <= m - 1 THEN g[i]
                                 ELSE IF s[m] \in W THEN Append(g[m - 1], s[m]) ELSE g[m - 1]]
<1>5. \A i \in 0 .. m - 1 : h[i] = g[i]
    BY <1>3
<1>6. h[m] = IF s[m] \in W THEN Append(g[m - 1], s[m]) ELSE g[m - 1]
    BY <1>3
<1>7. ASSUME NEW i \in 0 .. m PROVE h[i] = KeptNext(h, s, W, i)
    <2>1. CASE i = m
        BY <1>3, <1>5, <1>6, <2>1 DEF KeptNext
    <2>2. CASE i # m
        <3>1. i \in 0 .. m - 1 /\ h[i] = g[i]
            BY <1>3, <1>5, <2>2
        <3>2. i # 0 => i - 1 \in 0 .. m - 1 /\ h[i - 1] = g[i - 1]
            BY <1>3, <1>5, <3>1
        <3>3. g[i] = KeptNext(g, s, W, i)
            BY <1>4, <3>1 DEF KeptUpTo
        <3> QED BY <3>1, <3>2, <3>3 DEF KeptNext
    <2> QED BY <2>1, <2>2
<1>8. h = [i \in 0 .. m |-> h[i]]
    OBVIOUS
<1> HIDE DEF h
<1>9. KeptUpTo(h, s, W, m)
    BY <1>7, <1>8 DEF KeptUpTo
<1> QED BY <1>2, <1>9

\* Kept is what its recursive function says.
LEMMA KeptEquation ==
    ASSUME NEW T, NEW s \in Seq(T), NEW W
    PROVE  \E k : KeptUpTo(k, s, W, Len(s)) /\ Kept(s, W) = k[Len(s)]
<1> DEFINE c == CHOOSE k : KeptUpTo(k, s, W, Len(s))
<1>1. KeptUpTo(c, s, W, Len(s))
    <2>1. Len(s) \in Nat
        OBVIOUS
    <2>2. \E k : KeptUpTo(k, s, W, Len(s))
        BY <2>1, KeptExists
    <2> QED BY <2>2, Zenon
<1>2. Kept(s, W) = c[Len(s)]
    BY Zenon DEF Kept, KeptUpTo, KeptNext
<1> QED BY <1>1, <1>2

\* No element of a sequence stands twice, but for those of X.
OnceBut(s, X) == \A i, j \in DOMAIN s : s[i] = s[j] /\ s[i] \notin X => i = j

\* A new element, or one of X, may be appended.
LEMMA AppendOnce ==
    ASSUME NEW T, NEW s \in Seq(T), NEW x \in T, NEW X, OnceBut(s, X),
           x \in X \/ x \notin Range(s)
    PROVE  OnceBut(Append(s, x), X)
<1> DEFINE u == Append(s, x)
<1>1. /\ u \in Seq(T) /\ Len(u) = Len(s) + 1 /\ u[Len(s) + 1] = x
      /\ \A i \in 1 .. Len(s) : u[i] = s[i]
    BY AppendFacts
<1>2. ASSUME NEW i \in 1 .. Len(s), s[i] = x PROVE x \in X
    BY <1>2, InRange
<1> HIDE DEF u
<1>3. ASSUME NEW i \in 1 .. Len(s) + 1, NEW j \in 1 .. Len(s) + 1, u[i] = u[j], u[i] \notin X
      PROVE  i = j
    <2>1. CASE i = Len(s) + 1 \/ j = Len(s) + 1
        BY <1>1, <1>2, <1>3, <2>1
    <2>2. CASE i # Len(s) + 1 /\ j # Len(s) + 1
        BY <1>1, <1>3, <2>2 DEF OnceBut
    <2> QED BY <2>1, <2>2
<1> QED BY <1>1, <1>3 DEF OnceBut, u

\* A suffix of a list keeps what the list has once.
LEMMA SuffixOnce ==
    ASSUME NEW T, NEW s \in Seq(T), NEW m \in 1 .. Len(s) + 1, NEW X, OnceBut(s, X)
    PROVE  OnceBut(SubSeq(s, m, Len(s)), X)
<1> DEFINE u == SubSeq(s, m, Len(s))
<1>1. /\ u \in Seq(T) /\ \A i \in 1 .. Len(u) : u[i] = s[m + i - 1] /\ m + i - 1 \in 1 .. Len(s)
    OBVIOUS
<1> HIDE DEF u
<1>2. ASSUME NEW i \in 1 .. Len(u), NEW j \in 1 .. Len(u), u[i] = u[j], u[i] \notin X
      PROVE  i = j
    <2>1. m + i - 1 \in DOMAIN s /\ m + j - 1 \in DOMAIN s
        BY <1>1
    <2>2. s[m + i - 1] = s[m + j - 1] /\ s[m + i - 1] \notin X
        BY <1>1, <1>2
    <2>3. m + i - 1 = m + j - 1
        BY <2>1, <2>2 DEF OnceBut
    <2> QED BY <2>3, <1>1
<1> QED BY <1>1, <1>2 DEF OnceBut, u

\* Filter keeps exactly the wanted elements, in a list no longer and without new
\* duplicates.
LEMMA KeptFacts ==
    ASSUME NEW T, NEW s \in Seq(T), NEW W, NEW X
    PROVE  /\ Kept(s, W) \in Seq(T) /\ Len(Kept(s, W)) <= Len(s)
           /\ Range(Kept(s, W)) = Range(s) \cap W
           /\ OnceBut(s, X) => OnceBut(Kept(s, W), X)
<1>1. PICK k : KeptUpTo(k, s, W, Len(s)) /\ Kept(s, W) = k[Len(s)]
    BY KeptEquation
<1>2. Len(s) \in Nat /\ \A i \in 1 .. Len(s) : s[i] \in T
    OBVIOUS
<1>3. \A i \in 0 .. Len(s) : k[i] = KeptNext(k, s, W, i)
    BY <1>1 DEF KeptUpTo
<1> DEFINE Right(i) ==
        /\ k[i] \in Seq(T) /\ Len(k[i]) <= i
        /\ \A x : x \in Range(k[i]) <=> x \in W /\ \E j \in 1 .. i : s[j] = x
        /\ OnceBut(s, X) => OnceBut(k[i], X)
<1>4. Right(0)
    <2>1. k[0] = <<>>
        BY <1>2, <1>3 DEF KeptNext
    <2>2. OnceBut(<<>>, X)
        BY DEF OnceBut
    <2> QED BY <2>1, <2>2, EmptyFacts
<1>5. ASSUME NEW i \in 1 .. Len(s), Right(i - 1) PROVE Right(i)
    <2>1. k[i] = IF s[i] \in W THEN Append(k[i - 1], s[i]) ELSE k[i - 1]
        BY <1>2, <1>3 DEF KeptNext
    <2>2. CASE s[i] \notin W
        BY <1>2, <1>5, <2>1, <2>2
    <2>3. CASE s[i] \in W
        <3>1. k[i] = Append(k[i - 1], s[i]) /\ k[i - 1] \in Seq(T) /\ s[i] \in T
            BY <1>2, <1>5, <2>1, <2>3
        <3>2. /\ k[i] \in Seq(T) /\ Len(k[i]) = Len(k[i - 1]) + 1
              /\ Range(k[i]) = Range(k[i - 1]) \cup {s[i]}
            BY <3>1, AppendFacts
        <3>3. Len(k[i]) <= i
            BY <1>5, <3>1, <3>2
        <3>4. ASSUME NEW x
              PROVE  x \in Range(k[i]) <=> x \in W /\ \E j \in 1 .. i : s[j] = x
            BY <1>5, <2>3, <3>2
        <3>5. ASSUME OnceBut(s, X) PROVE OnceBut(k[i], X)
            <4>1. s[i] \in X \/ s[i] \notin Range(k[i - 1])
                BY <1>2, <1>5, <3>5 DEF OnceBut
            <4> QED BY <1>5, <3>1, <3>5, <4>1, AppendOnce
        <3> QED BY <3>2, <3>3, <3>4, <3>5
    <2> QED BY <2>2, <2>3
<1> HIDE DEF Right
<1>6. Right(Len(s))
    <2> DEFINE Bad == {i \in 0 .. Len(s) : ~Right(i)}
    <2>1. SUFFICES ASSUME Bad # {} PROVE FALSE
        BY <1>2
    <2>2. PICK i \in Bad : \A j \in Bad : i <= j
        <3>1. Bad \subseteq Nat
            OBVIOUS
        <3> QED BY <2>1, <3>1, LeastNatural
    <2>3. i # 0
        BY <1>4
    <2>4. Right(i - 1)
        BY <2>2, <2>3
    <2> QED BY <1>5, <2>2, <2>3, <2>4
<1>7. Range(Kept(s, W)) = Range(s) \cap W
    BY <1>1, <1>6, InRange DEF Right
<1> QED BY <1>1, <1>6, <1>7 DEF Right

\* A list after one more element, and what the cap takes from it then.
Added(s, x, cap) == Latest(Append(s, x), cap)
Gone(s, cap) == IF Len(s) + 1 > cap THEN Len(s) + 1 - cap ELSE 0

\* The elements of s after the first d are at the front of u.
MovesUp(u, s, d) == \A q \in 1 .. Len(s) : q > d => q - d \in 1 .. Len(u) /\ u[q - d] = s[q]

\* A capped list after one more element: the element is its last, at most one is gone
\* if it was within the cap, and nothing stands twice that did not.
LEMMA LatestFacts ==
    ASSUME NEW T, NEW s \in Seq(T), NEW x \in T, NEW cap \in Nat \ {0}
    PROVE  /\ Added(s, x, cap) \in Seq(T)
           /\ Len(Added(s, x, cap)) <= cap /\ Len(Added(s, x, cap)) > 0
           /\ Added(s, x, cap)[Len(Added(s, x, cap))] = x
           /\ Gone(s, cap) \in 0 .. Len(s) /\ Len(Added(s, x, cap)) + Gone(s, cap) = Len(s) + 1
           /\ Len(s) <= cap => Gone(s, cap) = 0 \/ (Gone(s, cap) = 1 /\ Len(s) = cap)
           /\ MovesUp(Added(s, x, cap), s, Gone(s, cap))
           /\ x \in Range(Added(s, x, cap))
           /\ Range(Added(s, x, cap)) \subseteq Range(s) \cup {x}
           /\ \A X : OnceBut(s, X) /\ (x \in X \/ x \notin Range(s))
                      => OnceBut(Added(s, x, cap), X)
<1> DEFINE a == Append(s, x)
           u == Added(s, x, cap)
           d == Gone(s, cap)
<1>1. a \in Seq(T) /\ Len(a) = Len(s) + 1 /\ a[Len(s) + 1] = x
    BY AppendFacts
<1>2. Len(s) \in Nat /\ cap \in Nat /\ cap > 0
    OBVIOUS
<1>3. /\ d \in 0 .. Len(s) /\ Len(s) + 1 - d <= cap /\ Len(s) + 1 - d > 0
      /\ Len(s) <= cap => d = 0 \/ (d = 1 /\ Len(s) = cap)
    <2>1. CASE Len(s) + 1 > cap
        <3>1. d = Len(s) + 1 - cap
            BY <2>1 DEF Gone
        <3> HIDE DEF d
        <3> QED BY <1>2, <2>1, <3>1
    <2>2. CASE ~(Len(s) + 1 > cap)
        <3>1. d = 0
            BY <2>2 DEF Gone
        <3> HIDE DEF d
        <3> QED BY <1>2, <2>2, <3>1
    <2> QED BY <2>1, <2>2
<1>5. u = SubSeq(a, 1 + d, Len(a))
    <2>1. (IF Len(a) > cap THEN Len(a) - cap + 1 ELSE 1) = 1 + d
        BY <1>1, <1>2 DEF Gone
    <2> QED BY <2>1 DEF Latest, Added
<1> HIDE DEF a, u, d
<1>6. u \in Seq(T) /\ Len(u) = Len(s) + 1 - d /\ \A i \in 1 .. Len(u) : u[i] = a[i + d]
    <2>1. 1 + d \in 1 .. Len(a) + 1 /\ Len(a) \in 0 .. Len(a)
        BY <1>1, <1>2, <1>3
    <2>2. /\ u \in Seq(T) /\ Len(u) = IF 1 + d <= Len(a) THEN Len(a) - (1 + d) + 1 ELSE 0
          /\ \A i \in 1 .. Len(u) : u[i] = a[(1 + d) + i - 1]
        BY <1>1, <1>5, <2>1, SubSeqFacts
    <2>3. Len(u) = Len(s) + 1 - d
        BY <1>1, <1>2, <1>3, <2>2
    <2>4. ASSUME NEW i \in 1 .. Len(u) PROVE u[i] = a[i + d]
        <3>1. (1 + d) + i - 1 = i + d
            BY <1>3, <2>2
        <3> QED BY <2>2, <3>1
    <2> QED BY <2>2, <2>3, <2>4
<1>7. u[Len(u)] = x
    <2>1. Len(u) \in 1 .. Len(u) /\ Len(u) + d = Len(s) + 1
        BY <1>2, <1>3, <1>6
    <2> QED BY <1>1, <1>6, <2>1
<1>8. MovesUp(u, s, d)
    <2> SUFFICES ASSUME NEW q \in 1 .. Len(s), q > d
                 PROVE  q - d \in 1 .. Len(u) /\ u[q - d] = s[q]
        BY DEF MovesUp
    <2>1. q - d \in 1 .. Len(u) /\ (q - d) + d = q
        BY <1>2, <1>3, <1>6
    <2>2. a[q] = s[q]
        BY AppendFacts DEF a
    <2> QED BY <1>6, <2>1, <2>2
<1>9. Range(u) \subseteq Range(s) \cup {x}
    <2> SUFFICES ASSUME NEW y \in Range(u) PROVE y \in Range(a)
        BY AppendFacts DEF a
    <2>1. PICK i \in 1 .. Len(u) : u[i] = y
        BY <1>6, InRange
    <2>2. i + d \in 1 .. Len(a) /\ u[i] = a[i + d]
        BY <1>1, <1>3, <1>6
    <2> QED BY <1>1, <2>1, <2>2, InRange
<1>10. x \in Range(u)
    <2>1. Len(u) \in 1 .. Len(u)
        BY <1>3, <1>6
    <2> QED BY <1>6, <1>7, <2>1, InRange
<1>11. ASSUME NEW X, OnceBut(s, X), x \in X \/ x \notin Range(s) PROVE OnceBut(u, X)
    <2>1. OnceBut(a, X)
        BY <1>11, AppendOnce DEF a
    <2>2. 1 + d \in 1 .. Len(a) + 1
        BY <1>1, <1>3
    <2> QED BY <1>1, <1>5, <2>1, <2>2, SuffixOnce
<1> QED BY <1>2, <1>3, <1>6, <1>7, <1>8, <1>9, <1>10, <1>11 DEF u, d

-----------------------------------------------------------------------------
(* The history, merged line by line *)

Shown == Lines \cup {Notice}

\* The list after the first n lines of a history.
MergedNext(k, list, lines, i) == IF i = 0 THEN list ELSE AddChatMessage(k[i - 1], lines[i])
MergedUpTo(k, list, lines, n) == k = [i \in 0 .. n |-> MergedNext(k, list, lines, i)]

\* The recursive function of MergeHistory exists.
LEMMA MergedExists ==
    ASSUME NEW list, NEW lines, NEW n \in Nat
    PROVE  \E k : MergedUpTo(k, list, lines, n)
<1> DEFINE Missing == {m \in Nat : ~\E k : MergedUpTo(k, list, lines, m)}
<1>1. SUFFICES ASSUME Missing # {} PROVE FALSE
    OBVIOUS
<1>2. PICK m \in Missing : \A j \in Missing : m <= j
    BY <1>1, LeastNatural
<1>3. m # 0
    <2>1. MergedUpTo([i \in 0 .. 0 |-> list], list, lines, 0)
        BY DEF MergedUpTo, MergedNext
    <2> QED BY <2>1
<1>4. PICK g : MergedUpTo(g, list, lines, m - 1)
    BY <1>2, <1>3
<1> DEFINE h == [i \in 0 .. m |-> IF i <= m - 1 THEN g[i] ELSE AddChatMessage(g[m - 1], lines[m])]
<1>5. \A i \in 0 .. m - 1 : h[i] = g[i]
    BY <1>3
<1>6. h[m] = AddChatMessage(g[m - 1], lines[m])
    BY <1>3
<1>7. ASSUME NEW i \in 0 .. m PROVE h[i] = MergedNext(h, list, lines, i)
    <2>1. CASE i = m
        BY <1>3, <1>5, <1>6, <2>1 DEF MergedNext
    <2>2. CASE i # m
        <3>1. i \in 0 .. m - 1 /\ h[i] = g[i]
            BY <1>3, <1>5, <2>2
        <3>2. i # 0 => i - 1 \in 0 .. m - 1 /\ h[i - 1] = g[i - 1]
            BY <1>3, <1>5, <3>1
        <3>3. g[i] = MergedNext(g, list, lines, i)
            BY <1>4, <3>1 DEF MergedUpTo
        <3> QED BY <3>1, <3>2, <3>3 DEF MergedNext
    <2> QED BY <2>1, <2>2
<1>8. h = [i \in 0 .. m |-> h[i]]
    OBVIOUS
<1> HIDE DEF h
<1>9. MergedUpTo(h, list, lines, m)
    BY <1>7, <1>8 DEF MergedUpTo
<1> QED BY <1>2, <1>9

\* MergeHistory is what its recursive function says.
LEMMA MergedEquation ==
    ASSUME NEW list, NEW lines \in Seq(Lines), ~(hadChat /\ lines = <<>>)
    PROVE  \E k : /\ MergedUpTo(k, list, lines, Len(lines))
                  /\ MergeHistory(list, lines) = k[Len(lines)]
<1> DEFINE c == CHOOSE k : MergedUpTo(k, list, lines, Len(lines))
<1>1. MergedUpTo(c, list, lines, Len(lines))
    <2>1. Len(lines) \in Nat
        OBVIOUS
    <2>2. \E k : MergedUpTo(k, list, lines, Len(lines))
        BY <2>1, MergedExists
    <2> QED BY <2>2, Zenon
<1>2. MergeHistory(list, lines) = c[Len(lines)]
    BY Zenon DEF MergeHistory, MergedUpTo, MergedNext
<1> QED BY <1>1, <1>2

\* addChatMessage of a line that is shown changes nothing; any other is added at the end.
LEMMA AddFacts ==
    ASSUME NEW s \in Seq(Shown), Len(s) <= ChatCap, OnceBut(s, {Notice}), NEW l \in Shown
    PROVE  /\ AddChatMessage(s, l) \in Seq(Shown) /\ Len(AddChatMessage(s, l)) <= ChatCap
           /\ OnceBut(AddChatMessage(s, l), {Notice}) /\ l \in Range(AddChatMessage(s, l))
           /\ Range(AddChatMessage(s, l)) \subseteq Range(s) \cup {l}
<1>1. CASE l # Notice /\ l \in Range(s)
    BY <1>1 DEF AddChatMessage
<1>2. CASE ~(l # Notice /\ l \in Range(s))
    <2>1. AddChatMessage(s, l) = Added(s, l, ChatCap)
        BY <1>2 DEF AddChatMessage, Added
    <2>2. ChatCap \in Nat \ {0} /\ (l \in {Notice} \/ l \notin Range(s))
        BY <1>2, FeedAssumption
    <2>3. \A X : OnceBut(s, X) /\ (l \in X \/ l \notin Range(s)) => OnceBut(Added(s, l, ChatCap), X)
        BY <2>2, LatestFacts
    <2>4. OnceBut(Added(s, l, ChatCap), {Notice})
        BY <2>2, <2>3
    <2>5. /\ Added(s, l, ChatCap) \in Seq(Shown) /\ Len(Added(s, l, ChatCap)) <= ChatCap
          /\ l \in Range(Added(s, l, ChatCap))
          /\ Range(Added(s, l, ChatCap)) \subseteq Range(s) \cup {l}
        BY <2>2, LatestFacts
    <2> QED BY <2>1, <2>4, <2>5
<1> QED BY <1>1, <1>2

\* Line l stands in list u, with fewer than n lines after it.
NearEnd(u, l, n) == \E q \in 1 .. Len(u) : u[q] = l /\ q + n > Len(u)

\* A line near the end stays there when one more is added.
LEMMA NearEndStays ==
    ASSUME NEW s \in Seq(Shown), Len(s) <= ChatCap, NEW l \in Shown, NEW x, NEW n \in Nat,
           NearEnd(s, x, n), n < ChatCap
    PROVE  NearEnd(AddChatMessage(s, l), x, n + 1)
<1>1. PICK q \in 1 .. Len(s) : s[q] = x /\ q + n > Len(s)
    BY DEF NearEnd
<1>2. CASE l # Notice /\ l \in Range(s)
    <2>1. AddChatMessage(s, l) = s /\ q + (n + 1) > Len(s)
        BY <1>1, <1>2 DEF AddChatMessage
    <2> QED BY <1>1, <2>1 DEF NearEnd
<1>3. CASE ~(l # Notice /\ l \in Range(s))
    <2> DEFINE u == Added(s, l, ChatCap)
               d == Gone(s, ChatCap)
    <2>1. AddChatMessage(s, l) = u
        BY <1>3 DEF AddChatMessage, Added
    <2>2. ChatCap \in Nat \ {0}
        BY FeedAssumption
    <2>3. /\ u \in Seq(Shown) /\ d \in 0 .. Len(s) /\ Len(u) + d = Len(s) + 1
          /\ d = 0 \/ (d = 1 /\ Len(s) = ChatCap)
          /\ MovesUp(u, s, d)
        BY <2>2, LatestFacts
    <2> HIDE DEF u, d
    <2>4. q > d
        BY <1>1, <2>2, <2>3
    <2>5. q - d \in 1 .. Len(u) /\ u[q - d] = x
        BY <1>1, <2>3, <2>4 DEF MovesUp
    <2>6. (q - d) + (n + 1) > Len(u)
        BY <1>1, <2>3
    <2> QED BY <2>1, <2>5, <2>6 DEF NearEnd
<1> QED BY <1>2, <1>3

\* Merging a history into the list (the 'connected' handler): nothing stands twice,
\* nothing comes from elsewhere, and every line of the history is in the list then, unless
\* it was before.
LEMMA MergeFacts ==
    ASSUME NEW list \in Seq(Shown), Len(list) <= ChatCap, OnceBut(list, {Notice}),
           NEW lines \in Seq(Lines), Len(lines) <= RingCap, OnceBut(lines, {Notice})
    PROVE  /\ MergeHistory(list, lines) \in Seq(Shown) /\ Len(MergeHistory(list, lines)) <= ChatCap
           /\ OnceBut(MergeHistory(list, lines), {Notice})
           /\ Range(MergeHistory(list, lines)) \subseteq Range(list) \cup Range(lines) \cup {Notice}
           /\ Range(lines) \subseteq Range(MergeHistory(list, lines)) \cup Range(list)
<1>1. CASE hadChat /\ lines = <<>>
    <2>1. MergeHistory(list, lines) = AddChatMessage(list, Notice) /\ Range(lines) = {}
        BY <1>1, EmptyFacts DEF MergeHistory
    <2>2. Notice \in Shown
        BY DEF Shown
    <2> DEFINE u == AddChatMessage(list, Notice)
    <2>3. u \in Seq(Shown) /\ Len(u) <= ChatCap /\ OnceBut(u, {Notice})
        BY <2>2, AddFacts
    <2>4. Range(u) \subseteq Range(list) \cup {Notice}
        BY <2>2, AddFacts
    <2>5. MergeHistory(list, lines) = u
        BY <2>1
    <2> HIDE DEF u
    <2> QED BY <2>1, <2>3, <2>4, <2>5
<1>2. CASE ~(hadChat /\ lines = <<>>)
    <2>1. PICK k : MergedUpTo(k, list, lines, Len(lines)) /\ MergeHistory(list, lines) = k[Len(lines)]
        BY <1>2, MergedEquation
    <2>2. /\ Len(lines) \in Nat /\ \A i \in 1 .. Len(lines) : lines[i] \in Lines
          /\ Len(lines) <= ChatCap /\ ChatCap \in Nat /\ Len(list) \in Nat
        BY FeedAssumption
    <2>3. \A i \in 0 .. Len(lines) : k[i] = MergedNext(k, list, lines, i)
        BY <2>1 DEF MergedUpTo
    <2>4. \A l \in Lines : l \in Shown /\ l # Notice
        BY FeedAssumption DEF Lines, Shown, Notice
    <2> DEFINE Right(i) ==
            /\ k[i] \in Seq(Shown) /\ Len(k[i]) <= ChatCap /\ OnceBut(k[i], {Notice})
            /\ \A x \in Range(k[i]) : x \in Range(list) \/ \E j \in 1 .. i : lines[j] = x
            /\ \A j \in 1 .. i : lines[j] \in Range(list) \/ NearEnd(k[i], lines[j], i - j + 1)
    <2>5. Right(0)
        <3>1. k[0] = list
            BY <2>2, <2>3 DEF MergedNext
        <3> QED BY <3>1
    <2>6. ASSUME NEW i \in 1 .. Len(lines), Right(i - 1) PROVE Right(i)
        <3> DEFINE l == lines[i]
                   s == k[i - 1]
        <3>1. k[i] = AddChatMessage(s, l) /\ l \in Lines /\ l \in Shown /\ l # Notice
            BY <2>2, <2>3, <2>4 DEF MergedNext
        <3>2. s \in Seq(Shown) /\ Len(s) <= ChatCap /\ OnceBut(s, {Notice})
            BY <2>6
        <3> HIDE DEF s
        <3>3. /\ k[i] \in Seq(Shown) /\ Len(k[i]) <= ChatCap /\ OnceBut(k[i], {Notice})
              /\ l \in Range(k[i]) /\ Range(k[i]) \subseteq Range(s) \cup {l}
            <4> DEFINE u == AddChatMessage(s, l)
            <4> HIDE DEF l
            <4>1. l \in Shown
                BY <3>1
            <4>2. u \in Seq(Shown) /\ Len(u) <= ChatCap
                BY <3>2, <4>1, AddFacts
            <4>3. OnceBut(u, {Notice}) /\ l \in Range(u) /\ Range(u) \subseteq Range(s) \cup {l}
                BY <3>2, <4>1, AddFacts
            <4>4. k[i] = u
                BY <3>1
            <4> HIDE DEF u
            <4> QED BY <4>2, <4>3, <4>4
        <3>4. ASSUME NEW x \in Range(k[i])
              PROVE  x \in Range(list) \/ \E j \in 1 .. i : lines[j] = x
            BY <2>6, <3>3, <3>4 DEF s
        <3>5. l \in Range(list) \/ NearEnd(k[i], l, 1)
            <4>1. CASE l \in Range(s)
                <5>1. ASSUME NEW j \in 1 .. i - 1, lines[j] = l PROVE FALSE
                    BY <2>2, <3>1, <5>1 DEF OnceBut
                <5> QED BY <2>6, <4>1, <5>1 DEF s
            <4>2. CASE l \notin Range(s)
                <5>1. k[i] = Added(s, l, ChatCap)
                    BY <3>1, <4>2 DEF AddChatMessage, Added
                <5>2. ChatCap \in Nat \ {0}
                    BY FeedAssumption
                <5>3. Len(k[i]) > 0 /\ k[i][Len(k[i])] = l
                    <6> HIDE DEF l
                    <6> QED BY <3>1, <3>2, <5>1, <5>2, LatestFacts
                <5>4. Len(k[i]) \in 1 .. Len(k[i]) /\ Len(k[i]) + 1 > Len(k[i])
                    BY <3>3, <5>3
                <5> QED BY <5>3, <5>4 DEF NearEnd
            <4> QED BY <4>1, <4>2
        <3>6. ASSUME NEW j \in 1 .. i
              PROVE  lines[j] \in Range(list) \/ NearEnd(k[i], lines[j], i - j + 1)
            <4>1. CASE j = i
                BY <3>5, <4>1
            <4>2. CASE j # i /\ lines[j] \notin Range(list)
                <5>1. j \in 1 .. i - 1 /\ i - j \in Nat /\ i - j < ChatCap /\ (i - 1) - j + 1 = i - j
                    BY <2>2, <4>2
                <5>2. NearEnd(s, lines[j], (i - 1) - j + 1)
                    BY <2>6, <4>2, <5>1 DEF s
                <5>3. NearEnd(k[i], lines[j], (i - j) + 1)
                    BY <3>1, <3>2, <5>1, <5>2, NearEndStays
                <5> QED BY <5>3
            <4> QED BY <4>1, <4>2
        <3> QED BY <3>3, <3>4, <3>6
    <2> HIDE DEF Right
    <2>7. Right(Len(lines))
        <3> DEFINE Bad == {i \in 0 .. Len(lines) : ~Right(i)}
        <3>1. SUFFICES ASSUME Bad # {} PROVE FALSE
            BY <2>2
        <3>2. PICK i \in Bad : \A j \in Bad : i <= j
            <4>1. Bad \subseteq Nat
                OBVIOUS
            <4> QED BY <3>1, <4>1, LeastNatural
        <3>3. i # 0
            BY <2>5
        <3>4. Right(i - 1)
            BY <3>2, <3>3
        <3> QED BY <2>6, <3>2, <3>3, <3>4
    <2> DEFINE u == MergeHistory(list, lines)
    <2>8. /\ u \in Seq(Shown) /\ Len(u) <= ChatCap /\ OnceBut(u, {Notice})
          /\ \A x \in Range(u) : x \in Range(list) \/ \E j \in 1 .. Len(lines) : lines[j] = x
          /\ \A j \in 1 .. Len(lines) :
                 lines[j] \in Range(list) \/ NearEnd(u, lines[j], Len(lines) - j + 1)
        BY <2>1, <2>7 DEF Right
    <2> HIDE DEF u
    <2>9. Range(u) \subseteq Range(list) \cup Range(lines)
        BY <2>8, InRange
    <2>10. ASSUME NEW x \in Range(lines) PROVE x \in Range(u) \cup Range(list)
        <3>1. PICK j \in 1 .. Len(lines) : lines[j] = x
            BY InRange
        <3> QED BY <2>8, <3>1, InRange DEF NearEnd
    <2> QED BY <2>8, <2>9, <2>10 DEF u
<1> QED BY <1>1, <1>2

-----------------------------------------------------------------------------
(* Publications *)

\* The fields of each publication.
LEMMA PublicationFields ==
    /\ \A l : LineSent(l).kind = "message" /\ LineSent(l).line = l
    /\ \A l : LineDeleted(l).kind = "delete" /\ LineDeleted(l).line = l
    /\ \A m : Came(m).kind = "join" /\ Came(m).who = {m}
    /\ \A m : Went(m).kind = "leave" /\ Went(m).who = {m}
    /\ \A m, p : Chose(m, p).kind = "platform" /\ Chose(m, p).who = {m} /\ Chose(m, p).platform = p
BY DEF LineSent, LineDeleted, Came, Went, Chose

\* Publications about different lines differ, and a line is not its deletion.
LEMMA LinesDiffer ==
    ASSUME NEW l, NEW k
    PROVE  /\ (LineSent(l) = LineSent(k)) => (l = k)
           /\ (LineDeleted(l) = LineDeleted(k)) => (l = k)
           /\ LineSent(l) # LineDeleted(k)
BY PublicationFields

\* Publications about different connections differ, and coming is not going.
LEMMA MembersDiffer ==
    ASSUME NEW m, NEW n
    PROVE  /\ (Came(m) = Came(n)) => (m = n)
           /\ (Went(m) = Went(n)) => (m = n)
           /\ Came(m) # Went(n)
<1>1. Came(m).who = {m} /\ Came(n).who = {n} /\ Went(m).who = {m} /\ Went(n).who = {n}
    BY PublicationFields
<1>2. Came(m).kind = "join" /\ Went(n).kind = "leave"
    BY PublicationFields
<1> QED BY <1>1, <1>2

\* Publications about lines are not publications about connections.
LEMMA KindsDiffer ==
    ASSUME NEW l, NEW m, NEW p
    PROVE  /\ LineSent(l) # Came(m) /\ LineSent(l) # Went(m) /\ LineSent(l) # Chose(m, p)
           /\ LineDeleted(l) # Came(m) /\ LineDeleted(l) # Went(m) /\ LineDeleted(l) # Chose(m, p)
BY PublicationFields

\* Choices of different connections or services differ, and none is a coming or a going.
LEMMA ChoicesDiffer ==
    ASSUME NEW m, NEW n, NEW p, NEW q
    PROVE  /\ (Chose(m, p) = Chose(n, q)) => (m = n /\ p = q)
           /\ Chose(m, p) # Came(n) /\ Chose(m, p) # Went(n)
<1>1. Chose(m, p).who = {m} /\ Chose(n, q).who = {n}
    BY PublicationFields
<1>2. Chose(m, p).platform = p /\ Chose(n, q).platform = q
    BY PublicationFields
<1>3. Chose(m, p).kind = "platform" /\ Came(n).kind = "join" /\ Went(n).kind = "leave"
    BY PublicationFields
<1> QED BY <1>1, <1>2, <1>3

\* What a publication of each kind looks like.
LEMMA PublicationForms ==
    ASSUME NEW p \in Publications
    PROVE  /\ p.kind \in {"message", "delete", "join", "leave", "platform"}
           /\ p.kind = "message" => \E l \in Lines : p = LineSent(l) /\ p.line = l
           /\ p.kind = "delete" => \E l \in Lines : p = LineDeleted(l) /\ p.line = l
           /\ p.kind = "join" => \E m \in Others : p = Came(m) /\ p.who = {m}
           /\ p.kind = "leave" => \E m \in Others : p = Went(m) /\ p.who = {m}
           /\ p.kind = "platform" =>
                  \E m \in Others, q \in Platforms : p = Chose(m, q) /\ p.who = {m} /\ p.platform = q
<1>1. CASE \E l \in Lines : p = LineSent(l)
    <2>1. PICK l \in Lines : p = LineSent(l)
        BY <1>1
    <2>2. p.kind = "message" /\ p.line = l
        BY <2>1 DEF LineSent
    <2> QED BY <2>1, <2>2
<1>2. CASE \E l \in Lines : p = LineDeleted(l)
    <2>1. PICK l \in Lines : p = LineDeleted(l)
        BY <1>2
    <2>2. p.kind = "delete" /\ p.line = l
        BY <2>1 DEF LineDeleted
    <2> QED BY <2>1, <2>2
<1>3. CASE \E m \in Others : p = Came(m)
    <2>1. PICK m \in Others : p = Came(m)
        BY <1>3
    <2>2. p.kind = "join" /\ p.who = {m}
        BY <2>1 DEF Came
    <2> QED BY <2>1, <2>2
<1>4. CASE \E m \in Others : p = Went(m)
    <2>1. PICK m \in Others : p = Went(m)
        BY <1>4
    <2>2. p.kind = "leave" /\ p.who = {m}
        BY <2>1 DEF Went
    <2> QED BY <2>1, <2>2
<1>5. CASE \E m \in Others, q \in Platforms : p = Chose(m, q)
    <2>1. PICK m \in Others, q \in Platforms : p = Chose(m, q)
        BY <1>5
    <2>2. p.kind = "platform" /\ p.who = {m} /\ p.platform = q
        BY <2>1 DEF Chose
    <2> QED BY <2>1, <2>2
<1> QED BY <1>1, <1>2, <1>3, <1>4, <1>5 DEF Publications

-----------------------------------------------------------------------------
(* The invariant *)

History == {"seed", "merge"}
Live(l) == \E i \in DOMAIN ring : ring[i].id = l /\ ~ring[i].deleted

\* A line is in the ring once, and marked deleted when a host has deleted it; what is
\* removed was sent.
RingFits ==
    /\ \A i, j \in DOMAIN ring : ring[i].id = ring[j].id => i = j
    /\ \A i \in DOMAIN ring : ring[i].id <= sent /\ (ring[i].deleted <=> ring[i].id \in removed)
    /\ \A l \in removed : l <= sent
    /\ \A l \in Lines : LineDeleted(l) \in pending => l \in removed

\* An answer has each line once, and lines only if it is a history.
AnswersFit ==
    \A a \in answers : /\ OnceBut(a.lines, {Notice}) /\ Len(a.lines) <= RingCap
                       /\ a.kind \notin History => a.lines = <<>>

FeedTypes == FeedTypeOK /\ RingFits /\ AnswersFit /\ OnceBut(chat, {Notice})

\* What the server finds in the ring: the live lines, each once.
LEMMA ReadingFacts ==
    ASSUME FeedTypes, NEW kind \in History
    PROVE  /\ Reading(kind).lines \in Seq(Lines) /\ Len(Reading(kind).lines) <= RingCap
           /\ OnceBut(Reading(kind).lines, {Notice})
           /\ \A l : l \in Range(Reading(kind).lines) <=> Live(l)
<1> DEFINE E == [id : Lines, deleted : BOOLEAN]
           W == {e \in Range(ring) : ~e.deleted}
           live == Kept(ring, W)
           ids == [i \in 1 .. Len(live) |-> live[i].id]
<1>1. Reading(kind).lines = ids
    BY DEF Reading, Answer, History
<1>2. ring \in Seq(E) /\ Len(ring) <= RingCap /\ RingCap \in Nat
    BY FeedAssumption DEF FeedTypes, FeedTypeOK
<1>3. OnceBut(ring, {})
    BY DEF FeedTypes, RingFits, OnceBut
<1>4. /\ live \in Seq(E) /\ Len(live) <= Len(ring) /\ OnceBut(live, {})
      /\ Range(live) = Range(ring) \cap W
    <2> HIDE DEF E, W, live
    <2>1. live \in Seq(E) /\ Len(live) <= Len(ring) /\ Range(live) = Range(ring) \cap W
        BY <1>2, KeptFacts DEF live
    <2>2. OnceBut(live, {})
        BY <1>2, <1>3, KeptFacts DEF live
    <2> QED BY <2>1, <2>2
<1>5. \A e : e \in Range(live) <=> e \in Range(ring) /\ ~e.deleted
    BY <1>4
<1> HIDE DEF W, live
<1>11. \A e \in E : e.id \in Lines
    OBVIOUS
<1>12. \A i \in 1 .. Len(live) : live[i] \in E
    <2> HIDE DEF E
    <2> QED BY <1>4
<1>6. ids \in Seq(Lines) /\ Len(ids) = Len(live) /\ \A i \in 1 .. Len(live) : ids[i] = live[i].id
    <2>1. \A i \in 1 .. Len(live) : live[i].id \in Lines
        BY <1>11, <1>12
    <2> QED BY <1>4, <2>1
<1> HIDE DEF ids
<1>7. \A i \in 1 .. Len(live) : \E j \in DOMAIN ring : live[i] = ring[j] /\ ~ring[j].deleted
    <2> SUFFICES ASSUME NEW i \in 1 .. Len(live)
                 PROVE  \E j \in DOMAIN ring : live[i] = ring[j] /\ ~ring[j].deleted
        OBVIOUS
    <2>1. live[i] \in Range(live)
        BY <1>4, InRange
    <2>2. live[i] \in Range(ring) /\ ~live[i].deleted
        BY <1>5, <2>1
    <2> QED BY <1>2, <2>2 DEF Range
<1>8. OnceBut(ids, {Notice})
    <2> SUFFICES ASSUME NEW i \in 1 .. Len(live), NEW j \in 1 .. Len(live), ids[i] = ids[j]
                 PROVE  i = j
        BY <1>6 DEF OnceBut
    <2>1. live[i] = live[j]
        BY <1>6, <1>7 DEF FeedTypes, RingFits
    <2> QED BY <1>4, <2>1 DEF OnceBut
<1>9. ASSUME NEW l \in Range(ids) PROVE Live(l)
    <2>1. PICK i \in 1 .. Len(live) : ids[i] = l
        BY <1>6, InRange
    <2> QED BY <1>6, <1>7, <2>1 DEF Live
<1>10. ASSUME NEW l, Live(l) PROVE l \in Range(ids)
    <2>1. PICK j \in DOMAIN ring : ring[j].id = l /\ ~ring[j].deleted
        BY <1>10 DEF Live
    <2>2. ring[j] \in Range(live)
        BY <1>2, <1>5, <2>1 DEF Range
    <2>3. PICK i \in 1 .. Len(live) : live[i] = ring[j]
        BY <1>4, <2>2, InRange
    <2> QED BY <1>6, <2>1, <2>3, InRange
<1> QED BY <1>1, <1>2, <1>4, <1>6, <1>8, <1>9, <1>10

\* What stands in the ring are lines, marked deleted or not.
LEMMA RingElements ==
    ASSUME FeedTypes, NEW i \in DOMAIN ring
    PROVE  /\ ring[i] \in [id : Lines, deleted : BOOLEAN]
           /\ ring[i].id \in Lines /\ ring[i].deleted \in BOOLEAN
           /\ i \in 1 .. Len(ring)
<1> DEFINE E == [id : Lines, deleted : BOOLEAN]
<1>1. \A e \in E : e.id \in Lines /\ e.deleted \in BOOLEAN
    OBVIOUS
<1>2. ring \in Seq(E)
    BY DEF FeedTypes, FeedTypeOK
<1> HIDE DEF E
<1>3. ring[i] \in E /\ i \in 1 .. Len(ring)
    BY <1>2
<1> QED BY <1>1, <1>3 DEF E

\* The room's part of the types, and the order of its ring.
ServerFits ==
    /\ ring \in Seq([id : Lines, deleted : BOOLEAN]) /\ Len(ring) <= RingCap
    /\ sent \in 0 .. MaxLines
    /\ place \in [Others -> {"away", "present", "gone"}]
    /\ chosen \in Overlay
    /\ pending \subseteq Publications
    /\ removed \subseteq Lines
    /\ RingFits

\* What the page shows.
PageFits ==
    /\ chat \in Seq(Lines \cup {Notice}) /\ Len(chat) <= ChatCap
    /\ connections \subseteq Others
    /\ overrides \in Overlay
    /\ OnceBut(chat, {Notice})

\* The questions, the answers and the notes about them.
TalkFits ==
    /\ {online, entered, hadChat} \subseteq BOOLEAN
    /\ asks \subseteq Kinds
    /\ \A a \in answers : /\ a.kind \in Kinds /\ a.lines \in Seq(Lines)
                          /\ a.who \subseteq Others /\ a.map \in Overlay
    /\ failed \subseteq Kinds
    /\ {early, skipped} \subseteq SUBSET Lines
    /\ {outdated, jumped} \subseteq SUBSET Others
    /\ feedFaults \in 0 .. MaxFeedFaults
    /\ AnswersFit

\* The three parts are the whole.
LEMMA FeedParts == FeedTypes <=> ServerFits /\ PageFits /\ TalkFits
<1>1. {removed, early, skipped} \subseteq SUBSET Lines
        <=> removed \subseteq Lines /\ {early, skipped} \subseteq SUBSET Lines
    OBVIOUS
<1> QED BY <1>1 DEF FeedTypes, FeedTypeOK, ServerFits, PageFits, TalkFits

\* Nothing has happened.
LEMMA FeedInitTypes == FeedInit => FeedTypes
<1> SUFFICES ASSUME FeedInit PROVE FeedTypes
    OBVIOUS
<1> USE FeedAssumption
<1>1. NoOverrides \in Overlay
    BY DEF NoOverrides, Overlay
<1>2. ServerFits
    BY <1>1 DEF FeedInit, ServerFits, RingFits
<1>3. PageFits
    <2>1. OnceBut(<<>>, {Notice})
        BY DEF OnceBut
    <2> QED BY <1>1, <2>1 DEF FeedInit, PageFits
<1>4. TalkFits
    <2>1. answers = {} /\ feedFaults \in 0 .. MaxFeedFaults
        BY DEF FeedInit
    <2>2. AnswersFit
        BY <2>1 DEF AnswersFit
    <2>3. {online, entered, hadChat} \subseteq BOOLEAN /\ asks \subseteq Kinds /\ failed \subseteq Kinds
        BY DEF FeedInit
    <2>4. {early, skipped} \subseteq SUBSET Lines /\ {outdated, jumped} \subseteq SUBSET Others
        BY DEF FeedInit
    <2> QED BY <2>1, <2>2, <2>3, <2>4 DEF TalkFits
<1> QED BY <1>2, <1>3, <1>4, FeedParts

\* chat.send: the new line is last in the ring, and its number is new.
LEMMA SendLineFits == FeedTypes /\ SendLine => ServerFits'
<1> SUFFICES ASSUME FeedTypes, SendLine PROVE ServerFits'
    OBVIOUS
<1> USE FeedAssumption
<1> DEFINE E == [id : Lines, deleted : BOOLEAN]
           new == Entry(sent')
<1>1. ServerFits
    BY FeedParts
<1>2. sent \in Nat /\ sent' = sent + 1 /\ sent' \in Lines /\ sent' \in 0 .. MaxLines
    BY <1>1 DEF ServerFits, SendLine, Lines
<1>3. new \in E /\ new.id = sent' /\ new.deleted = FALSE
    BY <1>2 DEF Entry
<1>4. ring \in Seq(E)
    BY <1>1 DEF ServerFits
<1>5. ring' = Added(ring, new, RingCap)
    BY DEF SendLine, Added
<1>6. \A i \in DOMAIN ring : ring[i].id \in Lines /\ ring[i].id <= sent
    BY RingElements DEF FeedTypes, RingFits
<1>7. sent' \notin removed
    BY <1>1, <1>2 DEF ServerFits, RingFits, Lines
<1> HIDE DEF E, new
<1>8. new \notin Range(ring)
    BY <1>2, <1>3, <1>6 DEF Range, Lines
<1>9. OnceBut(ring, {})
    BY DEF FeedTypes, RingFits, OnceBut
<1>10. /\ ring' \in Seq(E) /\ Len(ring') <= RingCap
       /\ Range(ring') \subseteq Range(ring) \cup {new}
       /\ OnceBut(ring', {})
    BY <1>3, <1>4, <1>5, <1>8, <1>9, LatestFacts
<1>11. \A i \in DOMAIN ring' : ring'[i] = new \/ \E j \in DOMAIN ring : ring'[i] = ring[j]
    BY <1>10 DEF Range
<1>12. \A i, j \in DOMAIN ring' : ring'[i].id = ring'[j].id => ring'[i] = ring'[j]
    <2> SUFFICES ASSUME NEW i \in DOMAIN ring', NEW j \in DOMAIN ring', ring'[i].id = ring'[j].id
                 PROVE  ring'[i] = ring'[j]
        OBVIOUS
    <2>1. \A k, l \in DOMAIN ring : ring[k].id = ring[l].id => ring[k] = ring[l]
        BY DEF FeedTypes, RingFits
    <2>2. \A k \in DOMAIN ring : ring[k].id # new.id
        BY <1>2, <1>3, <1>6 DEF Lines
    <2> QED BY <1>11, <2>1, <2>2
<1>13. \A i \in DOMAIN ring' : ring'[i].id <= sent' /\ (ring'[i].deleted <=> ring'[i].id \in removed)
    <2> SUFFICES ASSUME NEW i \in DOMAIN ring'
                 PROVE  ring'[i].id <= sent' /\ (ring'[i].deleted <=> ring'[i].id \in removed)
        OBVIOUS
    <2>1. CASE ring'[i] = new
        BY <1>2, <1>3, <1>7, <2>1
    <2>2. CASE \E j \in DOMAIN ring : ring'[i] = ring[j]
        <3>1. PICK j \in DOMAIN ring : ring'[i] = ring[j]
            BY <2>2
        <3>2. ring[j].id \in Nat /\ ring[j].id <= sent /\ (ring[j].deleted <=> ring[j].id \in removed)
            BY <1>6 DEF FeedTypes, RingFits, Lines
        <3> QED BY <1>2, <3>1, <3>2
    <2> QED BY <1>11, <2>1, <2>2
<1>14. pending' = pending \cup {LineSent(sent')} /\ removed' = removed
       /\ place' = place /\ chosen' = chosen
    BY DEF SendLine
<1>15. \A l \in Lines : LineDeleted(l) \in pending' => l \in removed'
    <2>1. \A l : LineDeleted(l) # LineSent(sent')
        BY LinesDiffer
    <2> QED BY <1>14, <2>1 DEF FeedTypes, RingFits
<1>16. \A l \in removed' : l <= sent'
    BY <1>1, <1>2, <1>14 DEF ServerFits, RingFits, Lines
<1>17. RingFits'
    BY <1>10, <1>12, <1>13, <1>14, <1>15, <1>16 DEF RingFits, OnceBut
<1>18. LineSent(sent') \in Publications
    BY <1>2 DEF Publications
<1> QED BY <1>1, <1>2, <1>10, <1>14, <1>17, <1>18 DEF ServerFits, E

\* chat.delete: the slot is marked, and its line is removed from now on.
LEMMA DeleteLineFits == FeedTypes /\ (\E i \in DOMAIN ring : DeleteLine(i)) => ServerFits'
<1> SUFFICES ASSUME FeedTypes, NEW i \in DOMAIN ring, DeleteLine(i) PROVE ServerFits'
    OBVIOUS
<1> DEFINE E == [id : Lines, deleted : BOOLEAN]
           marked == [ring[i] EXCEPT !.deleted = TRUE]
<1>1. ServerFits
    BY FeedParts
<1>2. ring[i] \in E /\ i \in 1 .. Len(ring)
    BY RingElements
<1>3. marked \in E /\ marked.id = ring[i].id /\ marked.deleted = TRUE /\ ring[i].id \in Lines
    BY <1>2
<1>4. /\ ring' = [ring EXCEPT ![i] = marked] /\ pending' = pending \cup {LineDeleted(ring[i].id)}
      /\ removed' = removed \cup {ring[i].id}
      /\ sent' = sent /\ place' = place /\ chosen' = chosen
    BY DEF DeleteLine
<1>5. ring \in Seq(E) /\ Len(ring) <= RingCap
    BY <1>1 DEF ServerFits
<1> HIDE DEF E, marked
<1>6. ring' \in Seq(E) /\ Len(ring') = Len(ring) /\ DOMAIN ring' = DOMAIN ring
    BY <1>3, <1>4, <1>5
<1>7. \A j \in DOMAIN ring : ring'[j] = IF j = i THEN marked ELSE ring[j]
    BY <1>4, <1>5
<1>8. \A j \in DOMAIN ring : ring'[j].id = ring[j].id
    BY <1>3, <1>7
<1>9. \A j, k \in DOMAIN ring' : ring'[j].id = ring'[k].id => j = k
    BY <1>6, <1>8 DEF FeedTypes, RingFits
<1>10. \A j \in DOMAIN ring' : ring'[j].id <= sent' /\ (ring'[j].deleted <=> ring'[j].id \in removed')
    <2> SUFFICES ASSUME NEW j \in DOMAIN ring
                 PROVE  ring'[j].id <= sent' /\ (ring'[j].deleted <=> ring'[j].id \in removed')
        BY <1>6
    <2>1. ring[j].id <= sent /\ (ring[j].deleted <=> ring[j].id \in removed)
        BY DEF FeedTypes, RingFits
    <2>2. CASE j = i
        BY <1>3, <1>4, <1>7, <2>1, <2>2
    <2>3. CASE j # i
        <3>1. ring[j].id # ring[i].id /\ ring'[j] = ring[j]
            BY <1>7, <2>3 DEF FeedTypes, RingFits
        <3> QED BY <1>4, <2>1, <3>1
    <2> QED BY <2>2, <2>3
<1>11. \A l \in removed' : l <= sent'
    BY <1>4 DEF FeedTypes, RingFits
<1>12. \A l \in Lines : LineDeleted(l) \in pending' => l \in removed'
    <2> SUFFICES ASSUME NEW l \in Lines, LineDeleted(l) \in pending' PROVE l \in removed'
        OBVIOUS
    <2>1. LineDeleted(l) = LineDeleted(ring[i].id) => l = ring[i].id
        BY LinesDiffer
    <2> QED BY <1>4, <2>1 DEF FeedTypes, RingFits
<1>13. RingFits'
    BY <1>9, <1>10, <1>11, <1>12 DEF RingFits
<1>14. LineDeleted(ring[i].id) \in Publications
    BY <1>3 DEF Publications
<1> QED BY <1>1, <1>3, <1>4, <1>5, <1>6, <1>13, <1>14 DEF ServerFits, E

\* Members come, choose and go: what they publish is a publication.
LEMMA MembersFit ==
    FeedTypes /\ (\E m \in Others : Enter(m) \/ Exit(m) \/ \E p \in Platforms : ChoosePlatform(m, p))
        => ServerFits'
<1> SUFFICES ASSUME FeedTypes, NEW m \in Others,
                    Enter(m) \/ Exit(m) \/ \E p \in Platforms : ChoosePlatform(m, p)
             PROVE  ServerFits'
    OBVIOUS
<1>1. ServerFits /\ RingFits
    BY FeedParts DEF ServerFits
<1>2. ring' = ring /\ sent' = sent /\ removed' = removed
    BY DEF Enter, Exit, ChoosePlatform
<1>3. place' \in [Others -> {"away", "present", "gone"}] /\ chosen' \in Overlay
    BY <1>1 DEF ServerFits, Overlay, Enter, Exit, ChoosePlatform
<1>4. \E x : /\ pending' = pending \cup {x} /\ x \in Publications
             /\ \A l : LineDeleted(l) # x
    <2>1. CASE Enter(m)
        <3>1. pending' = pending \cup {Came(m)} /\ Came(m) \in Publications
            BY <2>1 DEF Enter, Publications
        <3> QED BY <3>1, KindsDiffer
    <2>2. CASE Exit(m)
        <3>1. pending' = pending \cup {Went(m)} /\ Went(m) \in Publications
            BY <2>2 DEF Exit, Publications
        <3> QED BY <3>1, KindsDiffer
    <2>3. ASSUME NEW p \in Platforms, ChoosePlatform(m, p)
          PROVE  \E x : /\ pending' = pending \cup {x} /\ x \in Publications
                        /\ \A l : LineDeleted(l) # x
        <3>1. pending' = pending \cup {Chose(m, p)} /\ Chose(m, p) \in Publications
            BY <2>3 DEF ChoosePlatform, Publications
        <3>2. \A l : LineDeleted(l) # Chose(m, p)
            BY KindsDiffer
        <3> QED BY <3>1, <3>2
    <2> QED BY <2>1, <2>2, <2>3
<1>5. RingFits'
    BY <1>1, <1>2, <1>4 DEF RingFits
<1> QED BY <1>1, <1>2, <1>3, <1>4, <1>5 DEF ServerFits

\* One step of the room's part: only the room's own commands, publishing and a restart
\* touch it.
LEMMA ServerStep == FeedTypes /\ [FeedNext]_feedVars => ServerFits'
<1> SUFFICES ASSUME FeedTypes, [FeedNext]_feedVars PROVE ServerFits'
    OBVIOUS
<1>1. ServerFits
    BY FeedParts
<1>2. ASSUME UNCHANGED <<serverVars, removed>>, pending' \subseteq pending PROVE ServerFits'
    <2>1. RingFits'
        BY <1>1, <1>2 DEF ServerFits, RingFits, serverVars
    <2> QED BY <1>1, <1>2, <2>1 DEF ServerFits, serverVars
<1>3. CASE SendLine
    BY <1>3, SendLineFits
<1>4. CASE \E i \in DOMAIN ring : DeleteLine(i)
    BY <1>4, DeleteLineFits
<1>5. CASE \E m \in Others : Enter(m) \/ Exit(m) \/ \E p \in Platforms : ChoosePlatform(m, p)
    BY <1>5, MembersFit
<1>6. ASSUME NEW p \in pending, Publish(p) \/ PublicationFails(p) PROVE ServerFits'
    <2>1. UNCHANGED <<serverVars, removed>>
        BY <1>6 DEF Publish, PublicationFails, Reaches, Misses, OnMessage, OnDelete, OnJoin, OnLeave, OnPlatform
    <2>2. pending' \subseteq pending
        BY <1>6 DEF Publish, PublicationFails
    <2> QED BY <1>2, <2>1, <2>2
<1>7. ASSUME NEW kind \in asks, Read(kind) \/ AskFails(kind) PROVE ServerFits'
    BY <1>2, <1>7 DEF Read, AskFails, historyVars
<1>8. ASSUME NEW a \in answers, Take(a) PROVE ServerFits'
    BY <1>2, <1>8 DEF Take, TakePresence, TakePlatforms, TakeSeed, TakeMerge, Answered
<1>9. CASE Join \/ Joined \/ Reconnect \/ Drop
    BY <1>2, <1>9 DEF Join, Joined, Reconnect, Drop, historyVars
<1>10. CASE Restart
    <2>1. /\ ring' = <<>> /\ pending' = {} /\ sent' = sent /\ removed' = removed
          /\ chosen' = NoOverrides
          /\ place' = [m \in Others |-> IF place[m] = "present" THEN "gone" ELSE place[m]]
        BY <1>10 DEF Restart
    <2>2. chosen' \in Overlay
        BY <2>1 DEF Overlay, NoOverrides
    <2>3. place' \in [Others -> {"away", "present", "gone"}]
        BY <1>1, <2>1 DEF ServerFits
    <2>4. RingFits'
        BY <1>1, <2>1 DEF ServerFits, RingFits
    <2> QED BY <1>1, <2>1, <2>2, <2>3, <2>4, FeedAssumption DEF ServerFits
<1>11. CASE UNCHANGED feedVars
    BY <1>2, <1>11 DEF feedVars, historyVars
<1> QED BY <1>3, <1>4, <1>5, <1>6, <1>7, <1>8, <1>9, <1>10, <1>11 DEF FeedNext

-----------------------------------------------------------------------------
(* What the page shows *)

\* The overlay stays an overlay, whatever is put into it.
LEMMA OverlaySet ==
    ASSUME NEW o \in Overlay, NEW m, NEW p \in Platforms \cup {NoPlatform}
    PROVE  [o EXCEPT ![m] = p] \in Overlay /\ DropOverride(o, m) \in Overlay
BY DEF Overlay, DropOverride

\* A publication that reaches the page: lines are added once and taken out whole.
LEMMA ReachesFits ==
    ASSUME FeedTypes, NEW p \in pending, Reaches(p)
    PROVE  PageFits'
<1>1. PageFits
    BY FeedParts
<1>2. p \in Publications
    BY DEF FeedTypes, FeedTypeOK
<1>3. CASE OnMessage(p)
    <2>1. PICK l \in Lines : p.line = l
        BY <1>2, <1>3, PublicationForms DEF OnMessage
    <2>2. chat' = AddChatMessage(chat, l) /\ l \in Shown
        BY <1>3, <2>1 DEF OnMessage, Shown
    <2>3. chat \in Seq(Shown) /\ Len(chat) <= ChatCap /\ OnceBut(chat, {Notice})
        BY <1>1 DEF PageFits, Shown
    <2>4. chat' \in Seq(Shown) /\ Len(chat') <= ChatCap /\ OnceBut(chat', {Notice})
        BY <2>2, <2>3, AddFacts
    <2>5. connections' = connections /\ overrides' = overrides
        BY <1>3 DEF OnMessage
    <2> QED BY <1>1, <2>4, <2>5 DEF PageFits, Shown
<1>4. CASE OnDelete(p)
    <2>1. chat' = Kept(chat, Range(chat) \ {p.line})
        BY <1>4 DEF OnDelete, RemoveChatMessage
    <2>2. chat \in Seq(Shown) /\ Len(chat) \in Nat /\ Len(chat) <= ChatCap /\ OnceBut(chat, {Notice})
        BY <1>1 DEF PageFits, Shown
    <2>3. chat' \in Seq(Shown) /\ Len(chat') <= Len(chat)
        BY <2>1, <2>2, KeptFacts
    <2>4. OnceBut(chat', {Notice})
        BY <2>1, <2>2, KeptFacts
    <2>5. connections' = connections /\ overrides' = overrides
        BY <1>4 DEF OnDelete
    <2>6. Len(chat') <= ChatCap
        <3>1. Len(chat') \in Nat /\ ChatCap \in Nat
            BY <2>3, FeedAssumption
        <3> QED BY <2>2, <2>3, <3>1
    <2> QED BY <1>1, <2>3, <2>4, <2>5, <2>6 DEF PageFits, Shown
<1>5. CASE OnJoin(p)
    <2>1. PICK m \in Others : p.who = {m}
        BY <1>2, <1>5, PublicationForms DEF OnJoin
    <2>2. connections' = connections \cup {m} /\ chat' = chat /\ overrides' = overrides
        BY <1>5, <2>1 DEF OnJoin
    <2> QED BY <1>1, <2>2 DEF PageFits
<1>6. CASE OnLeave(p)
    <2>1. PICK m \in Others : p.who = {m}
        BY <1>2, <1>6, PublicationForms DEF OnLeave
    <2>2. /\ connections' = connections \ {m} /\ chat' = chat
          /\ overrides' = DropOverride(overrides, m)
        BY <1>6, <2>1 DEF OnLeave
    <2>3. DropOverride(overrides, m) \in Overlay
        BY <1>1, OverlaySet DEF PageFits
    <2> QED BY <1>1, <2>2, <2>3 DEF PageFits
<1>7. CASE OnPlatform(p)
    <2>1. PICK m \in Others, q \in Platforms : p.who = {m} /\ p.platform = q
        BY <1>2, <1>7, PublicationForms DEF OnPlatform
    <2>2. /\ connections' = connections /\ chat' = chat
          /\ overrides' = [overrides EXCEPT ![m] = q]
        BY <1>7, <2>1 DEF OnPlatform
    <2>3. [overrides EXCEPT ![m] = q] \in Overlay
        BY <1>1, OverlaySet DEF PageFits
    <2> QED BY <1>1, <2>2, <2>3 DEF PageFits
<1> QED BY <1>3, <1>4, <1>5, <1>6, <1>7 DEF Reaches

\* An answer that is taken: the roster is replaced, the overlay is filled up, the first
\* history replaces the lines and a later one is added to them.
LEMMA TakeFits ==
    ASSUME FeedTypes, NEW a \in answers, Take(a)
    PROVE  PageFits'
<1> USE FeedAssumption
<1>1. PageFits
    BY FeedParts
<1>2. a.kind \in Kinds /\ a.lines \in Seq(Lines) /\ a.who \subseteq Others /\ a.map \in Overlay
    BY DEF FeedTypes, FeedTypeOK
<1>3. OnceBut(a.lines, {Notice}) /\ Len(a.lines) <= RingCap
    BY DEF FeedTypes, AnswersFit
<1>4. CASE TakePresence(a)
    BY <1>1, <1>2, <1>4 DEF TakePresence, Roster, PageFits
<1>5. CASE TakePlatforms(a)
    <2>1. SeedUnder(overrides, a.map) \in Overlay
        BY <1>1, <1>2 DEF SeedUnder, Overlay, PageFits
    <2> QED BY <1>1, <1>5, <2>1 DEF TakePlatforms, PageFits
<1>6. CASE TakeSeed(a)
    <2>1. chat' = a.lines /\ connections' = connections /\ overrides' = overrides
        BY <1>6 DEF TakeSeed
    <2>2. a.lines \in Seq(Lines \cup {Notice})
        BY <1>2, SeqMonotone
    <2>3. Len(a.lines) <= ChatCap
        <3>1. Len(a.lines) \in Nat
            BY <1>2
        <3> QED BY <1>3, <3>1
    <2> QED BY <1>1, <1>3, <2>1, <2>2, <2>3 DEF PageFits
<1>7. CASE TakeMerge(a)
    <2>1. chat' = MergeHistory(chat, a.lines) /\ connections' = connections /\ overrides' = overrides
        BY <1>7 DEF TakeMerge
    <2>2. chat \in Seq(Shown) /\ Len(chat) <= ChatCap /\ OnceBut(chat, {Notice})
        BY <1>1 DEF PageFits, Shown
    <2>3. chat' \in Seq(Shown) /\ Len(chat') <= ChatCap /\ OnceBut(chat', {Notice})
        BY <1>2, <1>3, <2>1, <2>2, MergeFacts
    <2> QED BY <1>1, <2>1, <2>3 DEF PageFits, Shown
<1> QED BY <1>4, <1>5, <1>6, <1>7 DEF Take

\* One step of what the page shows: it changes by publications, answers and joinRoom.
LEMMA PageStep == FeedTypes /\ [FeedNext]_feedVars => PageFits'
<1> SUFFICES ASSUME FeedTypes, [FeedNext]_feedVars PROVE PageFits'
    OBVIOUS
<1>1. PageFits
    BY FeedParts
<1>2. ASSUME UNCHANGED pageVars PROVE PageFits'
    BY <1>1, <1>2 DEF PageFits, pageVars
<1>3. CASE SendLine \/ \E i \in DOMAIN ring : DeleteLine(i)
    BY <1>2, <1>3 DEF SendLine, DeleteLine, Quietly
<1>4. CASE \E m \in Others : Enter(m) \/ Exit(m) \/ \E p \in Platforms : ChoosePlatform(m, p)
    BY <1>2, <1>4 DEF Enter, Exit, ChoosePlatform, Quietly
<1>5. ASSUME NEW p \in pending, Publish(p) \/ PublicationFails(p) PROVE PageFits'
    <2>1. Reaches(p) \/ Misses(p)
        BY <1>5 DEF Publish, PublicationFails
    <2>2. Misses(p) => UNCHANGED pageVars
        BY DEF Misses
    <2> QED BY <1>2, <2>1, <2>2, ReachesFits
<1>6. ASSUME NEW kind \in asks, Read(kind) \/ AskFails(kind) PROVE PageFits'
    BY <1>2, <1>6 DEF Read, AskFails
<1>7. ASSUME NEW a \in answers, Take(a) PROVE PageFits'
    BY <1>7, TakeFits
<1>8. CASE Join
    <2>1. chat' = <<>> /\ connections' = connections /\ overrides' = NoOverrides
        BY <1>8 DEF Join
    <2>2. OnceBut(<<>>, {Notice})
        BY DEF OnceBut
    <2>3. NoOverrides \in Overlay
        BY DEF NoOverrides, Overlay
    <2> QED BY <1>1, <2>1, <2>2, <2>3, FeedAssumption DEF PageFits
<1>9. CASE Joined \/ Reconnect \/ Drop \/ Restart
    BY <1>2, <1>9 DEF Joined, Reconnect, Drop, Restart
<1>10. CASE UNCHANGED feedVars
    BY <1>2, <1>10 DEF feedVars
<1> QED BY <1>3, <1>4, <1>5, <1>6, <1>7, <1>8, <1>9, <1>10 DEF FeedNext


-----------------------------------------------------------------------------
(* Questions, answers and the notes about them *)

\* Reading any question gives an answer of its kind; only a history carries lines.
LEMMA AnswerFits ==
    ASSUME FeedTypes, NEW kind \in Kinds
    PROVE  LET a == Reading(kind)
           IN /\ a.kind = kind /\ a.lines \in Seq(Lines) /\ a.who \subseteq Others /\ a.map \in Overlay
              /\ OnceBut(a.lines, {Notice}) /\ Len(a.lines) <= RingCap
              /\ a.kind \notin History => a.lines = <<>>
<1> DEFINE a == Reading(kind)
<1>1. a.kind = kind
    BY DEF Reading, Answer
<1>2. a.who \subseteq Others
    BY DEF Reading, Answer, Present
<1>3. a.map \in Overlay
    <2>1. NoOverrides \in Overlay /\ chosen \in Overlay
        BY DEF FeedTypes, FeedTypeOK, NoOverrides, Overlay
    <2> QED BY <2>1 DEF Reading, Answer
<1>4. CASE kind \in History
    BY <1>1, <1>2, <1>3, <1>4, ReadingFacts
<1>5. CASE kind \notin History
    <2>1. a.lines = <<>>
        BY <1>5 DEF Reading, Answer, History
    <2>2. OnceBut(<<>>, {Notice}) /\ Len(<<>>) <= RingCap
        BY FeedAssumption DEF OnceBut
    <2> QED BY <1>1, <1>2, <1>3, <2>1, <2>2
<1> QED BY <1>4, <1>5

\* What the publication of a change leaves behind are lines and connections.
LEMMA NotesFit ==
    ASSUME FeedTypes, NEW p \in pending, Reaches(p) \/ Misses(p)
    PROVE  {early', skipped'} \subseteq SUBSET Lines /\ {outdated', jumped'} \subseteq SUBSET Others
<1>1. {early, skipped} \subseteq SUBSET Lines /\ {outdated, jumped} \subseteq SUBSET Others
    BY DEF FeedTypes, FeedTypeOK
<1>2. p \in Publications
    BY DEF FeedTypes, FeedTypeOK
<1>3. CASE p.kind = "message"
    <2>1. p.line \in Lines
        BY <1>2, <1>3, PublicationForms
    <2>2. CASE OnMessage(p)
        BY <1>1, <2>1, <2>2 DEF OnMessage, PushedOut
    <2>3. CASE Misses(p)
        BY <1>1, <1>3, <2>1, <2>3 DEF Misses
    <2> QED BY <1>3, <2>2, <2>3 DEF Reaches, OnDelete, OnJoin, OnLeave, OnPlatform
<1>4. CASE p.kind = "delete"
    <2>1. p.line \in Lines
        BY <1>2, <1>4, PublicationForms
    <2>2. CASE OnDelete(p)
        BY <1>1, <2>1, <2>2 DEF OnDelete
    <2>3. CASE Misses(p)
        BY <1>1, <1>4, <2>1, <2>3 DEF Misses
    <2> QED BY <1>4, <2>2, <2>3 DEF Reaches, OnMessage, OnJoin, OnLeave, OnPlatform
<1>5. CASE p.kind \in {"join", "leave"}
    <2>1. PICK m \in Others : p.who = {m}
        BY <1>2, <1>5, PublicationForms
    <2>2. CASE OnJoin(p)
        BY <1>1, <2>1, <2>2 DEF OnJoin, Jump
    <2>3. CASE OnLeave(p)
        BY <1>1, <2>1, <2>3 DEF OnLeave, Jump
    <2>4. CASE Misses(p)
        BY <1>1, <1>5, <2>1, <2>4 DEF Misses
    <2> QED BY <1>5, <2>2, <2>3, <2>4 DEF Reaches, OnMessage, OnDelete, OnPlatform
<1>6. CASE p.kind = "platform"
    <2>1. PICK m \in Others : p.who = {m}
        BY <1>2, <1>6, PublicationForms
    <2>2. CASE OnPlatform(p)
        BY <1>1, <2>1, <2>2 DEF OnPlatform
    <2>3. CASE Misses(p)
        BY <1>1, <1>6, <2>1, <2>3 DEF Misses
    <2> QED BY <1>6, <2>2, <2>3 DEF Reaches, OnMessage, OnDelete, OnJoin, OnLeave
<1>7. p.kind \in {"message", "delete", "join", "leave", "platform"}
    BY <1>2, PublicationForms
<1> QED BY <1>3, <1>4, <1>5, <1>6, <1>7

\* The answers on their way, with one more or some less, fit.
LEMMA AnswersStep ==
    FeedTypes /\ [FeedNext]_feedVars =>
        \A a \in answers' : a \in answers \/ \E kind \in asks : a = Reading(kind)
<1> SUFFICES ASSUME FeedTypes, [FeedNext]_feedVars, NEW a \in answers'
             PROVE  a \in answers \/ \E kind \in asks : a = Reading(kind)
    OBVIOUS
<1>1. CASE SendLine \/ \E i \in DOMAIN ring : DeleteLine(i)
    BY <1>1 DEF SendLine, DeleteLine, Quietly
<1>2. CASE \E m \in Others : Enter(m) \/ Exit(m) \/ \E p \in Platforms : ChoosePlatform(m, p)
    BY <1>2 DEF Enter, Exit, ChoosePlatform, Quietly
<1>3. CASE \E p \in pending : Publish(p) \/ PublicationFails(p)
    BY <1>3 DEF Publish, PublicationFails
<1>4. CASE \E kind \in asks : Read(kind) \/ AskFails(kind)
    BY <1>4 DEF Read, AskFails
<1>5. CASE \E b \in answers : Take(b)
    BY <1>5 DEF Take, TakePresence, TakePlatforms, TakeSeed, TakeMerge, Answered
<1>6. CASE Join \/ Joined \/ Reconnect \/ Drop \/ Restart
    BY <1>6 DEF Join, Joined, Reconnect, Drop, Restart, Disconnected
<1>7. CASE UNCHANGED feedVars
    BY <1>7 DEF feedVars
<1> QED BY <1>1, <1>2, <1>3, <1>4, <1>5, <1>6, <1>7 DEF FeedNext

\* One step of the questions and answers.
LEMMA TalkStep == FeedTypes /\ [FeedNext]_feedVars => TalkFits'
<1> SUFFICES ASSUME FeedTypes, [FeedNext]_feedVars PROVE TalkFits'
    OBVIOUS
<1> USE FeedAssumption
<1> DEFINE Asking == /\ {online, entered, hadChat} \subseteq BOOLEAN
                     /\ asks \subseteq Kinds /\ failed \subseteq Kinds
                     /\ feedFaults \in 0 .. MaxFeedFaults
           Noted == {early, skipped} \subseteq SUBSET Lines /\ {outdated, jumped} \subseteq SUBSET Others
           Fits(a) == /\ a.kind \in Kinds /\ a.lines \in Seq(Lines)
                      /\ a.who \subseteq Others /\ a.map \in Overlay
                      /\ OnceBut(a.lines, {Notice}) /\ Len(a.lines) <= RingCap
                      /\ a.kind \notin History => a.lines = <<>>
<1>1. Asking /\ Noted /\ \A a \in answers : Fits(a)
    BY FeedParts DEF TalkFits, AnswersFit
<1>2. \A kind \in asks : Fits(Reading(kind))
    BY <1>1, AnswerFits
<1>3. \A a \in answers' : Fits(a)
    BY <1>1, <1>2, AnswersStep, Zenon
<1>4. ASSUME Asking', Noted' PROVE TalkFits'
    BY <1>3, <1>4 DEF TalkFits, AnswersFit
<1>5. ASSUME FeedFault PROVE feedFaults' \in 0 .. MaxFeedFaults
    BY <1>1, <1>5 DEF FeedFault
<1>6. CASE SendLine \/ \E i \in DOMAIN ring : DeleteLine(i)
    BY <1>1, <1>4, <1>6 DEF SendLine, DeleteLine, Quietly
<1>7. CASE \E m \in Others : Enter(m) \/ Exit(m) \/ \E p \in Platforms : ChoosePlatform(m, p)
    BY <1>1, <1>4, <1>7 DEF Enter, Exit, ChoosePlatform, Quietly
<1>8. ASSUME NEW p \in pending, Publish(p) \/ PublicationFails(p) PROVE TalkFits'
    <2>1. Reaches(p) \/ Misses(p)
        BY <1>8 DEF Publish, PublicationFails
    <2>2. Noted'
        BY <2>1, NotesFit
    <2>3. UNCHANGED <<online, entered, asks, hadChat>>
        BY <1>8 DEF Publish, PublicationFails
    <2>4. UNCHANGED failed
        BY <2>1 DEF Reaches, Misses, OnMessage, OnDelete, OnJoin, OnLeave, OnPlatform
    <2>5. feedFaults' \in 0 .. MaxFeedFaults
        BY <1>1, <1>5, <1>8 DEF Publish, PublicationFails
    <2> QED BY <1>1, <1>4, <2>2, <2>3, <2>4, <2>5
<1>9. ASSUME NEW kind \in asks, Read(kind) \/ AskFails(kind) PROVE TalkFits'
    <2>1. CASE Read(kind)
        BY <1>1, <1>4, <2>1 DEF Read, historyVars
    <2>2. CASE AskFails(kind)
        <3>1. feedFaults' \in 0 .. MaxFeedFaults
            BY <1>5, <2>2 DEF AskFails
        <3> QED BY <1>1, <1>4, <2>2, <3>1 DEF AskFails
    <2> QED BY <1>9, <2>1, <2>2
<1>10. ASSUME NEW a \in answers, Take(a) PROVE TalkFits'
    <2>1. UNCHANGED <<online, entered, hadChat, feedFaults, failed, early, jumped>>
        BY <1>10 DEF Take, TakePresence, TakePlatforms, TakeSeed, TakeMerge, Answered
    <2>2. asks' \subseteq Kinds
        BY <1>1, <1>10 DEF Take, TakePresence, TakePlatforms, TakeSeed, TakeMerge, Kinds
    <2>3. skipped' \subseteq Lines
        BY <1>1, <1>10 DEF Take, TakePresence, TakePlatforms, TakeSeed, TakeMerge, PushedOut
    <2>4. outdated' \subseteq Others
        BY <1>1, <1>10 DEF Take, TakePresence, TakePlatforms, TakeSeed, TakeMerge
    <2> QED BY <1>1, <1>4, <2>1, <2>2, <2>3, <2>4
<1>11. CASE Join
    <2>1. {online', entered', hadChat'} \subseteq BOOLEAN /\ asks' \subseteq Kinds /\ failed' = {}
          /\ UNCHANGED feedFaults
        BY <1>11 DEF Join, Kinds
    <2>2. Noted'
        BY <1>1, <1>11 DEF Join
    <2> QED BY <1>1, <1>4, <2>1, <2>2
<1>12. CASE Joined
    <2>1. {online', entered', hadChat'} \subseteq BOOLEAN /\ asks' \subseteq Kinds
          /\ UNCHANGED <<failed, feedFaults>>
        BY <1>1, <1>12 DEF Joined, Kinds
    <2>2. Noted'
        BY <1>1, <1>12 DEF Joined
    <2> QED BY <1>1, <1>4, <2>1, <2>2
<1>13. CASE Reconnect
    <2>1. {online', entered'} \subseteq BOOLEAN /\ asks' \subseteq Kinds /\ failed' = {}
          /\ UNCHANGED feedFaults
        BY <1>1, <1>13 DEF Reconnect, FirstQuestions, Kinds
    <2>2. hadChat' \in BOOLEAN
        BY <1>13 DEF Reconnect
    <2>3. Noted'
        BY <1>1, <1>13 DEF Reconnect
    <2> QED BY <1>1, <1>4, <2>1, <2>2, <2>3
<1>14. CASE Drop
    <2>1. feedFaults' \in 0 .. MaxFeedFaults
        BY <1>5, <1>14 DEF Drop
    <2> QED BY <1>1, <1>4, <1>14, <2>1 DEF Drop, Disconnected, historyVars
<1>15. CASE Restart
    <2>1. feedFaults' \in 0 .. MaxFeedFaults
        BY <1>5, <1>15 DEF Restart
    <2>2. early' \subseteq Lines
        BY <1>1, <1>15 DEF Restart
    <2> QED BY <1>1, <1>4, <1>15, <2>1, <2>2 DEF Restart, Disconnected
<1>16. CASE UNCHANGED feedVars
    BY <1>1, <1>4, <1>16 DEF feedVars, historyVars
<1> QED BY <1>6, <1>7, <1>8, <1>9, <1>10, <1>11, <1>12, <1>13, <1>14, <1>15, <1>16 DEF FeedNext

\* A step of the feed keeps its types.
LEMMA FeedTypesStep == FeedTypes /\ [FeedNext]_feedVars => FeedTypes'
<1> SUFFICES ASSUME FeedTypes, [FeedNext]_feedVars PROVE FeedTypes'
    OBVIOUS
<1>1. ServerFits' /\ PageFits' /\ TalkFits'
    BY ServerStep, PageStep, TalkStep
<1>2. {removed', early', skipped'} \subseteq SUBSET Lines
        <=> removed' \subseteq Lines /\ {early', skipped'} \subseteq SUBSET Lines
    OBVIOUS
<1> QED BY <1>1, <1>2 DEF FeedTypes, FeedTypeOK, ServerFits, PageFits, TalkFits

\* Whatever is sent, deleted, lost and asked again: every variable of the feed keeps its
\* type, the ring and the page's list keep their caps, and a line is shown once.
THEOREM LinesStayUnique == FeedSpec => [](FeedTypeOK /\ NoLineTwice)
<1>1. FeedTypes => FeedTypeOK /\ NoLineTwice
    BY DEF FeedTypes, NoLineTwice, OnceBut
<1> QED BY <1>1, FeedInitTypes, FeedTypesStep, PTL DEF FeedSpec


-----------------------------------------------------------------------------
(* Deleted lines *)

\* Nothing is asked or answered on a lost connection.
OfflineSilent == ~online => asks = {} /\ answers = {}

\* The deletion of line l is yet to be published, or was missed or overtaken.
Excused(l) == l \in early \/ LineDeleted(l) \in pending

\* Where line l is or will be shown from.
Copied(l) == \/ l \in Range(chat)
             \/ LineSent(l) \in pending
             \/ \E a \in answers : l \in Range(a.lines)

\* A deleted line of which there is a copy is excused.
DeletionsKnown == \A l \in removed : Copied(l) => Excused(l)

\* A question read, asked or dropped on a connection that is up.
LEMMA OfflineStep == OfflineSilent /\ [FeedNext]_feedVars => OfflineSilent'
<1> SUFFICES ASSUME OfflineSilent, [FeedNext]_feedVars PROVE OfflineSilent'
    OBVIOUS
<1>1. CASE SendLine \/ \E i \in DOMAIN ring : DeleteLine(i)
    BY <1>1 DEF OfflineSilent, SendLine, DeleteLine, Quietly
<1>2. CASE \E m \in Others : Enter(m) \/ Exit(m) \/ \E p \in Platforms : ChoosePlatform(m, p)
    BY <1>2 DEF OfflineSilent, Enter, Exit, ChoosePlatform, Quietly
<1>3. CASE \E p \in pending : Publish(p) \/ PublicationFails(p)
    BY <1>3 DEF OfflineSilent, Publish, PublicationFails
<1>4. CASE \E kind \in asks : Read(kind) \/ AskFails(kind)
    BY <1>4 DEF OfflineSilent, Read, AskFails
<1>5. CASE \E a \in answers : Take(a)
    BY <1>5 DEF OfflineSilent, Take, TakePresence, TakePlatforms, TakeSeed, TakeMerge, Answered
<1>6. CASE Join \/ Joined \/ Reconnect \/ Drop \/ Restart
    BY <1>6 DEF OfflineSilent, Join, Joined, Reconnect, Drop, Restart, Disconnected
<1>7. CASE UNCHANGED feedVars
    BY <1>7 DEF OfflineSilent, feedVars
<1> QED BY <1>1, <1>2, <1>3, <1>4, <1>5, <1>6, <1>7 DEF FeedNext

\* A publication leaves on the page nothing but what was there and what it brings.
LEMMA PublicationShows ==
    ASSUME FeedTypes, NEW p \in pending, Reaches(p) \/ Misses(p), NEW l \in Range(chat')
    PROVE  l \in Range(chat) \/ l = Notice \/ p = LineSent(l)
<1>1. p \in Publications /\ PageFits
    BY FeedParts DEF FeedTypes, FeedTypeOK
<1>2. chat \in Seq(Shown) /\ Len(chat) <= ChatCap /\ OnceBut(chat, {Notice})
    BY <1>1 DEF PageFits, Shown
<1>3. CASE OnMessage(p)
    <2>1. PICK k \in Lines : p = LineSent(k) /\ p.line = k
        BY <1>1, <1>3, PublicationForms DEF OnMessage
    <2>2. chat' = AddChatMessage(chat, k) /\ k \in Shown
        BY <1>3, <2>1 DEF OnMessage, Shown
    <2>3. Range(chat') \subseteq Range(chat) \cup {k}
        BY <1>2, <2>2, AddFacts
    <2> QED BY <2>1, <2>3
<1>4. CASE OnDelete(p)
    <2>1. PICK k : chat' = Kept(chat, Range(chat) \ {k})
        BY <1>4 DEF OnDelete, RemoveChatMessage
    <2>2. Range(chat') = Range(chat) \cap (Range(chat) \ {k})
        BY <1>2, <2>1, KeptFacts
    <2> QED BY <2>2
<1>5. CASE OnJoin(p) \/ OnLeave(p) \/ OnPlatform(p) \/ Misses(p)
    BY <1>5 DEF OnJoin, OnLeave, OnPlatform, Misses, pageVars
<1> QED BY <1>3, <1>4, <1>5 DEF Reaches

\* An answer leaves on the page nothing but what was there and what it brings.
LEMMA AnswerShows ==
    ASSUME FeedTypes, NEW a \in answers, Take(a), NEW l \in Range(chat')
    PROVE  l \in Range(chat) \/ l = Notice \/ l \in Range(a.lines)
<1>1. PageFits
    BY FeedParts
<1>2. CASE TakePresence(a) \/ TakePlatforms(a)
    BY <1>2 DEF TakePresence, TakePlatforms
<1>3. CASE TakeSeed(a)
    BY <1>3 DEF TakeSeed
<1>4. CASE TakeMerge(a)
    <2>1. chat \in Seq(Shown) /\ Len(chat) <= ChatCap /\ OnceBut(chat, {Notice})
        BY <1>1 DEF PageFits, Shown
    <2>2. a.lines \in Seq(Lines) /\ OnceBut(a.lines, {Notice}) /\ Len(a.lines) <= RingCap
        BY DEF FeedTypes, FeedTypeOK, AnswersFit
    <2>3. Range(chat') \subseteq Range(chat) \cup Range(a.lines) \cup {Notice}
        BY <1>4, <2>1, <2>2, MergeFacts DEF TakeMerge
    <2> QED BY <2>3
<1> QED BY <1>2, <1>3, <1>4 DEF Take

\* Copies of a line come from copies of it, from sending it and from reading it.
LEMMA CopiesStep ==
    ASSUME FeedTypes, [FeedNext]_feedVars, NEW l \in Lines, Copied(l)'
    PROVE  Copied(l) \/ Live(l) \/ (SendLine /\ l = sent')
<1> DEFINE Goal == Copied(l) \/ Live(l) \/ (SendLine /\ l = sent')
<1>1. l # Notice
    BY DEF Lines, Notice
<1>2. ASSUME chat' = chat, pending' \subseteq pending, answers' \subseteq answers PROVE Copied(l)
    BY <1>2 DEF Copied
<1>3. CASE SendLine
    <2>1. chat' = chat /\ answers' = answers /\ pending' = pending \cup {LineSent(sent')}
        BY <1>3 DEF SendLine, Quietly, pageVars
    <2>2. LineSent(l) = LineSent(sent') => l = sent'
        BY LinesDiffer
    <2> QED BY <1>3, <2>1, <2>2 DEF Copied
<1>4. ASSUME NEW i \in DOMAIN ring, DeleteLine(i) PROVE Goal
    <2>1. chat' = chat /\ answers' = answers /\ pending' = pending \cup {LineDeleted(ring[i].id)}
        BY <1>4 DEF DeleteLine, Quietly, pageVars
    <2>2. LineSent(l) # LineDeleted(ring[i].id)
        BY LinesDiffer
    <2> QED BY <2>1, <2>2 DEF Copied
<1>5. ASSUME NEW m \in Others, Enter(m) \/ Exit(m) \/ \E p \in Platforms : ChoosePlatform(m, p)
      PROVE  Goal
    <2>1. chat' = chat /\ answers' = answers
        BY <1>5 DEF Enter, Exit, ChoosePlatform, Quietly, pageVars
    <2>2. \E p : pending' \subseteq pending \cup {Came(m), Went(m), Chose(m, p)}
        BY <1>5 DEF Enter, Exit, ChoosePlatform
    <2>3. \A p : LineSent(l) \notin {Came(m), Went(m), Chose(m, p)}
        BY KindsDiffer
    <2> QED BY <2>1, <2>2, <2>3 DEF Copied
<1>6. ASSUME NEW p \in pending, Publish(p) \/ PublicationFails(p) PROVE Goal
    <2>1. Reaches(p) \/ Misses(p)
        BY <1>6 DEF Publish, PublicationFails
    <2>2. answers' = answers /\ pending' \subseteq pending
        BY <1>6 DEF Publish, PublicationFails
    <2>3. l \in Range(chat') => l \in Range(chat) \/ p = LineSent(l)
        BY <1>1, <2>1, PublicationShows
    <2> QED BY <2>2, <2>3 DEF Copied
<1>7. ASSUME NEW kind \in asks, Read(kind) \/ AskFails(kind) PROVE Goal
    <2>1. CASE AskFails(kind)
        BY <1>2, <2>1 DEF AskFails, pageVars
    <2>2. CASE Read(kind)
        <3>1. chat' = chat /\ pending' = pending /\ answers' = answers \cup {Reading(kind)}
            BY <2>2 DEF Read, pageVars
        <3>2. kind \in Kinds
            BY DEF FeedTypes, FeedTypeOK
        <3>3. ASSUME l \in Range(Reading(kind).lines) PROVE Live(l)
            <4>1. CASE kind \in History
                BY <3>3, <4>1, ReadingFacts
            <4>2. CASE kind \notin History
                <5>1. Reading(kind).lines = <<>>
                    BY <3>2, <4>2, AnswerFits
                <5> QED BY <3>3, <5>1 DEF Range
            <4> QED BY <4>1, <4>2
        <3> QED BY <3>1, <3>3 DEF Copied
    <2> QED BY <1>7, <2>1, <2>2
<1>8. ASSUME NEW a \in answers, Take(a) PROVE Goal
    <2>1. pending' = pending /\ answers' \subseteq answers
        BY <1>8 DEF Take, TakePresence, TakePlatforms, TakeSeed, TakeMerge, Answered
    <2>2. l \in Range(chat') => l \in Range(chat) \/ l \in Range(a.lines)
        BY <1>1, <1>8, AnswerShows
    <2> QED BY <2>1, <2>2 DEF Copied
<1>9. CASE Join
    <2>1. chat' = <<>> /\ pending' = pending /\ answers' = answers
        BY <1>9 DEF Join
    <2> QED BY <2>1 DEF Copied, Range
<1>10. CASE Joined \/ Reconnect \/ Drop \/ Restart
    BY <1>2, <1>10 DEF Joined, Reconnect, Drop, Restart, Disconnected, pageVars
<1>11. CASE UNCHANGED feedVars
    BY <1>2, <1>11 DEF feedVars, pageVars
<1> QED BY <1>3, <1>4, <1>5, <1>6, <1>7, <1>8, <1>9, <1>10, <1>11 DEF FeedNext

\* A line of the ring that is not marked is not among the deleted ones.
LEMMA LiveIsKept ==
    ASSUME FeedTypes, NEW l, Live(l)
    PROVE  l \notin removed /\ l \in Lines
<1>1. PICK i \in DOMAIN ring : ring[i].id = l /\ ~ring[i].deleted
    BY DEF Live
<1> QED BY <1>1, RingElements DEF FeedTypes, RingFits

\* A deleted line stays excused while there is a copy of it.
LEMMA ExcuseStays ==
    ASSUME FeedTypes, OfflineSilent, [FeedNext]_feedVars, NEW l \in Lines, Excused(l), Copied(l)'
    PROVE  Excused(l)'
<1>1. ASSUME early \subseteq early', pending \subseteq pending' PROVE Excused(l)'
    BY <1>1 DEF Excused
<1>2. CASE SendLine \/ \E i \in DOMAIN ring : DeleteLine(i)
    BY <1>1, <1>2 DEF SendLine, DeleteLine, Quietly
<1>3. CASE \E m \in Others : Enter(m) \/ Exit(m) \/ \E p \in Platforms : ChoosePlatform(m, p)
    BY <1>1, <1>3 DEF Enter, Exit, ChoosePlatform, Quietly
<1>4. ASSUME NEW p \in pending, Publish(p) \/ PublicationFails(p) PROVE Excused(l)'
    <2>1. Reaches(p) \/ Misses(p)
        BY <1>4 DEF Publish, PublicationFails
    <2>2. pending' = pending \ {p} /\ answers' = answers
        BY <1>4 DEF Publish, PublicationFails
    <2>3. early \subseteq early'
        BY <2>1 DEF Reaches, Misses, OnMessage, OnDelete, OnJoin, OnLeave, OnPlatform
    <2>4. CASE p # LineDeleted(l)
        BY <2>2, <2>3, <2>4 DEF Excused
    <2>5. CASE p = LineDeleted(l)
        <3>1. p.kind = "delete" /\ p.line = l
            BY <2>5, PublicationFields
        <3>2. CASE Misses(p)
            BY <3>1, <3>2 DEF Misses, Excused
        <3>3. CASE Reaches(p)
            <4>1. OnDelete(p)
                BY <3>1, <3>3 DEF Reaches, OnMessage, OnJoin, OnLeave, OnPlatform
            <4>2. chat \in Seq(Shown)
                BY DEF FeedTypes, FeedTypeOK, Shown
            <4>3. Range(chat') = Range(chat) \cap (Range(chat) \ {l})
                BY <3>1, <4>1, <4>2, KeptFacts DEF OnDelete, RemoveChatMessage
            <4>4. LineSent(l) \in pending \/ \E a \in answers : l \in Range(a.lines)
                BY <2>2, <4>3 DEF Copied
            <4>5. ASSUME NEW a \in answers, l \in Range(a.lines) PROVE HistoryOutstanding
                <5>1. a.lines # <<>>
                    BY <4>5 DEF Range
                <5> QED BY <5>1 DEF FeedTypes, AnswersFit, HistoryOutstanding, History
            <4> QED BY <3>1, <4>1, <4>4, <4>5 DEF OnDelete, Excused
        <3> QED BY <2>1, <3>2, <3>3
    <2> QED BY <2>4, <2>5
<1>5. CASE \E kind \in asks : Read(kind) \/ AskFails(kind)
    BY <1>1, <1>5 DEF Read, AskFails, historyVars
<1>6. CASE \E a \in answers : Take(a)
    BY <1>1, <1>6 DEF Take, TakePresence, TakePlatforms, TakeSeed, TakeMerge, Answered
<1>7. CASE Join
    <2>1. /\ early' = {k \in early : LineSent(k) \in pending} /\ pending' = pending
          /\ answers' = {} /\ chat' = <<>>
        BY <1>7 DEF Join, OfflineSilent
    <2>2. LineSent(l) \in pending
        BY <2>1 DEF Copied, Range
    <2> QED BY <2>1, <2>2 DEF Excused
<1>8. CASE Joined \/ Reconnect \/ Drop
    BY <1>1, <1>8 DEF Joined, Reconnect, Drop, historyVars
<1>9. CASE Restart
    BY <1>9 DEF Restart, Excused
<1>10. CASE UNCHANGED feedVars
    BY <1>1, <1>10 DEF feedVars, historyVars
<1> QED BY <1>2, <1>3, <1>4, <1>5, <1>6, <1>7, <1>8, <1>9, <1>10 DEF FeedNext

\* A step keeps every deleted line excused of which there is a copy.
LEMMA DeletionsStep ==
    FeedTypes /\ OfflineSilent /\ DeletionsKnown /\ [FeedNext]_feedVars => DeletionsKnown'
<1> SUFFICES ASSUME FeedTypes, OfflineSilent, DeletionsKnown, [FeedNext]_feedVars,
                    NEW l \in removed', Copied(l)'
             PROVE  Excused(l)'
    BY DEF DeletionsKnown
<1>1. l \in Lines
    BY FeedTypesStep DEF FeedTypes, FeedTypeOK
<1>2. CASE l \in removed
    <2>1. ~Live(l)
        BY <1>2, LiveIsKept
    <2>2. ~(SendLine /\ l = sent')
        BY <1>2 DEF SendLine, FeedTypes, FeedTypeOK, RingFits
    <2>3. Copied(l)
        BY <1>1, <2>1, <2>2, CopiesStep
    <2>4. Excused(l)
        BY <1>2, <2>3 DEF DeletionsKnown
    <2> QED BY <1>1, <2>4, ExcuseStays
<1>3. CASE l \notin removed
    <2>1. \E i \in DOMAIN ring : DeleteLine(i)
        <3>1. ~\E p \in pending : Publish(p) \/ PublicationFails(p)
            BY <1>3 DEF Publish, PublicationFails, Reaches, Misses, OnMessage, OnDelete, OnJoin, OnLeave, OnPlatform
        <3>2. ~\E a \in answers : Take(a)
            BY <1>3 DEF Take, TakePresence, TakePlatforms, TakeSeed, TakeMerge, Answered
        <3>3. ~\E m \in Others : Enter(m) \/ Exit(m) \/ \E p \in Platforms : ChoosePlatform(m, p)
            BY <1>3 DEF Enter, Exit, ChoosePlatform
        <3>4. ~\E kind \in asks : Read(kind) \/ AskFails(kind)
            BY <1>3 DEF Read, AskFails, historyVars
        <3>5. ~(SendLine \/ Join \/ Joined \/ Reconnect \/ Drop \/ Restart \/ UNCHANGED feedVars)
            BY <1>3 DEF SendLine, Join, Joined, Reconnect, Drop, Restart, feedVars, historyVars
        <3> QED BY <3>1, <3>2, <3>3, <3>4, <3>5 DEF FeedNext
    <2>2. PICK i \in DOMAIN ring : DeleteLine(i)
        BY <2>1
    <2> QED BY <1>3, <2>2 DEF DeleteLine, Excused
<1> QED BY <1>2, <1>3


-----------------------------------------------------------------------------
(* Lines the page must not lack *)

\* No history is asked for before the first room.join is answered.
NotEntered == ~entered => ~HistoryOutstanding

\* The page shows line l, or may lack it, or will have it published.
Known(l) == l \in Range(chat) \cup skipped \/ LineSent(l) \in pending

\* The first history brings every line that is kept, and replaces what is shown.
SeedKnows ==
    \A a \in answers : a.kind = "seed" =>
        \A l \in Lines : Live(l) => l \in Range(a.lines) \cup skipped \/ LineSent(l) \in pending

\* A line that is kept and not known is asked for or on its way.
PageKnows ==
    online /\ entered /\ History \cap failed = {} =>
        \A l \in Lines : Live(l) =>
            \/ Known(l)
            \/ History \cap asks # {}
            \/ \E a \in answers : a.kind \in History /\ l \in Range(a.lines)

ChatInv == FeedTypes /\ OfflineSilent /\ NotEntered /\ DeletionsKnown /\ SeedKnows /\ PageKnows

\* Only an active page asks for histories.
LEMMA NotEnteredStep ==
    FeedTypes /\ OfflineSilent /\ NotEntered /\ [FeedNext]_feedVars => NotEntered'
<1> SUFFICES ASSUME FeedTypes, OfflineSilent, NotEntered, [FeedNext]_feedVars, ~entered'
             PROVE  ~HistoryOutstanding'
    BY DEF NotEntered
<1>1. ASSUME ~entered, {"seed", "merge"} \cap asks' \subseteq asks,
             \A a \in answers' : a.kind \in {"seed", "merge"} => a \in answers
      PROVE  ~HistoryOutstanding'
    BY <1>1 DEF NotEntered, HistoryOutstanding
<1>2. CASE SendLine \/ \E i \in DOMAIN ring : DeleteLine(i)
    BY <1>1, <1>2 DEF SendLine, DeleteLine, Quietly
<1>3. CASE \E m \in Others : Enter(m) \/ Exit(m) \/ \E p \in Platforms : ChoosePlatform(m, p)
    BY <1>1, <1>3 DEF Enter, Exit, ChoosePlatform, Quietly
<1>4. CASE \E p \in pending : Publish(p) \/ PublicationFails(p)
    BY <1>1, <1>4 DEF Publish, PublicationFails
<1>5. ASSUME NEW kind \in asks, Read(kind) \/ AskFails(kind) PROVE ~HistoryOutstanding'
    <2>1. ~entered /\ asks' \subseteq asks
        BY <1>5 DEF Read, AskFails
    <2>2. kind \notin {"seed", "merge"}
        BY <2>1 DEF NotEntered, HistoryOutstanding
    <2>3. kind \in Kinds
        BY DEF FeedTypes, FeedTypeOK
    <2>4. Reading(kind).kind = kind
        BY <2>3, AnswerFits
    <2>5. answers' \subseteq answers \cup {Reading(kind)}
        BY <1>5 DEF Read, AskFails
    <2> QED BY <1>1, <2>1, <2>2, <2>4, <2>5
<1>6. ASSUME NEW a \in answers, Take(a) PROVE ~HistoryOutstanding'
    <2>1. ~entered /\ answers' \subseteq answers
        BY <1>6 DEF Take, TakePresence, TakePlatforms, TakeSeed, TakeMerge, Answered
    <2>2. asks' \subseteq asks \cup {"platforms"}
        BY <1>6 DEF Take, TakePresence, TakePlatforms, TakeSeed, TakeMerge
    <2> QED BY <1>1, <2>1, <2>2
<1>7. CASE Join
    <2>1. asks' = {"presence"} /\ answers' = {}
        BY <1>7 DEF Join, OfflineSilent
    <2> QED BY <2>1 DEF HistoryOutstanding
<1>8. CASE Joined
    BY <1>8 DEF Joined
<1>9. CASE Reconnect
    BY <1>1, <1>9 DEF Reconnect, FirstQuestions, OfflineSilent
<1>10. CASE Drop \/ Restart
    BY <1>1, <1>10 DEF Drop, Restart, Disconnected
<1>11. CASE UNCHANGED feedVars
    BY <1>1, <1>11 DEF feedVars
<1> QED BY <1>2, <1>3, <1>4, <1>5, <1>6, <1>7, <1>8, <1>9, <1>10, <1>11 DEF FeedNext

\* A line is kept from when it is sent; a deleted one does not come back.
LEMMA LiveStep ==
    ASSUME FeedTypes, [FeedNext]_feedVars, NEW l, Live(l)'
    PROVE  Live(l) \/ (SendLine /\ LineSent(l) \in pending')
<1> USE DEF Live
<1>1. ASSUME ring' = ring PROVE Live(l)
    BY <1>1
<1>2. CASE SendLine
    <2> DEFINE E == [id : Lines, deleted : BOOLEAN]
               new == Entry(sent')
    <2>1. sent' \in Lines /\ LineSent(sent') \in pending'
        BY <1>2, FeedAssumption DEF SendLine, Lines, FeedTypes, FeedTypeOK
    <2>2. new \in E /\ new.id = sent'
        BY <2>1 DEF Entry
    <2>3. ring \in Seq(E) /\ ring' = Added(ring, new, RingCap) /\ RingCap \in Nat \ {0}
        BY <1>2, FeedAssumption DEF SendLine, Added, FeedTypes, FeedTypeOK
    <2> HIDE DEF E, new
    <2>4. ring' \in Seq(E) /\ Range(ring') \subseteq Range(ring) \cup {new}
        BY <2>2, <2>3, LatestFacts
    <2>5. PICK i \in DOMAIN ring' : ring'[i].id = l /\ ~ring'[i].deleted
        OBVIOUS
    <2>6. ring'[i] = new \/ \E j \in DOMAIN ring : ring[j] = ring'[i]
        BY <2>4 DEF Range
    <2> QED BY <1>2, <2>1, <2>2, <2>5, <2>6
<1>3. ASSUME NEW i \in DOMAIN ring, DeleteLine(i) PROVE Live(l)
    <2>1. ring[i] \in [id : Lines, deleted : BOOLEAN]
        BY RingElements
    <2>2. ring' = [ring EXCEPT ![i].deleted = TRUE]
        BY <1>3 DEF DeleteLine
    <2>3. DOMAIN ring' = DOMAIN ring /\ \A j \in DOMAIN ring : j # i => ring'[j] = ring[j]
        BY <2>2
    <2>4. ring'[i].deleted = TRUE
        BY <2>1, <2>2
    <2>5. PICK j \in DOMAIN ring' : ring'[j].id = l /\ ~ring'[j].deleted
        OBVIOUS
    <2> QED BY <2>3, <2>4, <2>5
<1>4. CASE \E m \in Others : Enter(m) \/ Exit(m) \/ \E p \in Platforms : ChoosePlatform(m, p)
    BY <1>1, <1>4 DEF Enter, Exit, ChoosePlatform
<1>5. CASE \E p \in pending : Publish(p) \/ PublicationFails(p)
    BY <1>1, <1>5 DEF Publish, PublicationFails, serverVars
<1>6. CASE \E kind \in asks : Read(kind) \/ AskFails(kind)
    BY <1>1, <1>6 DEF Read, AskFails, serverVars
<1>7. CASE \E a \in answers : Take(a)
    BY <1>1, <1>7 DEF Take, TakePresence, TakePlatforms, TakeSeed, TakeMerge, Answered, serverVars
<1>8. CASE Join \/ Joined \/ Reconnect \/ Drop
    BY <1>1, <1>8 DEF Join, Joined, Reconnect, Drop, serverVars
<1>9. CASE Restart
    BY <1>9 DEF Restart
<1>10. CASE UNCHANGED feedVars
    BY <1>1, <1>10 DEF feedVars, serverVars
<1> QED BY <1>2, <1>3, <1>4, <1>5, <1>6, <1>7, <1>8, <1>9, <1>10 DEF FeedNext

\* A publication, whether it arrives or not, leaves a line that is kept known.
LEMMA PublicationKnows ==
    ASSUME FeedTypes, NEW p \in pending, Publish(p) \/ PublicationFails(p), NEW l \in Lines, Live(l)
    PROVE  /\ Known(l) => Known(l)'
           /\ skipped \subseteq skipped'
           /\ \A a \in answers : a.kind = "seed" /\ LineSent(l) \in pending
                  => l \in skipped' \/ LineSent(l) \in pending'
<1>1. p \in Publications /\ l \notin removed
    BY LiveIsKept DEF FeedTypes, FeedTypeOK
<1>2. chat \in Seq(Shown) /\ Len(chat) <= ChatCap /\ OnceBut(chat, {Notice})
    BY DEF FeedTypes, FeedTypeOK, Shown
<1>3. Reaches(p) \/ Misses(p)
    BY DEF Publish, PublicationFails
<1>4. pending' = pending \ {p}
    BY DEF Publish, PublicationFails
<1>5. skipped \subseteq skipped'
    BY <1>3 DEF Reaches, Misses, OnMessage, OnDelete, OnJoin, OnLeave, OnPlatform
<1>6. l \in Range(chat) => l \in Range(chat') \cup skipped'
    <2>1. CASE OnMessage(p)
        BY <2>1 DEF OnMessage, PushedOut
    <2>2. CASE OnDelete(p)
        <3>1. PICK k \in Lines : p = LineDeleted(k) /\ p.line = k
            BY <1>1, <2>2, PublicationForms DEF OnDelete
        <3>2. k # l
            BY <1>1, <3>1 DEF FeedTypes, RingFits
        <3>3. chat' = Kept(chat, Range(chat) \ {k})
            BY <2>2, <3>1 DEF OnDelete, RemoveChatMessage
        <3>4. Range(chat') = Range(chat) \cap (Range(chat) \ {k})
            BY <1>2, <3>3, KeptFacts
        <3> QED BY <3>2, <3>4
    <2>3. CASE OnJoin(p) \/ OnLeave(p) \/ OnPlatform(p) \/ Misses(p)
        BY <2>3 DEF OnJoin, OnLeave, OnPlatform, Misses, pageVars
    <2> QED BY <1>3, <2>1, <2>2, <2>3 DEF Reaches
<1>7. ASSUME p = LineSent(l) PROVE l \in Range(chat') \cup skipped'
    <2>1. p.kind = "message" /\ p.line = l
        BY <1>7, PublicationFields
    <2>2. CASE Misses(p)
        BY <2>1, <2>2 DEF Misses
    <2>3. CASE Reaches(p)
        <3>1. chat' = AddChatMessage(chat, l) /\ l \in Shown
            BY <2>1, <2>3 DEF Reaches, OnMessage, OnDelete, OnJoin, OnLeave, OnPlatform, Shown
        <3> QED BY <1>2, <3>1, AddFacts
    <2> QED BY <1>3, <2>2, <2>3
<1>8. ASSUME NEW a \in answers, a.kind = "seed", p = LineSent(l) PROVE l \in skipped'
    <2>1. p.kind = "message" /\ p.line = l
        BY <1>8, PublicationFields
    <2>2. CASE Misses(p)
        BY <2>1, <2>2 DEF Misses
    <2>3. CASE Reaches(p)
        BY <1>8, <2>1, <2>3
           DEF Reaches, OnMessage, OnDelete, OnJoin, OnLeave, OnPlatform, SeedOutstanding
    <2> QED BY <1>3, <2>2, <2>3
<1>9. Known(l) => Known(l)'
    BY <1>4, <1>5, <1>6, <1>7 DEF Known
<1> QED BY <1>4, <1>5, <1>8, <1>9


\* The first history still on its way brings every line that is kept.
LEMMA SeedStep == ChatInv /\ [FeedNext]_feedVars => SeedKnows'
<1> SUFFICES ASSUME ChatInv, [FeedNext]_feedVars,
                    NEW b \in answers', b.kind = "seed", NEW l \in Lines, Live(l)'
             PROVE  (l \in Range(b.lines) \cup skipped \/ LineSent(l) \in pending)'
    BY DEF SeedKnows
<1> DEFINE Goal == l \in Range(b.lines) \cup skipped' \/ LineSent(l) \in pending'
<1> SUFFICES Goal
    OBVIOUS
<1>1. FeedTypes /\ OfflineSilent /\ NotEntered /\ SeedKnows
    BY DEF ChatInv
<1>2. Live(l) \/ (SendLine /\ LineSent(l) \in pending')
    BY <1>1, LiveStep
<1>3. ASSUME b \in answers, skipped \subseteq skipped', pending \subseteq pending' PROVE Goal
    BY <1>1, <1>2, <1>3 DEF SeedKnows
<1>4. CASE SendLine \/ \E i \in DOMAIN ring : DeleteLine(i)
    BY <1>3, <1>4 DEF SendLine, DeleteLine, Quietly
<1>5. CASE \E m \in Others : Enter(m) \/ Exit(m) \/ \E p \in Platforms : ChoosePlatform(m, p)
    BY <1>3, <1>5 DEF Enter, Exit, ChoosePlatform, Quietly
<1>6. ASSUME NEW p \in pending, Publish(p) \/ PublicationFails(p) PROVE Goal
    <2>1. b \in answers
        BY <1>6 DEF Publish, PublicationFails
    <2>2. CASE Live(l)
        <3>1. l \in Range(b.lines) \cup skipped \/ LineSent(l) \in pending
            BY <1>1, <2>1, <2>2 DEF SeedKnows
        <3>2. /\ skipped \subseteq skipped'
              /\ LineSent(l) \in pending => l \in skipped' \/ LineSent(l) \in pending'
            BY <1>1, <1>6, <2>1, <2>2, PublicationKnows
        <3> QED BY <3>1, <3>2
    <2> QED BY <1>2, <2>2
<1>7. ASSUME NEW kind \in asks, Read(kind) \/ AskFails(kind) PROVE Goal
    <2>1. UNCHANGED <<pending, skipped, ring>> /\ answers' \subseteq answers \cup {Reading(kind)}
        BY <1>7 DEF Read, AskFails, historyVars, serverVars
    <2>2. CASE b \in answers
        BY <1>3, <2>1, <2>2
    <2>3. CASE b = Reading(kind)
        <3>1. kind \in Kinds
            BY <1>1 DEF FeedTypes, FeedTypeOK
        <3>2. kind = "seed"
            BY <1>1, <2>3, <3>1, AnswerFits
        <3>3. Live(l)
            BY <2>1 DEF Live
        <3>4. kind \in History
            BY <3>2 DEF History
        <3> QED BY <1>1, <2>3, <3>3, <3>4, ReadingFacts
    <2> QED BY <2>1, <2>2, <2>3
<1>8. ASSUME NEW a \in answers, Take(a) PROVE Goal
    <2>1. answers' \subseteq answers /\ pending' = pending /\ skipped \subseteq skipped'
        BY <1>8 DEF Take, TakePresence, TakePlatforms, TakeSeed, TakeMerge, Answered
    <2> QED BY <1>3, <2>1
<1>9. CASE Join \/ Reconnect
    BY <1>1, <1>9 DEF Join, Reconnect, OfflineSilent
<1>10. CASE Joined
    BY <1>1, <1>10 DEF Joined, NotEntered, HistoryOutstanding
<1>11. CASE Drop \/ Restart
    BY <1>11 DEF Drop, Restart, Disconnected
<1>12. CASE UNCHANGED feedVars
    BY <1>3, <1>12 DEF feedVars, historyVars
<1> QED BY <1>4, <1>5, <1>6, <1>7, <1>8, <1>9, <1>10, <1>11, <1>12 DEF FeedNext

\* A line that is kept becomes known when the history that brings it is taken, and no
\* other answer makes it unknown.
LEMMA AnswerKnows ==
    ASSUME ChatInv, NEW a \in answers, Take(a), NEW l \in Lines, Live(l)
    PROVE  /\ Known(l) => Known(l)'
           /\ a.kind \in History /\ l \in Range(a.lines) => Known(l)'
<1>1. FeedTypes /\ SeedKnows
    BY DEF ChatInv
<1>2. pending' = pending /\ skipped \subseteq skipped'
    BY DEF Take, TakePresence, TakePlatforms, TakeSeed, TakeMerge, Answered
<1>3. CASE TakePresence(a) \/ TakePlatforms(a)
    BY <1>2, <1>3 DEF TakePresence, TakePlatforms, Known, History
<1>4. CASE TakeSeed(a)
    <2>1. l \in Range(a.lines) \cup skipped \/ LineSent(l) \in pending
        BY <1>1, <1>4 DEF SeedKnows, TakeSeed
    <2> QED BY <1>2, <1>4, <2>1 DEF TakeSeed, Known
<1>5. CASE TakeMerge(a)
    <2>1. chat \in Seq(Shown) /\ Len(chat) <= ChatCap /\ OnceBut(chat, {Notice})
        BY <1>1 DEF FeedTypes, FeedTypeOK, Shown
    <2>2. a.lines \in Seq(Lines) /\ OnceBut(a.lines, {Notice}) /\ Len(a.lines) <= RingCap
        BY <1>1 DEF FeedTypes, FeedTypeOK, AnswersFit
    <2>3. Range(a.lines) \subseteq Range(chat') \cup Range(chat)
        BY <1>5, <2>1, <2>2, MergeFacts DEF TakeMerge
    <2>4. Lines \cap (Range(chat) \ Range(chat')) \subseteq skipped'
        BY <1>5 DEF TakeMerge, PushedOut
    <2> QED BY <1>2, <2>3, <2>4 DEF Known
<1> QED BY <1>3, <1>4, <1>5 DEF Take

\* On an active page whose history questions did not fail, a line that is kept stays known,
\* asked for or on its way.
LEMMA PageKnowsStep == ChatInv /\ [FeedNext]_feedVars => PageKnows'
<1> SUFFICES ASSUME ChatInv, [FeedNext]_feedVars, online', entered', History \cap failed' = {},
                    NEW l \in Lines, Live(l)'
             PROVE  (\/ Known(l) \/ History \cap asks # {}
                     \/ \E a \in answers : a.kind \in History /\ l \in Range(a.lines))'
    BY DEF PageKnows
<1> DEFINE OnItsWay == \E a \in answers : a.kind \in History /\ l \in Range(a.lines)
           Goal == Known(l)' \/ History \cap asks' # {} \/ OnItsWay'
<1> SUFFICES Goal
    OBVIOUS
<1>1. FeedTypes /\ OfflineSilent /\ NotEntered /\ SeedKnows /\ PageKnows
    BY DEF ChatInv
<1>2. Live(l) \/ (SendLine /\ LineSent(l) \in pending')
    BY <1>1, LiveStep
<1>3. ASSUME online, entered, History \cap failed = {}, Live(l)
      PROVE  Known(l) \/ History \cap asks # {} \/ OnItsWay
    BY <1>1, <1>3 DEF PageKnows
<1>4. ASSUME online' = online, entered' = entered, failed' = failed,
             Known(l) => Known(l)', asks' = asks, answers' = answers
      PROVE  Goal
    BY <1>2, <1>3, <1>4 DEF Known
<1>5. CASE SendLine \/ \E i \in DOMAIN ring : DeleteLine(i)
    <2>1. Known(l) => Known(l)'
        BY <1>5 DEF SendLine, DeleteLine, Quietly, Known, pageVars
    <2> QED BY <1>4, <1>5, <2>1 DEF SendLine, DeleteLine, Quietly
<1>6. CASE \E m \in Others : Enter(m) \/ Exit(m) \/ \E p \in Platforms : ChoosePlatform(m, p)
    <2>1. Known(l) => Known(l)'
        BY <1>6 DEF Enter, Exit, ChoosePlatform, Quietly, Known, pageVars
    <2> QED BY <1>4, <1>6, <2>1 DEF Enter, Exit, ChoosePlatform, Quietly
<1>7. ASSUME NEW p \in pending, Publish(p) \/ PublicationFails(p) PROVE Goal
    <2>1. Live(l) => (Known(l) => Known(l)')
        BY <1>1, <1>7, PublicationKnows
    <2>2. UNCHANGED <<online, entered, asks, answers>>
        BY <1>7 DEF Publish, PublicationFails
    <2>3. UNCHANGED failed
        BY <1>7 DEF Publish, PublicationFails, Reaches, Misses, OnMessage, OnDelete, OnJoin, OnLeave, OnPlatform
    <2> QED BY <1>2, <1>4, <2>1, <2>2, <2>3 DEF Known
<1>8. ASSUME NEW kind \in asks, Read(kind) PROVE Goal
    <2>1. UNCHANGED <<online, entered, failed, ring, chat, skipped, pending>>
        BY <1>8 DEF Read, serverVars, pageVars, historyVars
    <2>2. Live(l)
        BY <2>1 DEF Live
    <2>3. asks' = asks \ {kind} /\ answers' = answers \cup {Reading(kind)}
        BY <1>8 DEF Read
    <2>4. ASSUME kind \in History PROVE OnItsWay'
        <3>1. kind \in Kinds
            BY <1>1 DEF FeedTypes, FeedTypeOK
        <3>2. Reading(kind).kind = kind
            BY <1>1, <3>1, AnswerFits
        <3>3. l \in Range(Reading(kind).lines)
            BY <1>1, <2>2, <2>4, ReadingFacts
        <3> QED BY <2>3, <2>4, <3>2, <3>3
    <2>5. Known(l) => Known(l)'
        BY <2>1 DEF Known
    <2> QED BY <1>3, <2>1, <2>2, <2>3, <2>4, <2>5
<1>9. ASSUME NEW kind \in asks, AskFails(kind) PROVE Goal
    <2>1. UNCHANGED <<online, entered, ring, chat, skipped, pending, answers>>
        BY <1>9 DEF AskFails, serverVars, pageVars
    <2>2. failed' = failed \cup {kind} /\ asks' = asks \ {kind}
        BY <1>9 DEF AskFails
    <2>3. Known(l) => Known(l)'
        BY <2>1 DEF Known
    <2>4. Live(l)
        BY <2>1 DEF Live
    <2> QED BY <1>3, <2>1, <2>2, <2>3, <2>4
<1>10. ASSUME NEW a \in answers, Take(a) PROVE Goal
    <2>1. UNCHANGED <<online, entered, failed, ring>> /\ answers' = answers \ {a}
        BY <1>10 DEF Take, TakePresence, TakePlatforms, TakeSeed, TakeMerge, Answered, serverVars
    <2>2. asks \subseteq asks'
        BY <1>10 DEF Take, TakePresence, TakePlatforms, TakeSeed, TakeMerge
    <2>3. Live(l)
        BY <2>1 DEF Live
    <2>4. /\ Known(l) => Known(l)'
          /\ a.kind \in History /\ l \in Range(a.lines) => Known(l)'
        BY <1>10, <2>3, AnswerKnows
    <2> QED BY <1>3, <2>1, <2>2, <2>3, <2>4
<1>11. CASE Join
    BY <1>11 DEF Join
<1>12. CASE Joined
    BY <1>12 DEF Joined, History
<1>13. CASE Reconnect
    BY <1>13 DEF Reconnect, FirstQuestions, History
<1>14. CASE Drop \/ Restart
    BY <1>14 DEF Drop, Restart, Disconnected
<1>15. CASE UNCHANGED feedVars
    BY <1>4, <1>15 DEF feedVars, pageVars, historyVars, Known
<1> QED BY <1>5, <1>6, <1>7, <1>8, <1>9, <1>10, <1>11, <1>12, <1>13, <1>14, <1>15 DEF FeedNext

\* A step of the feed keeps the invariant of its lines.
LEMMA ChatStep == ChatInv /\ [FeedNext]_feedVars => ChatInv'
<1> SUFFICES ASSUME ChatInv, [FeedNext]_feedVars PROVE ChatInv'
    OBVIOUS
<1>1. FeedTypes' /\ OfflineSilent' /\ NotEntered'
    BY FeedTypesStep, OfflineStep, NotEnteredStep DEF ChatInv
<1>2. DeletionsKnown'
    BY DeletionsStep DEF ChatInv
<1>3. SeedKnows' /\ PageKnows'
    BY SeedStep, PageKnowsStep
<1> QED BY <1>1, <1>2, <1>3 DEF ChatInv

\* Nothing is known of no lines.
LEMMA ChatInit == FeedInit => ChatInv
<1> SUFFICES ASSUME FeedInit PROVE ChatInv
    OBVIOUS
<1>1. FeedTypes
    BY FeedInitTypes
<1>2. OfflineSilent /\ NotEntered /\ DeletionsKnown /\ SeedKnows /\ PageKnows
    BY DEF FeedInit, OfflineSilent, NotEntered, HistoryOutstanding, DeletionsKnown, SeedKnows, PageKnows
<1> QED BY <1>1, <1>2 DEF ChatInv

\* The page catches up (the connected handler, fetchChatHistory): once calm, a
\* page whose history questions were answered lacks no line that the server keeps but those
\* whose publication failed, that its first history overtook, or that its own cap took.
\* A deleted line is shown only if the page was off, or it held or was sent an older copy.
THEOREM ChatSettles == FeedSpec => [](ChatCatchesUp /\ DeletionReaches)
<1>1. ASSUME ChatInv, Calm PROVE Range(chat) \cap removed \subseteq early
    BY <1>1 DEF ChatInv, Calm, DeletionsKnown, Copied, Excused
<1>2. ASSUME ChatInv, Calm, {"seed", "merge"} \cap failed = {}, NEW i \in DOMAIN ring, ~ring[i].deleted
      PROVE  ring[i].id \in Range(chat) \cup skipped
    <2>1. Live(ring[i].id) /\ ring[i].id \in Lines
        BY <1>2, RingElements DEF Live, ChatInv
    <2>2. History \cap failed = {}
        BY <1>2 DEF History
    <2>3. Known(ring[i].id)
        BY <1>2, <2>1, <2>2 DEF ChatInv, PageKnows, Calm
    <2> QED BY <1>2, <2>3 DEF Known, Calm
<1>3. ChatInv => ChatCatchesUp /\ DeletionReaches
    BY <1>1, <1>2 DEF ChatCatchesUp, DeletionReaches
<1> QED BY <1>3, ChatInit, ChatStep, PTL DEF FeedSpec

\* Of the two, what a page shows of deleted lines by itself (chat.delete, removeChatMessage).
THEOREM DeletionsSettle == FeedSpec => []DeletionReaches
BY ChatSettles, PTL


-----------------------------------------------------------------------------
(* Members and what they listen with *)

Moving(m) == Came(m) \in pending \/ Went(m) \in pending
Choosing(m) == \E p \in Platforms : Chose(m, p) \in pending
Outstanding(kind) == kind \in asks \/ \E a \in answers : a.kind = kind
Questions == {"presence", "platforms"}

\* What is yet to be published of a connection is still true of it, and nothing is said of
\* one that has not come.
PubsFit ==
    \A m \in Others :
        /\ Came(m) \in pending => place[m] = "present"
        /\ Went(m) \in pending => place[m] = "gone"
        /\ \A p \in Platforms : Chose(m, p) \in pending => chosen[m] = p /\ place[m] = "present"
        /\ place[m] = "away" => chosen[m] = NoPlatform /\ overrides[m] = NoPlatform

\* A seed names no service for one who has not come or not chosen.
SeedsFit ==
    \A a \in answers : \A m \in Others :
        place[m] = "away" \/ (place[m] = "present" /\ chosen[m] = NoPlatform) => a.map[m] = NoPlatform

\* The page asks one roster question at a time: who is present, then the services.
OneQuestion ==
    /\ Outstanding("platforms") => ~Outstanding("presence")
    /\ Outstanding("platforms") \/ Outstanding("presence") => Questions \cap failed = {} /\ online
    /\ \A kind \in Questions : kind \in asks => \A a \in answers : a.kind # kind
    /\ \A a, b \in answers : a.kind \in Questions /\ a.kind = b.kind => a = b

\* A connection that did not jump is in the roster if it is present, unless a presence answer
\* or its own coming or going is on its way.
RosterKnown ==
    \A m \in Others \ jumped :
        /\ \A a \in answers : a.kind = "presence" => (m \in a.who <=> m \in Present) \/ Moving(m)
        /\ online /\ "presence" \notin failed =>
               Moving(m) \/ Outstanding("presence") \/ (m \in connections <=> m \in Present)

\* The services are yet to be read, or the answer that brings the current one is coming.
SeedComing(m) ==
    \/ ~online \/ Outstanding("presence") \/ "platforms" \in asks
    \/ Questions \cap failed # {}
    \/ \E a \in answers : a.kind = "platforms" /\ a.map[m] = chosen[m]

PlatformsKnown ==
    \A m \in Present \ outdated :
        \/ overrides[m] = chosen[m]
        \/ Choosing(m)
        \/ overrides[m] = NoPlatform /\ SeedComing(m)

RosterInv ==
    FeedTypes /\ OfflineSilent /\ PubsFit /\ SeedsFit /\ OneQuestion /\ RosterKnown /\ PlatformsKnown

\* Connection m is where it was and has chosen what it had.
Same(m) == place'[m] = place[m] /\ chosen'[m] = chosen[m]

\* Where a connection is and what it chose changes only by its own commands or a restart.
LEMMA MemberStep ==
    ASSUME FeedTypes, [FeedNext]_feedVars, NEW m \in Others
    PROVE  Same(m) \/ Enter(m) \/ Exit(m) \/ (\E p \in Platforms : ChoosePlatform(m, p)) \/ Restart
<1>1. place \in [Others -> {"away", "present", "gone"}] /\ chosen \in Overlay
    BY DEF FeedTypes, FeedTypeOK
<1>2. ASSUME place' = place, chosen' = chosen PROVE Same(m)
    BY <1>2 DEF Same
<1>3. CASE SendLine \/ \E i \in DOMAIN ring : DeleteLine(i)
    BY <1>2, <1>3 DEF SendLine, DeleteLine
<1>4. ASSUME NEW n \in Others, n # m, Enter(n) \/ Exit(n) \/ \E p \in Platforms : ChoosePlatform(n, p)
      PROVE  Same(m)
    BY <1>1, <1>4 DEF Enter, Exit, ChoosePlatform, Same, Overlay
<1>5. CASE \E p \in pending : Publish(p) \/ PublicationFails(p)
    BY <1>2, <1>5 DEF Publish, PublicationFails, serverVars
<1>6. CASE \E kind \in asks : Read(kind) \/ AskFails(kind)
    BY <1>2, <1>6 DEF Read, AskFails, serverVars
<1>7. CASE \E a \in answers : Take(a)
    BY <1>2, <1>7 DEF Take, TakePresence, TakePlatforms, TakeSeed, TakeMerge, Answered, serverVars
<1>8. CASE Join \/ Joined \/ Reconnect \/ Drop
    BY <1>2, <1>8 DEF Join, Joined, Reconnect, Drop, serverVars
<1>9. CASE UNCHANGED feedVars
    BY <1>2, <1>9 DEF feedVars, serverVars
<1> QED BY <1>3, <1>4, <1>5, <1>6, <1>7, <1>8, <1>9 DEF FeedNext

\* A connection's coming, going and choosing are made known when they happen.
LEMMA MovesStep ==
    ASSUME FeedTypes, [FeedNext]_feedVars, NEW m \in Others
    PROVE  /\ Came(m) \in pending' => Came(m) \in pending \/ Enter(m)
           /\ Went(m) \in pending' => Went(m) \in pending \/ Exit(m)
           /\ \A p \in Platforms :
                  Chose(m, p) \in pending' => Chose(m, p) \in pending \/ ChoosePlatform(m, p)
<1> DEFINE Goal == /\ Came(m) \in pending' => Came(m) \in pending \/ Enter(m)
                   /\ Went(m) \in pending' => Went(m) \in pending \/ Exit(m)
                   /\ \A p \in Platforms :
                          Chose(m, p) \in pending' => Chose(m, p) \in pending \/ ChoosePlatform(m, p)
<1>1. ASSUME pending' \subseteq pending PROVE Goal
    BY <1>1
<1>2. CASE SendLine
    <2>1. pending' = pending \cup {LineSent(sent')}
        BY <1>2 DEF SendLine
    <2>2. LineSent(sent') # Came(m) /\ LineSent(sent') # Went(m) /\ \A p : LineSent(sent') # Chose(m, p)
        BY KindsDiffer
    <2> QED BY <2>1, <2>2
<1>3. ASSUME NEW i \in DOMAIN ring, DeleteLine(i) PROVE Goal
    <2> DEFINE x == LineDeleted(ring[i].id)
    <2>1. pending' = pending \cup {x}
        BY <1>3 DEF DeleteLine
    <2>2. x # Came(m) /\ x # Went(m) /\ \A p : x # Chose(m, p)
        BY KindsDiffer
    <2> QED BY <2>1, <2>2
<1>4. ASSUME NEW n \in Others, Enter(n) PROVE Goal
    <2>1. pending' = pending \cup {Came(n)}
        BY <1>4 DEF Enter
    <2>2. (Came(m) = Came(n) => m = n) /\ Came(n) # Went(m)
        BY MembersDiffer
    <2>3. \A p : Chose(m, p) # Came(n)
        BY ChoicesDiffer
    <2> QED BY <1>4, <2>1, <2>2, <2>3
<1>5. ASSUME NEW n \in Others, Exit(n) PROVE Goal
    <2>1. pending' = pending \cup {Went(n)}
        BY <1>5 DEF Exit
    <2>2. (Went(m) = Went(n) => m = n) /\ Came(m) # Went(n)
        BY MembersDiffer
    <2>3. \A p : Chose(m, p) # Went(n)
        BY ChoicesDiffer
    <2> QED BY <1>5, <2>1, <2>2, <2>3
<1>6. ASSUME NEW n \in Others, NEW q \in Platforms, ChoosePlatform(n, q) PROVE Goal
    <2>1. pending' = pending \cup {Chose(n, q)}
        BY <1>6 DEF ChoosePlatform
    <2>2. Chose(n, q) # Came(m) /\ Chose(n, q) # Went(m)
        BY ChoicesDiffer
    <2>3. \A p : Chose(m, p) = Chose(n, q) => m = n /\ p = q
        BY ChoicesDiffer
    <2> QED BY <1>6, <2>1, <2>2, <2>3
<1>7. CASE \E p \in pending : Publish(p) \/ PublicationFails(p)
    BY <1>1, <1>7 DEF Publish, PublicationFails
<1>8. CASE \E kind \in asks : Read(kind) \/ AskFails(kind)
    BY <1>1, <1>8 DEF Read, AskFails
<1>9. CASE \E a \in answers : Take(a)
    BY <1>1, <1>9 DEF Take, TakePresence, TakePlatforms, TakeSeed, TakeMerge, Answered
<1>10. CASE Join \/ Joined \/ Reconnect \/ Drop \/ Restart
    BY <1>1, <1>10 DEF Join, Joined, Reconnect, Drop, Restart
<1>11. CASE UNCHANGED feedVars
    BY <1>1, <1>11 DEF feedVars
<1> QED
    BY <1>2, <1>3, <1>4, <1>5, <1>6, <1>7, <1>8, <1>9, <1>10, <1>11 DEF FeedNext

\* The service shown for a connection is what it was, none, what it published or what the
\* seed brings.
LEMMA OverrideStep ==
    ASSUME FeedTypes, [FeedNext]_feedVars, NEW m \in Others
    PROVE  \/ overrides'[m] = overrides[m] \/ overrides'[m] = NoPlatform
           \/ \E p \in Platforms : Chose(m, p) \in pending /\ overrides'[m] = p
           \/ \E a \in answers : TakePlatforms(a) /\ overrides'[m] = a.map[m]
<1> DEFINE Goal == \/ overrides'[m] = overrides[m] \/ overrides'[m] = NoPlatform
                   \/ \E p \in Platforms : Chose(m, p) \in pending /\ overrides'[m] = p
                   \/ \E a \in answers : TakePlatforms(a) /\ overrides'[m] = a.map[m]
<1>1. overrides \in Overlay
    BY DEF FeedTypes, FeedTypeOK
<1>2. ASSUME overrides' = overrides PROVE Goal
    BY <1>2
<1>3. CASE SendLine \/ \E i \in DOMAIN ring : DeleteLine(i)
    BY <1>2, <1>3 DEF SendLine, DeleteLine, Quietly, pageVars
<1>4. CASE \E n \in Others : Enter(n) \/ Exit(n) \/ \E p \in Platforms : ChoosePlatform(n, p)
    BY <1>2, <1>4 DEF Enter, Exit, ChoosePlatform, Quietly, pageVars
<1>5. ASSUME NEW p \in pending, Publish(p) \/ PublicationFails(p) PROVE Goal
    <2>1. p \in Publications
        BY DEF FeedTypes, FeedTypeOK
    <2>2. Reaches(p) \/ Misses(p)
        BY <1>5 DEF Publish, PublicationFails
    <2>3. CASE OnMessage(p) \/ OnDelete(p) \/ OnJoin(p) \/ Misses(p)
        BY <1>2, <2>3 DEF OnMessage, OnDelete, OnJoin, Misses, pageVars
    <2>4. CASE OnLeave(p)
        <3>1. PICK k \in Others : p.who = {k}
            BY <2>1, <2>4, PublicationForms DEF OnLeave
        <3>2. overrides' = [overrides EXCEPT ![k] = NoPlatform]
            BY <2>4, <3>1 DEF OnLeave, DropOverride
        <3> QED BY <1>1, <3>2 DEF Overlay
    <2>5. CASE OnPlatform(p)
        <3>1. PICK n \in Others, q \in Platforms : p = Chose(n, q) /\ p.who = {n} /\ p.platform = q
            BY <2>1, <2>5, PublicationForms DEF OnPlatform
        <3>2. overrides' = [overrides EXCEPT ![n] = q]
            BY <2>5, <3>1 DEF OnPlatform
        <3>3. overrides'[m] = IF m = n THEN q ELSE overrides[m]
            BY <1>1, <3>2 DEF Overlay
        <3> QED BY <3>1, <3>3
    <2> QED BY <2>2, <2>3, <2>4, <2>5 DEF Reaches
<1>6. CASE \E kind \in asks : Read(kind) \/ AskFails(kind)
    BY <1>2, <1>6 DEF Read, AskFails, pageVars
<1>7. ASSUME NEW a \in answers, Take(a) PROVE Goal
    <2>1. CASE TakePresence(a) \/ TakeSeed(a) \/ TakeMerge(a)
        BY <1>2, <2>1 DEF TakePresence, TakeSeed, TakeMerge
    <2>2. CASE TakePlatforms(a)
        BY <2>2 DEF TakePlatforms, SeedUnder
    <2> QED BY <1>7, <2>1, <2>2 DEF Take
<1>8. CASE Join
    BY <1>8 DEF Join, NoOverrides
<1>9. CASE Joined \/ Reconnect \/ Drop \/ Restart
    BY <1>2, <1>9 DEF Joined, Reconnect, Drop, Restart, pageVars
<1>10. CASE UNCHANGED feedVars
    BY <1>2, <1>10 DEF feedVars, pageVars
<1> QED
    BY <1>3, <1>4, <1>5, <1>6, <1>7, <1>8, <1>9, <1>10 DEF FeedNext


\* A command of a connection waits until its earlier ones are published.
LEMMA SettledFacts ==
    ASSUME NEW m, Settled(m)
    PROVE  Came(m) \notin pending /\ Went(m) \notin pending /\ \A p : Chose(m, p) \notin pending
BY PublicationFields DEF Settled

\* A step keeps what is yet to be published true.
LEMMA PubsStep ==
    FeedTypes /\ PubsFit /\ SeedsFit /\ [FeedNext]_feedVars => PubsFit'
<1> SUFFICES ASSUME FeedTypes, PubsFit, SeedsFit, [FeedNext]_feedVars, NEW m \in Others
             PROVE  (/\ Came(m) \in pending => place[m] = "present"
                     /\ Went(m) \in pending => place[m] = "gone"
                     /\ \A p \in Platforms : Chose(m, p) \in pending => chosen[m] = p /\ place[m] = "present"
                     /\ place[m] = "away" => chosen[m] = NoPlatform /\ overrides[m] = NoPlatform)'
    BY DEF PubsFit
<1>1. /\ Came(m) \in pending => place[m] = "present"
      /\ Went(m) \in pending => place[m] = "gone"
      /\ \A p \in Platforms : Chose(m, p) \in pending => chosen[m] = p /\ place[m] = "present"
      /\ place[m] = "away" => chosen[m] = NoPlatform /\ overrides[m] = NoPlatform
    BY DEF PubsFit
<1>2. /\ Came(m) \in pending' => Came(m) \in pending \/ Enter(m)
      /\ Went(m) \in pending' => Went(m) \in pending \/ Exit(m)
      /\ \A p \in Platforms :
             Chose(m, p) \in pending' => Chose(m, p) \in pending \/ ChoosePlatform(m, p)
    BY MovesStep
<1>3. Same(m) \/ Enter(m) \/ Exit(m) \/ (\E p \in Platforms : ChoosePlatform(m, p)) \/ Restart
    BY MemberStep
<1>4. place \in [Others -> {"away", "present", "gone"}] /\ chosen \in Overlay
    BY DEF FeedTypes, FeedTypeOK
<1>6. Enter(m) => /\ place[m] = "away" /\ place'[m] = "present" /\ chosen'[m] = chosen[m]
    BY <1>4 DEF Enter
<1>7. Exit(m) => /\ place[m] = "present" /\ place'[m] = "gone" /\ chosen'[m] = NoPlatform
                 /\ Came(m) \notin pending /\ \A p : Chose(m, p) \notin pending
    BY <1>4, SettledFacts DEF Exit, Overlay
<1>8. \A p \in Platforms : ChoosePlatform(m, p) =>
          /\ place[m] = "present" /\ place'[m] = "present" /\ chosen'[m] = p
          /\ \A q : Chose(m, q) \notin pending
          /\ \A q \in Platforms : Chose(m, q) \in pending' => q = p
    <2> SUFFICES ASSUME NEW p \in Platforms, ChoosePlatform(m, p)
                 PROVE  /\ place[m] = "present" /\ place'[m] = "present" /\ chosen'[m] = p
                        /\ \A q : Chose(m, q) \notin pending
                        /\ \A q \in Platforms : Chose(m, q) \in pending' => q = p
        OBVIOUS
    <2>1. place[m] = "present" /\ place' = place /\ chosen'[m] = p
        BY <1>4 DEF ChoosePlatform, Overlay
    <2>2. \A q : Chose(m, q) \notin pending
        BY SettledFacts DEF ChoosePlatform
    <2>3. pending' = pending \cup {Chose(m, p)}
        BY DEF ChoosePlatform
    <2>4. \A q : Chose(m, q) = Chose(m, p) => q = p
        BY ChoicesDiffer
    <2> QED BY <2>1, <2>2, <2>3, <2>4
<1>9. Restart => pending' = {} /\ chosen'[m] = NoPlatform /\ (place'[m] = "away" => place[m] = "away")
    BY <1>4 DEF Restart, NoOverrides
<1>10. Came(m) \in pending' => place'[m] = "present"
    <2> SUFFICES ASSUME Came(m) \in pending' PROVE place'[m] = "present"
        OBVIOUS
    <2>1. CASE Enter(m)
        BY <1>6, <2>1
    <2>2. CASE ~Enter(m)
        BY <1>1, <1>2, <1>3, <1>7, <1>8, <1>9, <2>2 DEF Same
    <2> QED BY <2>1, <2>2
<1>11. Went(m) \in pending' => place'[m] = "gone"
    <2> SUFFICES ASSUME Went(m) \in pending' PROVE place'[m] = "gone"
        OBVIOUS
    <2>1. CASE Exit(m)
        BY <1>7, <2>1
    <2>2. CASE ~Exit(m)
        BY <1>1, <1>2, <1>3, <1>6, <1>8, <1>9, <2>2 DEF Same
    <2> QED BY <2>1, <2>2
<1>12. ASSUME NEW p \in Platforms, Chose(m, p) \in pending'
       PROVE  chosen'[m] = p /\ place'[m] = "present"
    <2>1. CASE \E q \in Platforms : ChoosePlatform(m, q)
        BY <1>8, <1>12, <2>1
    <2>2. CASE ~\E q \in Platforms : ChoosePlatform(m, q)
        <3>1. Chose(m, p) \in pending /\ chosen[m] = p /\ place[m] = "present"
            BY <1>1, <1>2, <1>12, <2>2
        <3> QED BY <1>3, <1>6, <1>7, <1>9, <1>12, <2>2, <3>1 DEF Same
    <2> QED BY <2>1, <2>2
<1>13. ASSUME place'[m] = "away" PROVE chosen'[m] = NoPlatform /\ overrides'[m] = NoPlatform
    <2>1. place[m] = "away" /\ chosen'[m] = NoPlatform
        BY <1>1, <1>3, <1>6, <1>7, <1>8, <1>9, <1>13 DEF Same
    <2>2. overrides[m] = NoPlatform /\ \A p \in Platforms : Chose(m, p) \notin pending
        BY <1>1, <2>1
    <2>3. \A a \in answers : a.map[m] = NoPlatform
        BY <2>1 DEF SeedsFit
    <2>4. overrides'[m] = NoPlatform
        BY <2>2, <2>3, OverrideStep
    <2> QED BY <2>1, <2>4
<1> QED BY <1>10, <1>11, <1>12, <1>13

\* A step keeps the seeds free of services nobody chose.
LEMMA SeedsStep ==
    FeedTypes /\ PubsFit /\ SeedsFit /\ [FeedNext]_feedVars => SeedsFit'
<1> SUFFICES ASSUME FeedTypes, PubsFit, SeedsFit, [FeedNext]_feedVars,
                    NEW a \in answers', NEW m \in Others,
                    place'[m] = "away" \/ (place'[m] = "present" /\ chosen'[m] = NoPlatform)
             PROVE  a.map[m] = NoPlatform
    BY DEF SeedsFit
<1>1. Same(m) \/ Enter(m) \/ Exit(m) \/ (\E p \in Platforms : ChoosePlatform(m, p)) \/ Restart
    BY MemberStep
<1>2. place \in [Others -> {"away", "present", "gone"}] /\ chosen \in Overlay /\ NoPlatform \notin Platforms
    BY FeedAssumption DEF FeedTypes, FeedTypeOK
<1>3. Enter(m) => place[m] = "away"
    BY DEF Enter
<1>4. Exit(m) => place'[m] = "gone"
    BY <1>2 DEF Exit
<1>5. \A p \in Platforms : ChoosePlatform(m, p) => place[m] = "present" /\ place'[m] = "present" /\ chosen'[m] = p
    BY <1>2 DEF ChoosePlatform, Overlay
<1>6. Restart => answers' = {}
    BY DEF Restart, Disconnected
<1>7. place[m] = "away" \/ (place[m] = "present" /\ chosen[m] = NoPlatform)
    BY <1>1, <1>2, <1>3, <1>4, <1>5, <1>6 DEF Same
<1>8. CASE a \in answers
    BY <1>7, <1>8 DEF SeedsFit
<1>9. CASE \E kind \in asks : a = Reading(kind)
    <2>1. chosen[m] = NoPlatform
        BY <1>7 DEF PubsFit
    <2>2. a.map = chosen \/ a.map = NoOverrides
        BY <1>9 DEF Reading, Answer
    <2> QED BY <2>1, <2>2 DEF NoOverrides
<1> QED BY <1>8, <1>9, AnswersStep

\* What one step does to the two questions about the roster.
LEMMA OneQuestionStep ==
    FeedTypes /\ OfflineSilent /\ OneQuestion /\ [FeedNext]_feedVars => OneQuestion'
<1> SUFFICES ASSUME FeedTypes, OfflineSilent, OneQuestion, [FeedNext]_feedVars PROVE OneQuestion'
    OBVIOUS
<1> USE DEF OneQuestion, Outstanding, Questions
<1>1. ASSUME UNCHANGED <<asks, answers, failed, online>> PROVE OneQuestion'
    BY <1>1
<1>2. CASE SendLine \/ \E i \in DOMAIN ring : DeleteLine(i)
    BY <1>1, <1>2 DEF SendLine, DeleteLine, Quietly
<1>3. CASE \E m \in Others : Enter(m) \/ Exit(m) \/ \E p \in Platforms : ChoosePlatform(m, p)
    BY <1>1, <1>3 DEF Enter, Exit, ChoosePlatform, Quietly
<1>4. ASSUME NEW p \in pending, Publish(p) \/ PublicationFails(p) PROVE OneQuestion'
    <2>1. UNCHANGED <<asks, answers, online>>
        BY <1>4 DEF Publish, PublicationFails
    <2>2. UNCHANGED failed
        BY <1>4 DEF Publish, PublicationFails, Reaches, Misses, OnMessage, OnDelete, OnJoin, OnLeave, OnPlatform
    <2> QED BY <1>1, <2>1, <2>2
<1>5. ASSUME NEW kind \in asks, Read(kind) PROVE OneQuestion'
    <2> DEFINE b == Reading(kind)
    <2>1. asks' = asks \ {kind} /\ answers' = answers \cup {b} /\ UNCHANGED <<failed, online>>
        BY <1>5 DEF Read, historyVars
    <2>2. kind \in Kinds
        BY DEF FeedTypes, FeedTypeOK
    <2>3. b.kind = kind
        BY <2>2, AnswerFits
    <2> HIDE DEF b
    <2>4. \A k \in {"presence", "platforms"} :
              (k \in asks' \/ \E a \in answers' : a.kind = k) <=> (k \in asks \/ \E a \in answers : a.kind = k)
        BY <2>1, <2>3
    <2>5. \A k \in {"presence", "platforms"} : k \in asks' => \A a \in answers' : a.kind # k
        BY <2>1, <2>3
    <2>6. \A a, c \in answers' : a.kind \in {"presence", "platforms"} /\ a.kind = c.kind => a = c
        BY <2>1, <2>3
    <2> QED BY <2>1, <2>4, <2>5, <2>6
<1>6. ASSUME NEW kind \in asks, AskFails(kind) PROVE OneQuestion'
    <2>1. /\ asks' = asks \ {kind} /\ failed' = failed \cup {kind}
          /\ answers' = answers /\ online' = online
        BY <1>6 DEF AskFails
    <2> QED BY <2>1
<1>7. ASSUME NEW a \in answers, Take(a) PROVE OneQuestion'
    <2>1. answers' = answers \ {a} /\ UNCHANGED <<failed, online>>
        BY <1>7 DEF Take, TakePresence, TakePlatforms, TakeSeed, TakeMerge, Answered
    <2>2. CASE TakePresence(a)
        <3>1. a.kind = "presence" /\ asks' = asks \cup {"platforms"}
            BY <2>2 DEF TakePresence
        <3>2. "presence" \notin asks' /\ \A b \in answers' : b.kind # "presence"
            BY <2>1, <3>1
        <3>3. \A b \in answers' : b.kind # "platforms"
            BY <2>1, <3>1
        <3> QED BY <2>1, <3>1, <3>2, <3>3
    <2>3. CASE ~TakePresence(a)
        <3>1. asks' = asks
            BY <1>7, <2>3 DEF Take, TakePlatforms, TakeSeed, TakeMerge
        <3> QED BY <2>1, <3>1
    <2> QED BY <2>2, <2>3
<1>8. CASE Join \/ Reconnect
    <2>1. answers' = {} /\ failed' = {} /\ online' = TRUE
        BY <1>8 DEF Join, Reconnect, OfflineSilent
    <2>2. "platforms" \notin asks'
        BY <1>8 DEF Join, Reconnect, FirstQuestions
    <2> QED BY <2>1, <2>2
<1>9. CASE Joined
    BY <1>9 DEF Joined
<1>10. CASE Drop \/ Restart
    BY <1>10 DEF Drop, Restart, Disconnected
<1>11. CASE UNCHANGED feedVars
    BY <1>1, <1>11 DEF feedVars, historyVars
<1> QED BY <1>2, <1>3, <1>4, <1>5, <1>6, <1>7, <1>8, <1>9, <1>10, <1>11 DEF FeedNext


\* What the roster says of connection m.
RosterAt(m) ==
    /\ \A a \in answers : a.kind = "presence" => (m \in a.who <=> m \in Present) \/ Moving(m)
    /\ online /\ "presence" \notin failed =>
           Moving(m) \/ Outstanding("presence") \/ (m \in connections <=> m \in Present)

\* A publication: the one of m's own coming or going settles the roster unless a presence
\* answer is on its way, and then m jumps.
LEMMA RosterPublication ==
    ASSUME RosterInv, NEW p \in pending, Publish(p) \/ PublicationFails(p),
           NEW m \in Others, m \notin jumped'
    PROVE  RosterAt(m)'
<1>1. p \in Publications /\ PubsFit
    BY DEF RosterInv, FeedTypes, FeedTypeOK
<1>2. Reaches(p) \/ Misses(p)
    BY DEF Publish, PublicationFails
<1>3. pending' = pending \ {p} /\ UNCHANGED <<online, asks, answers, place>>
    BY DEF Publish, PublicationFails, serverVars
<1>4. failed' = failed
    BY <1>2 DEF Reaches, Misses, OnMessage, OnDelete, OnJoin, OnLeave, OnPlatform
<1>5. Present' = Present
    BY <1>3 DEF Present
<1>6. CASE p \notin {Came(m), Went(m)}
    <2>1. Moving(m)' <=> Moving(m)
        BY <1>3, <1>6 DEF Moving
    <2>2. m \notin jumped /\ (m \in connections' <=> m \in connections)
        <3>1. CASE OnMessage(p) \/ OnDelete(p) \/ OnPlatform(p)
            BY <3>1 DEF OnMessage, OnDelete, OnPlatform
        <3>2. CASE OnJoin(p)
            <4>1. PICK n \in Others : p = Came(n) /\ p.who = {n}
                BY <1>1, <3>2, PublicationForms DEF OnJoin
            <4>2. n # m
                BY <1>6, <4>1
            <4> QED BY <3>2, <4>1, <4>2 DEF OnJoin, Jump
        <3>3. CASE OnLeave(p)
            <4>1. PICK n \in Others : p = Went(n) /\ p.who = {n}
                BY <1>1, <3>3, PublicationForms DEF OnLeave
            <4>2. n # m
                BY <1>6, <4>1
            <4> QED BY <3>3, <4>1, <4>2 DEF OnLeave, Jump
        <3>4. CASE Misses(p)
            BY <3>4 DEF Misses, pageVars
        <3> QED BY <1>2, <3>1, <3>2, <3>3, <3>4 DEF Reaches
    <2>3. RosterAt(m)
        BY <2>2 DEF RosterInv, RosterKnown, RosterAt
    <2> QED BY <1>3, <1>4, <1>5, <2>1, <2>2, <2>3 DEF RosterAt, Outstanding
<1>7. CASE p = Came(m)
    <2>1. p.kind = "join" /\ p.who = {m} /\ m \in Present
        BY <1>1, <1>7, PublicationFields DEF PubsFit, Present
    <2>2. ~Misses(p)
        BY <2>1 DEF Misses
    <2>3. connections' = connections \cup {m} /\ jumped' = Jump(m)
        BY <1>2, <2>1, <2>2 DEF Reaches, OnMessage, OnDelete, OnJoin, OnLeave, OnPlatform
    <2>4. ~Outstanding("presence")
        BY <2>3 DEF Jump, Outstanding
    <2> QED BY <1>3, <1>5, <2>1, <2>3, <2>4 DEF RosterAt, Outstanding
<1>8. CASE p = Went(m)
    <2>1. p.kind = "leave" /\ p.who = {m} /\ m \notin Present
        BY <1>1, <1>8, PublicationFields DEF PubsFit, Present
    <2>2. ~Misses(p)
        BY <2>1 DEF Misses
    <2>3. connections' = connections \ {m} /\ jumped' = Jump(m)
        BY <1>2, <2>1, <2>2 DEF Reaches, OnMessage, OnDelete, OnJoin, OnLeave, OnPlatform
    <2>4. ~Outstanding("presence")
        BY <2>3 DEF Jump, Outstanding
    <2> QED BY <1>3, <1>5, <2>1, <2>3, <2>4 DEF RosterAt, Outstanding
<1> QED BY <1>6, <1>7, <1>8

\* A step keeps the roster right about everyone who did not jump.
LEMMA RosterStep == RosterInv /\ [FeedNext]_feedVars => RosterKnown'
<1> SUFFICES ASSUME RosterInv, [FeedNext]_feedVars, NEW m \in Others, m \notin jumped'
             PROVE  RosterAt(m)'
    BY DEF RosterKnown, RosterAt
<1>1. FeedTypes /\ OfflineSilent
    BY DEF RosterInv
<1>2. ASSUME m \notin jumped PROVE RosterAt(m)
    BY <1>2 DEF RosterInv, RosterKnown, RosterAt
<1>3. ASSUME UNCHANGED <<online, asks, answers, failed, connections, jumped>>,
             Moving(m) => Moving(m)', m \in Present' <=> m \in Present
      PROVE  RosterAt(m)'
    BY <1>2, <1>3 DEF RosterAt, Outstanding
<1>4. CASE SendLine \/ \E i \in DOMAIN ring : DeleteLine(i)
    <2>1. UNCHANGED <<online, asks, answers, failed, connections, jumped, place>> /\ pending \subseteq pending'
        BY <1>4 DEF SendLine, DeleteLine, Quietly, pageVars
    <2> QED BY <1>3, <2>1 DEF Moving, Present
<1>5. ASSUME NEW n \in Others, Enter(n) \/ Exit(n) \/ \E p \in Platforms : ChoosePlatform(n, p)
      PROVE  RosterAt(m)'
    <2>1. UNCHANGED <<online, asks, answers, failed, connections, jumped>> /\ pending \subseteq pending'
        BY <1>5 DEF Enter, Exit, ChoosePlatform, Quietly, pageVars
    <2>2. CASE n = m /\ (Enter(n) \/ Exit(n))
        <3>1. Moving(m)'
            BY <2>2 DEF Enter, Exit, Moving
        <3> QED BY <3>1 DEF RosterAt
    <2>3. CASE ~(n = m /\ (Enter(n) \/ Exit(n)))
        <3>1. place'[m] = place[m]
            BY <1>1, <1>5, <2>3 DEF Enter, Exit, ChoosePlatform, FeedTypes, FeedTypeOK
        <3> QED BY <1>3, <2>1, <3>1 DEF Moving, Present
    <2> QED BY <2>2, <2>3
<1>6. CASE \E p \in pending : Publish(p) \/ PublicationFails(p)
    BY <1>6, RosterPublication
<1>7. ASSUME NEW kind \in asks, Read(kind) PROVE RosterAt(m)'
    <2> DEFINE b == Reading(kind)
    <2>1. /\ UNCHANGED <<online, failed, connections, jumped, pending, place>>
          /\ asks' = asks \ {kind} /\ answers' = answers \cup {b}
        BY <1>7 DEF Read, serverVars, pageVars, historyVars
    <2>2. b.kind = kind
        BY DEF Reading, Answer
    <2>3. kind = "presence" => b.who = Present
        BY DEF Reading, Answer
    <2>4. Moving(m)' = Moving(m) /\ Present' = Present /\ RosterAt(m)
        BY <1>2, <2>1 DEF Moving, Present
    <2> HIDE DEF b
    <2>5. Outstanding("presence") => Outstanding("presence")'
        BY <2>1, <2>2 DEF Outstanding
    <2> QED BY <2>1, <2>2, <2>3, <2>4, <2>5 DEF RosterAt
<1>8. ASSUME NEW kind \in asks, AskFails(kind) PROVE RosterAt(m)'
    <2>1. /\ UNCHANGED <<online, connections, jumped, pending, place, answers>>
          /\ asks' = asks \ {kind} /\ failed' = failed \cup {kind}
        BY <1>8 DEF AskFails, serverVars, pageVars
    <2>2. Moving(m)' = Moving(m) /\ Present' = Present /\ RosterAt(m)
        BY <1>2, <2>1 DEF Moving, Present
    <2> QED BY <2>1, <2>2 DEF RosterAt, Outstanding
<1>9. ASSUME NEW a \in answers, Take(a) PROVE RosterAt(m)'
    <2>1. /\ UNCHANGED <<online, failed, jumped, pending, place>> /\ answers' = answers \ {a}
          /\ asks \subseteq asks'
        BY <1>9 DEF Take, TakePresence, TakePlatforms, TakeSeed, TakeMerge, Answered, serverVars
    <2>2. Moving(m)' = Moving(m) /\ Present' = Present /\ RosterAt(m)
        BY <1>2, <2>1 DEF Moving, Present
    <2>3. CASE TakePresence(a)
        BY <2>1, <2>2, <2>3 DEF TakePresence, Roster, RosterAt
    <2>4. CASE ~TakePresence(a)
        <3>1. connections' = connections /\ a.kind # "presence"
            BY <1>9, <2>4 DEF Take, TakePlatforms, TakeSeed, TakeMerge
        <3> QED BY <2>1, <2>2, <3>1 DEF RosterAt, Outstanding
    <2> QED BY <2>3, <2>4
<1>10. CASE Join \/ Reconnect
    <2>1. answers' = {} /\ "presence" \in asks'
        BY <1>1, <1>10 DEF Join, Reconnect, FirstQuestions, OfflineSilent
    <2> QED BY <2>1 DEF RosterAt, Outstanding
<1>11. CASE Joined
    <2>1. UNCHANGED <<online, failed, connections, jumped, pending, place, answers>> /\ asks \subseteq asks'
        BY <1>11 DEF Joined, serverVars, pageVars
    <2>2. Moving(m)' = Moving(m) /\ Present' = Present /\ RosterAt(m)
        BY <1>2, <2>1 DEF Moving, Present
    <2> QED BY <2>1, <2>2 DEF RosterAt, Outstanding
<1>12. CASE Drop \/ Restart
    BY <1>12 DEF Drop, Restart, Disconnected, RosterAt
<1>13. CASE UNCHANGED feedVars
    <2>1. UNCHANGED <<online, asks, answers, failed, connections, jumped, place, pending>>
        BY <1>13 DEF feedVars, serverVars, pageVars, historyVars
    <2> QED BY <1>3, <2>1 DEF Moving, Present
<1> QED BY <1>4, <1>5, <1>6, <1>7, <1>8, <1>9, <1>10, <1>11, <1>12, <1>13 DEF FeedNext

\* What the overlay says of connection m.
PlatformAt(m) ==
    \/ overrides[m] = chosen[m]
    \/ Choosing(m)
    \/ overrides[m] = NoPlatform /\ SeedComing(m)

\* A publication: the one of m's own choice settles it; nobody present has its service
\* forgotten.
LEMMA PlatformPublication ==
    ASSUME RosterInv, NEW p \in pending, Publish(p) \/ PublicationFails(p),
           NEW m \in Present', m \notin outdated'
    PROVE  PlatformAt(m)'
<1>1. p \in Publications /\ PubsFit /\ overrides \in Overlay
    BY DEF RosterInv, FeedTypes, FeedTypeOK
<1>2. Reaches(p) \/ Misses(p)
    BY DEF Publish, PublicationFails
<1>3. pending' = pending \ {p} /\ UNCHANGED <<online, asks, answers, place, chosen>>
    BY DEF Publish, PublicationFails, serverVars
<1>4. failed' = failed
    BY <1>2 DEF Reaches, Misses, OnMessage, OnDelete, OnJoin, OnLeave, OnPlatform
<1>5. m \in Others /\ m \in Present
    BY <1>3 DEF Present
<1>6. CASE \E q \in Platforms : p = Chose(m, q)
    <2>1. PICK q \in Platforms : p = Chose(m, q)
        BY <1>6
    <2>2. p.kind = "platform" /\ p.who = {m} /\ p.platform = q
        BY <2>1, PublicationFields
    <2>3. ~Misses(p)
        BY <2>2 DEF Misses
    <2>4. overrides' = [overrides EXCEPT ![m] = q]
        BY <1>2, <2>2, <2>3 DEF Reaches, OnMessage, OnDelete, OnJoin, OnLeave, OnPlatform
    <2>5. chosen[m] = q
        BY <1>1, <1>5, <2>1 DEF PubsFit
    <2> QED BY <1>1, <1>3, <1>5, <2>4, <2>5 DEF PlatformAt, Overlay
<1>7. CASE ~\E q \in Platforms : p = Chose(m, q)
    <2>1. Choosing(m)' <=> Choosing(m)
        BY <1>3, <1>7 DEF Choosing
    <2>2. SeedComing(m)' <=> SeedComing(m)
        BY <1>3, <1>4 DEF SeedComing, Outstanding
    <2>3. m \notin outdated /\ overrides'[m] = overrides[m]
        <3>1. CASE OnMessage(p) \/ OnDelete(p) \/ OnJoin(p)
            BY <3>1 DEF OnMessage, OnDelete, OnJoin
        <3>2. CASE OnLeave(p)
            <4>1. PICK n \in Others : p = Went(n) /\ p.who = {n}
                BY <1>1, <3>2, PublicationForms DEF OnLeave
            <4>2. n # m
                BY <1>1, <1>5, <4>1 DEF PubsFit, Present
            <4>3. overrides' = [overrides EXCEPT ![n] = NoPlatform] /\ outdated' = outdated
                BY <3>2, <4>1 DEF OnLeave, DropOverride
            <4> QED BY <1>1, <1>5, <4>2, <4>3 DEF Overlay
        <3>3. CASE OnPlatform(p)
            <4>1. PICK n \in Others, q \in Platforms : p = Chose(n, q) /\ p.who = {n} /\ p.platform = q
                BY <1>1, <3>3, PublicationForms DEF OnPlatform
            <4>2. n # m
                BY <1>7, <4>1
            <4>3. overrides' = [overrides EXCEPT ![n] = q] /\ outdated' = outdated \ {n}
                BY <3>3, <4>1 DEF OnPlatform
            <4> QED BY <1>1, <1>5, <4>2, <4>3 DEF Overlay
        <3>4. CASE Misses(p)
            BY <3>4 DEF Misses, pageVars
        <3> QED BY <1>2, <3>1, <3>2, <3>3, <3>4 DEF Reaches
    <2>4. PlatformAt(m)
        BY <1>5, <2>3 DEF RosterInv, PlatformsKnown, PlatformAt
    <2> QED BY <1>3, <2>1, <2>2, <2>3, <2>4 DEF PlatformAt
<1> QED BY <1>6, <1>7

\* The answer about services fills what the page does not hold.
LEMMA PlatformAnswer ==
    ASSUME RosterInv, NEW a \in answers, TakePlatforms(a), NEW m \in Present \ outdated
    PROVE  PlatformAt(m)'
<1>1. m \in Others /\ PubsFit /\ SeedsFit /\ OneQuestion /\ PlatformAt(m)
    BY DEF RosterInv, PlatformsKnown, PlatformAt, Present
<1>2. a.kind = "platforms" /\ UNCHANGED <<chosen, pending>>
    BY DEF TakePlatforms, Answered, serverVars
<1>3. overrides'[m] = IF overrides[m] # NoPlatform THEN overrides[m] ELSE a.map[m]
    BY <1>1 DEF TakePlatforms, SeedUnder
<1>4. CASE overrides[m] = chosen[m]
    <2>1. chosen[m] = NoPlatform => a.map[m] = NoPlatform
        BY <1>1 DEF SeedsFit, Present
    <2> QED BY <1>2, <1>3, <1>4, <2>1 DEF PlatformAt
<1>5. CASE Choosing(m)
    BY <1>2, <1>5 DEF PlatformAt, Choosing
<1>6. CASE overrides[m] = NoPlatform /\ SeedComing(m)
    <2>1. Outstanding("platforms")
        BY <1>2 DEF Outstanding
    <2>2. ~Outstanding("presence") /\ Questions \cap failed = {} /\ online
        BY <1>1, <2>1 DEF OneQuestion
    <2>3. "platforms" \notin asks
        BY <1>1, <1>2 DEF OneQuestion, Questions
    <2>4. PICK b \in answers : b.kind = "platforms" /\ b.map[m] = chosen[m]
        BY <1>6, <2>2, <2>3 DEF SeedComing
    <2>5. a = b
        BY <1>1, <1>2, <2>4 DEF OneQuestion, Questions
    <2> QED BY <1>2, <1>3, <1>6, <2>4, <2>5 DEF PlatformAt
<1> QED BY <1>1, <1>4, <1>5, <1>6 DEF PlatformAt

\* A step keeps the services right of everyone present whose choice did not change unseen.
LEMMA PlatformsStep == RosterInv /\ [FeedNext]_feedVars => PlatformsKnown'
<1> SUFFICES ASSUME RosterInv, [FeedNext]_feedVars, NEW m \in Present', m \notin outdated'
             PROVE  PlatformAt(m)'
    BY DEF PlatformsKnown, PlatformAt
<1>1. FeedTypes /\ OfflineSilent /\ PubsFit
    BY DEF RosterInv
<1>2. m \in Others /\ place'[m] = "present"
    BY DEF Present
<1>3. place \in [Others -> {"away", "present", "gone"}] /\ chosen \in Overlay
    BY <1>1 DEF FeedTypes, FeedTypeOK
<1>4. ASSUME m \in Present, m \notin outdated PROVE PlatformAt(m)
    BY <1>4 DEF RosterInv, PlatformsKnown, PlatformAt
<1>5. ASSUME UNCHANGED <<online, asks, answers, failed, overrides, outdated>>,
             Choosing(m) => Choosing(m)', Same(m)
      PROVE  PlatformAt(m)'
    <2>1. PlatformAt(m)
        BY <1>2, <1>4, <1>5 DEF Present, Same
    <2>2. SeedComing(m)' <=> SeedComing(m)
        BY <1>5 DEF SeedComing, Outstanding, Same
    <2> QED BY <1>5, <2>1, <2>2 DEF PlatformAt, Same
<1>6. CASE SendLine \/ \E i \in DOMAIN ring : DeleteLine(i)
    <2>1. /\ UNCHANGED <<online, asks, answers, failed, overrides, outdated, place, chosen>>
          /\ pending \subseteq pending'
        BY <1>6 DEF SendLine, DeleteLine, Quietly, pageVars
    <2> QED BY <1>5, <2>1 DEF Choosing, Same
<1>7. ASSUME NEW n \in Others, Enter(n) \/ Exit(n) \/ \E p \in Platforms : ChoosePlatform(n, p)
      PROVE  PlatformAt(m)'
    <2>1. UNCHANGED <<online, asks, answers, failed, overrides, outdated>> /\ pending \subseteq pending'
        BY <1>7 DEF Enter, Exit, ChoosePlatform, Quietly, pageVars
    <2>2. CASE n # m
        <3>1. Same(m)
            BY <1>2, <1>3, <1>7, <2>2 DEF Enter, Exit, ChoosePlatform, Same, Overlay
        <3> QED BY <1>5, <2>1, <3>1 DEF Choosing
    <2>3. CASE Enter(m)
        <3>1. place[m] = "away" /\ chosen' = chosen
            BY <2>3 DEF Enter
        <3> QED BY <1>1, <1>2, <2>1, <3>1 DEF PubsFit, PlatformAt
    <2>4. CASE Exit(m)
        BY <1>2, <1>3, <2>4 DEF Exit
    <2>5. CASE \E p \in Platforms : ChoosePlatform(m, p)
        <3>1. Choosing(m)'
            BY <2>5 DEF ChoosePlatform, Choosing
        <3> QED BY <3>1 DEF PlatformAt
    <2> QED BY <1>7, <2>2, <2>3, <2>4, <2>5
<1>8. CASE \E p \in pending : Publish(p) \/ PublicationFails(p)
    BY <1>8, PlatformPublication
<1>9. ASSUME NEW kind \in asks, Read(kind) PROVE PlatformAt(m)'
    <2> DEFINE b == Reading(kind)
    <2>1. /\ UNCHANGED <<online, failed, overrides, outdated, pending, place, chosen>>
          /\ asks' = asks \ {kind} /\ answers' = answers \cup {b}
        BY <1>9 DEF Read, serverVars, pageVars, historyVars
    <2>2. b.kind = kind /\ (kind = "platforms" => b.map = chosen)
        BY DEF Reading, Answer
    <2>3. PlatformAt(m) /\ Choosing(m)' = Choosing(m)
        BY <1>2, <1>4, <2>1 DEF Present, Choosing
    <2> HIDE DEF b
    <2>4. SeedComing(m) => SeedComing(m)'
        BY <2>1, <2>2 DEF SeedComing, Outstanding
    <2> QED BY <2>1, <2>3, <2>4 DEF PlatformAt
<1>10. ASSUME NEW kind \in asks, AskFails(kind) PROVE PlatformAt(m)'
    <2>1. /\ UNCHANGED <<online, overrides, outdated, pending, place, chosen, answers>>
          /\ asks' = asks \ {kind} /\ failed' = failed \cup {kind}
        BY <1>10 DEF AskFails, serverVars, pageVars
    <2>2. PlatformAt(m) /\ Choosing(m)' = Choosing(m)
        BY <1>2, <1>4, <2>1 DEF Present, Choosing
    <2>3. SeedComing(m) => SeedComing(m)'
        BY <2>1 DEF SeedComing, Outstanding, Questions
    <2> QED BY <2>1, <2>2, <2>3 DEF PlatformAt
<1>11. ASSUME NEW a \in answers, Take(a) PROVE PlatformAt(m)'
    <2>1. UNCHANGED <<online, failed, pending, place, chosen>> /\ answers' = answers \ {a}
        BY <1>11 DEF Take, TakePresence, TakePlatforms, TakeSeed, TakeMerge, Answered, serverVars
    <2>2. m \in Present /\ Choosing(m)' = Choosing(m)
        BY <1>2, <2>1 DEF Present, Choosing
    <2>3. CASE TakePresence(a)
        <3>1. /\ "platforms" \in asks' /\ overrides' = overrides
              /\ outdated' = {n \in outdated : overrides[n] # NoPlatform}
            BY <2>3 DEF TakePresence
        <3>2. SeedComing(m)'
            BY <3>1 DEF SeedComing
        <3>3. m \in outdated => overrides[m] = NoPlatform
            BY <3>1
        <3> QED BY <1>4, <2>1, <2>2, <3>1, <3>2, <3>3 DEF PlatformAt
    <2>4. CASE TakePlatforms(a)
        <3>1. outdated' = outdated
            BY <2>4 DEF TakePlatforms
        <3> QED BY <2>2, <2>4, <3>1, PlatformAnswer
    <2>5. CASE TakeSeed(a) \/ TakeMerge(a)
        <3>1. a.kind # "platforms" /\ a.kind # "presence" /\ UNCHANGED <<asks, overrides, outdated>>
            BY <2>5 DEF TakeSeed, TakeMerge
        <3>2. SeedComing(m) => SeedComing(m)'
            BY <2>1, <3>1 DEF SeedComing, Outstanding
        <3> QED BY <1>4, <2>1, <2>2, <3>1, <3>2 DEF PlatformAt
    <2> QED BY <1>11, <2>3, <2>4, <2>5 DEF Take
<1>12. CASE Join
    <2>1. overrides'[m] = NoPlatform /\ "presence" \in asks'
        BY <1>2, <1>12 DEF Join, NoOverrides
    <2> QED BY <2>1 DEF PlatformAt, SeedComing, Outstanding
<1>13. CASE Reconnect
    <2>1. /\ UNCHANGED <<overrides, outdated, pending, place, chosen>> /\ "presence" \in asks'
        BY <1>13 DEF Reconnect, FirstQuestions, serverVars, pageVars
    <2>2. PlatformAt(m) /\ Choosing(m)' = Choosing(m) /\ SeedComing(m)'
        BY <1>2, <1>4, <2>1 DEF Present, Choosing, SeedComing, Outstanding
    <2> QED BY <2>1, <2>2 DEF PlatformAt
<1>14. CASE Joined
    <2>1. /\ UNCHANGED <<online, failed, overrides, outdated, pending, place, chosen, answers>>
          /\ asks' = asks \cup {"seed"}
        BY <1>14 DEF Joined, serverVars, pageVars
    <2>2. PlatformAt(m) /\ Choosing(m)' = Choosing(m)
        BY <1>2, <1>4, <2>1 DEF Present, Choosing
    <2>3. SeedComing(m) => SeedComing(m)'
        BY <2>1 DEF SeedComing, Outstanding
    <2> QED BY <2>1, <2>2, <2>3 DEF PlatformAt
<1>15. CASE Drop
    <2>1. UNCHANGED <<overrides, outdated, pending, place, chosen>> /\ ~online'
        BY <1>15 DEF Drop, Disconnected, serverVars, pageVars, historyVars
    <2>2. PlatformAt(m) /\ Choosing(m)' = Choosing(m) /\ SeedComing(m)'
        BY <1>2, <1>4, <2>1 DEF Present, Choosing, SeedComing
    <2> QED BY <2>1, <2>2 DEF PlatformAt
<1>16. CASE Restart
    BY <1>2, <1>16 DEF Restart
<1>17. CASE UNCHANGED feedVars
    <2>1. UNCHANGED <<online, asks, answers, failed, overrides, outdated, place, chosen, pending>>
        BY <1>17 DEF feedVars, serverVars, pageVars, historyVars
    <2> QED BY <1>5, <2>1 DEF Choosing, Same
<1> QED
    BY <1>6, <1>7, <1>8, <1>9, <1>10, <1>11, <1>12, <1>13, <1>14, <1>15, <1>16, <1>17 DEF FeedNext

\* A step of the feed keeps the invariant of its members.
LEMMA RosterInvStep == RosterInv /\ [FeedNext]_feedVars => RosterInv'
<1> SUFFICES ASSUME RosterInv, [FeedNext]_feedVars PROVE RosterInv'
    OBVIOUS
<1>1. FeedTypes' /\ OfflineSilent'
    BY FeedTypesStep, OfflineStep DEF RosterInv
<1>2. PubsFit' /\ SeedsFit' /\ OneQuestion'
    BY PubsStep, SeedsStep, OneQuestionStep DEF RosterInv
<1>3. RosterKnown' /\ PlatformsKnown'
    BY RosterStep, PlatformsStep
<1> QED BY <1>1, <1>2, <1>3 DEF RosterInv

\* Nobody is there and nothing is asked.
LEMMA RosterInit == FeedInit => RosterInv
<1> SUFFICES ASSUME FeedInit PROVE RosterInv
    OBVIOUS
<1>1. FeedTypes
    BY FeedInitTypes
<1>2. OfflineSilent /\ SeedsFit /\ OneQuestion
    BY DEF FeedInit, OfflineSilent, SeedsFit, OneQuestion, Outstanding
<1>3. PubsFit
    BY DEF FeedInit, PubsFit, NoOverrides
<1>4. RosterKnown /\ PlatformsKnown
    BY DEF FeedInit, RosterKnown, PlatformsKnown, Present
<1> QED BY <1>1, <1>2, <1>3, <1>4 DEF RosterInv

\* The roster converges (setMembers, addMember, removeMember, setPlatformOverrides): once
\* calm, the page has the members the room has, but for those who came or went behind an
\* older presence answer, and shows everyone with the service chosen last, but for those
\* whose choice changed behind an older one.
THEOREM RosterSettles == FeedSpec => []RosterConverges
<1>1. ASSUME RosterInv, Calm, "presence" \notin failed PROVE connections \ jumped = Present \ jumped
    <2>1. connections \subseteq Others /\ Present \subseteq Others
        BY <1>1 DEF RosterInv, FeedTypes, FeedTypeOK, Present
    <2>2. \A m \in Others \ jumped : m \in connections <=> m \in Present
        BY <1>1 DEF RosterInv, RosterKnown, Calm, Moving, Outstanding
    <2> QED BY <2>1, <2>2
<1>2. ASSUME RosterInv, Calm, "presence" \notin failed, "platforms" \notin failed,
             NEW m \in Present \ outdated
      PROVE  overrides[m] = chosen[m]
    BY <1>2 DEF RosterInv, PlatformsKnown, Calm, Choosing, SeedComing, Outstanding, Questions
<1>3. RosterInv => RosterConverges
    BY <1>1, <1>2 DEF RosterConverges
<1> QED BY <1>3, RosterInit, RosterInvStep, PTL DEF FeedSpec

================================================================================
