--------------------------- MODULE SelectionProofs ---------------------------
(***************************************************************************)
(* What Selected computes, for every sequence.  Its recursion is well      *)
(* founded and its value has the elements it should, each as often and in  *)
(* the order of the sequence; both by looking at the least position where  *)
(* it would fail.                                                          *)
(***************************************************************************)
EXTENDS Selection, SequencesExt, WellFoundedInduction, SequenceTheorems, FiniteSetTheorems, TLAPS

\* A set of natural numbers that is not empty has a least one.
LEMMA Least ==
  ASSUME NEW T, T \subseteq Nat, T # {}
  PROVE  \E n \in T : \A m \in T : n <= m
<1> DEFINE Less == {p \in Nat \X Nat : p[1] < p[2]}
<1>1. IsWellFoundedOn(Less, Nat)
  BY NatLessThanWellFounded DEF OpToRel
<1>2. \A m, n \in Nat : m < n => <<m, n>> \in Less
  OBVIOUS
<1> HIDE DEF Less
<1>3. PICK n \in T : \A m \in T : <<m, n>> \notin Less
  BY <1>1, WFMin
<1>4. n \in Nat /\ \A m \in T : m \in Nat /\ ~(m < n)
  BY <1>2, <1>3, Zenon
<1> QED BY <1>4

\* One more turn of the loop.
Turn(s, kept, f, n) ==
  IF n = 0 THEN <<>>
  ELSE IF s[n] \in kept THEN Append(f[n - 1], s[n]) ELSE f[n - 1]

\* There are as many turns as one likes.
LEMMA Turns ==
  ASSUME NEW s, NEW kept, NEW k \in Nat
  PROVE  \E f : f = [n \in 0 .. k |-> Turn(s, kept, f, n)]
<1> DEFINE Stuck == {m \in Nat : ~\E f : f = [n \in 0 .. m |-> Turn(s, kept, f, n)]}
<1> SUFFICES ASSUME Stuck # {} PROVE FALSE
  OBVIOUS
<1>1. PICK m \in Stuck : \A l \in Stuck : m <= l
  <2>1. Stuck \subseteq Nat
    OBVIOUS
  <2> HIDE DEF Stuck
  <2> QED BY <2>1, Least
<1>2. m # 0
  <2> SUFFICES ASSUME m = 0 PROVE FALSE
    OBVIOUS
  <2> DEFINE f == [n \in 0 .. 0 |-> <<>>]
  <2>1. f = [n \in 0 .. 0 |-> Turn(s, kept, f, n)]
    BY DEF Turn
  <2> HIDE DEF f
  <2> QED BY <1>1, <2>1
<1>3. m - 1 \in Nat /\ m - 1 \notin Stuck
  BY <1>1, <1>2
<1>4. PICK f : f = [n \in 0 .. m - 1 |-> Turn(s, kept, f, n)]
  BY <1>3
<1> DEFINE g == [n \in 0 .. m |-> IF n = m THEN Turn(s, kept, f, n) ELSE f[n]]
<1>5. \A n \in 0 .. m : Turn(s, kept, g, n) = Turn(s, kept, f, n)
  <2>1. \A n \in 0 .. m : n = 0 \/ (n - 1 \in 0 .. m /\ g[n - 1] = f[n - 1])
    BY <1>1
  <2> HIDE DEF g
  <2> QED BY <2>1 DEF Turn
<1>6. \A n \in 0 .. m : g[n] = Turn(s, kept, f, n)
  <2>1. \A n \in 0 .. m : n # m => n \in 0 .. m - 1 /\ f[n] = Turn(s, kept, f, n)
    BY <1>1, <1>4
  <2> QED BY <2>1
<1>7. g = [n \in 0 .. m |-> Turn(s, kept, g, n)]
  <2>1. g = [n \in 0 .. m |-> g[n]]
    OBVIOUS
  <2> HIDE DEF g
  <2> QED BY <1>5, <1>6, <2>1
<1> HIDE DEF g
<1> QED BY <1>1, <1>7

\* Selected is the last of them.
LEMMA SelectedTurns ==
  ASSUME NEW S, NEW s \in Seq(S), NEW kept
  PROVE  \E f : f = [n \in 0 .. Len(s) |-> Turn(s, kept, f, n)] /\ Selected(s, kept) = f[Len(s)]
<1> DEFINE f == CHOOSE f : f = [n \in 0 .. Len(s) |-> Turn(s, kept, f, n)]
<1>1. Len(s) \in Nat
  OBVIOUS
<1>2. f = [n \in 0 .. Len(s) |-> Turn(s, kept, f, n)]
  BY <1>1, Turns
<1>3. Selected(s, kept) = f[Len(s)]
  BY DEF Selected, Turn
<1> QED BY <1>2, <1>3

\* A claim about every turn holds if it holds at 0 and goes on from each turn to the next.
LEMMA Climbs ==
  ASSUME NEW k \in Nat, NEW T, T \subseteq 0 .. k, 0 \in T,
         \A n \in 0 .. k : n # 0 /\ n - 1 \in T => n \in T
  PROVE  T = 0 .. k
<1> DEFINE Missing == (0 .. k) \ T
<1> SUFFICES ASSUME Missing # {} PROVE FALSE
  OBVIOUS
<1>1. PICK m \in Missing : \A l \in Missing : m <= l
  <2>1. Missing \subseteq Nat
    OBVIOUS
  <2> HIDE DEF Missing
  <2> QED BY <2>1, Least
<1>2. m \in 0 .. k /\ m # 0 /\ m - 1 \in 0 .. k /\ m - 1 \notin Missing
  BY <1>1
<1> QED BY <1>1, <1>2

\* What has been kept after n turns: the elements of the first n that are in kept, the first of
\* them first, and none twice if s has none twice.
KeptOf(s, kept, f, n) ==
  /\ \A x : x \in ToSet(f[n]) <=> x \in kept /\ \E i \in 1 .. n : s[i] = x
  /\ f[n] # <<>> => \E i \in 1 .. n : s[i] = f[n][1] /\ \A j \in 1 .. i - 1 : s[j] \notin kept
  /\ IsInjective(s) => IsInjective(f[n])

LEMMA AppendKeeps ==
  ASSUME NEW S, NEW t \in Seq(S), NEW x \in S
  PROVE  /\ Append(t, x) \in Seq(S) /\ Append(t, x) # <<>>
         /\ ToSet(Append(t, x)) = ToSet(t) \cup {x}
         /\ IF t = <<>> THEN Append(t, x)[1] = x ELSE Append(t, x)[1] = t[1]
         /\ IsInjective(t) /\ x \notin ToSet(t) => IsInjective(Append(t, x))
<1>1. /\ Append(t, x) \in Seq(S) /\ Len(t) \in Nat
      /\ DOMAIN t = 1 .. Len(t) /\ DOMAIN Append(t, x) = 1 .. Len(t) + 1
      /\ \A i \in 1 .. Len(t) : Append(t, x)[i] = t[i]
      /\ Append(t, x)[Len(t) + 1] = x
  BY AppendProperties, LenProperties
<1>2. PICK k \in Nat : k = Len(t)
  BY <1>1
<1>3. PICK u : u = Append(t, x)
  OBVIOUS
<1>4. /\ u \in Seq(S) /\ DOMAIN t = 1 .. k /\ DOMAIN u = 1 .. k + 1
      /\ \A i \in 1 .. k : u[i] = t[i]
      /\ u[k + 1] = x
  BY <1>1, <1>2, <1>3
<1>5. ToSet(u) = ToSet(t) \cup {x}
  BY <1>4 DEF ToSet
<1>6. IsInjective(t) /\ x \notin ToSet(t) => IsInjective(u)
  BY <1>4 DEF ToSet, IsInjective
<1>7. (t = <<>> <=> k = 0) /\ u # <<>>
  BY <1>2, <1>4, EmptySeq
<1>8. IF t = <<>> THEN u[1] = x ELSE u[1] = t[1]
  BY <1>4, <1>7
<1> QED BY <1>3, <1>4, <1>5, <1>6, <1>7, <1>8

LEMMA SelectedProperties ==
  ASSUME NEW S, NEW s \in Seq(S), NEW kept
  PROVE  /\ Selected(s, kept) \in Seq(S)
         /\ ToSet(Selected(s, kept)) = ToSet(s) \cap kept
         /\ Selected(s, kept) # <<>> =>
              \E i \in DOMAIN s : /\ s[i] = Selected(s, kept)[1]
                                  /\ \A j \in 1 .. i - 1 : s[j] \notin kept
         /\ IsInjective(s) => IsInjective(Selected(s, kept))
<1>1. PICK f : /\ f = [n \in 0 .. Len(s) |-> Turn(s, kept, f, n)]
               /\ Selected(s, kept) = f[Len(s)]
  BY SelectedTurns
<1>2. PICK k \in Nat : k = Len(s) /\ DOMAIN s = 1 .. k /\ \A i \in 1 .. k : s[i] \in S
  BY LenProperties, ElementOfSeq
<1>3. \A n \in 0 .. k : f[n] = Turn(s, kept, f, n)
  BY <1>1, <1>2
<1> DEFINE T == {n \in 0 .. k : f[n] \in Seq(S) /\ KeptOf(s, kept, f, n)}
<1>4. 0 \in T
  <2>1. f[0] = <<>>
    BY <1>3 DEF Turn
  <2>2. <<>> \in Seq(S) /\ ToSet(<<>>) = {} /\ IsInjective(<<>>)
    BY DEF ToSet, IsInjective
  <2>3. KeptOf(s, kept, f, 0)
    <3>1. \A i : i \notin 1 .. 0
      OBVIOUS
    <3> QED BY <2>1, <2>2, <3>1, Zenon DEF KeptOf
  <2>4. f[0] \in Seq(S)
    BY <2>1, <2>2
  <2>5. 0 \in 0 .. k
    OBVIOUS
  <2> QED BY <2>3, <2>4, <2>5
<1>5. ASSUME NEW n \in 0 .. k, n # 0, n - 1 \in T PROVE n \in T
  <2>1. PICK m \in 0 .. k : m = n - 1 /\ n \in 1 .. k
    BY <1>5
  <2>2. f[m] \in Seq(S) /\ KeptOf(s, kept, f, m)
    BY <1>5, <2>1
  <2>3. f[n] = IF s[n] \in kept THEN Append(f[m], s[n]) ELSE f[m]
    BY <1>3, <1>5, <2>1 DEF Turn
  <2>4. \A i : i \in 1 .. n <=> i \in 1 .. m \/ i = n
    BY <2>1
  <2>5. s[n] \in S
    BY <1>2, <2>1
  <2>6. CASE s[n] \notin kept
    <3>1. f[n] = f[m]
      BY <2>3, <2>6
    <3> QED BY <2>2, <2>4, <2>6, <3>1 DEF KeptOf
  <2>7. CASE s[n] \in kept
    <3>1. f[n] = Append(f[m], s[n])
      BY <2>3, <2>7
    <3>2. /\ f[n] \in Seq(S) /\ ToSet(f[n]) = ToSet(f[m]) \cup {s[n]}
          /\ IF f[m] = <<>> THEN f[n][1] = s[n] ELSE f[n][1] = f[m][1]
          /\ IsInjective(f[m]) /\ s[n] \notin ToSet(f[m]) => IsInjective(f[n])
      BY <2>2, <2>5, <3>1, AppendKeeps
    <3>3. \A x : x \in ToSet(f[n]) <=> x \in kept /\ \E i \in 1 .. n : s[i] = x
      BY <2>2, <2>4, <2>7, <3>2 DEF KeptOf
    <3>4. \E i \in 1 .. n : s[i] = f[n][1] /\ \A j \in 1 .. i - 1 : s[j] \notin kept
      <4>1. CASE f[m] = <<>>
        <5>1. \A j \in 1 .. n - 1 : s[j] \notin kept
          <6>1. ToSet(f[m]) = {}
            BY <4>1 DEF ToSet
          <6> QED BY <2>1, <2>2, <6>1 DEF KeptOf
        <5> QED BY <2>4, <3>2, <4>1, <5>1
      <4>2. CASE f[m] # <<>>
        BY <2>2, <2>4, <3>2, <4>2 DEF KeptOf
      <4> QED BY <4>1, <4>2
    <3>5. ASSUME IsInjective(s) PROVE IsInjective(f[n])
      <4>1. s[n] \notin ToSet(f[m])
        <5>1. ASSUME NEW i \in 1 .. m, s[i] = s[n] PROVE FALSE
          <6>1. i \in DOMAIN s /\ n \in DOMAIN s /\ i # n
            BY <1>2, <2>1, <5>1
          <6> QED BY <3>5, <5>1, <6>1 DEF IsInjective
        <5> QED BY <2>2, <5>1 DEF KeptOf
      <4> QED BY <2>2, <3>2, <3>5, <4>1 DEF KeptOf
    <3> QED BY <3>2, <3>3, <3>4, <3>5 DEF KeptOf
  <2> QED BY <2>6, <2>7
<1>6. k \in T
  <2>1. T \subseteq 0 .. k
    OBVIOUS
  <2> HIDE DEF T
  <2>2. T = 0 .. k
    BY <1>4, <1>5, <2>1, Climbs
  <2> QED BY <2>2
<1>7. Selected(s, kept) = f[k] /\ f[k] \in Seq(S) /\ KeptOf(s, kept, f, k)
  BY <1>1, <1>2, <1>6
<1>8. ToSet(f[k]) = ToSet(s) \cap kept
  <2>1. \A x : x \in ToSet(f[k]) <=> x \in kept /\ \E i \in 1 .. k : s[i] = x
    BY <1>7 DEF KeptOf
  <2>2. \A x : x \in ToSet(s) <=> \E i \in 1 .. k : s[i] = x
    BY <1>2 DEF ToSet
  <2> QED BY <2>1, <2>2, Zenon
<1> QED BY <1>2, <1>7, <1>8 DEF KeptOf

\* A sequence without repetitions is as long as it has elements.
LEMMA InjectiveLength ==
  ASSUME NEW S, NEW s \in Seq(S), IsInjective(s)
  PROVE  IsFiniteSet(ToSet(s)) /\ Cardinality(ToSet(s)) = Len(s)
<1>1. PICK k \in Nat : k = Len(s) /\ DOMAIN s = 1 .. k
  BY LenProperties
<1>2. IsFiniteSet(1 .. k) /\ Cardinality(1 .. k) = k
  BY FS_Interval
<1>3. s \in Bijection(1 .. k, ToSet(s))
  <2>1. s \in [1 .. k -> ToSet(s)]
    BY <1>1, LenProperties DEF ToSet
  <2>2. s \in Injection(1 .. k, ToSet(s))
    BY <2>1 DEF Injection, IsInjective
  <2>3. s \in Surjection(1 .. k, ToSet(s))
    BY <1>1, <2>1 DEF Surjection, ToSet
  <2> QED BY <2>2, <2>3 DEF Bijection
<1>4. ExistsBijection(1 .. k, ToSet(s))
  BY <1>3 DEF ExistsBijection
<1> QED BY <1>1, <1>2, <1>4, FS_Bijection

\* The rest of a sequence without repetitions has what is not in its beginning.
LEMMA Rest ==
  ASSUME NEW S, NEW q \in Seq(S), IsInjective(q), NEW n \in 0 .. Len(q)
  PROVE  /\ SubSeq(q, n + 1, Len(q)) \in Seq(S)
         /\ IsInjective(SubSeq(q, n + 1, Len(q)))
         /\ ToSet(SubSeq(q, n + 1, Len(q))) = ToSet(q) \ {q[i] : i \in 1 .. n}
<1>1. PICK k \in Nat : k = Len(q) /\ DOMAIN q = 1 .. k
  BY LenProperties
<1>2. PICK m \in Nat : k = n + m
  <2>1. k - n \in Nat /\ k = n + (k - n)
    BY <1>1
  <2> QED BY <2>1
<1>3. PICK r : r = SubSeq(q, n + 1, k)
  OBVIOUS
<1>4. /\ r \in Seq(S) /\ DOMAIN r = 1 .. m
      /\ \A i \in 1 .. m : r[i] = q[n + i]
  BY <1>1, <1>2, <1>3
<1>5. \A i \in 1 .. m : n + i \in 1 .. k /\ n + i \notin 1 .. n
  BY <1>2
<1>6. \A j \in 1 .. k : j \in 1 .. n \/ \E i \in 1 .. m : j = n + i
  <2>1. \A j \in 1 .. k : j \in 1 .. n \/ (j - n \in 1 .. m /\ j = n + (j - n))
    BY <1>2
  <2> QED BY <2>1
<1>7. \A i, j \in 1 .. k : q[i] = q[j] => i = j
  BY <1>1 DEF IsInjective
<1>8. IsInjective(r)
  <2>1. \A i, j \in 1 .. m : r[i] = r[j] => n + i = n + j
    BY <1>4, <1>5, <1>7
  <2>2. \A i, j \in 1 .. m : n + i = n + j => i = j
    OBVIOUS
  <2> QED BY <1>4, <2>1, <2>2 DEF IsInjective
<1>9. ASSUME NEW x PROVE x \in ToSet(r) <=> x \in ToSet(q) /\ x \notin {q[i] : i \in 1 .. n}
  <2>1. x \in ToSet(r) <=> \E i \in 1 .. m : q[n + i] = x
    BY <1>4 DEF ToSet
  <2>2. x \in ToSet(q) <=> \E j \in 1 .. k : q[j] = x
    BY <1>1 DEF ToSet
  <2>3. ASSUME NEW i \in 1 .. m, NEW j \in 1 .. n PROVE q[n + i] # q[j]
    <3>1. n + i \in 1 .. k /\ j \in 1 .. k /\ n + i # j
      BY <1>2, <1>5
    <3> QED BY <1>7, <3>1
  <2> QED BY <1>5, <1>6, <2>1, <2>2, <2>3
<1> QED BY <1>1, <1>3, <1>4, <1>8, <1>9

------------------------------------------------------------------------------
(* Sorting *)

\* p puts the first n elements of s in an order in which none comes after one it precedes.
InOrder(s, precedes, n, p) ==
  /\ p \in [1 .. n -> 1 .. n] /\ IsInjective(p)
  /\ \A a, b \in 1 .. n : a < b => <<s[p[b]], s[p[a]]>> \notin precedes

\* One more element goes before the first one that it precedes.
LEMMA Inserted ==
  ASSUME NEW s, NEW precedes, NEW m \in Nat, NEW p, InOrder(s, precedes, m, p),
         \A i, j, k \in 1 .. m + 1 :
           /\ <<s[i], s[i]>> \notin precedes
           /\ <<s[i], s[j]>> \in precedes /\ <<s[j], s[k]>> \in precedes
                => <<s[i], s[k]>> \in precedes
  PROVE  \E r : InOrder(s, precedes, m + 1, r)
<1>1. /\ p \in [1 .. m -> 1 .. m]
      /\ \A a, b \in 1 .. m : p[a] = p[b] => a = b
      /\ \A a, b \in 1 .. m : a < b => <<s[p[b]], s[p[a]]>> \notin precedes
  BY DEF InOrder, IsInjective
<1>2. PICK n : n = m + 1
  OBVIOUS
<1>3. n \in Nat /\ n = m + 1 /\ n \in 1 .. n /\ n \notin 1 .. m /\ \A a \in 1 .. m : a \in 1 .. n
  BY <1>2
<1> DEFINE Later == {a \in 1 .. m : <<s[n], s[p[a]]>> \in precedes}
<1>4. PICK q \in 1 .. n :
        /\ \A a \in 1 .. m : a < q => <<s[n], s[p[a]]>> \notin precedes
        /\ q # n => q \in 1 .. m /\ <<s[n], s[p[q]]>> \in precedes
  <2>1. CASE Later = {}
    BY <1>3, <2>1
  <2>2. CASE Later # {}
    <3>1. Later \subseteq Nat /\ Later \subseteq 1 .. m
      OBVIOUS
    <3>2. PICK q \in Later : \A a \in Later : q <= a
      <4> HIDE DEF Later
      <4> QED BY <2>2, <3>1, Least
    <3>3. q \in 1 .. n /\ q \in 1 .. m /\ <<s[n], s[p[q]]>> \in precedes
      BY <1>3, <3>2
    <3>4. \A a \in 1 .. m : a < q => a \notin Later
      BY <3>1, <3>2, <3>3
    <3> QED BY <3>3, <3>4
  <2> QED BY <2>1, <2>2
<1> DEFINE r == [a \in 1 .. n |-> IF a < q THEN p[a] ELSE IF a = q THEN n ELSE p[a - 1]]
<1>5. \A a \in 1 .. n : \/ a < q /\ a \in 1 .. m /\ r[a] = p[a]
                        \/ a = q /\ r[a] = n
                        \/ q < a /\ a - 1 \in 1 .. m /\ q <= a - 1 /\ r[a] = p[a - 1]
  BY <1>3
<1>6. r \in [1 .. n -> 1 .. n]
  <2>1. \A a \in 1 .. n : r[a] \in 1 .. n
    <3> HIDE DEF r
    <3> QED BY <1>1, <1>3, <1>5
  <2> QED BY <2>1
<1>7. DOMAIN r = 1 .. n
  OBVIOUS
<1> HIDE DEF r, Later
<1>8. IsInjective(r)
  <2>1. \A a \in 1 .. m : p[a] # n
    BY <1>1, <1>3
  <2>2. \A a \in 1 .. n : a = q <=> r[a] = n
    BY <1>3, <1>5, <2>1
  <2>3. \A a, b \in 1 .. m : a # b => p[a] # p[b]
    BY <1>1
  <2>4. ASSUME NEW a \in 1 .. n, NEW b \in 1 .. n, r[a] = r[b], a # q, b # q PROVE a = b
    <3>1. PICK c \in 1 .. m : r[a] = p[c] /\ ((a < q /\ c = a) \/ (q < a /\ q <= c /\ a = c + 1))
      <4>1. CASE a < q
        BY <1>5, <2>4, <4>1
      <4>2. CASE ~(a < q)
        <5>1. a - 1 \in 1 .. m /\ r[a] = p[a - 1] /\ q < a /\ q <= a - 1 /\ a = (a - 1) + 1
          BY <1>5, <2>4, <4>2
        <5> QED BY <5>1
      <4> QED BY <4>1, <4>2
    <3>2. PICK d \in 1 .. m : r[b] = p[d] /\ ((b < q /\ d = b) \/ (q < b /\ q <= d /\ b = d + 1))
      <4>1. CASE b < q
        BY <1>5, <2>4, <4>1
      <4>2. CASE ~(b < q)
        <5>1. b - 1 \in 1 .. m /\ r[b] = p[b - 1] /\ q < b /\ q <= b - 1 /\ b = (b - 1) + 1
          BY <1>5, <2>4, <4>2
        <5> QED BY <5>1
      <4> QED BY <4>1, <4>2
    <3>3. c = d
      BY <2>3, <2>4, <3>1, <3>2
    <3> HIDE <2>4
    <3> QED BY <3>1, <3>2, <3>3
  <2> QED BY <1>7, <2>2, <2>4 DEF IsInjective
<1>9. ASSUME NEW a \in 1 .. n, NEW b \in 1 .. n, a < b, <<s[r[b]], s[r[a]]>> \in precedes
      PROVE  FALSE
  <2>0. \A c, d \in 1 .. m : c < d => <<s[p[d]], s[p[c]]>> \notin precedes
    BY <1>1
  <2>1. CASE a < q /\ b < q
    <3>1. a \in 1 .. m /\ b \in 1 .. m /\ r[a] = p[a] /\ r[b] = p[b]
      BY <1>5, <2>1
    <3>2. <<s[p[b]], s[p[a]]>> \in precedes
      BY <1>9, <3>1
    <3> QED BY <1>9, <2>0, <3>1, <3>2
  <2>2. CASE a < q /\ b = q
    BY <1>4, <1>5, <1>9, <2>2
  <2>3. CASE a < q /\ q < b
    <3>1. a \in 1 .. m /\ b - 1 \in 1 .. m /\ q <= b - 1 /\ r[a] = p[a] /\ r[b] = p[b - 1]
      BY <1>5, <2>3
    <3>2. <<s[p[b - 1]], s[p[a]]>> \in precedes
      BY <1>9, <3>1
    <3>3. a < b - 1
      BY <2>3, <3>1
    <3> QED BY <2>0, <3>1, <3>2, <3>3
  <2>4. CASE a = q /\ q < b
    <3>1. /\ b - 1 \in 1 .. m /\ q <= b - 1 /\ q \in 1 .. m
          /\ <<s[n], s[p[q]]>> \in precedes /\ <<s[p[b - 1]], s[n]>> \in precedes
      BY <1>3, <1>4, <1>5, <1>9, <2>4
    <3>2. p[q] \in 1 .. n /\ p[b - 1] \in 1 .. n
      BY <1>1, <1>3, <3>1
    <3>3. <<s[p[b - 1]], s[p[q]]>> \in precedes
      BY <1>3, <3>1, <3>2
    <3>4. q # b - 1
      BY <1>3, <3>2, <3>3
    <3>5. q < b - 1
      BY <3>1, <3>4
    <3> QED BY <2>0, <3>1, <3>3, <3>5
  <2>5. CASE q < a
    <3>1. /\ q < b /\ a - 1 \in 1 .. m /\ b - 1 \in 1 .. m /\ a - 1 < b - 1
          /\ r[a] = p[a - 1] /\ r[b] = p[b - 1]
      BY <1>5, <1>9, <2>5
    <3>2. <<s[p[b - 1]], s[p[a - 1]]>> \in precedes
      BY <1>9, <3>1
    <3> QED BY <2>0, <3>1, <3>2
  <2> QED BY <1>9, <2>1, <2>2, <2>3, <2>4, <2>5
<1> QED BY <1>2, <1>6, <1>8, <1>9 DEF InOrder

\* Every sequence can be put in order, by a relation that is transitive on its elements and
\* irreflexive.
LEMMA Sortable ==
  ASSUME NEW s, NEW precedes, NEW k \in Nat,
         \A a, b, c \in 1 .. k :
           /\ <<s[a], s[a]>> \notin precedes
           /\ <<s[a], s[b]>> \in precedes /\ <<s[b], s[c]>> \in precedes
                => <<s[a], s[c]>> \in precedes
  PROVE  \E p : InOrder(s, precedes, k, p)
<1> DEFINE T == {n \in 0 .. k : \E p : InOrder(s, precedes, n, p)}
<1>1. 0 \in T
  <2>1. InOrder(s, precedes, 0, [a \in 1 .. 0 |-> a])
    BY DEF InOrder, IsInjective
  <2> QED BY <2>1
<1>2. ASSUME NEW n \in 0 .. k, n # 0, n - 1 \in T PROVE n \in T
  <2>1. PICK m \in Nat : m = n - 1 /\ n = m + 1
    BY <1>2
  <2>2. PICK p : InOrder(s, precedes, m, p)
    BY <1>2, <2>1
  <2>3. \A a \in 1 .. m + 1 : a \in 1 .. k
    BY <2>1
  <2>4. \E r : InOrder(s, precedes, m + 1, r)
    BY <2>2, <2>3, Inserted
  <2> QED BY <2>1, <2>4
<1>3. k \in T
  <2>1. T \subseteq 0 .. k /\ k \in 0 .. k
    OBVIOUS
  <2> HIDE DEF T
  <2>2. T = 0 .. k
    BY <1>1, <1>2, <2>1, Climbs
  <2> QED BY <2>1, <2>2
<1> QED BY <1>3

\* Every element has its place.
LEMMA Permuted ==
  ASSUME NEW k \in Nat, NEW p \in [1 .. k -> 1 .. k], IsInjective(p)
  PROVE  \A i \in 1 .. k : \E a \in 1 .. k : p[a] = i
<1>1. p \in Injection(1 .. k, 1 .. k)
  BY DEF Injection, IsInjective
<1>2. IsFiniteSet(1 .. k)
  BY FS_Interval
<1>3. p \in Surjection(1 .. k, 1 .. k)
  BY <1>1, <1>2, FS_Injection
<1> QED BY <1>3 DEF Surjection

==============================================================================
