------------------------------ MODULE DataLemmas ------------------------------
(* Facts about numbers and sequences: how many elements of a sequence are in a *)
(* set, and what Head, Tail and Append do to it (Kitchen and Reception count    *)
(* the packets of a queue with it); and what is shown by the least               *)
(* counterexample, without an induction rule: finite sets of numbers can be put  *)
(* in order, and a function can be defined by recursion.                        *)
EXTENDS Naturals, Sequences, FiniteSets, FiniteSetTheorems, WellFoundedInduction, TLAPS

\* The places of a sequence at which it has an element of M.
Hits(q, M) == {i \in DOMAIN q : q[i] \in M}
Number(q, M) == Cardinality(Hits(q, M))

\* Head, Tail and Append on a sequence, element by element.
LEMMA QueueEnds ==
    ASSUME NEW S, NEW q \in Seq(S)
    PROVE  /\ \A m \in S :
                /\ Append(q, m) \in Seq(S) /\ Append(q, m) # <<>>
                /\ Len(Append(q, m)) = Len(q) + 1
                /\ DOMAIN Append(q, m) = 1 .. Len(q) + 1
                /\ \A i \in DOMAIN Append(q, m) :
                    Append(q, m)[i] = IF i = Len(q) + 1 THEN m ELSE q[i]
           /\ q # <<>> =>
                /\ Head(q) = q[1] /\ Head(q) \in S /\ 1 \in DOMAIN q
                /\ Tail(q) \in Seq(S) /\ Len(Tail(q)) = Len(q) - 1
                /\ DOMAIN Tail(q) = 1 .. Len(q) - 1
                /\ \A i \in DOMAIN Tail(q) : Tail(q)[i] = q[i + 1] /\ i + 1 \in DOMAIN q
           /\ DOMAIN q = 1 .. Len(q) /\ Len(q) \in Nat
           /\ \A i \in DOMAIN q : q[i] \in S
<1>1. DOMAIN q = 1 .. Len(q) /\ Len(q) \in Nat /\ \A i \in DOMAIN q : q[i] \in S
  OBVIOUS
<1>2. ASSUME NEW m \in S
      PROVE  /\ Append(q, m) \in Seq(S) /\ Append(q, m) # <<>>
             /\ Len(Append(q, m)) = Len(q) + 1
             /\ DOMAIN Append(q, m) = 1 .. Len(q) + 1
             /\ \A i \in DOMAIN Append(q, m) :
                 Append(q, m)[i] = IF i = Len(q) + 1 THEN m ELSE q[i]
  <2>1. /\ Append(q, m) \in Seq(S) /\ Len(Append(q, m)) = Len(q) + 1
        /\ DOMAIN Append(q, m) = 1 .. Len(q) + 1
    OBVIOUS
  <2>2. Append(q, m) # <<>>
    BY <1>1, <2>1
  <2>3. \A i \in 1 .. Len(q) + 1 : Append(q, m)[i] = IF i = Len(q) + 1 THEN m ELSE q[i]
    BY <1>1
  <2> QED
    BY <2>1, <2>2, <2>3
<1>3. ASSUME q # <<>>
      PROVE  /\ Head(q) = q[1] /\ Head(q) \in S /\ 1 \in DOMAIN q
             /\ Tail(q) \in Seq(S) /\ Len(Tail(q)) = Len(q) - 1
             /\ DOMAIN Tail(q) = 1 .. Len(q) - 1
             /\ \A i \in DOMAIN Tail(q) : Tail(q)[i] = q[i + 1] /\ i + 1 \in DOMAIN q
  BY <1>1, <1>3
<1> QED
  BY <1>1, <1>2, <1>3

\* The elements of a sequence in a set are finitely many.
LEMMA HitsFinite ==
    ASSUME NEW S, NEW q \in Seq(S), NEW M
    PROVE  IsFiniteSet(Hits(q, M)) /\ Number(q, M) \in Nat
<1>1. DOMAIN q = 1 .. Len(q) /\ Len(q) \in Nat
  OBVIOUS
<1>2. IsFiniteSet(1 .. Len(q))
  BY <1>1, FS_Interval
<1>3. IsFiniteSet(Hits(q, M))
  BY <1>1, <1>2, FS_Subset DEF Hits
<1> QED
  BY <1>3, FS_CardinalityType DEF Number

\* An empty sequence has none.
LEMMA NumberEmpty == \A M : Number(<<>>, M) = 0
<1>1. \A M : Hits(<<>>, M) = {}
  BY DEF Hits
<1> QED
  BY <1>1, FS_EmptySet DEF Number

\* Nothing is counted where there is nothing of the kind.
LEMMA NumberZero ==
    ASSUME NEW S, NEW q \in Seq(S), NEW M
    PROVE  Number(q, M) = 0 <=> \A i \in DOMAIN q : q[i] \notin M
<1>1. Number(q, M) = 0 <=> Hits(q, M) = {}
  BY HitsFinite, FS_EmptySet DEF Number
<1> QED
  BY <1>1 DEF Hits

\* An element appended is counted if it is of the kind.
LEMMA NumberAppend ==
    ASSUME NEW S, NEW q \in Seq(S), NEW m \in S, NEW M
    PROVE  Number(Append(q, m), M) = Number(q, M) + (IF m \in M THEN 1 ELSE 0)
<1> DEFINE n == Len(q) + 1
<1>1. /\ Append(q, m) \in Seq(S) /\ DOMAIN Append(q, m) = 1 .. n /\ DOMAIN q = 1 .. Len(q)
      /\ Len(q) \in Nat /\ Append(q, m)[n] = m
      /\ \A i \in 1 .. Len(q) : Append(q, m)[i] = q[i]
  OBVIOUS
<1>2. Hits(Append(q, m), M) = IF m \in M THEN Hits(q, M) \cup {n} ELSE Hits(q, M)
  BY <1>1 DEF Hits
<1>3. n \notin Hits(q, M)
  BY <1>1 DEF Hits
<1>4. IsFiniteSet(Hits(q, M)) /\ Number(q, M) \in Nat
  BY HitsFinite
<1>5. Cardinality(Hits(q, M) \cup {n}) = Cardinality(Hits(q, M)) + 1
  BY <1>3, <1>4, FS_AddElement
<1> QED
  BY <1>2, <1>4, <1>5 DEF Number

\* The head taken off is no longer counted.
LEMMA NumberTail ==
    ASSUME NEW S, NEW q \in Seq(S), q # <<>>, NEW M
    PROVE  Number(q, M) = Number(Tail(q), M) + (IF Head(q) \in M THEN 1 ELSE 0)
<1> DEFINE H == Hits(Tail(q), M)
           N == Hits(q, M) \ {1}
           next == [i \in H |-> i + 1]
<1>1. /\ Tail(q) \in Seq(S) /\ Len(q) \in Nat \ {0} /\ Len(Tail(q)) = Len(q) - 1
      /\ DOMAIN Tail(q) = 1 .. Len(q) - 1 /\ DOMAIN q = 1 .. Len(q)
      /\ \A i \in 1 .. Len(q) - 1 : Tail(q)[i] = q[i + 1]
      /\ Head(q) = q[1]
  OBVIOUS
<1>2. next \in Bijection(H, N)
  <2>1. \A i \in H : i \in Nat /\ i + 1 \in N
    BY <1>1 DEF Hits
  <2>2. \A j \in N : j - 1 \in H /\ j = (j - 1) + 1
    BY <1>1 DEF Hits
  <2>3. next \in [H -> N]
    BY <2>1
  <2>4. \A i, j \in H : next[i] = next[j] => i = j
    BY <2>1
  <2>5. \A j \in N : \E i \in H : next[i] = j
    BY <2>2
  <2> HIDE DEF H, N, next
  <2> QED
    BY <2>3, <2>4, <2>5 DEF Bijection, Injection, Surjection, IsInjective
<1>3. IsFiniteSet(H) /\ Cardinality(N) = Cardinality(H)
  <2>1. IsFiniteSet(H)
    BY <1>1, HitsFinite
  <2> HIDE DEF H, N, next
  <2>2. ExistsBijection(H, N)
    BY <1>2 DEF ExistsBijection
  <2> QED
    BY <2>1, <2>2, FS_Bijection
<1>4. Cardinality(N) = IF 1 \in Hits(q, M) THEN Cardinality(Hits(q, M)) - 1
                                           ELSE Cardinality(Hits(q, M))
  BY HitsFinite, FS_RemoveElement
<1>5. 1 \in Hits(q, M) <=> Head(q) \in M
  BY <1>1 DEF Hits
<1>6. Cardinality(Hits(q, M)) \in Nat /\ Cardinality(H) \in Nat
  BY <1>1, HitsFinite DEF Number
<1> QED
  BY <1>3, <1>4, <1>5, <1>6 DEF Number

\* What is counted in two disjoint sets is counted once in their union.
LEMMA NumberDisjoint ==
    ASSUME NEW S, NEW q \in Seq(S), NEW M, NEW N, M \cap N = {}
    PROVE  Number(q, M \cup N) = Number(q, M) + Number(q, N)
<1>1. /\ Hits(q, M \cup N) = Hits(q, M) \cup Hits(q, N)
      /\ Hits(q, M) \cap Hits(q, N) = {}
  BY DEF Hits
<1>2. /\ IsFiniteSet(Hits(q, M)) /\ IsFiniteSet(Hits(q, N))
      /\ Cardinality(Hits(q, M)) \in Nat /\ Cardinality(Hits(q, N)) \in Nat
  BY HitsFinite DEF Number
<1>3. Cardinality(Hits(q, M) \cup Hits(q, N)) =
          Cardinality(Hits(q, M)) + Cardinality(Hits(q, N)) - Cardinality({})
  BY <1>1, <1>2, FS_Union
<1>4. Cardinality({}) = 0
  BY FS_EmptySet
<1>5. Cardinality(Hits(q, M \cup N)) = Cardinality(Hits(q, M) \cup Hits(q, N))
  BY <1>1, Zenon
<1> QED
  BY <1>2, <1>3, <1>4, <1>5 DEF Number

\* Every element of a sequence over S is of the kind S.
LEMMA NumberAll ==
    ASSUME NEW S, NEW q \in Seq(S), NEW M, S \subseteq M
    PROVE  Number(q, M) = Len(q)
<1>1. DOMAIN q = 1 .. Len(q) /\ Len(q) \in Nat /\ \A i \in 1 .. Len(q) : q[i] \in S
  OBVIOUS
<1>2. Hits(q, M) = 1 .. Len(q)
  BY <1>1 DEF Hits
<1>3. \A n \in Nat : Cardinality(1 .. n) = n
  BY FS_Interval
<1> QED
  BY <1>2, <1>3 DEF Number

\* Sets that agree on the elements of the sequence count the same.
LEMMA NumberSame ==
    ASSUME NEW q, NEW M, NEW N, \A i \in DOMAIN q : q[i] \in M <=> q[i] \in N
    PROVE  Number(q, M) = Number(q, N)
<1>1. Hits(q, M) = Hits(q, N)
  BY DEF Hits
<1> QED
  BY <1>1, Zenon DEF Number

\* One element of the kind is counted as one.
LEMMA NumberOne ==
    ASSUME NEW S, NEW q \in Seq(S), NEW M, NEW i \in DOMAIN q,
           \A j \in DOMAIN q : q[j] \in M <=> j = i
    PROVE  Number(q, M) = 1
<1>1. Hits(q, M) = {i}
  BY DEF Hits
<1>2. Cardinality({i}) = 1
  BY FS_Singleton
<1> QED
  BY <1>1, <1>2, Zenon DEF Number

-----------------------------------------------------------------------------
\* A set of naturals that is not empty has a least member.
LEMMA LeastExists ==
    ASSUME NEW S \in SUBSET Nat, S # {}
    PROVE  \E i \in S : \A j \in S : i <= j
<1>1. PICK i \in S : \A j \in S : ~(<<j, i>> \in OpToRel(<, Nat))
  BY NatLessThanWellFounded, WFMin, Zenon
<1>2. \A j \in S : i <= j
  <2> SUFFICES ASSUME NEW j \in S
               PROVE  i <= j
    OBVIOUS
  <2>1. ~(j < i)
    <3>1. SUFFICES ASSUME j < i PROVE FALSE
      OBVIOUS
    <3>2. <<j, i>> \in Nat \X Nat
      OBVIOUS
    <3>3. <<j, i>>[1] < <<j, i>>[2]
      BY <3>1
    <3>4. <<j, i>> \in OpToRel(<, Nat)
      BY <3>2, <3>3, Zenon DEF OpToRel
    <3> QED
      BY <1>1, <3>4, Zenon
  <2> QED
    BY <2>1
<1> QED
  BY <1>2

\* The first n elements of s are increasing.
Sorted(s, n) == \A i, j \in 1 .. n : i < j => s[i] < s[j]

\* A finite set of numbers can be put in order: else there is one that cannot and
\* has the fewest members.
LEMMA SortedExists ==
    ASSUME NEW S \in SUBSET Nat, IsFiniteSet(S)
    PROVE  \E s \in [1 .. Cardinality(S) -> S] : Sorted(s, Cardinality(S))
<1> DEFINE Bad(T) == ~ \E s \in [1 .. Cardinality(T) -> T] : Sorted(s, Cardinality(T))
           bad == {n \in Nat : \E T \in SUBSET Nat : IsFiniteSet(T) /\ Cardinality(T) = n /\ Bad(T)}
<1>1. \A T : IsFiniteSet(T) => Cardinality(T) \in Nat
  BY FS_CardinalityType
<1> SUFFICES ASSUME bad # {}
             PROVE  FALSE
  BY <1>1
<1>2. PICK n \in bad : \A m \in bad : n <= m
  BY LeastExists
<1>3. PICK T \in SUBSET Nat : IsFiniteSet(T) /\ Cardinality(T) = n /\ Bad(T)
  OBVIOUS
<1>4. CASE T = {}
  <2>1. n = 0
    BY <1>3, <1>4, FS_EmptySet
  <2>2. <<>> \in [1 .. 0 -> {}]
    OBVIOUS
  <2>3. Sorted(<<>>, 0)
    BY DEF Sorted
  <2> QED
    BY <1>3, <1>4, <2>1, <2>2, <2>3
<1>5. CASE T # {}
  <2>1. PICK first \in T : \A k \in T : first <= k
    BY <1>5, LeastExists
  <2> DEFINE U == T \ {first}
  <2>2. U \in SUBSET Nat /\ IsFiniteSet(U)
    BY <1>3, FS_RemoveElement
  <2>3. Cardinality(U) = n - 1 /\ n \in Nat /\ n > 0
    <3>1. Cardinality(U) = Cardinality(T) - 1
      BY <1>3, FS_RemoveElement
    <3>2. Cardinality(T) # 0
      BY <1>3, <1>5, FS_EmptySet
    <3> QED
      BY <1>1, <1>3, <3>1, <3>2
  <2>4. PICK s \in [1 .. n - 1 -> U] : Sorted(s, n - 1)
    <3>1. ~Bad(U)
      <4>1. SUFFICES ASSUME Bad(U) PROVE FALSE
        OBVIOUS
      <4>2. n - 1 \in Nat
        BY <2>3
      <4>3. n - 1 \in bad
        BY <2>2, <2>3, <4>1, <4>2
      <4> QED
        BY <1>2, <2>3, <4>3
    <3> QED
      BY <2>3, <3>1
  <2> DEFINE t == [i \in 1 .. n |-> IF i = 1 THEN first ELSE s[i - 1]]
  <2>5. \A i \in 1 .. n : i # 1 => i - 1 \in 1 .. n - 1
    BY <2>3
  <2>6. \A i \in 1 .. n : i # 1 => s[i - 1] \in U
    BY <2>4, <2>5
  <2>7. t \in [1 .. n -> T]
    BY <2>6
  <2>8. Sorted(t, n)
    <3> SUFFICES ASSUME NEW i \in 1 .. n, NEW j \in 1 .. n, i < j
                 PROVE  t[i] < t[j]
      BY DEF Sorted
    <3>1. j # 1 /\ t[j] = s[j - 1] /\ s[j - 1] \in U
      BY <2>6
    <3>2. first < s[j - 1]
      <4>1. first \in Nat /\ s[j - 1] \in Nat /\ s[j - 1] # first /\ first <= s[j - 1]
        BY <2>1, <3>1
      <4> QED
        BY <4>1
    <3>3. CASE i = 1
      BY <3>1, <3>2, <3>3
    <3>4. CASE i # 1
      <4>1. s[i - 1] < s[j - 1]
        BY <2>3, <2>4, <2>5, <3>1, <3>4 DEF Sorted
      <4> QED
        BY <3>1, <3>4, <4>1
    <3> QED
      BY <3>3, <3>4
  <2> QED
    BY <1>3, <2>7, <2>8
<1> QED
  BY <1>4, <1>5

\* What holds at 0 and carries over from each number to the next holds up to n.
LEMMA CountUp ==
    ASSUME NEW n \in Nat, NEW S, 0 \in S, \A i \in 1 .. n : i - 1 \in S => i \in S
    PROVE  \A i \in 0 .. n : i \in S
<1> DEFINE bad == {i \in 0 .. n : i \notin S}
<1> SUFFICES ASSUME bad # {}
             PROVE  FALSE
  OBVIOUS
<1>1. PICK m \in bad : \A k \in bad : m <= k
  <2>1. bad \in SUBSET Nat
    OBVIOUS
  <2> HIDE DEF bad
  <2> QED
    BY <2>1, LeastExists
<1>2. m \in 1 .. n /\ m - 1 \in 0 .. n /\ ~(m <= m - 1)
  OBVIOUS
<1>3. m - 1 \in S
  BY <1>1, <1>2
<1> QED
  BY <1>2, <1>3

\* A set of numbers up to n that is not empty has a greatest member.
LEMMA GreatestExists ==
    ASSUME NEW n \in Nat, NEW S \in SUBSET (0 .. n), S # {}
    PROVE  \E i \in S : \A j \in S : j <= i
<1> DEFINE rest == {n - i : i \in S}
<1>1. rest \in SUBSET Nat /\ rest # {}
  <2>1. \A i \in S : n - i \in Nat /\ n - i \in rest
    OBVIOUS
  <2> QED
    BY <2>1
<1>2. PICK r \in rest : \A q \in rest : r <= q
  <2> HIDE DEF rest
  <2> QED
    BY <1>1, LeastExists
<1>3. PICK i \in S : r = n - i
  OBVIOUS
<1>4. ASSUME NEW j \in S
      PROVE  j <= i
  <2>1. n - i <= n - j
    BY <1>2, <1>3
  <2> QED
    BY <2>1
<1> QED
  BY <1>4

\* f starts at base, and step leads from each of its values to the next.
Recurs(f, base, n, step) == f[0] = base /\ \A i \in 1 .. n : f[i] = step[<<i, f[i - 1]>>]

\* A function can be defined by recursion.
LEMMA RecursionExists ==
    ASSUME NEW T, NEW base \in T, NEW n \in Nat, NEW step \in [(1 .. n) \X T -> T]
    PROVE  \E f \in [0 .. n -> T] : Recurs(f, base, n, step)
<1> USE DEF Recurs
<1> DEFINE Reaches(m) ==
               \E f \in [0 .. m -> T] :
                   f[0] = base /\ \A i \in 1 .. m : f[i] = step[<<i, f[i - 1]>>]
           bad == {m \in 0 .. n : ~Reaches(m)}
<1> SUFFICES ASSUME bad # {}
             PROVE  FALSE
  OBVIOUS
<1>1. PICK m \in bad : \A k \in bad : m <= k
  <2>1. bad \in SUBSET Nat
    OBVIOUS
  <2> HIDE DEF bad
  <2> QED
    BY <2>1, LeastExists
<1>2. m # 0
  <2>1. Reaches(0)
    <3> DEFINE f == [i \in 0 .. 0 |-> base]
    <3>1. f \in [0 .. 0 -> T] /\ f[0] = base /\ \A i \in 1 .. 0 : f[i] = step[<<i, f[i - 1]>>]
      OBVIOUS
    <3> HIDE DEF f
    <3> QED
      BY <3>1
  <2> QED
    BY <2>1
<1>3. PICK f \in [0 .. m - 1 -> T] :
          f[0] = base /\ \A i \in 1 .. m - 1 : f[i] = step[<<i, f[i - 1]>>]
  <2>1. m \in 0 .. n /\ m - 1 \in 0 .. n /\ ~(m <= m - 1)
    BY <1>2
  <2>2. m - 1 \notin bad
    BY <1>1, <2>1
  <2>3. Reaches(m - 1)
    BY <2>1, <2>2
  <2> QED
    BY <2>3
<1> DEFINE g == [i \in 0 .. m |-> IF i = m THEN step[<<m, f[m - 1]>>] ELSE f[i]]
<1>4. m \in 1 .. n /\ f[m - 1] \in T /\ step[<<m, f[m - 1]>>] \in T
  BY <1>1, <1>2, <1>3
<1>5. g \in [0 .. m -> T] /\ g[0] = base
  BY <1>2, <1>3, <1>4
<1>6. \A i \in 1 .. m : g[i] = step[<<i, g[i - 1]>>]
  <2> SUFFICES ASSUME NEW i \in 1 .. m
               PROVE  g[i] = step[<<i, g[i - 1]>>]
    OBVIOUS
  <2>1. g[i - 1] = f[i - 1]
    BY <1>4
  <2>2. CASE i = m
    BY <1>4, <2>1, <2>2
  <2>3. CASE i # m
    <3>1. i \in 1 .. m - 1 /\ g[i] = f[i]
      BY <1>4, <2>3
    <3> QED
      BY <1>3, <2>1, <3>1
  <2> QED
    BY <2>2, <2>3
<1> HIDE DEF g
<1> QED
  BY <1>1, <1>5, <1>6
=============================================================================
