-------------------------- MODULE StoragePartsProofs --------------------------
(***************************************************************************)
(* Proofs about the parts of the engine that keep something besides the     *)
(* runs: for each an inductive invariant, that its steps preserve it, and   *)
(* what it says of the part's properties, for any constants of the part.    *)
(* First what the proofs share: subsequences, and lists kept newest last.   *)
(***************************************************************************)
EXTENDS AuditTrail, AgentMemory, Notices, Access, Catalogue, Plugins, Console, LlmProviders,
        Chaos, Emergence, TLAPS, WellFoundedInduction, FiniteSetTheorems, SequenceTheorems,
        FunctionTheorems

-----------------------------------------------------------------------------
\* Numbers

LEMMA LeastNumber ==
  ASSUME NEW T \in SUBSET Nat, T # {}
  PROVE  \E x \in T : \A y \in T : x <= y
<1>1. PICK x \in T : \A y \in T : <<y, x>> \notin OpToRel(<, Nat)
  BY WFMin, NatLessThanWellFounded
<1>2. \A y \in T : <<y, x>> \in OpToRel(<, Nat) <=> y < x
  BY DEF OpToRel
<1>3. ASSUME NEW y \in T PROVE x <= y
  <2>1. x \in Nat /\ y \in Nat /\ ~(y < x)
    BY <1>1, <1>2
  <2> QED  BY <2>1
<1> QED  BY <1>3

-----------------------------------------------------------------------------
\* The members of a list that pass a test

UpTo(I, m) == {j \in I : j <= m}
Within(I, L) == L \in Nat /\ \A i \in I : i \in 1..L

LEMMA CountingOn ==
  ASSUME NEW L, NEW I, Within(I, L), NEW m \in 0..L
  PROVE  /\ IsFiniteSet(UpTo(I, m)) /\ Cardinality(UpTo(I, m)) \in Nat
         /\ Cardinality(UpTo(I, m)) <= Cardinality(I)
         /\ IsFiniteSet(I) /\ Cardinality(I) \in 0..L
         /\ m = L => UpTo(I, m) = I
         /\ m = 0 => Cardinality(UpTo(I, m)) = 0
         /\ m < L => Cardinality(UpTo(I, m + 1)) =
                       IF m + 1 \in I THEN Cardinality(UpTo(I, m)) + 1
                                      ELSE Cardinality(UpTo(I, m))
<1>0. L \in Nat /\ \A j \in I : j \in 1..L
  BY DEF Within
<1>1. IsFiniteSet(1..L) /\ Cardinality(1..L) = L
  BY <1>0, FS_Interval
<1>2. IsFiniteSet(I) /\ Cardinality(I) <= L
  <2>1. I \in SUBSET (1..L)
    BY <1>0
  <2> QED  BY <1>1, <2>1, FS_Subset
<1>3. UpTo(I, m) \subseteq I
  BY DEF UpTo
<1>4. IsFiniteSet(UpTo(I, m)) /\ Cardinality(UpTo(I, m)) <= Cardinality(I)
  BY <1>2, <1>3, FS_Subset
<1>5. Cardinality(I) \in Nat /\ Cardinality(UpTo(I, m)) \in Nat
  BY <1>2, <1>4, FS_CardinalityType
<1>6. m = L => UpTo(I, m) = I
  <2>1. m = L => \A j \in I : j <= m
    BY <1>0
  <2> QED  BY <2>1 DEF UpTo
<1>7. m = 0 => UpTo(I, m) = {}
  <2>1. m = 0 => \A j \in I : ~(j <= m)
    BY <1>0
  <2> QED  BY <2>1 DEF UpTo
<1>8. m + 1 \in I => UpTo(I, m + 1) = UpTo(I, m) \cup {m + 1}
  <2>1. \A j \in I : j <= m + 1 <=> (j <= m \/ j = m + 1)
    BY <1>0
  <2> QED  BY <2>1 DEF UpTo
<1>9. m + 1 \notin I => UpTo(I, m + 1) = UpTo(I, m)
  <2>1. \A j \in I : j <= m + 1 <=> (j <= m \/ j = m + 1)
    BY <1>0
  <2> QED  BY <2>1 DEF UpTo
<1>10. m + 1 \notin UpTo(I, m)
  BY DEF UpTo
<1>11. Cardinality(UpTo(I, m) \cup {m + 1}) = Cardinality(UpTo(I, m)) + 1
  BY <1>4, <1>10, FS_AddElement
<1> QED  BY <1>0, <1>2, <1>4, <1>5, <1>6, <1>7, <1>8, <1>9, <1>11, FS_EmptySet

LEMMA UpToGrows ==
  ASSUME NEW L, NEW I, Within(I, L), NEW i \in I, NEW j \in I, i < j
  PROVE  Cardinality(UpTo(I, i)) < Cardinality(UpTo(I, j))
<1>1. L \in Nat /\ i \in 0..L /\ j \in 0..L
  BY DEF Within
<1>2. IsFiniteSet(UpTo(I, i)) /\ IsFiniteSet(UpTo(I, j)) /\ Cardinality(UpTo(I, i)) \in Nat
      /\ Cardinality(UpTo(I, j)) \in Nat
  BY <1>1, CountingOn
<1>3. UpTo(I, i) \subseteq UpTo(I, j) /\ j \in UpTo(I, j) /\ j \notin UpTo(I, i)
  <2>1. j <= j /\ ~(j <= i) /\ \A k \in I : k <= i => k <= j
    BY <1>1 DEF Within
  <2> QED  BY <2>1 DEF UpTo
<1>4. Cardinality(UpTo(I, i)) <= Cardinality(UpTo(I, j))
  BY <1>2, <1>3, FS_Subset
<1>5. Cardinality(UpTo(I, i)) # Cardinality(UpTo(I, j))
  BY <1>2, <1>3, FS_Subset
<1> QED  BY <1>2, <1>4, <1>5

\* Every member of a set of places comes n-th for one n, and Nth finds it.
LEMMA NthExists ==
  ASSUME NEW L, NEW I, Within(I, L), NEW n \in 1..Cardinality(I)
  PROVE  /\ Nth(I, n) \in I
         /\ Cardinality(UpTo(I, Nth(I, n))) = n
<1> DEFINE B == {m \in 0..L : Cardinality(UpTo(I, m)) >= n}
<1>0. L \in 0..L /\ Cardinality(I) \in Nat /\ B \subseteq Nat
  <2>1. L \in Nat
    BY DEF Within
  <2>2. L \in 0..L
    BY <2>1
  <2> QED  BY <2>1, <2>2, CountingOn
<1>1. L \in B
  <2>1. UpTo(I, L) = I
    BY <1>0, CountingOn
  <2> QED  BY <1>0, <2>1
<1>2. PICK m \in B : \A k \in B : m <= k
  <2> HIDE DEF B
  <2> QED  BY <1>0, <1>1, LeastNumber
<1>3. m \in 0..L /\ Cardinality(UpTo(I, m)) >= n /\ m # 0
  <2>1. m \in 0..L /\ Cardinality(UpTo(I, m)) >= n
    OBVIOUS
  <2> QED  BY <2>1, CountingOn
<1>4. m - 1 \in 0..L /\ m - 1 \notin B /\ m - 1 < L /\ m = (m - 1) + 1
  BY <1>0, <1>2, <1>3
<1>5. Cardinality(UpTo(I, m - 1)) < n /\ Cardinality(UpTo(I, m - 1)) \in Nat
  BY <1>4, CountingOn, FS_CardinalityType
<1>6. Cardinality(UpTo(I, m)) = IF m \in I THEN Cardinality(UpTo(I, m - 1)) + 1
                                ELSE Cardinality(UpTo(I, m - 1))
  BY <1>4, CountingOn
<1>7. m \in I /\ Cardinality(UpTo(I, m)) = n
  BY <1>5, <1>6
<1>8. \E i \in I : Cardinality({j \in I : j <= i}) = n
  BY <1>7 DEF UpTo
<1> QED  BY <1>8 DEF Nth, UpTo

LEMMA NthIs ==
  ASSUME NEW L, NEW I, Within(I, L), NEW i \in I
  PROVE  /\ Cardinality(UpTo(I, i)) \in 1..Cardinality(I)
         /\ Nth(I, Cardinality(UpTo(I, i))) = i
<1> DEFINE n == Cardinality(UpTo(I, i))
<1>1. L \in Nat /\ i \in 0..L
  BY DEF Within
<1>2. n \in Nat /\ n <= Cardinality(I) /\ IsFiniteSet(UpTo(I, i)) /\ Cardinality(I) \in Nat
  BY <1>1, CountingOn
<1>3. i \in UpTo(I, i)
  <2>1. i <= i
    BY <1>1
  <2> QED  BY <2>1 DEF UpTo
<1>4. n # 0
  BY <1>2, <1>3, FS_EmptySet
<1>5. n \in 1..Cardinality(I)
  BY <1>2, <1>4
<1>6. Nth(I, n) \in I /\ Cardinality(UpTo(I, Nth(I, n))) = n
  BY <1>5, NthExists
<1>7. Nth(I, n) = i
  <2>1. ~(i < Nth(I, n)) /\ ~(Nth(I, n) < i)
    BY <1>2, <1>6, UpToGrows
  <2>2. Nth(I, n) \in Nat /\ i \in Nat
    BY <1>6 DEF Within
  <2> QED  BY <2>1, <2>2
<1> QED  BY <1>5, <1>7

LEMMA NthGrows ==
  ASSUME NEW L, NEW I, Within(I, L),
         NEW m \in 1..Cardinality(I), NEW n \in 1..Cardinality(I), m < n
  PROVE  Nth(I, m) < Nth(I, n)
<1>1. Nth(I, m) \in I /\ Cardinality(UpTo(I, Nth(I, m))) = m
  BY NthExists
<1>2. Nth(I, n) \in I /\ Cardinality(UpTo(I, Nth(I, n))) = n
  BY NthExists
<1>3. ~(Nth(I, n) < Nth(I, m))
  <2>1. m \in Nat /\ n \in Nat
    OBVIOUS
  <2> QED  BY <1>1, <1>2, <2>1, UpToGrows
<1>4. Nth(I, n) # Nth(I, m)
  BY <1>1, <1>2
<1>5. Nth(I, n) \in Nat /\ Nth(I, m) \in Nat
  BY <1>1, <1>2 DEF Within
<1> QED  BY <1>3, <1>4, <1>5

LEMMA PlacesType ==
  ASSUME NEW S, NEW s \in Seq(S), NEW T
  PROVE  /\ Within(Places(s, T), Len(s)) /\ Places(s, T) \in SUBSET (1..Len(s)) /\ Len(s) \in Nat
         /\ Cardinality(Places(s, T)) \in 0..Len(s)
<1>1. Places(s, T) \in SUBSET (1..Len(s)) /\ Len(s) \in Nat
  BY DEF Places
<1>2. Len(s) \in 0..Len(s)
  BY <1>1
<1>3. Within(Places(s, T), Len(s))
  BY <1>1 DEF Within
<1> QED  BY <1>1, <1>2, <1>3, CountingOn

\* What a sublist holds, and how long it is
LEMMA OnlyInType ==
  ASSUME NEW S, NEW s \in Seq(S), NEW T
  PROVE  /\ OnlyIn(s, T) \in Seq(S) /\ OnlyIn(s, T) \in Seq(S \cap T)
         /\ Len(OnlyIn(s, T)) = Cardinality(Places(s, T))
         /\ Len(OnlyIn(s, T)) \in 0..Len(s)
         /\ ToSet(OnlyIn(s, T)) = ToSet(s) \cap T
<1> DEFINE I == Places(s, T)
           L == Len(s)
           c == Cardinality(I)
           f == OnlyIn(s, T)
<1>1. Within(I, L) /\ I \in SUBSET (1..L) /\ L \in Nat /\ c \in 0..L
  BY PlacesType
<1>2. \A n \in 1..c : Nth(I, n) \in I
  BY <1>1, NthExists
<1>3. \A i \in I : s[i] \in S \cap T
  BY <1>1 DEF Places
<1>4. f = [n \in 1..c |-> s[Nth(I, n)]]
  BY DEF OnlyIn
<1>5. f \in [1..c -> S \cap T]
  <2>1. \A n \in 1..c : s[Nth(I, n)] \in S \cap T
    BY <1>2, <1>3
  <2> HIDE DEF I, c, f
  <2> QED  BY <1>4, <2>1
<1>6. f \in Seq(S \cap T) /\ Len(f) = c /\ DOMAIN f = 1..c
  <2> HIDE DEF I, c, f
  <2>1. c \in Nat
    BY <1>1
  <2>2. f \in Seq(S \cap T)
    BY <2>1, <1>5, SeqDef
  <2>3. DOMAIN f = 1..c
    BY <1>5
  <2> QED  BY <2>1, <2>2, <2>3
<1>7. f \in Seq(S)
  <2> HIDE DEF f
  <2>1. S \cap T \subseteq S
    OBVIOUS
  <2> QED  BY <1>6, <2>1, SeqMonotonic
<1>8. ToSet(f) \subseteq ToSet(s) \cap T
  <2> SUFFICES ASSUME NEW n \in 1..c PROVE f[n] \in ToSet(s) \cap T
    BY <1>6 DEF ToSet
  <2>1. Nth(I, n) \in I /\ f[n] = s[Nth(I, n)]
    BY <1>2, <1>4
  <2> QED  BY <2>1, <1>3, <1>1 DEF ToSet, Places
<1>9. ToSet(s) \cap T \subseteq ToSet(f)
  <2> SUFFICES ASSUME NEW i \in DOMAIN s, s[i] \in T PROVE s[i] \in ToSet(f)
    BY DEF ToSet
  <2>1. i \in I
    BY DEF Places
  <2>2. Cardinality(UpTo(I, i)) \in 1..c /\ Nth(I, Cardinality(UpTo(I, i))) = i
    BY <1>1, <2>1, NthIs
  <2>3. f[Cardinality(UpTo(I, i))] = s[i]
    BY <1>4, <2>2
  <2> HIDE DEF f, I
  <2> QED  BY <1>6, <2>2, <2>3 DEF ToSet
<1>10. f \in Seq(S) /\ f \in Seq(S \cap T) /\ Len(f) = c /\ Len(f) \in 0..Len(s)
       /\ ToSet(f) = ToSet(s) \cap T
  <2> HIDE DEF f, I, c
  <2> QED  BY <1>1, <1>6, <1>7, <1>8, <1>9
<1> QED  BY <1>10

\* Two entries of a sublist are two entries of the list, in the same order.
LEMMA OnlyInOrder ==
  ASSUME NEW S, NEW s \in Seq(S), NEW T, NEW m \in 1..Len(OnlyIn(s, T)),
         NEW n \in 1..Len(OnlyIn(s, T)), m < n
  PROVE  \E i \in DOMAIN s : \E j \in DOMAIN s :
           i < j /\ OnlyIn(s, T)[m] = s[i] /\ OnlyIn(s, T)[n] = s[j]
<1> DEFINE I == Places(s, T)
<1>1. Within(I, Len(s)) /\ I \in SUBSET (1..Len(s)) /\ Len(s) \in Nat
  BY PlacesType
<1>2. m \in 1..Cardinality(I) /\ n \in 1..Cardinality(I)
  BY OnlyInType
<1>3. Nth(I, m) \in I /\ Nth(I, n) \in I
  BY <1>1, <1>2, NthExists
<1>4. Nth(I, m) < Nth(I, n)
  BY <1>1, <1>2, NthGrows
<1>5. OnlyIn(s, T)[m] = s[Nth(I, m)] /\ OnlyIn(s, T)[n] = s[Nth(I, n)]
  BY <1>2 DEF OnlyIn
<1> QED  BY <1>1, <1>3, <1>4, <1>5

LEMMA OnlyInInjective ==
  ASSUME NEW S, NEW s \in Seq(S), NEW T, IsInjective(s)
  PROVE  IsInjective(OnlyIn(s, T))
<1> DEFINE f == OnlyIn(s, T)
<1>1. f \in Seq(S)
  BY OnlyInType
<1>2. ASSUME NEW m \in 1..Len(f), NEW n \in 1..Len(f), m < n PROVE f[m] # f[n]
  <2>1. PICK i \in DOMAIN s, j \in DOMAIN s : i < j /\ f[m] = s[i] /\ f[n] = s[j]
    BY <1>2, OnlyInOrder
  <2>2. i # j
    BY <2>1, LenProperties
  <2> HIDE DEF f
  <2> QED  BY <2>1, <2>2 DEF IsInjective
<1> HIDE DEF f
<1>3. DOMAIN f = 1..Len(f) /\ Len(f) \in Nat
  BY <1>1
<1>4. ASSUME NEW m \in 1..Len(f), NEW n \in 1..Len(f), m # n PROVE f[m] # f[n]
  <2>1. m < n \/ n < m
    BY <1>3, <1>4
  <2> QED  BY <2>1, <1>2
<1>5. IsInjective(f)
  BY <1>3, <1>4 DEF IsInjective
<1> QED  BY <1>5 DEF f

\* A list that grows: its sublist grows by the new entry, if that is one.
LEMMA OnlyInAppend ==
  ASSUME NEW S, NEW s \in Seq(S), NEW T, NEW e \in S
  PROVE  OnlyIn(Append(s, e), T) = IF e \in T THEN Append(OnlyIn(s, T), e) ELSE OnlyIn(s, T)
<1> DEFINE t == Append(s, e)
           L == Len(s)
           I == Places(s, T)
           J == Places(t, T)
           c == Cardinality(I)
<1>1. t \in Seq(S) /\ Len(t) = L + 1 /\ L \in Nat /\ t[L + 1] = e
      /\ \A i \in 1..L : t[i] = s[i]
  BY AppendProperties, LenProperties
<1>2. Within(I, L) /\ Within(J, L + 1) /\ I \in SUBSET (1..L) /\ J \in SUBSET (1..(L + 1)) /\ c \in 0..L
  BY <1>1, PlacesType
<1>3. J = IF e \in T THEN I \cup {L + 1} ELSE I
  <2>1. DOMAIN t = 1..(L + 1) /\ DOMAIN s = 1..L
    BY <1>1, LenProperties
  <2> HIDE DEF t
  <2> QED  BY <1>1, <2>1 DEF Places
<1>4. \A i \in I : UpTo(J, i) = UpTo(I, i)
  <2> SUFFICES ASSUME NEW i \in I PROVE UpTo(J, i) = UpTo(I, i)
    OBVIOUS
  <2>1. i \in 1..L
    BY <1>2
  <2> HIDE DEF I, J, L
  <2> QED  BY <1>1, <1>3, <2>1 DEF UpTo
<1>5. IsFiniteSet(I)
  BY <1>1, <1>2, CountingOn
<1>6. L + 1 \notin I
  BY <1>1, <1>2
<1>7. Cardinality(J) = IF e \in T THEN c + 1 ELSE c
  BY <1>3, <1>5, <1>6, FS_AddElement
<1>8. \A n \in 1..c : Nth(J, n) = Nth(I, n)
  <2> SUFFICES ASSUME NEW n \in 1..c PROVE Nth(J, n) = Nth(I, n)
    OBVIOUS
  <2>1. Nth(I, n) \in I /\ Cardinality(UpTo(I, Nth(I, n))) = n
    BY <1>1, <1>2, NthExists
  <2>2. Nth(I, n) \in J /\ Cardinality(UpTo(J, Nth(I, n))) = n
    BY <2>1, <1>3, <1>4
  <2>3. Nth(J, Cardinality(UpTo(J, Nth(I, n)))) = Nth(I, n)
    BY <1>1, <1>2, <2>2, NthIs
  <2> QED  BY <2>2, <2>3
<1>9. ASSUME e \in T PROVE Nth(J, c + 1) = L + 1
  <2>1. L + 1 \in J /\ UpTo(J, L + 1) = J
    BY <1>1, <1>2, <1>3, <1>9 DEF UpTo
  <2>2. L + 1 \in Nat
    BY <1>1
  <2> HIDE DEF J, L
  <2> QED  BY <2>1, <2>2, <1>2, <1>7, <1>9, NthIs
<1>10. \A n \in 1..c : t[Nth(J, n)] = s[Nth(I, n)]
  <2> SUFFICES ASSUME NEW n \in 1..c PROVE t[Nth(J, n)] = s[Nth(I, n)]
    OBVIOUS
  <2>1. Nth(I, n) \in I
    BY <1>1, <1>2, NthExists
  <2>2. Nth(I, n) \in 1..L
    BY <2>1, <1>2
  <2> QED  BY <1>1, <1>8, <2>2
<1>11. CASE e \notin T
  <2>1. Cardinality(J) = c
    BY <1>7, <1>11
  <2> HIDE DEF I, J, c, t
  <2>2. OnlyIn(t, T) = [n \in 1..c |-> t[Nth(J, n)]] /\ OnlyIn(s, T) = [n \in 1..c |-> s[Nth(I, n)]]
    BY <2>1 DEF OnlyIn, I, J, c
  <2>3. OnlyIn(t, T) = OnlyIn(s, T)
    BY <2>2, <1>10
  <2> QED  BY <2>3, <1>11 DEF t
<1>12. CASE e \in T
  <2>1. Cardinality(J) = c + 1
    BY <1>7, <1>12
  <2> DEFINE a == OnlyIn(t, T)
             b == Append(OnlyIn(s, T), e)
  <2>2. a \in Seq(S) /\ Len(a) = c + 1 /\ c \in Nat
    <3>1. a \in Seq(S) /\ Len(a) = Cardinality(J)
      <4> HIDE DEF t
      <4> QED  BY <1>1, OnlyInType
    <3> QED  BY <1>1, <1>2, <2>1, <3>1
  <2>3. OnlyIn(s, T) \in Seq(S) /\ Len(OnlyIn(s, T)) = c
    BY OnlyInType
  <2>4. b \in Seq(S) /\ Len(b) = c + 1 /\ b[c + 1] = e
        /\ \A n \in 1..c : b[n] = OnlyIn(s, T)[n]
    BY <2>3, AppendProperties
  <2>5. \A n \in 1..c : a[n] = b[n]
    <3> SUFFICES ASSUME NEW n \in 1..c PROVE a[n] = b[n]
      OBVIOUS
    <3>1. n \in 1..(c + 1)
      BY <2>2
    <3>2. a[n] = t[Nth(J, n)]
      BY <3>1, <2>1 DEF OnlyIn
    <3>3. OnlyIn(s, T)[n] = s[Nth(I, n)]
      BY DEF OnlyIn
    <3> HIDE DEF a, b, I, J, c, t
    <3> QED  BY <3>2, <3>3, <2>4, <1>10
  <2>6. a[c + 1] = e
    <3>1. c + 1 \in 1..Cardinality(J)
      BY <2>1, <2>2
    <3>2. a[c + 1] = t[Nth(J, c + 1)]
      BY <3>1 DEF OnlyIn
    <3> HIDE DEF a, I, J, c, t
    <3> QED  BY <3>2, <1>9, <1>12, <1>1
  <2> HIDE DEF a, b, c
  <2>7. \A n \in 1..(c + 1) : a[n] = b[n]
    BY <2>2, <2>4, <2>5, <2>6
  <2>8. a = b
    BY <2>2, <2>4, <2>7, SeqEqual
  <2> QED  BY <2>8, <1>12 DEF a, b
<1> QED  BY <1>11, <1>12

LEMMA OnlyInEmpty == ASSUME NEW T PROVE OnlyIn(<<>>, T) = <<>>
<1>1. <<>> \in Seq({})
  OBVIOUS
<1>2. OnlyIn(<<>>, T) \in Seq({}) /\ Len(OnlyIn(<<>>, T)) \in 0..Len(<<>>)
  BY <1>1, OnlyInType
<1>3. Len(<<>>) = 0
  OBVIOUS
<1> QED  BY <1>2, <1>3, EmptySeq

-----------------------------------------------------------------------------
\* What lists hold when they grow and shrink

LEMMA MemberOf ==
  ASSUME NEW S, NEW s \in Seq(S)
  PROVE  /\ ToSet(s) \subseteq S /\ \A i \in 1..Len(s) : s[i] \in ToSet(s)
         /\ \A x : x \in ToSet(s) <=> \E i \in 1..Len(s) : s[i] = x
<1>1. DOMAIN s = 1..Len(s) /\ s \in [1..Len(s) -> S]
  BY LenProperties
<1> QED  BY <1>1 DEF ToSet

LEMMA AppendHolds ==
  ASSUME NEW S, NEW s \in Seq(S), NEW e \in S
  PROVE  /\ Append(s, e) \in Seq(S) /\ Len(Append(s, e)) = Len(s) + 1 /\ Len(s) \in Nat
         /\ ToSet(Append(s, e)) = ToSet(s) \cup {e}
         /\ IsInjective(s) /\ e \notin ToSet(s) => IsInjective(Append(s, e))
<1> DEFINE t == Append(s, e)
<1>1. t \in Seq(S) /\ Len(t) = Len(s) + 1 /\ Len(s) \in Nat /\ t[Len(s) + 1] = e
      /\ \A i \in 1..Len(s) : t[i] = s[i]
  BY AppendProperties, LenProperties
<1> HIDE DEF t
<1>2. DOMAIN t = 1..(Len(s) + 1) /\ DOMAIN s = 1..Len(s)
  BY <1>1, LenProperties
<1>3. ToSet(t) = ToSet(s) \cup {e}
  <2>1. \A i \in 1..(Len(s) + 1) : i \in 1..Len(s) \/ i = Len(s) + 1
    BY <1>1
  <2>2. Len(s) + 1 \in 1..(Len(s) + 1) /\ \A i \in 1..Len(s) : i \in 1..(Len(s) + 1)
    BY <1>1
  <2>3. \A x \in ToSet(t) : x \in ToSet(s) \cup {e}
    <3> SUFFICES ASSUME NEW i \in 1..(Len(s) + 1) PROVE t[i] \in ToSet(s) \cup {e}
      BY <1>2 DEF ToSet
    <3> QED  BY <1>1, <1>2, <2>1 DEF ToSet
  <2>4. \A x \in ToSet(s) : x \in ToSet(t)
    <3> SUFFICES ASSUME NEW i \in 1..Len(s) PROVE s[i] \in ToSet(t)
      BY <1>2 DEF ToSet
    <3> QED  BY <1>1, <1>2, <2>2 DEF ToSet
  <2>5. e \in ToSet(t)
    BY <1>1, <1>2, <2>2 DEF ToSet
  <2> QED  BY <2>3, <2>4, <2>5
<1>4. ASSUME IsInjective(s), e \notin ToSet(s) PROVE IsInjective(t)
  <2> SUFFICES ASSUME NEW i \in 1..(Len(s) + 1), NEW j \in 1..(Len(s) + 1), t[i] = t[j] PROVE i = j
    BY <1>2 DEF IsInjective
  <2>1. \A k \in 1..Len(s) : s[k] # e
    BY <1>2, <1>4 DEF ToSet
  <2>2. (i \in 1..Len(s) \/ i = Len(s) + 1) /\ (j \in 1..Len(s) \/ j = Len(s) + 1)
    BY <1>1
  <2> QED  BY <1>1, <1>2, <1>4, <2>1, <2>2 DEF IsInjective
<1> QED  BY <1>1, <1>3, <1>4 DEF t

LEMMA TailHolds ==
  ASSUME NEW S, NEW s \in Seq(S), s # <<>>
  PROVE  /\ Tail(s) \in Seq(S) /\ Len(Tail(s)) = Len(s) - 1 /\ Len(s) \in Nat /\ Len(s) >= 1
         /\ Head(s) = s[1] /\ Head(s) \in S
         /\ ToSet(s) \subseteq ToSet(Tail(s)) \cup {Head(s)}
<1> DEFINE t == Tail(s)
<1>1. t \in Seq(S) /\ Len(t) = Len(s) - 1 /\ Head(s) \in S /\ \A i \in 1..Len(t) : t[i] = s[i + 1]
  BY HeadTailProperties
<1>2. Len(s) \in Nat /\ Len(s) >= 1
  BY EmptySeq
<1>3. Head(s) = s[1]
  OBVIOUS
<1> HIDE DEF t
<1>4. DOMAIN t = 1..(Len(s) - 1) /\ DOMAIN s = 1..Len(s)
  BY <1>1, LenProperties
<1>5. ASSUME NEW i \in 1..Len(s) PROVE s[i] \in ToSet(t) \cup {Head(s)}
  <2>1. i = 1 \/ (i - 1 \in 1..(Len(s) - 1) /\ i = (i - 1) + 1)
    BY <1>2
  <2> QED  BY <1>1, <1>3, <1>4, <2>1 DEF ToSet
<1>6. ToSet(s) \subseteq ToSet(t) \cup {Head(s)}
  BY <1>4, <1>5 DEF ToSet
<1> QED  BY <1>1, <1>2, <1>3, <1>6 DEF t

LEMMA ConcatHolds ==
  ASSUME NEW S, NEW s \in Seq(S), NEW u \in Seq(S)
  PROVE  /\ s \o u \in Seq(S) /\ ToSet(s \o u) = ToSet(s) \cup ToSet(u)
         /\ IsInjective(s) /\ IsInjective(u) /\ ToSet(s) \cap ToSet(u) = {} => IsInjective(s \o u)
<1> DEFINE t == s \o u
           l == Len(s)
           m == Len(u)
<1>1. t \in Seq(S) /\ Len(t) = l + m
      /\ \A i \in 1..(l + m) : t[i] = IF i <= l THEN s[i] ELSE u[i - l]
  BY ConcatProperties
<1>2. l \in Nat /\ m \in Nat /\ DOMAIN s = 1..l /\ DOMAIN u = 1..m
  BY LenProperties
<1>3. DOMAIN t = 1..(l + m)
  BY <1>1, LenProperties
<1> HIDE DEF t, l, m
<1>4. ASSUME NEW i \in 1..(l + m)
      PROVE  (i \in 1..l /\ t[i] = s[i]) \/ (i - l \in 1..m /\ t[i] = u[i - l])
  BY <1>1, <1>2
<1>5. ASSUME NEW i \in 1..l PROVE i \in 1..(l + m) /\ t[i] = s[i]
  BY <1>1, <1>2
<1>6. ASSUME NEW i \in 1..m PROVE l + i \in 1..(l + m) /\ t[l + i] = u[i]
  <2>1. l + i \in 1..(l + m) /\ ~(l + i <= l) /\ (l + i) - l = i
    BY <1>2
  <2> QED  BY <1>1, <2>1
<1>7. ToSet(t) \subseteq ToSet(s) \cup ToSet(u)
  BY <1>2, <1>3, <1>4 DEF ToSet
<1>8. ToSet(s) \subseteq ToSet(t) /\ ToSet(u) \subseteq ToSet(t)
  BY <1>2, <1>3, <1>5, <1>6 DEF ToSet
<1>9. ASSUME IsInjective(s), IsInjective(u), ToSet(s) \cap ToSet(u) = {} PROVE IsInjective(t)
  <2> SUFFICES ASSUME NEW i \in 1..(l + m), NEW j \in 1..(l + m), t[i] = t[j] PROVE i = j
    BY <1>3 DEF IsInjective
  <2>1. \A a \in 1..l, b \in 1..m : s[a] # u[b]
    BY <1>2, <1>9 DEF ToSet
  <2>2. i \in Int /\ j \in Int
    OBVIOUS
  <2>3. CASE i \in 1..l /\ t[i] = s[i]
    <3>1. j \in 1..l /\ t[j] = s[j]
      BY <1>4, <2>1, <2>3
    <3> QED  BY <1>2, <1>9, <2>3, <3>1 DEF IsInjective
  <2>4. CASE i - l \in 1..m /\ t[i] = u[i - l]
    <3>1. j - l \in 1..m /\ t[j] = u[j - l]
      BY <1>4, <2>1, <2>4
    <3>2. i - l = j - l
      BY <1>2, <1>9, <2>4, <3>1 DEF IsInjective
    <3> QED  BY <1>2, <2>2, <3>2
  <2> QED  BY <1>4, <2>3, <2>4
<1> QED  BY <1>1, <1>7, <1>8, <1>9 DEF t

\* Without one of its members a list is shorter.
LEMMA OnlyInShorter ==
  ASSUME NEW S, NEW s \in Seq(S), NEW T, NEW x \in ToSet(s), x \notin T
  PROVE  Len(OnlyIn(s, T)) < Len(s)
<1> DEFINE I == Places(s, T)
<1>1. Len(s) \in Nat /\ DOMAIN s = 1..Len(s)
  BY LenProperties
<1>2. PICK i \in 1..Len(s) : s[i] = x
  BY <1>1 DEF ToSet
<1>3. I \in SUBSET (1..Len(s)) /\ i \notin I
  BY <1>1, <1>2 DEF Places
<1>4. IsFiniteSet(1..Len(s)) /\ Cardinality(1..Len(s)) = Len(s)
  BY <1>1, FS_Interval
<1> HIDE DEF I
<1>5. Cardinality(I) <= Len(s) /\ Cardinality(I) # Len(s)
  BY <1>3, <1>4, FS_Subset
<1>6. Cardinality(I) \in Nat
  BY <1>3, <1>4, FS_Subset, FS_CardinalityType
<1>7. Len(OnlyIn(s, T)) = Cardinality(I)
  BY OnlyInType DEF I
<1> QED  BY <1>1, <1>5, <1>6, <1>7

-----------------------------------------------------------------------------
\* The audit trail

AuditRecorder == [step : {"idle", "name", "copy", "clear"}, count : 0..SegmentSize,
                  segment : Nat, detached : BOOLEAN]
AuditCompactor == [step : {"idle", "name", "write", "rewrite", "replace"}, cut : SUBSET (1..made),
                   segment : Nat, temp : Seq(1..made)]

AuditTypes ==
  /\ made \in Nat /\ oldEntries \subseteq 1..made
  /\ auditLog \in Seq(1..made) /\ archive \in Seq(Seq(1..made))
  /\ recorder \in AuditRecorder /\ compactor \in AuditCompactor
  /\ recorder.step = "idle" => recorder.count < SegmentSize
  /\ recorder.step = "copy" => recorder.segment > 0
  /\ compactor.step = "write" => compactor.segment > 0

\* In a segment, or excused
Segments(a) == UNION {Entries(a[n]) : n \in DOMAIN a}
Put == Segments(archive) \cup excused

\* While the recorder rotates its last entry can be found, ...
RotatedIsFound == recorder.step # "idle" => made \in Entries(auditLog) \cup Put

\* ... and what it is about to clear is in a segment.
ClearedIsPut == recorder.step = "clear" => Entries(auditLog) \subseteq Put

\* What the compaction takes out of the log, it holds or has put into a segment, ...
CutIsHeld == compactor.step \in {"name", "write"} =>
               Entries(auditLog) \cap compactor.cut \subseteq Entries(compactor.temp) \cup Put
CutIsPut == compactor.step \in {"rewrite", "replace"} =>
              Entries(auditLog) \cap compactor.cut \subseteq Put

\* ... and the new log has the rest, and nothing that was not in the old one.
RestIsHeld == compactor.step = "replace" =>
                /\ Entries(auditLog) \subseteq Entries(compactor.temp) \cup compactor.cut \cup excused
                /\ Entries(compactor.temp) \subseteq Entries(auditLog) \cup Put

TrailInv ==
  /\ AuditTypes /\ RecordedIsFound /\ RotatedIsFound /\ ClearedIsPut
  /\ CutIsHeld /\ CutIsPut /\ RestIsHeld

LEMMA FoundIs == Found = Entries(auditLog) \cup Segments(archive)
BY DEF Found, Segments

LEMMA EntriesType == ASSUME NEW S, NEW s \in Seq(S) PROVE Entries(s) \subseteq S
<1>1. \A i \in DOMAIN s : s[i] \in S
  BY LenProperties
<1> QED  BY <1>1 DEF Entries

LEMMA EntriesAppend ==
  ASSUME NEW S, NEW s \in Seq(S), NEW e \in S
  PROVE  Entries(Append(s, e)) = Entries(s) \cup {e}
<1> DEFINE t == Append(s, e)
<1>1. t \in Seq(S) /\ Len(t) = Len(s) + 1 /\ t[Len(s) + 1] = e /\ Len(s) \in Nat
      /\ DOMAIN t = 1..Len(t) /\ DOMAIN s = 1..Len(s) /\ \A i \in 1..Len(s) : t[i] = s[i]
  BY AppendProperties, LenProperties
<1> HIDE DEF t
<1>2. DOMAIN t = DOMAIN s \cup {Len(s) + 1}
  BY <1>1
<1>3. Entries(t) = Entries(s) \cup {e}
  BY <1>1, <1>2 DEF Entries
<1> QED  BY <1>3 DEF t

LEMMA EntriesEmpty == Entries(<<>>) = {}
BY DEF Entries

LEMMA EntriesOnlyIn ==
  ASSUME NEW S, NEW s \in Seq(S), NEW T
  PROVE  Entries(OnlyIn(s, T)) = Entries(s) \cap T /\ OnlyIn(s, T) \in Seq(S)
<1>1. \A t : Entries(t) = ToSet(t)
  BY DEF Entries, ToSet
<1> QED  BY <1>1, OnlyInType

\* A segment that is written has its entries, and what was in segments is, or is excused.
LEMMA WrittenIsPut ==
  ASSUME NEW S, archive \in Seq(Seq(S)), NEW n \in Nat, n > 0, NEW t \in Seq(S)
  PROVE  /\ Written(n, t) \in Seq(Seq(S))
         /\ Entries(t) \subseteq Segments(Written(n, t))
         /\ Segments(archive) \subseteq Segments(Written(n, t)) \cup Overwritten(n)
<1>0. DOMAIN archive = 1..Len(archive) /\ Len(archive) \in Nat
  BY LenProperties
<1>1. CASE n <= Len(archive)
  <2> DEFINE a == [archive EXCEPT ![n] = t]
  <2>1. n \in 1..Len(archive)
    BY <1>0, <1>1
  <2>2. a \in Seq(Seq(S)) /\ Len(a) = Len(archive)
        /\ \A j \in 1..Len(archive) : a[j] = IF j = n THEN t ELSE archive[j]
    BY <2>1, ExceptSeq
  <2>3. Written(n, t) = a /\ Overwritten(n) = Entries(archive[n])
    BY <1>1 DEF Written, Overwritten
  <2> HIDE DEF a
  <2>4. DOMAIN a = 1..Len(archive)
    BY <2>2, LenProperties
  <2>5. a[n] = t /\ \A j \in DOMAIN archive : j = n \/ a[j] = archive[j]
    BY <1>0, <2>1, <2>2
  <2>6. Entries(t) \subseteq Segments(a)
    BY <2>1, <2>4, <2>5 DEF Segments
  <2>7. ASSUME NEW e \in Segments(archive) PROVE e \in Segments(a) \cup Entries(archive[n])
    <3>1. PICK j \in DOMAIN archive : e \in Entries(archive[j])
      BY <2>7 DEF Segments
    <3>2. j = n \/ e \in Entries(a[j])
      BY <2>5, <3>1
    <3> QED  BY <3>1, <3>2, <2>4, <1>0 DEF Segments
  <2> QED  BY <2>2, <2>3, <2>6, <2>7
<1>2. CASE ~(n <= Len(archive))
  <2> DEFINE a == Append(archive, t)
  <2>2. a \in Seq(Seq(S)) /\ Len(a) = Len(archive) + 1 /\ a[Len(archive) + 1] = t
        /\ \A j \in 1..Len(archive) : a[j] = archive[j]
    BY AppendProperties
  <2>3. Written(n, t) = a
    BY <1>2 DEF Written
  <2> HIDE DEF a
  <2>4. DOMAIN a = 1..(Len(archive) + 1)
    BY <2>2, LenProperties
  <2>5. Len(archive) + 1 \in DOMAIN a /\ \A j \in DOMAIN archive : j \in DOMAIN a /\ a[j] = archive[j]
    BY <1>0, <2>2, <2>4
  <2>6. Entries(t) \subseteq Segments(a)
    BY <2>2, <2>5 DEF Segments
  <2>7. Segments(archive) \subseteq Segments(a)
    BY <2>5 DEF Segments
  <2> QED  BY <2>2, <2>3, <2>6, <2>7
<1> QED  BY <1>1, <1>2

LEMMA TrailInitInv == ASSUME AuditInit PROVE TrailInv
<1>1. AuditTypes
  BY AuditAssumption, EmptySeq DEF AuditInit, AuditTypes, AuditRecorder, AuditCompactor,
     NewRecorder, NoCompactor
<1>2. recorder.step = "idle" /\ compactor.step = "idle" /\ recorded = {}
  BY DEF AuditInit, NewRecorder, NoCompactor
<1> QED  BY <1>1, <1>2 DEF TrailInv, RecordedIsFound, RotatedIsFound, ClearedIsPut, CutIsHeld,
                           CutIsPut, RestIsHeld

\* Steps that leave the files alone and take no step of the compaction
LEMMA AuditTypesGrow ==
  ASSUME AuditTypes, made' = made + 1
  PROVE  /\ auditLog \in Seq(1..made') /\ archive \in Seq(Seq(1..made'))
         /\ compactor \in [step : {"idle", "name", "write", "rewrite", "replace"},
                           cut : SUBSET (1..made'), segment : Nat, temp : Seq(1..made')]
         /\ 1..made \subseteq 1..made' /\ made' \in 1..made' /\ made' \in Nat /\ made' \notin 1..made
<1>1. 1..made \subseteq 1..made' /\ made' \in 1..made' /\ made' \in Nat /\ made' \notin 1..made
  BY DEF AuditTypes
<1>2. Seq(1..made) \subseteq Seq(1..made')
  BY <1>1, SeqMonotonic
<1>3. Seq(Seq(1..made)) \subseteq Seq(Seq(1..made'))
  BY <1>2, SeqMonotonic
<1> QED  BY <1>1, <1>2, <1>3 DEF AuditTypes, AuditCompactor

LEMMA RecordInv == ASSUME TrailInv, Record PROVE TrailInv'
<1>0. AuditTypes /\ recorder.step = "idle" /\ made' = made + 1
  BY DEF TrailInv, Record
<1>1. /\ auditLog \in Seq(1..made') /\ archive \in Seq(Seq(1..made'))
      /\ compactor \in [step : {"idle", "name", "write", "rewrite", "replace"},
                        cut : SUBSET (1..made'), segment : Nat, temp : Seq(1..made')]
      /\ 1..made \subseteq 1..made' /\ made' \in 1..made' /\ made' \in Nat /\ made' \notin 1..made
  BY <1>0, AuditTypesGrow
<1> DEFINE due == recorder.count + 1 >= SegmentSize
           away == recorder.detached \/ cutOff
<1>2. /\ UNCHANGED <<archive, compactor, oldEntries>>
      /\ recorder' = [recorder EXCEPT !.count = @ + 1, !.step = IF due THEN "name" ELSE "idle"]
      /\ auditLog' = IF away THEN auditLog ELSE Append(auditLog, made')
      /\ recorded' = IF due THEN recorded ELSE recorded \cup {made'}
      /\ excused' = IF away \/ compactor.step = "replace"
                    THEN excused \cup {made'} ELSE excused
  BY DEF Record
<1>3. Entries(auditLog') = IF away THEN Entries(auditLog) ELSE Entries(auditLog) \cup {made'}
  <2>1. Entries(Append(auditLog, made')) = Entries(auditLog) \cup {made'}
    <3>1. auditLog \in Seq(1..made') /\ made' \in 1..made'
      BY <1>1
    <3> QED  BY <3>1, EntriesAppend
  <2>2. CASE away
    BY <1>2, <2>2 DEF Entries
  <2>3. CASE ~away
    <3>1. auditLog' = Append(auditLog, made')
      BY <1>2, <2>3
    <3> QED  BY <2>1, <2>3, <3>1 DEF Entries
  <2> QED  BY <2>2, <2>3
<1>4. auditLog' \in Seq(1..made')
  BY <1>1, <1>2, AppendProperties
<1>5. recorder' \in AuditRecorder /\ (recorder'.step = "idle" => recorder'.count < SegmentSize)
      /\ recorder'.step \in {"idle", "name"}
  <2>1. recorder \in AuditRecorder /\ recorder.count < SegmentSize /\ SegmentSize \in Nat
    BY <1>0, AuditAssumption DEF AuditTypes
  <2>2. recorder.count \in Nat /\ recorder.count + 1 \in 0..SegmentSize
    BY <2>1 DEF AuditRecorder
  <2>3. recorder'.step = IF due THEN "name" ELSE "idle"
    BY <1>2, <2>1 DEF AuditRecorder
  <2>4. recorder'.count = recorder.count + 1
    BY <1>2, <2>1 DEF AuditRecorder
  <2>5. recorder' \in AuditRecorder
    BY <1>2, <2>1, <2>2 DEF AuditRecorder
  <2>6. ~due => recorder.count + 1 < SegmentSize
    BY <2>1, <2>2
  <2> QED  BY <2>3, <2>4, <2>5, <2>6
<1>6. AuditTypes'
  BY <1>0, <1>1, <1>2, <1>4, <1>5 DEF AuditTypes, AuditCompactor, AuditRecorder
<1>7. Put \subseteq Put' /\ Entries(auditLog) \subseteq Entries(auditLog)'
      /\ Entries(auditLog)' \subseteq Entries(auditLog) \cup {made'}
      /\ made' \in Entries(auditLog)' \cup Put'
      /\ (compactor.step = "replace" => made' \in excused') /\ excused \subseteq excused'
  BY <1>2, <1>3 DEF Put
<1>8. made' \notin compactor.cut
  BY <1>0, <1>1 DEF AuditTypes, AuditCompactor
<1>9. recorded' \subseteq recorded \cup {made'}
  BY <1>2
<1>10. RecordedIsFound'
  BY <1>7, <1>9, FoundIs DEF TrailInv, RecordedIsFound, Put, Found, Segments
<1>11. RotatedIsFound' /\ ClearedIsPut'
  BY <1>5, <1>7 DEF RotatedIsFound, ClearedIsPut
<1>12. CutIsHeld' /\ CutIsPut' /\ RestIsHeld'
  BY <1>2, <1>7, <1>8 DEF TrailInv, CutIsHeld, CutIsPut, RestIsHeld
<1> QED  BY <1>6, <1>10, <1>11, <1>12 DEF TrailInv

\* What holds when a segment n with the entries of t was written
LEMMA PutGrows ==
  ASSUME AuditTypes, NEW n \in Nat, n > 0, NEW t \in Seq(1..made),
         archive' = Written(n, t), excused' = excused \cup Overwritten(n)
  PROVE  Put \subseteq Put' /\ Entries(t) \subseteq Put' /\ archive' \in Seq(Seq(1..made))
         /\ excused \subseteq excused'
<1>1. archive \in Seq(Seq(1..made))
  BY DEF AuditTypes
<1>2. /\ Written(n, t) \in Seq(Seq(1..made))
      /\ Entries(t) \subseteq Segments(Written(n, t))
      /\ Segments(archive) \subseteq Segments(Written(n, t)) \cup Overwritten(n)
  BY <1>1, WrittenIsPut
<1> QED  BY <1>2 DEF Put

\* Whatever changes neither the log nor what was recorded, and loses no segment, keeps
\* what is true of the log.
LEMMA LogRests ==
  ASSUME TrailInv, AuditTypes', UNCHANGED <<auditLog, recorded, made>>,
         Put \subseteq Put', excused \subseteq excused'
  PROVE  /\ RecordedIsFound'
         /\ recorder.step # "idle" => RotatedIsFound'
         /\ recorder.step = "clear" => ClearedIsPut'
         /\ UNCHANGED compactor => CutIsHeld' /\ CutIsPut' /\ RestIsHeld'
<1>1. Entries(auditLog)' = Entries(auditLog)
  BY DEF Entries
<1>2. RecordedIsFound'
  BY <1>1, FoundIs DEF TrailInv, RecordedIsFound, Put, Found, Segments
<1>3. recorder.step # "idle" => RotatedIsFound'
  BY <1>1 DEF TrailInv, RotatedIsFound
<1>4. recorder.step = "clear" => ClearedIsPut'
  BY <1>1 DEF TrailInv, ClearedIsPut
<1>5. UNCHANGED compactor => CutIsHeld' /\ CutIsPut' /\ RestIsHeld'
  BY <1>1 DEF TrailInv, CutIsHeld, CutIsPut, RestIsHeld
<1> QED  BY <1>2, <1>3, <1>4, <1>5

LEMMA RotateInv == ASSUME TrailInv, RotateNames \/ RotateCopies PROVE TrailInv'
<1>0. AuditTypes
  BY DEF TrailInv
<1>1. CASE RotateNames
  <2>1. /\ UNCHANGED <<auditLog, archive, oldEntries, compactor, recorded, excused, made>>
        /\ recorder.step = "name"
        /\ recorder' = [recorder EXCEPT !.segment = Len(archive) + 1, !.step = "copy"]
    BY <1>1 DEF RotateNames
  <2>2. Len(archive) + 1 \in Nat /\ Len(archive) + 1 > 0
    BY <1>0 DEF AuditTypes
  <2>3. AuditTypes' /\ recorder'.step = "copy"
    <3>1. recorder' \in AuditRecorder /\ recorder'.step = "copy" /\ recorder'.segment > 0
      BY <1>0, <2>1, <2>2 DEF AuditTypes, AuditRecorder
    <3> QED  BY <1>0, <2>1, <3>1 DEF AuditTypes, AuditRecorder, AuditCompactor
  <2>4. Put' = Put
    BY <2>1 DEF Put
  <2>5. ClearedIsPut'
    BY <2>3 DEF ClearedIsPut
  <2> QED  BY <2>1, <2>3, <2>4, <2>5, LogRests DEF TrailInv
<1>2. CASE RotateCopies
  <2>1. /\ UNCHANGED <<auditLog, oldEntries, compactor, recorded, made>>
        /\ recorder.step = "copy"
        /\ recorder' = [recorder EXCEPT !.step = "clear"]
        /\ archive' = Written(recorder.segment, auditLog)
        /\ excused' = excused \cup Overwritten(recorder.segment)
    BY <1>2 DEF RotateCopies
  <2>2. recorder.segment \in Nat /\ recorder.segment > 0 /\ auditLog \in Seq(1..made)
    BY <1>0, <2>1 DEF AuditTypes, AuditRecorder
  <2>3. Put \subseteq Put' /\ Entries(auditLog) \subseteq Put' /\ archive' \in Seq(Seq(1..made))
        /\ excused \subseteq excused'
    BY <1>0, <2>1, <2>2, PutGrows
  <2>4. AuditTypes'
    BY <1>0, <2>1, <2>3 DEF AuditTypes, AuditRecorder, AuditCompactor
  <2>5. ClearedIsPut'
    BY <2>1, <2>3 DEF ClearedIsPut, Entries
  <2> QED  BY <2>1, <2>3, <2>4, <2>5, LogRests DEF TrailInv
<1> QED  BY <1>1, <1>2

LEMMA RotateClearsInv == ASSUME TrailInv, RotateClears PROVE TrailInv'
<1>1. /\ UNCHANGED <<archive, oldEntries, compactor, excused, made>>
      /\ recorder.step = "clear" /\ recorder' = NewRecorder
      /\ auditLog' = <<>> /\ recorded' = recorded \cup {made}
  BY DEF RotateClears
<1>2. AuditTypes'
  BY <1>1, AuditAssumption, EmptySeq DEF TrailInv, AuditTypes, AuditRecorder, AuditCompactor, NewRecorder
<1>3. Entries(auditLog)' = {} /\ Put' = Put
  BY <1>1, EntriesEmpty DEF Put
<1>4. Entries(auditLog) \subseteq Put /\ made \in Put
  BY <1>1 DEF TrailInv, ClearedIsPut, RotatedIsFound
<1>5. RecordedIsFound'
  BY <1>1, <1>3, <1>4, FoundIs DEF TrailInv, RecordedIsFound, Put, Found, Segments
<1>6. RotatedIsFound' /\ ClearedIsPut'
  BY <1>1 DEF RotatedIsFound, ClearedIsPut, NewRecorder
<1>7. CutIsHeld' /\ CutIsPut' /\ RestIsHeld'
  BY <1>1, <1>3, <1>4 DEF TrailInv, CutIsHeld, CutIsPut, RestIsHeld
<1> QED  BY <1>2, <1>5, <1>6, <1>7 DEF TrailInv

LEMMA CompactInv == ASSUME TrailInv, CompactReads \/ CompactNames \/ CompactWrites PROVE TrailInv'
<1>0. AuditTypes
  BY DEF TrailInv
<1>1. CASE CompactReads
  <2>1. /\ UNCHANGED <<auditLog, archive, oldEntries, recorder, recorded, excused, made>>
        /\ compactor' = [compactor EXCEPT !.step = "name", !.cut = oldEntries,
                                          !.temp = OnlyIn(auditLog, oldEntries)]
    BY <1>1 DEF CompactReads
  <2>2. OnlyIn(auditLog, oldEntries) \in Seq(1..made)
        /\ Entries(OnlyIn(auditLog, oldEntries)) = Entries(auditLog) \cap oldEntries
    BY <1>0, EntriesOnlyIn DEF AuditTypes
  <2>3. compactor' \in AuditCompactor /\ compactor'.step = "name"
        /\ compactor'.cut = oldEntries /\ compactor'.temp = OnlyIn(auditLog, oldEntries)
    BY <1>0, <2>1, <2>2 DEF AuditTypes, AuditCompactor
  <2>4. AuditTypes'
    BY <1>0, <2>1, <2>3 DEF AuditTypes, AuditRecorder, AuditCompactor
  <2>5. Put' = Put
    BY <2>1 DEF Put
  <2>6. CutIsHeld' /\ CutIsPut' /\ RestIsHeld'
    BY <2>1, <2>2, <2>3 DEF CutIsHeld, CutIsPut, RestIsHeld
  <2>7. RotatedIsFound' /\ ClearedIsPut'
    BY <2>1, <2>5 DEF TrailInv, RotatedIsFound, ClearedIsPut
  <2> QED  BY <2>1, <2>4, <2>5, <2>6, <2>7, LogRests DEF TrailInv
<1>2. CASE CompactNames
  <2>1. /\ UNCHANGED <<auditLog, archive, oldEntries, recorder, recorded, excused, made>>
        /\ compactor' = [compactor EXCEPT !.segment = Len(archive) + 1, !.step = "write"]
        /\ compactor.step = "name"
    BY <1>2 DEF CompactNames
  <2>2. Len(archive) + 1 \in Nat /\ Len(archive) + 1 > 0
    BY <1>0 DEF AuditTypes
  <2>3. compactor' \in AuditCompactor /\ compactor'.step = "write" /\ compactor'.segment > 0
        /\ compactor'.cut = compactor.cut /\ compactor'.temp = compactor.temp
    BY <1>0, <2>1, <2>2 DEF AuditTypes, AuditCompactor
  <2>4. AuditTypes'
    BY <1>0, <2>1, <2>3 DEF AuditTypes, AuditRecorder, AuditCompactor
  <2>5. Put' = Put
    BY <2>1 DEF Put
  <2>6. CutIsHeld' /\ CutIsPut' /\ RestIsHeld'
    BY <2>1, <2>3, <2>5 DEF TrailInv, CutIsHeld, CutIsPut, RestIsHeld
  <2>7. RotatedIsFound' /\ ClearedIsPut'
    BY <2>1, <2>5 DEF TrailInv, RotatedIsFound, ClearedIsPut
  <2> QED  BY <2>1, <2>4, <2>5, <2>6, <2>7, LogRests DEF TrailInv
<1>3. CASE CompactWrites
  <2>1. /\ UNCHANGED <<auditLog, oldEntries, recorder, recorded, made>>
        /\ compactor.step = "write"
        /\ archive' = Written(compactor.segment, compactor.temp)
        /\ excused' = excused \cup Overwritten(compactor.segment)
        /\ compactor' = [compactor EXCEPT !.step = "rewrite", !.temp = <<>>]
    BY <1>3 DEF CompactWrites
  <2>2. compactor.segment \in Nat /\ compactor.segment > 0 /\ compactor.temp \in Seq(1..made)
    BY <1>0, <2>1 DEF AuditTypes, AuditCompactor
  <2>3. Put \subseteq Put' /\ Entries(compactor.temp) \subseteq Put' /\ archive' \in Seq(Seq(1..made))
        /\ excused \subseteq excused'
    BY <1>0, <2>1, <2>2, PutGrows
  <2>4. compactor' \in AuditCompactor /\ compactor'.step = "rewrite" /\ compactor'.cut = compactor.cut
    BY <1>0, <2>1, EmptySeq DEF AuditTypes, AuditCompactor
  <2>5. AuditTypes'
    BY <1>0, <2>1, <2>3, <2>4 DEF AuditTypes, AuditRecorder, AuditCompactor
  <2>6. CutIsHeld' /\ CutIsPut' /\ RestIsHeld'
    BY <2>1, <2>3, <2>4 DEF TrailInv, CutIsHeld, CutIsPut, RestIsHeld
  <2>7. RotatedIsFound' /\ ClearedIsPut'
    BY <2>1, <2>3 DEF TrailInv, RotatedIsFound, ClearedIsPut
  <2> QED  BY <2>1, <2>3, <2>5, <2>6, <2>7, LogRests DEF TrailInv
<1> QED  BY <1>1, <1>2, <1>3

LEMMA RewriteInv == ASSUME TrailInv, RewriteReads \/ RewriteReplaces PROVE TrailInv'
<1>0. AuditTypes
  BY DEF TrailInv
<1>1. CASE RewriteReads
  <2> DEFINE kept == {e \in Entries(auditLog) : Kept(e)}
  <2>1. /\ UNCHANGED <<auditLog, archive, oldEntries, recorder, recorded, excused, made>>
        /\ compactor' = [compactor EXCEPT !.step = "replace", !.temp = OnlyIn(auditLog, kept)]
        /\ compactor.step = "rewrite"
    BY <1>1 DEF RewriteReads
  <2>2. OnlyIn(auditLog, kept) \in Seq(1..made)
        /\ Entries(OnlyIn(auditLog, kept)) = Entries(auditLog) \cap kept
    BY <1>0, EntriesOnlyIn DEF AuditTypes
  <2>3. Entries(auditLog) \cap kept = Entries(auditLog) \ compactor.cut
    BY DEF Kept
  <2>4. compactor' \in AuditCompactor /\ compactor'.step = "replace"
        /\ compactor'.cut = compactor.cut /\ compactor'.temp = OnlyIn(auditLog, kept)
    BY <1>0, <2>1, <2>2 DEF AuditTypes, AuditCompactor
  <2> HIDE DEF kept
  <2>5. AuditTypes'
    BY <1>0, <2>1, <2>4 DEF AuditTypes, AuditRecorder, AuditCompactor
  <2>6. Put' = Put
    BY <2>1 DEF Put
  <2>7. CutIsHeld' /\ CutIsPut' /\ RestIsHeld'
    BY <2>1, <2>2, <2>3, <2>4, <2>6 DEF TrailInv, CutIsHeld, CutIsPut, RestIsHeld
  <2>8. RotatedIsFound' /\ ClearedIsPut'
    BY <2>1, <2>6 DEF TrailInv, RotatedIsFound, ClearedIsPut
  <2> QED  BY <2>1, <2>5, <2>6, <2>7, <2>8, LogRests DEF TrailInv
<1>2. CASE RewriteReplaces
  <2>1. /\ UNCHANGED <<archive, oldEntries, recorded, excused, made>>
        /\ compactor.step = "replace"
        /\ auditLog' = compactor.temp /\ compactor' = NoCompactor
        /\ recorder' = [recorder EXCEPT !.detached = TRUE]
    BY <1>2 DEF RewriteReplaces
  <2>2. NoCompactor \in AuditCompactor /\ compactor.temp \in Seq(1..made)
    BY <1>0, EmptySeq DEF NoCompactor, AuditCompactor, AuditTypes
  <2>3. recorder' \in AuditRecorder /\ recorder'.step = recorder.step
        /\ recorder'.count = recorder.count /\ recorder'.segment = recorder.segment
    BY <1>0, <2>1 DEF AuditTypes, AuditRecorder
  <2>4. AuditTypes'
    BY <1>0, <2>1, <2>2, <2>3 DEF AuditTypes, AuditRecorder, AuditCompactor, NoCompactor
  <2>5. Put' = Put
    BY <2>1 DEF Put
  <2>6. Entries(auditLog) \subseteq Entries(auditLog)' \cup Put
        /\ Entries(auditLog)' \subseteq Entries(auditLog) \cup Put
    BY <2>1 DEF TrailInv, CutIsPut, RestIsHeld, Put
  <2>7. RecordedIsFound'
    BY <2>1, <2>5, <2>6, FoundIs DEF TrailInv, RecordedIsFound, Put, Found, Segments
  <2>8. RotatedIsFound' /\ ClearedIsPut'
    BY <2>1, <2>3, <2>5, <2>6 DEF TrailInv, RotatedIsFound, ClearedIsPut
  <2>9. CutIsHeld' /\ CutIsPut' /\ RestIsHeld'
    BY <2>1 DEF CutIsHeld, CutIsPut, RestIsHeld, NoCompactor
  <2> QED  BY <2>4, <2>7, <2>8, <2>9 DEF TrailInv
<1> QED  BY <1>1, <1>2

LEMMA PartlyWrittenPut ==
  ASSUME AuditTypes, NEW w \in BOOLEAN, NEW n \in Nat, w => n > 0, NEW t \in Seq(1..made),
         PartlyWritten(w, n, t)
  PROVE  Put \subseteq Put' /\ archive' \in Seq(Seq(1..made)) /\ excused \subseteq excused'
<1>1. CASE w
  <2>1. PICK k \in 0..Len(t) : /\ archive' = Written(n, SubSeq(t, 1, k))
                               /\ excused' = excused \cup Overwritten(n)
    BY <1>1 DEF PartlyWritten
  <2>2. SubSeq(t, 1, k) \in Seq(1..made)
    <3>1. k \in Int /\ \A i \in 1..k : t[i] \in 1..made
      <4>1. \A i \in 1..Len(t) : t[i] \in 1..made
        BY ElementOfSeq
      <4> QED  BY <4>1
    <3> QED  BY <3>1, SubSeqProperties
  <2> QED  BY <1>1, <2>1, <2>2, PutGrows
<1>2. CASE ~w
  <2>1. UNCHANGED <<archive, excused>>
    BY <1>2 DEF PartlyWritten
  <2> QED  BY <2>1 DEF AuditTypes, Put
<1> QED  BY <1>1, <1>2

LEMMA AuditCrashInv == ASSUME TrailInv, RecorderCrashes \/ CompactorCrashes PROVE TrailInv'
<1>0. AuditTypes
  BY DEF TrailInv
<1>1. CASE RecorderCrashes
  <2>1. /\ UNCHANGED <<auditLog, oldEntries, compactor, recorded, made>>
        /\ PartlyWritten(recorder.step = "copy", recorder.segment, auditLog)
        /\ recorder' = NewRecorder
    BY <1>1 DEF RecorderCrashes
  <2>2. recorder.segment \in Nat /\ auditLog \in Seq(1..made)
        /\ (recorder.step = "copy" => recorder.segment > 0)
    BY <1>0 DEF AuditTypes, AuditRecorder
  <2>3. Put \subseteq Put' /\ archive' \in Seq(Seq(1..made)) /\ excused \subseteq excused'
    BY <1>0, <2>1, <2>2, PartlyWrittenPut
  <2>4. AuditTypes'
    BY <1>0, <2>1, <2>3, AuditAssumption DEF AuditTypes, AuditRecorder, AuditCompactor, NewRecorder
  <2>5. RotatedIsFound' /\ ClearedIsPut'
    BY <2>1 DEF RotatedIsFound, ClearedIsPut, NewRecorder
  <2> QED  BY <2>1, <2>3, <2>4, <2>5, LogRests DEF TrailInv
<1>2. CASE CompactorCrashes
  <2>1. /\ UNCHANGED <<auditLog, oldEntries, recorder, recorded, made>>
        /\ PartlyWritten(compactor.step = "write", compactor.segment, compactor.temp)
        /\ compactor' = NoCompactor
    BY <1>2 DEF CompactorCrashes
  <2>2. compactor.segment \in Nat /\ compactor.temp \in Seq(1..made)
        /\ (compactor.step = "write" => compactor.segment > 0)
    BY <1>0 DEF AuditTypes, AuditCompactor
  <2>3. Put \subseteq Put' /\ archive' \in Seq(Seq(1..made)) /\ excused \subseteq excused'
    BY <1>0, <2>1, <2>2, PartlyWrittenPut
  <2>4. NoCompactor \in AuditCompactor /\ NoCompactor.step = "idle"
    BY <1>0, EmptySeq DEF NoCompactor, AuditCompactor, AuditTypes
  <2>5. AuditTypes'
    BY <1>0, <2>1, <2>3, <2>4 DEF AuditTypes, AuditRecorder, AuditCompactor
  <2>6. CutIsHeld' /\ CutIsPut' /\ RestIsHeld'
    BY <2>1, <2>4 DEF CutIsHeld, CutIsPut, RestIsHeld
  <2>7. RotatedIsFound' /\ ClearedIsPut'
    BY <2>1, <2>3 DEF TrailInv, RotatedIsFound, ClearedIsPut
  <2> QED  BY <2>1, <2>3, <2>5, <2>6, <2>7, LogRests DEF TrailInv
<1> QED  BY <1>1, <1>2

LEMMA TrailNextInv == ASSUME TrailInv, AuditNext PROVE TrailInv'
<1>1. ASSUME NEW e \in 1..made, Ages(e) PROVE TrailInv'
  <2>1. UNCHANGED <<auditLog, archive, recorder, compactor, recorded, excused, made>>
        /\ oldEntries' \subseteq 1..made
    BY <1>1 DEF Ages, TrailInv, AuditTypes
  <2>2. AuditTypes'
    BY <2>1 DEF TrailInv, AuditTypes, AuditRecorder, AuditCompactor
  <2>3. Put' = Put
    BY <2>1 DEF Put
  <2>4. RotatedIsFound' /\ ClearedIsPut'
    BY <2>1, <2>3 DEF TrailInv, RotatedIsFound, ClearedIsPut
  <2> QED  BY <2>1, <2>2, <2>3, <2>4, LogRests DEF TrailInv
<1> QED  BY <1>1, RecordInv, RotateInv, RotateClearsInv, CompactInv, RewriteInv, AuditCrashInv
         DEF AuditNext

AuditInv == TrailInv /\ cutOff \in BOOLEAN

LEMMA AuditInitInv == ASSUME AuditInit PROVE AuditInv
  BY TrailInitInv DEF AuditInv, AuditInit

LEMMA AuditNextInv == ASSUME AuditInv, AuditNext PROVE AuditInv'
<1>1. TrailInv'
  BY TrailNextInv DEF AuditInv
<1>2. CASE Record \/ RotateClears \/ RewriteReplaces
  BY <1>1, <1>2 DEF AuditInv, Record, RotateClears, RewriteReplaces
<1>3. CASE RecorderCrashes
  BY <1>1, <1>3 DEF AuditInv, RecorderCrashes
<1>4. CASE UNCHANGED cutOff
  BY <1>1, <1>4 DEF AuditInv
<1>5. CASE RotateNames \/ RotateCopies \/ CompactReads \/ CompactNames \/ CompactWrites
           \/ RewriteReads \/ CompactorCrashes \/ \E e \in 1..made : Ages(e)
  BY <1>4, <1>5 DEF RotateNames, RotateCopies, CompactReads, CompactNames, CompactWrites,
                    RewriteReads, CompactorCrashes, Ages
<1> QED  BY <1>2, <1>3, <1>5 DEF AuditNext

LEMMA AuditHolds == ASSUME AuditInv PROVE AuditTypeOK /\ RecordedIsFound
BY DEF AuditInv, TrailInv, AuditTypes, AuditTypeOK, AuditRecorder, AuditCompactor

LEMMA AuditRests == ASSUME AuditInv, UNCHANGED auditVars PROVE AuditInv'
<1>1. TrailInv'
  BY DEF AuditInv, TrailInv, AuditTypes, ClearedIsPut, CutIsHeld, CutIsPut, RecordedIsFound,
         RestIsHeld, RotatedIsFound, AuditCompactor, Put, Found, auditVars
<1> QED  BY <1>1 DEF AuditInv, auditVars

-----------------------------------------------------------------------------
\* The memory of agents: first the store of a task with its tags

FactsInv ==
  /\ recent \in Seq(Fact) /\ Len(recent) <= MaxFacts
  /\ tagged \in [Tag -> SUBSET Fact]
  /\ TagsFollowStore

LEMMA FactsInitInv == ASSUME MemoryInit PROVE FactsInv
<1>1. <<>> \in Seq(Fact) /\ Len(<<>>) = 0
  BY EmptySeq
<1>2. MaxFacts \in Nat
  BY AgentMemoryAssumption
<1> QED  BY <1>1, <1>2 DEF MemoryInit, FactsInv, TagsFollowStore

LEMMA WithoutKey ==
  ASSUME FactsInv, NEW k \in Fact
  PROVE  /\ OnlyIn(recent, Fact \ {k}) \in Seq(Fact)
         /\ ToSet(OnlyIn(recent, Fact \ {k})) = ToSet(recent) \ {k}
         /\ Len(OnlyIn(recent, Fact \ {k})) \in Nat
         /\ Len(OnlyIn(recent, Fact \ {k})) <= MaxFacts
         /\ Contains(recent, k) => Len(OnlyIn(recent, Fact \ {k})) + 1 <= MaxFacts
<1> DEFINE u == OnlyIn(recent, Fact \ {k})
<1>1. recent \in Seq(Fact) /\ Len(recent) <= MaxFacts /\ MaxFacts \in Nat /\ Len(recent) \in Nat
      /\ ToSet(recent) \subseteq Fact
  BY AgentMemoryAssumption, LenProperties, MemberOf DEF FactsInv
<1>2. u \in Seq(Fact) /\ Len(u) \in 0..Len(recent) /\ ToSet(u) = ToSet(recent) \cap (Fact \ {k})
  BY <1>1, OnlyInType
<1>3. Contains(recent, k) => k \in ToSet(recent)
  BY <1>1, MemberOf DEF Contains
<1>4. k \in ToSet(recent) => Len(u) < Len(recent)
  BY <1>1, OnlyInShorter
<1> HIDE DEF u
<1>5. ToSet(u) = ToSet(recent) \ {k}
  BY <1>1, <1>2
<1>6. Len(u) \in Nat /\ Len(u) <= MaxFacts /\ (Contains(recent, k) => Len(u) + 1 <= MaxFacts)
  BY <1>1, <1>2, <1>3, <1>4
<1> QED  BY <1>2, <1>5, <1>6 DEF u

LEMMA RememberInv ==
  ASSUME FactsInv, NEW k \in Fact, NEW tags \in SUBSET Tag, Remember(k, tags)
  PROVE  FactsInv'
<1> DEFINE u == AfterEviction(k)
           g == TagsAfterEviction(k)
<1>1. recent \in Seq(Fact) /\ Len(recent) <= MaxFacts /\ MaxFacts \in Nat \ {0} /\ Len(recent) \in Nat
      /\ tagged \in [Tag -> SUBSET Fact] /\ \A t \in Tag : tagged[t] \subseteq ToSet(recent)
  BY AgentMemoryAssumption, LenProperties DEF FactsInv, TagsFollowStore
<1>2. u \in Seq(Fact) /\ Len(u) + 1 <= MaxFacts /\ g \in [Tag -> SUBSET Fact]
      /\ \A t \in Tag : g[t] \subseteq ToSet(u) \cup {k}
  <2>1. CASE Evicts(k)
    <3>1. recent # <<>> /\ u = Tail(recent) /\ g = Untagged(Head(recent))
      BY <1>1, <2>1 DEF Evicts, AfterEviction, TagsAfterEviction
    <3>2. Tail(recent) \in Seq(Fact) /\ Len(Tail(recent)) = Len(recent) - 1
          /\ ToSet(recent) \subseteq ToSet(Tail(recent)) \cup {Head(recent)}
      BY <1>1, <3>1, TailHolds
    <3>3. g = [t \in Tag |-> tagged[t] \ {Head(recent)}]
      BY <3>1 DEF Untagged
    <3> HIDE DEF u, g
    <3>4. g \in [Tag -> SUBSET Fact] /\ \A t \in Tag : g[t] \subseteq ToSet(u) \cup {k}
      BY <1>1, <3>1, <3>2, <3>3
    <3> QED  BY <1>1, <3>1, <3>2, <3>4
  <2>2. CASE ~Evicts(k)
    <3>1. u = OnlyIn(recent, Fact \ {k}) /\ g = tagged
      BY <2>2 DEF AfterEviction, TagsAfterEviction
    <3>2. Len(recent) < MaxFacts \/ Contains(recent, k)
      BY <1>1, <2>2 DEF Evicts
    <3> DEFINE v == OnlyIn(recent, Fact \ {k})
    <3>3. v \in Seq(Fact) /\ ToSet(v) = ToSet(recent) \ {k} /\ Len(v) \in Nat
          /\ (Contains(recent, k) => Len(v) + 1 <= MaxFacts)
      BY WithoutKey
    <3>4. Len(v) \in 0..Len(recent)
      BY <1>1, OnlyInType
    <3> HIDE DEF u, g, v
    <3>5. Len(v) + 1 <= MaxFacts
      BY <1>1, <3>2, <3>3, <3>4
    <3> QED  BY <1>1, <3>1, <3>3, <3>5 DEF v
  <2> QED  BY <2>1, <2>2
<1>3. recent' = Append(u, k)
      /\ tagged' = [t \in Tag |-> g[t] \cup (IF t \in tags THEN {k} ELSE {})]
  BY DEF Remember
<1> HIDE DEF u, g
<1>4. recent' \in Seq(Fact) /\ Len(recent') = Len(u) + 1 /\ ToSet(recent') = ToSet(u) \cup {k}
  BY <1>2, <1>3, AppendHolds
<1>5. tagged' \in [Tag -> SUBSET Fact] /\ \A t \in Tag : tagged'[t] \subseteq ToSet(recent')
  <2>1. ASSUME NEW t \in Tag
        PROVE  g[t] \cup (IF t \in tags THEN {k} ELSE {}) \subseteq ToSet(u) \cup {k}
               /\ g[t] \cup (IF t \in tags THEN {k} ELSE {}) \in SUBSET Fact
    BY <1>2
  <2> QED  BY <1>3, <1>4, <2>1
<1> QED  BY <1>2, <1>4, <1>5 DEF FactsInv, TagsFollowStore

LEMMA FactsNextInv == ASSUME FactsInv, FactsNext PROVE FactsInv'
<1>0. tagged \in [Tag -> SUBSET Fact] /\ \A t \in Tag : tagged[t] \subseteq ToSet(recent)
  BY DEF FactsInv, TagsFollowStore
<1>1. ASSUME NEW k \in Fact, Read(k) PROVE FactsInv'
  <2> DEFINE u == OnlyIn(recent, Fact \ {k})
  <2>1. recent' = Append(u, k) /\ tagged' = tagged /\ Contains(recent, k)
    BY <1>1 DEF Read
  <2>2. u \in Seq(Fact) /\ ToSet(u) = ToSet(recent) \ {k} /\ Len(u) + 1 <= MaxFacts
    BY <2>1, WithoutKey
  <2> HIDE DEF u
  <2>3. recent' \in Seq(Fact) /\ Len(recent') = Len(u) + 1 /\ ToSet(recent') = ToSet(u) \cup {k}
    BY <2>1, <2>2, AppendHolds
  <2>4. \A t \in Tag : tagged'[t] \subseteq ToSet(recent')
    BY <1>0, <2>1, <2>2, <2>3
  <2> QED  BY <1>0, <2>1, <2>2, <2>3, <2>4 DEF FactsInv, TagsFollowStore
<1>2. ASSUME NEW k \in Fact, Forget(k) PROVE FactsInv'
  <2> DEFINE u == OnlyIn(recent, Fact \ {k})
  <2>1. recent' = u /\ tagged' = [t \in Tag |-> tagged[t] \ {k}]
    BY <1>2 DEF Forget, Untagged
  <2>2. u \in Seq(Fact) /\ ToSet(u) = ToSet(recent) \ {k} /\ Len(u) <= MaxFacts
    BY WithoutKey
  <2> HIDE DEF u
  <2>3. tagged' \in [Tag -> SUBSET Fact] /\ \A t \in Tag : tagged'[t] \subseteq ToSet(recent')
    BY <1>0, <2>1, <2>2
  <2> QED  BY <2>1, <2>2, <2>3 DEF FactsInv, TagsFollowStore
<1>3. CASE ClearFacts
  <2>1. <<>> \in Seq(Fact) /\ Len(<<>>) = 0 /\ MaxFacts \in Nat
    BY EmptySeq, AgentMemoryAssumption
  <2>2. recent' = <<>> /\ tagged' = [t \in Tag |-> {}]
    BY <1>3 DEF ClearFacts
  <2> QED  BY <2>1, <2>2 DEF FactsInv, TagsFollowStore
<1> QED  BY <1>1, <1>2, <1>3, RememberInv DEF FactsNext

-----------------------------------------------------------------------------
\* The table of a node

TableRow == [key : Row, hits : 0..MaxHits]

\* No key has two rows.
KeysApart(rows) == \A i, j \in 1..Len(rows) : rows[i].key = rows[j].key => i = j

TableInv ==
  /\ table \in Seq(TableRow) /\ KeysApart(table)
  /\ writes \in 0..(CleanInterval - 1) /\ opened \in Nat
  /\ RowsBounded

\* The rows that come before row i when the clean-up counts them, a row with the
\* number i comes after no more rows than one behind it
Ahead(rows, i) == {j \in DOMAIN rows : Before(rows, j, i)}

LEMMA AheadOrder ==
  ASSUME NEW rows \in Seq(TableRow)
  PROVE  /\ \A i \in 1..Len(rows) : /\ Ahead(rows, i) \in SUBSET (1..Len(rows)) /\ i \notin Ahead(rows, i)
                                    /\ IsFiniteSet(Ahead(rows, i))
                                    /\ Cardinality(Ahead(rows, i)) \in 0..(Len(rows) - 1)
         /\ \A i, j \in 1..Len(rows) :
              Cardinality(Ahead(rows, i)) = Cardinality(Ahead(rows, j)) => i = j
<1> DEFINE l == Len(rows)
           h(i) == rows[i].hits
<1>1. l \in Nat /\ DOMAIN rows = 1..l /\ IsFiniteSet(1..l) /\ Cardinality(1..l) = l
  <2>1. l \in Nat /\ DOMAIN rows = 1..l
    BY LenProperties
  <2> HIDE DEF l
  <2> QED  BY <2>1, FS_Interval
<1>2. \A i \in 1..l : h(i) \in Nat
  <2> SUFFICES ASSUME NEW i \in 1..l PROVE rows[i].hits \in Nat
    OBVIOUS
  <2>1. rows[i] \in TableRow
    BY ElementOfSeq
  <2>2. rows[i].hits \in 0..MaxHits /\ MaxHits \in Nat
    BY <2>1, AgentMemoryAssumption DEF TableRow
  <2> QED  BY <2>2
<1>3. \A i \in 1..l : Ahead(rows, i) = {j \in 1..l : h(j) < h(i) \/ (h(j) = h(i) /\ j < i)}
  BY <1>1 DEF Ahead, Before
<1> HIDE DEF h, l
<1>4. ASSUME NEW i \in 1..l
      PROVE  /\ Ahead(rows, i) \in SUBSET (1..l) /\ i \notin Ahead(rows, i)
             /\ IsFiniteSet(Ahead(rows, i)) /\ Cardinality(Ahead(rows, i)) \in 0..(l - 1)
  <2>1. Ahead(rows, i) \in SUBSET (1..l) /\ i \notin Ahead(rows, i)
    BY <1>2, <1>3
  <2>2. IsFiniteSet(Ahead(rows, i)) /\ Cardinality(Ahead(rows, i)) <= l /\ Cardinality(Ahead(rows, i)) # l
    BY <1>1, <2>1, FS_Subset
  <2>3. Cardinality(Ahead(rows, i)) \in Nat
    BY <2>2, FS_CardinalityType
  <2> QED  BY <1>1, <2>1, <2>2, <2>3
<1>5. ASSUME NEW i \in 1..l, NEW j \in 1..l, h(i) < h(j) \/ (h(i) = h(j) /\ i < j)
      PROVE  Cardinality(Ahead(rows, i)) # Cardinality(Ahead(rows, j))
  <2>1. \A k \in 1..l : h(k) \in Nat /\ k \in Nat
    BY <1>2
  <2>2. Ahead(rows, i) \subseteq Ahead(rows, j)
    BY <1>3, <1>5, <2>1
  <2>3. i \in Ahead(rows, j)
    BY <1>3, <1>5
  <2>4. i \notin Ahead(rows, i)
    BY <1>4
  <2> QED  BY <1>4, <2>2, <2>3, <2>4, FS_Subset
<1>6. ASSUME NEW i \in 1..l, NEW j \in 1..l, i # j
      PROVE  Cardinality(Ahead(rows, i)) # Cardinality(Ahead(rows, j))
  <2>1. h(i) \in Nat /\ h(j) \in Nat /\ i \in Nat /\ j \in Nat
    BY <1>2
  <2>2. h(i) < h(j) \/ (h(i) = h(j) /\ i < j) \/ h(j) < h(i) \/ (h(j) = h(i) /\ j < i)
    BY <1>6, <2>1
  <2> QED  BY <1>5, <2>2
<1> QED  BY <1>4, <1>6 DEF l

\* So the clean-up keeps at most the rows that were asked for.
LEMMA CleanedKeeps ==
  ASSUME NEW rows \in Seq(TableRow), KeysApart(rows)
  PROVE  /\ Cleaned(rows) \in Seq(TableRow) /\ KeysApart(Cleaned(rows)) /\ Len(Cleaned(rows)) <= MaxRows
<1> DEFINE l == Len(rows)
           d == l - MaxRows
           rank == [i \in 1..l |-> Cardinality(Ahead(rows, i))]
           keep == {i \in 1..l : rank[i] >= d}
           T == {rows[i] : i \in keep}
<1>1. l \in Nat /\ DOMAIN rows = 1..l /\ MaxRows \in Nat \ {0}
  BY LenProperties, AgentMemoryAssumption
<1>2. CASE ~(l > MaxRows)
  <2>1. Cleaned(rows) = rows
    BY <1>2 DEF Cleaned
  <2> QED  BY <1>1, <1>2, <2>1
<1>3. CASE l > MaxRows
  <2>1. keep = {i \in DOMAIN rows :
                 Cardinality({j \in DOMAIN rows : Before(rows, j, i)}) >= Surplus(rows)}
    BY <1>1 DEF Ahead, Surplus
  <2>2. Cleaned(rows) = OnlyIn(rows, T)
    <3> DEFINE kp == {i \in DOMAIN rows :
                 Cardinality({j \in DOMAIN rows : Before(rows, j, i)}) >= Surplus(rows)}
    <3>1. Cleaned(rows) = OnlyIn(rows, {rows[i] : i \in kp})
      BY <1>3 DEF Cleaned
    <3>2. keep = kp
      BY <2>1
    <3> HIDE DEF keep, kp
    <3> QED  BY <3>1, <3>2
  <2> HIDE DEF T
  <2>3. OnlyIn(rows, T) \in Seq(TableRow) /\ Len(OnlyIn(rows, T)) = Cardinality(Places(rows, T))
        /\ Len(OnlyIn(rows, T)) \in Nat
    <3>1. OnlyIn(rows, T) \in Seq(TableRow) /\ Len(OnlyIn(rows, T)) = Cardinality(Places(rows, T))
      BY OnlyInType
    <3> QED  BY <3>1, LenProperties
  <2>4. Places(rows, T) = keep
    <3>1. ASSUME NEW i \in Places(rows, T) PROVE i \in keep
      <4>1. i \in 1..l /\ rows[i] \in T
        BY <1>1, <3>1 DEF Places
      <4>2. PICK k \in keep : rows[k] = rows[i]
        BY <4>1 DEF T
      <4>3. k \in 1..l
        OBVIOUS
      <4> HIDE DEF keep, rank
      <4>4. i = k
        BY <4>1, <4>2, <4>3 DEF KeysApart
      <4> QED  BY <4>2, <4>4
    <3>2. ASSUME NEW i \in keep PROVE i \in Places(rows, T)
      <4>1. i \in 1..l
        OBVIOUS
      <4>2. rows[i] \in T
        BY <3>2 DEF T
      <4> QED  BY <1>1, <4>1, <4>2 DEF Places
    <3> QED  BY <3>1, <3>2
  <2>5. keep \in SUBSET (1..l) /\ IsFiniteSet(keep) /\ Cardinality(keep) \in Nat
    <3>1. keep \in SUBSET (1..l)
      OBVIOUS
    <3> HIDE DEF keep
    <3>2. IsFiniteSet(1..l)
      BY <1>1, FS_Interval
    <3> QED  BY <3>1, <3>2, FS_Subset, FS_CardinalityType
  <2>6. Cardinality(keep) <= MaxRows
    <3> DEFINE f == [i \in keep |-> rank[i]]
               R == d..(l - 1)
    <3>1. \A i \in 1..l : rank[i] \in 0..(l - 1)
      BY AheadOrder
    <3>2. \A i, j \in 1..l : rank[i] = rank[j] => i = j
      BY AheadOrder
    <3>3. d \in Nat /\ d <= l - 1 /\ l - 1 \in Int
      BY <1>1, <1>3
    <3>4. IsFiniteSet(R) /\ Cardinality(R) = MaxRows
      <4>1. (l - 1) - d + 1 = MaxRows /\ d \in Int /\ d <= l - 1
        BY <1>1, <3>3
      <4> HIDE DEF l, d
      <4> QED  BY <3>3, <4>1, FS_Interval
    <3>5. \A i \in keep : i \in 1..l /\ rank[i] >= d
      OBVIOUS
    <3>6. \A i \in keep : rank[i] \in R
      <4> HIDE DEF rank, keep, l, d
      <4> QED  BY <3>1, <3>3, <3>5
    <3> HIDE DEF rank, keep, d, l
    <3>7. f \in [keep -> R] /\ \A i, j \in keep : f[i] = f[j] => i = j
      BY <3>2, <3>5, <3>6
    <3> HIDE DEF f, R
    <3>8. f \in Injection(keep, R)
      BY <3>7 DEF Injection, IsInjective
    <3> QED  BY <2>5, <3>4, <3>8, FS_Injection DEF ExistsInjection
  <2>7. KeysApart(OnlyIn(rows, T))
    <3> DEFINE u == OnlyIn(rows, T)
    <3>1. Len(u) \in Nat
      BY <2>3
    <3>2. ASSUME NEW a \in 1..Len(u), NEW b \in 1..Len(u), a < b PROVE u[a].key # u[b].key
      <4>1. PICK i \in DOMAIN rows, j \in DOMAIN rows : i < j /\ u[a] = rows[i] /\ u[b] = rows[j]
        BY <3>2, OnlyInOrder
      <4>2. i # j
        BY <1>1, <4>1
      <4> HIDE DEF u
      <4> QED  BY <1>1, <4>1, <4>2 DEF KeysApart
    <3> HIDE DEF u
    <3>3. \A a, b \in 1..Len(u) : a < b \/ b < a \/ a = b
      BY <3>1
    <3>4. \A a, b \in 1..Len(u) : u[a].key = u[b].key => a = b
      BY <3>2, <3>3
    <3> QED  BY <3>4 DEF KeysApart, u
  <2> HIDE DEF keep
  <2> QED  BY <2>2, <2>3, <2>4, <2>5, <2>6, <2>7
<1> QED  BY <1>2, <1>3

LEMMA TableInitInv == ASSUME MemoryInit PROVE TableInv
<1>1. <<>> \in Seq(TableRow) /\ Len(<<>>) = 0
  BY EmptySeq
<1>2. CleanInterval \in Nat \ {0} /\ MaxRows \in Nat
  BY AgentMemoryAssumption
<1>3. KeysApart(<<>>)
  BY <1>1 DEF KeysApart
<1> QED  BY <1>1, <1>2, <1>3 DEF MemoryInit, TableInv, RowsBounded

LEMMA TableTypes ==
  ASSUME TableInv
  PROVE  /\ table \in Seq(TableRow) /\ Len(table) \in Nat /\ DOMAIN table = 1..Len(table)
         /\ \A i \in 1..Len(table) : /\ table[i] \in TableRow /\ table[i].key \in Row
                                     /\ table[i].hits \in 0..MaxHits
         /\ writes \in 0..(CleanInterval - 1) /\ opened \in Nat
         /\ CleanInterval \in Nat \ {0} /\ MaxRows \in Nat \ {0} /\ MaxHits \in Nat
<1>1. table \in Seq(TableRow)
  BY DEF TableInv
<1>2. ASSUME NEW i \in 1..Len(table)
      PROVE table[i] \in TableRow /\ table[i].key \in Row /\ table[i].hits \in 0..MaxHits
  <2>1. table[i] \in TableRow
    BY <1>1, ElementOfSeq
  <2> QED  BY <2>1 DEF TableRow
<1> QED  BY <1>1, <1>2, LenProperties, AgentMemoryAssumption DEF TableInv

LEMMA BumpedType == ASSUME NEW n \in 0..MaxHits PROVE Bumped(n) \in 0..MaxHits
<1>1. MaxHits \in Nat
  BY AgentMemoryAssumption
<1> QED  BY <1>1 DEF Bumped

LEMMA RowsWithoutType ==
  ASSUME TableInv, NEW k \in Row
  PROVE  /\ RowsWithout(k) \in Seq(TableRow) /\ KeysApart(RowsWithout(k))
         /\ Len(RowsWithout(k)) \in 0..Len(table)
         /\ \A i \in 1..Len(RowsWithout(k)) : RowsWithout(k)[i].key # k
<1> DEFINE T == {r \in ToSet(table) : r.key # k}
           u == OnlyIn(table, T)
<1>1. u = RowsWithout(k)
  BY DEF RowsWithout
<1>2. table \in Seq(TableRow) /\ Len(table) \in Nat /\ DOMAIN table = 1..Len(table)
  BY TableTypes
<1>3. u \in Seq(TableRow) /\ u \in Seq(TableRow \cap T) /\ Len(u) \in 0..Len(table)
  <2> HIDE DEF T
  <2> QED  BY <1>2, OnlyInType
<1>4. \A i \in 1..Len(u) : u[i].key # k
  <2> SUFFICES ASSUME NEW i \in 1..Len(u) PROVE u[i].key # k
    OBVIOUS
  <2>1. u[i] \in TableRow \cap T
    <3> HIDE DEF T, u
    <3> QED  BY <1>3, ElementOfSeq
  <2> HIDE DEF u
  <2> QED  BY <2>1
<1>5. KeysApart(u)
  <2>1. Len(u) \in Nat
    BY <1>2, <1>3
  <2>2. ASSUME NEW a \in 1..Len(u), NEW b \in 1..Len(u), a < b PROVE u[a].key # u[b].key
    <3> HIDE DEF T
    <3>0. table \in Seq(TableRow)
      BY <1>2
    <3>1. PICK i \in DOMAIN table, j \in DOMAIN table : i < j /\ u[a] = table[i] /\ u[b] = table[j]
      <4>1. a \in 1..Len(OnlyIn(table, T)) /\ b \in 1..Len(OnlyIn(table, T))
        BY <2>2
      <4>2. \E i \in DOMAIN table : \E j \in DOMAIN table :
              i < j /\ OnlyIn(table, T)[a] = table[i] /\ OnlyIn(table, T)[b] = table[j]
        BY <2>2, <3>0, <4>1, OnlyInOrder
      <4> QED  BY <4>2
    <3>2. i # j
      BY <1>2, <3>1
    <3> HIDE DEF u
    <3> QED  BY <1>2, <3>1, <3>2 DEF KeysApart, TableInv
  <2> HIDE DEF u
  <2>3. \A a, b \in 1..Len(u) : a < b \/ b < a \/ a = b
    BY <2>1
  <2>4. \A a, b \in 1..Len(u) : u[a].key = u[b].key => a = b
    BY <2>2, <2>3
  <2> QED  BY <2>4 DEF KeysApart
<1> HIDE DEF u
<1> QED  BY <1>1, <1>3, <1>4, <1>5

LEMMA UpsertedType ==
  ASSUME TableInv, NEW k \in Row
  PROVE  /\ Upserted(k) \in Seq(TableRow) /\ KeysApart(Upserted(k))
         /\ Len(Upserted(k)) \in Nat /\ Len(Upserted(k)) <= Len(table) + 1
<1> DEFINE u == RowsWithout(k)
           n == IF At2(k) = {} THEN 0 ELSE Bumped(table[CHOOSE i \in At2(k) : TRUE].hits)
           r == [key |-> k, hits |-> n]
           t == Append(u, r)
<1>1. u \in Seq(TableRow) /\ KeysApart(u) /\ Len(u) \in 0..Len(table) /\ Len(table) \in Nat
      /\ \A i \in 1..Len(u) : u[i].key # k
  BY RowsWithoutType, TableTypes
<1>2. n \in 0..MaxHits
  <2>1. CASE At2(k) = {}
    BY <2>1, AgentMemoryAssumption
  <2>2. CASE At2(k) # {}
    <3>1. (CHOOSE i \in At2(k) : TRUE) \in At2(k)
      BY <2>2
    <3>2. (CHOOSE i \in At2(k) : TRUE) \in 1..Len(table)
      BY <3>1, TableTypes DEF At2
    <3> QED  BY <2>2, <3>2, TableTypes, BumpedType
  <2> QED  BY <2>1, <2>2
<1>3. Upserted(k) = t
  BY DEF Upserted
<1> HIDE DEF n, u
<1>4. r \in TableRow /\ r.key = k
  BY <1>2 DEF TableRow
<1> HIDE DEF r
<1>5. t \in Seq(TableRow) /\ Len(t) = Len(u) + 1 /\ t[Len(u) + 1] = r
      /\ \A i \in 1..Len(u) : t[i] = u[i]
  BY <1>1, <1>4, AppendProperties
<1> HIDE DEF t
<1>6. KeysApart(t)
  <2> SUFFICES ASSUME NEW i \in 1..Len(t), NEW j \in 1..Len(t), t[i].key = t[j].key PROVE i = j
    BY DEF KeysApart
  <2>1. (i \in 1..Len(u) \/ i = Len(u) + 1) /\ (j \in 1..Len(u) \/ j = Len(u) + 1)
    BY <1>1, <1>5
  <2> QED  BY <1>1, <1>4, <1>5, <2>1 DEF KeysApart
<1> QED  BY <1>1, <1>3, <1>5, <1>6

LEMMA CountOfWrites ==
  ASSUME NEW w \in 0..(CleanInterval - 1), CleanInterval \in Nat \ {0}
  PROVE  /\ (w + 1) % CleanInterval \in 0..(CleanInterval - 1)
         /\ (w + 1) % CleanInterval # 0 => (w + 1) % CleanInterval = w + 1
<1>1. CASE w + 1 = CleanInterval
  <2>1. (w + 1) % CleanInterval = 0
    BY <1>1
  <2> QED  BY <2>1
<1>2. CASE w + 1 # CleanInterval
  <2>1. w + 1 \in 0..(CleanInterval - 1)
    BY <1>2
  <2>2. (w + 1) % CleanInterval = w + 1
    BY <2>1
  <2> QED  BY <2>1, <2>2
<1> QED  BY <1>1, <1>2

LEMMA SaveRowInv == ASSUME TableInv, NEW k \in Row, SaveRow(k) PROVE TableInv'
<1> DEFINE rows == Upserted(k)
           n == (writes + 1) % CleanInterval
<1>1. PICK fails \in IF n = 0 THEN BOOLEAN ELSE {TRUE} :
        /\ table' = (IF fails THEN rows ELSE Cleaned(rows)) /\ writes' = n
        /\ opened' = IF n # 0 THEN opened ELSE IF fails THEN Len(table') ELSE 0
  BY DEF SaveRow
<1>2. rows \in Seq(TableRow) /\ KeysApart(rows) /\ Len(rows) \in Nat /\ Len(rows) <= Len(table) + 1
  BY UpsertedType
<1>3. writes \in 0..(CleanInterval - 1) /\ opened \in Nat /\ CleanInterval \in Nat \ {0}
      /\ MaxRows \in Nat \ {0} /\ Len(table) \in Nat
  BY TableTypes
<1>4. n \in 0..(CleanInterval - 1) /\ (n # 0 => n = writes + 1)
  BY <1>3, CountOfWrites
<1>5. Len(table) <= (IF opened > MaxRows THEN opened ELSE MaxRows) + writes
  BY DEF TableInv, RowsBounded
<1> HIDE DEF n, rows
<1>6. CASE n = 0 /\ fails
  <2>1. table' = rows /\ opened' = Len(rows) /\ writes' = 0
    BY <1>1, <1>6
  <2>2. Len(table') <= (IF opened' > MaxRows THEN opened' ELSE MaxRows) + writes'
    BY <1>2, <1>3, <2>1
  <2> QED  BY <1>2, <1>3, <2>1, <2>2 DEF TableInv, RowsBounded
<1>7. CASE n = 0 /\ ~fails
  <2>1. Cleaned(rows) \in Seq(TableRow) /\ KeysApart(Cleaned(rows)) /\ Len(Cleaned(rows)) <= MaxRows
    BY <1>2, CleanedKeeps
  <2>2. table' = Cleaned(rows) /\ opened' = 0 /\ writes' = 0
    BY <1>1, <1>7
  <2>3. Len(table') <= (IF opened' > MaxRows THEN opened' ELSE MaxRows) + writes'
    BY <1>3, <2>1, <2>2
  <2> QED  BY <1>3, <1>4, <1>7, <2>1, <2>2, <2>3 DEF TableInv, RowsBounded
<1>8. CASE n # 0
  <2>1. table' = rows /\ opened' = opened /\ writes' = writes + 1
    BY <1>1, <1>4, <1>8
  <2>2. Len(table') <= (IF opened' > MaxRows THEN opened' ELSE MaxRows) + writes'
    BY <1>2, <1>3, <1>5, <2>1
  <2>3. writes' \in 0..(CleanInterval - 1)
    BY <1>1, <1>4
  <2> QED  BY <1>2, <1>3, <2>1, <2>2, <2>3 DEF TableInv, RowsBounded
<1> QED  BY <1>6, <1>7, <1>8

LEMMA TableNextInv == ASSUME TableInv, TableNext PROVE TableInv'
<1>0. table \in Seq(TableRow) /\ Len(table) \in Nat /\ writes \in 0..(CleanInterval - 1) /\ opened \in Nat
      /\ CleanInterval \in Nat \ {0} /\ MaxRows \in Nat \ {0} /\ KeysApart(table)
      /\ Len(table) <= (IF opened > MaxRows THEN opened ELSE MaxRows) + writes
  BY TableTypes DEF TableInv, RowsBounded
<1>1. ASSUME NEW k \in Row, LoadRow(k) PROVE TableInv'
  <2>1. PICK i : i = CHOOSE j \in At2(k) : TRUE
    OBVIOUS
  <2>2. At2(k) # {} /\ table' = [table EXCEPT ![i].hits = Bumped(@)] /\ UNCHANGED <<writes, opened>>
    BY <1>1, <2>1 DEF LoadRow
  <2>3. i \in At2(k)
    BY <2>1, <2>2
  <2>4. i \in 1..Len(table)
    BY <2>3, TableTypes DEF At2
  <2> DEFINE r == [table[i] EXCEPT !.hits = Bumped(table[i].hits)]
  <2>5. r \in TableRow /\ r.key = table[i].key
    <3>1. table[i] \in TableRow /\ Bumped(table[i].hits) \in 0..MaxHits
      BY <2>4, TableTypes, BumpedType
    <3> QED  BY <3>1 DEF TableRow
  <2>6. table' = [table EXCEPT ![i] = r]
    BY <2>2
  <2> HIDE DEF r
  <2>7. table' \in Seq(TableRow) /\ Len(table') = Len(table)
        /\ \A j \in 1..Len(table) : table'[j] = IF j = i THEN r ELSE table[j]
    BY <1>0, <2>4, <2>5, <2>6, ExceptSeq
  <2>8. \A j \in 1..Len(table) : table'[j].key = table[j].key
    BY <2>5, <2>7
  <2>9. KeysApart(table')
    BY <1>0, <2>7, <2>8 DEF KeysApart
  <2> QED  BY <1>0, <2>2, <2>7, <2>9 DEF TableInv, RowsBounded
<1>2. ASSUME NEW k \in Row, DeleteRow(k) PROVE TableInv'
  <2>1. table' = RowsWithout(k) /\ UNCHANGED <<writes, opened>>
    BY <1>2 DEF DeleteRow
  <2>2. RowsWithout(k) \in Seq(TableRow) /\ KeysApart(RowsWithout(k)) /\ Len(RowsWithout(k)) \in 0..Len(table)
    BY RowsWithoutType
  <2>3. Len(table') <= (IF opened' > MaxRows THEN opened' ELSE MaxRows) + writes'
    BY <1>0, <2>1, <2>2
  <2> QED  BY <1>0, <2>1, <2>2, <2>3 DEF TableInv, RowsBounded
<1>3. CASE ClearTable
  <2>1. table' = <<>> /\ UNCHANGED <<writes, opened>>
    BY <1>3 DEF ClearTable
  <2>2. <<>> \in Seq(TableRow) /\ Len(<<>>) = 0
    BY EmptySeq
  <2>3. KeysApart(<<>>)
    BY <2>2 DEF KeysApart
  <2> QED  BY <1>0, <2>1, <2>2, <2>3 DEF TableInv, RowsBounded
<1>4. CASE Reopen
  <2>1. writes' = 0 /\ opened' = Len(table) /\ table' = table
    BY <1>4 DEF Reopen
  <2>2. writes' \in 0..(CleanInterval - 1)
    BY <1>0, <2>1
  <2> QED  BY <1>0, <2>1, <2>2 DEF TableInv, RowsBounded
<1> QED  BY <1>1, <1>2, <1>3, <1>4, SaveRowInv DEF TableNext

-----------------------------------------------------------------------------
\* The registers shared between nodes

SharedEntry == [author : MemNode, stamp : 0..MaxStamp, deleted : BOOLEAN]

EntryType == register \in Seq(SharedEntry) /\ held \in [MemNode -> 0..Len(register)] /\ stamp \in 1..MaxStamp

\* Node n holds an entry no older than s.
HoldsSince(n, s) == held[n] # 0 /\ register[held[n]].stamp >= s

\* No entry is from the future, and the author of a live one holds it or a later one.
SharedInv ==
  /\ EntryType
  /\ \A i \in 1..Len(register) : register[i].stamp >= 1 /\ register[i].stamp <= stamp
  /\ \A i \in 1..Len(register) :
       register[i].deleted \/ HoldsSince(register[i].author, register[i].stamp)

LEMMA SharedInitInv == ASSUME MemoryInit PROVE SharedInv
<1>1. <<>> \in Seq(SharedEntry) /\ Len(<<>>) = 0 /\ MaxStamp \in Nat \ {0}
  BY EmptySeq, AgentMemoryAssumption
<1>2. register = <<>> /\ held = [n \in MemNode |-> 0] /\ stamp = 1
  BY DEF MemoryInit
<1>3. held \in [MemNode -> 0..Len(register)] /\ stamp \in 1..MaxStamp
  BY <1>1, <1>2
<1> QED  BY <1>1, <1>2, <1>3 DEF SharedInv, EntryType

LEMMA EntryFields ==
  ASSUME SharedInv
  PROVE  /\ Len(register) \in Nat /\ DOMAIN register = 1..Len(register) /\ stamp \in Nat
         /\ \A n \in MemNode : held[n] \in 0..Len(register)
         /\ \A i \in 1..Len(register) :
              /\ register[i] \in SharedEntry /\ register[i].author \in MemNode
              /\ register[i].stamp \in Nat /\ register[i].stamp \in 0..MaxStamp
              /\ register[i].stamp >= 1 /\ register[i].stamp <= stamp
              /\ register[i].deleted \in BOOLEAN
<1>0. register \in Seq(SharedEntry) /\ held \in [MemNode -> 0..Len(register)] /\ stamp \in 1..MaxStamp
      /\ MaxStamp \in Nat
  BY AgentMemoryAssumption DEF SharedInv, EntryType
<1>1. ASSUME NEW i \in 1..Len(register)
      PROVE  /\ register[i] \in SharedEntry /\ register[i].author \in MemNode
             /\ register[i].stamp \in 0..MaxStamp /\ register[i].deleted \in BOOLEAN
  <2>1. register[i] \in SharedEntry
    BY <1>0, ElementOfSeq
  <2> QED  BY <2>1 DEF SharedEntry
<1>2. \A i \in 1..Len(register) : register[i].stamp \in Nat
  BY <1>0, <1>1
<1>3. \A i \in 1..Len(register) : register[i].stamp >= 1 /\ register[i].stamp <= stamp
  BY DEF SharedInv
<1>4. Len(register) \in Nat /\ DOMAIN register = 1..Len(register)
  BY <1>0, LenProperties
<1> QED  BY <1>0, <1>1, <1>2, <1>3, <1>4

LEMMA SetSharedInv == ASSUME SharedInv, NEW n \in MemNode, SetShared(n) PROVE SharedInv'
<1> DEFINE new == [author |-> n, stamp |-> stamp, deleted |-> FALSE]
           l == Len(register)
<1>1. \/ UNCHANGED <<register, held, stamp>>
      \/ register' = Append(register, new) /\ held' = [held EXCEPT ![n] = l + 1] /\ stamp' = stamp
  BY DEF SetShared
<1>2. CASE UNCHANGED <<register, held, stamp>>
  BY <1>2 DEF SharedInv, EntryType, HoldsSince
<1>3. CASE register' = Append(register, new) /\ held' = [held EXCEPT ![n] = l + 1] /\ stamp' = stamp
  <2>0. register \in Seq(SharedEntry) /\ l \in Nat /\ held \in [MemNode -> 0..l] /\ stamp \in 1..MaxStamp
        /\ stamp \in Nat /\ MaxStamp \in Nat
    BY EntryFields, AgentMemoryAssumption DEF SharedInv, EntryType
  <2>1. new \in SharedEntry /\ new.author = n /\ new.stamp = stamp /\ new.deleted = FALSE
    <3>1. stamp \in 0..MaxStamp
      BY <2>0
    <3> QED  BY <3>1 DEF SharedEntry
  <2> HIDE DEF new
  <2>2. register' \in Seq(SharedEntry) /\ Len(register') = l + 1 /\ register'[l + 1] = new
        /\ \A i \in 1..l : register'[i] = register[i]
    BY <1>3, <2>0, <2>1, AppendProperties
  <2>3. held' \in [MemNode -> 0..(l + 1)] /\ held'[n] = l + 1
        /\ \A m \in MemNode : m # n => held'[m] = held[m]
    BY <1>3, <2>0
  <2>4. ASSUME NEW s \in Nat, s <= stamp,
               NEW m \in MemNode, m = n \/ HoldsSince(m, s)
        PROVE  HoldsSince(m, s)'
    <3>1. CASE m = n
      <4>1. held'[n] # 0 /\ register'[held'[n]].stamp = stamp
        BY <2>0, <2>1, <2>2, <2>3
      <4> QED  BY <2>0, <2>4, <3>1, <4>1 DEF HoldsSince
    <3>2. CASE m # n
      <4>1. held'[m] = held[m] /\ held[m] # 0 /\ register[held[m]].stamp >= s /\ held[m] \in 1..l
        BY <2>0, <2>3, <2>4, <3>2 DEF HoldsSince
      <4> QED  BY <2>2, <4>1 DEF HoldsSince
    <3> QED  BY <3>1, <3>2
  <2>5. ASSUME NEW i \in 1..(l + 1)
        PROVE  /\ register'[i].stamp >= 1 /\ register'[i].stamp <= stamp
               /\ (register[i].deleted \/ HoldsSince(register[i].author, register[i].stamp))'
    <3>1. CASE i = l + 1
      <4>1. register'[i] = new /\ held'[n] = l + 1 /\ register'[l + 1] = new /\ l + 1 # 0
        BY <2>0, <2>2, <2>3, <3>1
      <4>2. held'[n] # 0 /\ register'[held'[n]].stamp >= register'[i].stamp
            /\ register'[i].author = n
        BY <2>0, <2>1, <4>1
      <4>3. HoldsSince(register[i].author, register[i].stamp)'
        BY <4>2 DEF HoldsSince
      <4> QED  BY <2>0, <2>1, <4>1, <4>3
    <3>2. CASE i \in 1..l
      <4>1. register'[i] = register[i] /\ register[i].stamp \in Nat /\ register[i].stamp >= 1
            /\ register[i].stamp <= stamp /\ register[i].author \in MemNode
        BY <2>2, <3>2, EntryFields
      <4>2. register[i].deleted \/ HoldsSince(register[i].author, register[i].stamp)
        BY <3>2 DEF SharedInv
      <4>3. PICK s, a : s = register[i].stamp /\ a = register[i].author
        OBVIOUS
      <4>4. HoldsSince(a, s) => HoldsSince(a, s)'
        BY <2>4, <4>1, <4>3
      <4> QED  BY <4>1, <4>2, <4>3, <4>4 DEF HoldsSince
    <3> QED  BY <2>0, <3>1, <3>2
  <2> HIDE DEF l
  <2> QED  BY <1>3, <2>0, <2>2, <2>3, <2>5 DEF SharedInv, EntryType
<1> QED  BY <1>1, <1>2, <1>3

LEMMA DeleteSharedInv == ASSUME SharedInv, NEW n \in MemNode, DeleteShared(n) PROVE SharedInv'
<1> DEFINE l == Len(register)
           h == held[n]
           r == [register[h] EXCEPT !.deleted = TRUE, !.stamp = stamp]
<1>0. register \in Seq(SharedEntry) /\ l \in Nat /\ held \in [MemNode -> 0..l] /\ stamp \in 1..MaxStamp
      /\ stamp \in Nat /\ MaxStamp \in Nat
  BY EntryFields, AgentMemoryAssumption DEF SharedInv, EntryType
<1>1. h \in 1..l /\ register' = [register EXCEPT ![h].deleted = TRUE, ![h].stamp = stamp]
      /\ held' = held /\ stamp' = stamp
  BY <1>0 DEF DeleteShared
<1>2. register[h] \in SharedEntry
  BY <1>1, EntryFields
<1>3. r \in SharedEntry /\ r.deleted = TRUE /\ r.stamp = stamp
  <2>1. stamp \in 0..MaxStamp
    BY <1>0
  <2> QED  BY <1>2, <2>1 DEF SharedEntry
<1>4. register' = [register EXCEPT ![h] = r]
  BY <1>1
<1> HIDE DEF r, h, l
<1>5. register' \in Seq(SharedEntry) /\ Len(register') = l
      /\ \A i \in 1..l : register'[i] = IF i = h THEN r ELSE register[i]
  <2>1. h \in 1..Len(register)
    BY <1>1 DEF l
  <2>2. [register EXCEPT ![h] = r] \in Seq(SharedEntry) /\ Len([register EXCEPT ![h] = r]) = Len(register)
        /\ \A i \in 1..Len(register) : [register EXCEPT ![h] = r][i] = IF i = h THEN r ELSE register[i]
    BY <1>0, <1>3, <2>1, ExceptSeq
  <2> QED  BY <1>4, <2>2 DEF l
<1>6. ASSUME NEW m \in MemNode, NEW s \in Nat, s <= stamp, HoldsSince(m, s) PROVE HoldsSince(m, s)'
  <2>1. held[m] \in 1..l /\ register[held[m]].stamp >= s
    BY <1>0, <1>6 DEF HoldsSince
  <2>2. register'[held[m]].stamp >= s
    BY <1>0, <1>3, <1>5, <1>6, <2>1
  <2> QED  BY <1>0, <1>1, <2>1, <2>2 DEF HoldsSince
<1>7. ASSUME NEW i \in 1..l
      PROVE  /\ register'[i].stamp >= 1 /\ register'[i].stamp <= stamp
             /\ (register[i].deleted \/ HoldsSince(register[i].author, register[i].stamp))'
  <2>1. CASE i = h
    BY <1>0, <1>3, <1>5, <2>1
  <2>2. CASE i # h
    <3>1. register'[i] = register[i] /\ register[i].stamp \in Nat /\ register[i].stamp >= 1
          /\ register[i].stamp <= stamp /\ register[i].author \in MemNode
      BY <1>5, <2>2, EntryFields DEF l
    <3>2. register[i].deleted \/ HoldsSince(register[i].author, register[i].stamp)
      BY DEF SharedInv, l
    <3>3. PICK s, a : s = register[i].stamp /\ a = register[i].author
      OBVIOUS
    <3>4. HoldsSince(a, s) => HoldsSince(a, s)'
      BY <1>6, <3>1, <3>3
    <3> QED  BY <3>1, <3>2, <3>3, <3>4 DEF HoldsSince
  <2> QED  BY <2>1, <2>2
<1> QED  BY <1>0, <1>1, <1>5, <1>7 DEF SharedInv, EntryType

\* What a node holds after it pulled is what it held, or something later of the other's.
LEMMA MergedIs ==
  ASSUME SharedInv, NEW m \in MemNode, NEW n \in MemNode, NEW since
  PROVE  /\ Merged(m, n, since) \in {held[n], held[m]}
         /\ held[n] # 0 => /\ Merged(m, n, since) # 0
                           /\ register[Merged(m, n, since)].stamp >= register[held[n]].stamp
<1>1. held[n] \in 0..Len(register) /\ held[m] \in 0..Len(register)
  BY EntryFields
<1>2. held[n] # 0 => held[n] \in 1..Len(register) /\ register[held[n]].stamp \in Nat
  BY <1>1, EntryFields
<1>3. held[m] # 0 => held[m] \in 1..Len(register) /\ register[held[m]].stamp \in Nat
  BY <1>1, EntryFields
<1>4. CASE ~Offered(m, n, since)
  BY <1>2, <1>4 DEF Merged
<1>5. CASE Offered(m, n, since)
  <2>1. held[m] # 0
    BY <1>5 DEF Offered
  <2> QED  BY <1>2, <1>3, <1>5, <2>1 DEF Merged, LaterOf
<1> QED  BY <1>4, <1>5

LEMMA PullInv ==
  ASSUME SharedInv, NEW m \in MemNode, NEW n \in MemNode, NEW since, Pull(m, n, since)
  PROVE  SharedInv'
<1>1. PICK x : x = Merged(m, n, since)
  OBVIOUS
<1>2. held' = [held EXCEPT ![n] = x] /\ register' = register /\ stamp' = stamp
  BY <1>1 DEF Pull
<1>3. x \in {held[n], held[m]}
      /\ (held[n] # 0 => x # 0 /\ register[x].stamp >= register[held[n]].stamp)
  BY <1>1, MergedIs
<1>4. register \in Seq(SharedEntry) /\ held \in [MemNode -> 0..Len(register)] /\ stamp \in 1..MaxStamp
      /\ Len(register) \in Nat
  BY EntryFields DEF SharedInv, EntryType
<1>5. x \in 0..Len(register) /\ held' \in [MemNode -> 0..Len(register)]
  BY <1>2, <1>3, <1>4
<1>6. ASSUME NEW a \in MemNode, NEW s \in Nat, HoldsSince(a, s) PROVE HoldsSince(a, s)'
  <2>1. CASE a # n
    BY <1>2, <1>4, <1>6, <2>1 DEF HoldsSince
  <2>2. CASE a = n
    <3>1. held[n] # 0 /\ register[held[n]].stamp >= s /\ held'[n] = x
      BY <1>2, <1>4, <1>6, <2>2 DEF HoldsSince
    <3>2. x \in 1..Len(register) /\ held[n] \in 1..Len(register)
      BY <1>3, <1>4, <1>5, <3>1
    <3>3. register[x].stamp \in Nat /\ register[held[n]].stamp \in Nat
      BY <3>2, EntryFields
    <3> QED  BY <1>2, <1>3, <2>2, <3>1, <3>2, <3>3 DEF HoldsSince
  <2> QED  BY <2>1, <2>2
<1>7. ASSUME NEW i \in 1..Len(register)
      PROVE  register[i].deleted \/ HoldsSince(register[i].author, register[i].stamp)'
  <2>1. register[i].author \in MemNode /\ register[i].stamp \in Nat
    BY EntryFields
  <2>2. register[i].deleted \/ HoldsSince(register[i].author, register[i].stamp)
    BY DEF SharedInv
  <2>3. PICK s, a : s = register[i].stamp /\ a = register[i].author
    OBVIOUS
  <2>4. HoldsSince(a, s) => HoldsSince(a, s)'
    BY <1>6, <2>1, <2>3
  <2> QED  BY <1>2, <2>2, <2>3, <2>4 DEF HoldsSince
<1>8. EntryType'
  BY <1>2, <1>4, <1>5 DEF EntryType
<1>9. \A i \in 1..Len(register) : register[i].stamp >= 1 /\ register[i].stamp <= stamp
  BY DEF SharedInv
<1> QED  BY <1>2, <1>7, <1>8, <1>9 DEF SharedInv, HoldsSince

LEMMA SharedNextInv == ASSUME SharedInv, SharedNext PROVE SharedInv'
<1>1. CASE StampTicks
  <2>1. stamp < MaxStamp /\ stamp' = stamp + 1 /\ UNCHANGED <<register, held>>
    BY <1>1 DEF StampTicks
  <2>2. stamp \in 1..MaxStamp /\ MaxStamp \in Nat /\ EntryType
    BY AgentMemoryAssumption DEF SharedInv, EntryType
  <2>3. EntryType'
    BY <2>1, <2>2 DEF EntryType
  <2>4. \A i \in 1..Len(register) : register[i].stamp >= 1 /\ register[i].stamp <= stamp'
    <3> SUFFICES ASSUME NEW i \in 1..Len(register) PROVE register[i].stamp >= 1 /\ register[i].stamp <= stamp'
      OBVIOUS
    <3>1. register[i].stamp \in Nat /\ register[i].stamp >= 1 /\ register[i].stamp <= stamp
      BY EntryFields
    <3> QED  BY <2>1, <2>2, <3>1
  <2> QED  BY <2>1, <2>3, <2>4 DEF SharedInv, HoldsSince
<1> QED  BY <1>1, SetSharedInv, DeleteSharedInv, PullInv DEF SharedNext

\* An author that holds its own entry or a later one misses nothing it is not offered.
LEMMA ExchangeHolds == ASSUME SharedInv PROVE ExchangeAgrees
<1> SUFFICES ASSUME NEW m \in MemNode, NEW n \in MemNode, held[m] # 0, held[n] # 0,
                    ~register[held[m]].deleted, ~register[held[n]].deleted,
                    register[held[m]].stamp # register[held[n]].stamp
             PROVE  Merged(m, n, 0) = Merged(n, m, 0)
  BY DEF ExchangeAgrees
<1>1. ASSUME NEW a \in MemNode, NEW b \in MemNode, held[a] # 0, held[b] # 0,
             ~register[held[a]].deleted, ~register[held[b]].deleted,
             register[held[a]].stamp < register[held[b]].stamp
      PROVE  Merged(a, b, 0) = held[b] /\ Merged(b, a, 0) = held[b]
  <2>1. held[a] \in 1..Len(register) /\ held[b] \in 1..Len(register)
    BY <1>1, EntryFields
  <2>2. register[held[a]].stamp \in Nat /\ register[held[b]].stamp \in Nat
        /\ register[held[b]].stamp >= 1
    BY <2>1, EntryFields
  <2>3. register[held[b]].author # a
    <3> SUFFICES ASSUME register[held[b]].author = a PROVE FALSE
      OBVIOUS
    <3>1. HoldsSince(a, register[held[b]].stamp)
      BY <1>1, <2>1 DEF SharedInv
    <3>2. register[held[a]].stamp >= register[held[b]].stamp
      BY <3>1 DEF HoldsSince
    <3> QED  BY <1>1, <2>2, <3>2
  <2>4. Offered(b, a, 0)
    BY <1>1, <2>2, <2>3 DEF Offered
  <2>5. LaterOf(held[a], held[b]) = held[b] /\ LaterOf(held[b], held[a]) = held[b]
    BY <1>1, <2>2 DEF LaterOf
  <2> QED  BY <1>1, <2>4, <2>5 DEF Merged
<1>2. register[held[m]].stamp < register[held[n]].stamp \/ register[held[n]].stamp < register[held[m]].stamp
  <2>1. held[m] \in 1..Len(register) /\ held[n] \in 1..Len(register)
    BY EntryFields
  <2>2. register[held[m]].stamp \in Nat /\ register[held[n]].stamp \in Nat
    BY <2>1, EntryFields
  <2> QED  BY <2>2
<1> QED  BY <1>1, <1>2

\* All three of them
MemoryInv == FactsInv /\ TableInv /\ SharedInv

LEMMA MemoryInitInv == ASSUME MemoryInit PROVE MemoryInv
  BY FactsInitInv, TableInitInv, SharedInitInv DEF MemoryInv

LEMMA MemoryHolds ==
  ASSUME MemoryInv
  PROVE  MemoryTypeOK /\ TagsFollowStore /\ RowsBounded /\ ExchangeAgrees
<1>1. stamp \in 0..MaxStamp
  <2>1. stamp \in 1..MaxStamp
    BY DEF MemoryInv, SharedInv, EntryType
  <2> QED  BY <2>1
<1>2. TagsFollowStore /\ RowsBounded /\ ExchangeAgrees
  BY ExchangeHolds DEF MemoryInv, FactsInv, TableInv
<1>3. MemoryTypeOK
  BY <1>1, Zenon DEF MemoryTypeOK, MemoryInv, FactsInv, TableInv, SharedInv, EntryType, TableRow, SharedEntry
<1> QED  BY <1>2, <1>3

LEMMA FactsRests == ASSUME FactsInv, UNCHANGED factVars PROVE FactsInv'
  BY DEF FactsInv, TagsFollowStore, factVars

LEMMA TableRests == ASSUME TableInv, UNCHANGED tableVars PROVE TableInv'
  BY DEF TableInv, RowsBounded, tableVars

LEMMA SharedRests == ASSUME SharedInv, UNCHANGED sharedVars PROVE SharedInv'
  BY DEF SharedInv, EntryType, HoldsSince, sharedVars

-----------------------------------------------------------------------------
\* The alerts

\* Posts are made for slots, one for each unless slots need not be apart at all.
PostsOfSlots ==
  /\ posting \subseteq Channel \X Nat \X Nat /\ posts \subseteq Channel \X Nat \X Nat \X Nat
  /\ \A a \in posts : a[4] >= a[3]
  /\ PostInterval > 0 =>
       /\ \A a \in posts : SlotOf(a) \notin posting
       /\ \A a, b \in posts : SlotOf(a) = SlotOf(b) => a = b

\* A slot is never later than what its channel remembers, and what a channel
\* remembers is the time of a slot.
AlertsInv ==
  /\ AlertsTypeOK
  /\ time \in Nat /\ time >= Start
  /\ dedup \in [Title -> Nat] /\ lastSent \in [Channel -> Nat]
  /\ history \in Seq([title : Title, at : Nat])
  /\ \A i \in DOMAIN history : history[i].at <= time
  /\ Slots \subseteq Channel \X Nat \X Nat
  /\ \A a \in Slots : a[3] <= lastSent[a[1]]
  /\ \A c \in Channel : lastSent[c] # Never => \E a \in Slots : a[1] = c /\ a[3] = lastSent[c]
  /\ PostsOfSlots /\ SlotsSpaced /\ ChannelHeard

LEMMA StartIsLate == Start \in Nat /\ Start > PostInterval /\ Start > Window /\ Start > Never
  BY AlertsAssumption DEF Start, Never

LEMMA AlertsInitInv == ASSUME AlertsInit PROVE AlertsInv
<1>1. history \in Seq([title : Title, at : Nat]) /\ DOMAIN history = {}
  BY DEF AlertsInit
<1>2. dedup \in [Title -> Nat] /\ lastSent \in [Channel -> Nat] /\ (\A t \in Title : dedup[t] = Never)
      /\ \A c \in Channel : lastSent[c] = Never
  BY DEF AlertsInit, Never
<1>3. time \in Nat /\ time >= Start /\ delivering = {} /\ posting = {} /\ posts = {}
      /\ Slots = {}
  BY StartIsLate DEF AlertsInit, Slots
<1>4. AlertsTypeOK
  <2>1. \A t \in Title : dedup[t] \in {Never} \cup Start..time
    BY <1>2, Zenon
  <2>2. \A c \in Channel : lastSent[c] \in {Never} \cup Start..time
    <3> SUFFICES ASSUME NEW c \in Channel PROVE lastSent[c] \in {Never} \cup Start..time
      OBVIOUS
    <3>1. lastSent[c] = Never
      BY <1>2
    <3> QED  BY <3>1, Zenon
  <2>3. delivering \subseteq Channel \X DOMAIN history
    BY <1>3
  <2> QED  BY <2>1, <2>2, <2>3 DEF AlertsTypeOK
<1>5. SlotsSpaced
  BY <1>3 DEF SlotsSpaced
<1>6. ChannelHeard
  BY <1>1 DEF ChannelHeard
<1>7. Slots \subseteq Channel \X Nat \X Nat
  BY <1>3
<1>8. /\ \A i \in DOMAIN history : history[i].at <= time
      /\ \A a \in Slots : a[3] <= lastSent[a[1]]
      /\ \A c \in Channel : lastSent[c] # Never => \E a \in Slots : a[1] = c /\ a[3] = lastSent[c]
  <2>1. \A c \in Channel : lastSent[c] = Never
    BY <1>2
  <2>2. \A i \in DOMAIN history : history[i].at <= time
    BY <1>1
  <2>3. \A a \in Slots : a[3] <= lastSent[a[1]]
    BY <1>3
  <2> QED  BY <2>1, <2>2, <2>3
<1>9. PostsOfSlots
  BY <1>3 DEF PostsOfSlots
<1> QED  BY <1>1, <1>2, <1>3, <1>4, <1>5, <1>6, <1>7, <1>8, <1>9, Zenon DEF AlertsInv

LEMMA AlertTimeInv == ASSUME AlertsInv, AlertTime PROVE AlertsInv'
<1>1. time' = time + 1 /\ UNCHANGED <<dedup, history, delivering, lastSent, posting, posts, Slots>>
  BY DEF AlertTime, Slots
<1>2. time' \in Nat /\ time' >= Start /\ time \in Nat
  BY <1>1, StartIsLate DEF AlertsInv
<1>3. \A t \in Start..time : t \in Start..time'
  BY <1>1, <1>2, StartIsLate
<1>4. AlertsTypeOK'
  BY <1>1, <1>3 DEF AlertsInv, AlertsTypeOK
<1>5. \A i \in DOMAIN history : history[i].at <= time'
  <2>1. \A i \in DOMAIN history : history[i].at \in Nat /\ history[i].at <= time
    <3>1. \A i \in DOMAIN history : history[i] \in [title : Title, at : Nat]
      <4>1. history \in Seq([title : Title, at : Nat])
        BY DEF AlertsInv
      <4>2. DOMAIN history = 1..Len(history)
        BY <4>1, LenProperties
      <4> QED  BY <4>1, <4>2, ElementOfSeq
    <3> QED  BY <3>1 DEF AlertsInv
  <2> QED  BY <1>1, <1>2, <2>1
<1>6. SlotsSpaced' /\ ChannelHeard'
  BY <1>1 DEF AlertsInv, SlotsSpaced, ChannelHeard
<1>7. PostsOfSlots'
  BY <1>1 DEF AlertsInv, PostsOfSlots
<1> QED  BY <1>1, <1>2, <1>4, <1>5, <1>6, <1>7 DEF AlertsInv

LEMMA SendAlertInv == ASSUME AlertsInv, NEW t \in Title, SendAlert(t) PROVE AlertsInv'
<1>1. UNCHANGED <<time, lastSent, posting, posts, Slots>>
  BY DEF SendAlert, Slots
<1>2. PostsOfSlots'
  BY <1>1 DEF AlertsInv, PostsOfSlots
<1>3. CASE Suppressed(t)
  <2>1. UNCHANGED <<dedup, history, delivering>>
    BY <1>3 DEF SendAlert
  <2>2. AlertsTypeOK' /\ SlotsSpaced' /\ ChannelHeard'
    BY <1>1, <2>1 DEF AlertsInv, AlertsTypeOK, SlotsSpaced, ChannelHeard
  <2> QED  BY <1>1, <1>2, <2>1, <2>2 DEF AlertsInv
<1>4. CASE ~Suppressed(t)
  <2> DEFINE n == Len(history) + 1
             e == [title |-> t, at |-> time]
  <2>1. dedup' = [dedup EXCEPT ![t] = time] /\ history' = Append(history, e)
        /\ delivering' = delivering \cup (Channel \X {Len(history')})
    BY <1>4 DEF SendAlert
  <2>2. time \in Nat /\ time >= Start /\ dedup \in [Title -> Nat]
        /\ history \in Seq([title : Title, at : Nat])
    BY DEF AlertsInv
  <2>3. history' \in Seq([title : Title, at : Nat]) /\ Len(history') = n
        /\ DOMAIN history' = 1..n /\ history'[n] = e /\ Len(history) \in Nat
        /\ DOMAIN history = 1..Len(history)
        /\ \A i \in 1..Len(history) : history'[i] = history[i]
    BY <2>1, <2>2
  <2>4. dedup' \in [Title -> Nat] /\ \A u \in Title : dedup'[u] \in {dedup[u], time}
    BY <2>1, <2>2
  <2>5. \A u \in Title : dedup'[u] \in {Never} \cup Start..time
    <3>1. time \in Start..time
      BY <2>2, StartIsLate
    <3> QED  BY <2>4, <3>1 DEF AlertsInv, AlertsTypeOK
  <2>6. delivering' \subseteq Channel \X DOMAIN history'
    <3>1. delivering \subseteq Channel \X DOMAIN history
      BY DEF AlertsInv, AlertsTypeOK
    <3>2. DOMAIN history \subseteq DOMAIN history' /\ n \in DOMAIN history'
      BY <2>3
    <3> QED  BY <2>1, <2>3, <3>1, <3>2
  <2>7. AlertsTypeOK'
    BY <1>1, <2>5, <2>6 DEF AlertsInv, AlertsTypeOK
  <2>8. \A i \in DOMAIN history' : history'[i].at <= time'
    <3>1. \A i \in 1..Len(history) : history[i].at <= time
      BY <2>3 DEF AlertsInv
    <3>2. \A i \in 1..n : i \in 1..Len(history) \/ i = n
      BY <2>3
    <3>3. e.at <= time
      BY <2>2
    <3> HIDE DEF e, n
    <3> QED  BY <1>1, <2>3, <3>1, <3>2, <3>3
  <2>9. SlotsSpaced'
    BY <1>1 DEF AlertsInv, SlotsSpaced
  <2>10. ChannelHeard'
    <3> SUFFICES ASSUME NEW i \in DOMAIN history', NEW c \in Channel
        PROVE  \/ <<c, i>> \in delivering'
               \/ \E a \in Slots' :
                    a[1] = c /\ (a[3] >= history'[i].at \/ a[3] + PostInterval > history'[i].at)
      BY DEF ChannelHeard
    <3>1. CASE i = n
      BY <2>1, <2>3, <3>1
    <3>2. CASE i \in 1..Len(history)
      <4>1. history'[i] = history[i]
        BY <2>3, <3>2
      <4> HIDE DEF e, n
      <4> QED  BY <1>1, <2>1, <2>3, <3>2, <4>1 DEF AlertsInv, ChannelHeard
    <3> QED  BY <2>3, <3>1, <3>2
  <2> QED  BY <1>1, <1>2, <2>2, <2>3, <2>4, <2>7, <2>8, <2>9, <2>10 DEF AlertsInv
<1> QED  BY <1>3, <1>4

LEMMA DeliverInv ==
  ASSUME AlertsInv, NEW c \in Channel, NEW i \in DOMAIN history, Deliver(c, i)
  PROVE  AlertsInv'
<1>1. UNCHANGED <<time, dedup, history, posts>> /\ delivering' = delivering \ {<<c, i>>}
  BY DEF Deliver
<1>2. time \in Nat /\ time >= Start /\ lastSent \in [Channel -> Nat] /\ i \in Nat
      /\ Slots \subseteq Channel \X Nat \X Nat /\ history[i].at \in Nat /\ history[i].at <= time
      /\ lastSent[c] \in Nat
  <2>1. history \in Seq([title : Title, at : Nat]) /\ DOMAIN history = 1..Len(history)
    BY LenProperties DEF AlertsInv
  <2>2. history[i] \in [title : Title, at : Nat] /\ i \in Nat
    <3>1. i \in 1..Len(history) /\ Len(history) \in Nat
      BY <2>1, LenProperties
    <3>2. history[i] \in [title : Title, at : Nat]
      BY <2>1, <3>1, ElementOfSeq
    <3>3. i \in Nat
      BY <3>1
    <3> QED  BY <3>2, <3>3
  <2> QED  BY <2>2 DEF AlertsInv
<1>3. delivering' \subseteq Channel \X DOMAIN history'
  BY <1>1 DEF AlertsInv, AlertsTypeOK
<1>4. CASE SlotFree(c)
  <2> DEFINE p == <<c, i, time>>
  <2>1. lastSent' = [lastSent EXCEPT ![c] = time] /\ posting' = posting \cup {p}
        /\ Slots' = Slots \cup {p}
    BY <1>1, <1>4 DEF Deliver, SlotTaken, Slots
  <2>2. p \in Channel \X Nat \X Nat /\ p[1] = c /\ p[3] = time
    BY <1>2
  <2>3. lastSent' \in [Channel -> Nat] /\ lastSent'[c] = time
        /\ \A d \in Channel : d # c => lastSent'[d] = lastSent[d]
    BY <1>2, <2>1
  <2> HIDE DEF p
  <2>4. time - lastSent[c] >= PostInterval
    BY <1>4 DEF SlotFree
  <2>5. \A d \in Channel : lastSent'[d] \in {Never} \cup Start..time'
    <3>1. time \in Start..time
      BY <1>2, StartIsLate
    <3> QED  BY <1>1, <2>3, <3>1 DEF AlertsInv, AlertsTypeOK
  <2>6. AlertsTypeOK'
    BY <1>1, <1>3, <2>5 DEF AlertsInv, AlertsTypeOK
  <2>7. \A a \in Slots : a[1] \in Channel /\ a[3] \in Nat /\ a[3] <= lastSent[a[1]]
    BY DEF AlertsInv
  <2>8. lastSent[c] <= time
    BY <1>2, <2>4, AlertsAssumption
  <2>9. \A a \in Slots' : a[3] <= lastSent'[a[1]]
    <3>1. \A a \in Slots : a[3] <= lastSent'[a[1]]
      <4> SUFFICES ASSUME NEW a \in Slots PROVE a[3] <= lastSent'[a[1]]
        OBVIOUS
      <4>1. CASE a[1] = c
        BY <1>2, <2>3, <2>7, <2>8, <4>1
      <4>2. CASE a[1] # c
        BY <2>3, <2>7, <4>2
      <4> QED  BY <4>1, <4>2
    <3>2. p[3] <= lastSent'[p[1]]
      BY <1>2, <2>2, <2>3
    <3> QED  BY <2>1, <3>1, <3>2
  <2>10. \A d \in Channel : lastSent'[d] # Never => \E a \in Slots' : a[1] = d /\ a[3] = lastSent'[d]
    BY <2>1, <2>2, <2>3 DEF AlertsInv
  <2>11. \A b \in Slots : b[1] = c => time - b[3] >= PostInterval
    <3> SUFFICES ASSUME NEW b \in Slots, b[1] = c PROVE time - b[3] >= PostInterval
      OBVIOUS
    <3>1. b[3] \in Nat /\ b[3] <= lastSent[c]
      BY <2>7
    <3> QED  BY <1>2, <2>4, <3>1, AlertsAssumption
  <2>12. SlotsSpaced'
    <3> SUFFICES ASSUME NEW a \in Slots', NEW b \in Slots', a # b, a[1] = b[1]
        PROVE  a[3] - b[3] >= PostInterval \/ b[3] - a[3] >= PostInterval
      BY DEF SlotsSpaced
    <3>1. CASE a = p
      BY <2>1, <2>2, <2>11, <3>1
    <3>2. CASE b = p
      BY <2>1, <2>2, <2>11, <3>2
    <3>3. CASE a # p /\ b # p
      BY <2>1, <3>3 DEF AlertsInv, SlotsSpaced
    <3> QED  BY <3>1, <3>2, <3>3
  <2>13. ChannelHeard'
    <3> SUFFICES ASSUME NEW j \in DOMAIN history, NEW d \in Channel
        PROVE  \/ <<d, j>> \in delivering'
               \/ \E a \in Slots' :
                    a[1] = d /\ (a[3] >= history[j].at \/ a[3] + PostInterval > history[j].at)
      BY <1>1 DEF ChannelHeard
    <3>1. CASE d = c /\ j = i
      BY <1>2, <2>1, <2>2, <3>1
    <3>2. CASE d # c \/ j # i
      <4>1. <<d, j>> # <<c, i>>
        BY <3>2
      <4> QED  BY <1>1, <2>1, <4>1 DEF AlertsInv, ChannelHeard
    <3> QED  BY <3>1, <3>2
  <2>14. Slots' \subseteq Channel \X Nat \X Nat
    BY <1>2, <2>1, <2>2
  <2>15. PostsOfSlots'
    <3>1. posting' \subseteq Channel \X Nat \X Nat
      BY <2>1, <2>2 DEF AlertsInv, PostsOfSlots
    <3>2. ASSUME PostInterval > 0, NEW a \in posts PROVE SlotOf(a) # p
      <4>1. SlotOf(a) \in Slots
        BY DEF Slots
      <4>2. SlotOf(a)[1] = c => time - SlotOf(a)[3] >= PostInterval
        BY <2>11, <4>1
      <4>3. ~(time - time >= PostInterval)
        BY <1>2, <3>2, AlertsAssumption
      <4> QED  BY <2>2, <4>2, <4>3
    <3> QED  BY <1>1, <2>1, <3>1, <3>2 DEF AlertsInv, PostsOfSlots
  <2> QED  BY <1>1, <2>3, <2>6, <2>9, <2>10, <2>12, <2>13, <2>14, <2>15 DEF AlertsInv
<1>5. CASE ~SlotFree(c)
  <2>1. UNCHANGED <<lastSent, posting, Slots>>
    BY <1>1, <1>5 DEF Deliver, SlotTaken, Slots
  <2>2. AlertsTypeOK'
    BY <1>1, <1>3, <2>1 DEF AlertsInv, AlertsTypeOK
  <2>3. SlotsSpaced'
    BY <2>1 DEF AlertsInv, SlotsSpaced
  <2>4. time - lastSent[c] < PostInterval
    BY <1>2, <1>5, AlertsAssumption DEF SlotFree
  <2>5. lastSent[c] # Never
    BY <1>2, <2>4, StartIsLate, AlertsAssumption DEF Never
  <2>6. PICK a \in Slots : a[1] = c /\ a[3] = lastSent[c]
    BY <2>5 DEF AlertsInv
  <2>7. a[3] + PostInterval > history[i].at
    BY <1>2, <2>4, <2>6, AlertsAssumption
  <2>8. ChannelHeard'
    <3> SUFFICES ASSUME NEW j \in DOMAIN history, NEW d \in Channel
        PROVE  \/ <<d, j>> \in delivering'
               \/ \E b \in Slots :
                    b[1] = d /\ (b[3] >= history[j].at \/ b[3] + PostInterval > history[j].at)
      BY <1>1, <2>1 DEF ChannelHeard
    <3>1. CASE d = c /\ j = i
      BY <2>6, <2>7, <3>1
    <3>2. CASE d # c \/ j # i
      <4>1. <<d, j>> # <<c, i>>
        BY <3>2
      <4> QED  BY <1>1, <4>1 DEF AlertsInv, ChannelHeard
    <3> QED  BY <3>1, <3>2
  <2>9. PostsOfSlots'
    BY <1>1, <2>1 DEF AlertsInv, PostsOfSlots
  <2> QED  BY <1>1, <2>1, <2>2, <2>3, <2>8, <2>9 DEF AlertsInv
<1> QED  BY <1>4, <1>5

LEMMA PostInv ==
  ASSUME AlertsInv, NEW s \in posting, Post(s[1], s[2], s[3])
  PROVE  AlertsInv'
<1> DEFINE q == <<s[1], s[2], s[3], time>>
<1>1. s \in Channel \X Nat \X Nat /\ s \in Slots /\ time \in Nat /\ time >= Start
  BY DEF AlertsInv, PostsOfSlots, Slots
<1>2. s = <<s[1], s[2], s[3]>> /\ s[1] \in Channel /\ s[2] \in Nat /\ s[3] \in Nat
  BY <1>1
<1>3. q \in Channel \X Nat \X Nat \X Nat /\ SlotOf(q) = s /\ q[3] = s[3] /\ q[4] = time
  BY <1>1, <1>2 DEF SlotOf
<1>4. posting' = posting \ {s} /\ posts' = posts \cup {q}
      /\ UNCHANGED <<time, dedup, history, delivering, lastSent>>
  BY <1>2 DEF Post
<1> HIDE DEF q
<1>5. Slots' = Slots
  BY <1>3, <1>4 DEF Slots
<1>6. q[4] >= q[3]
  <2>1. s[3] <= lastSent[s[1]]
    BY <1>1 DEF AlertsInv
  <2>2. lastSent[s[1]] \in {Never} \cup Start..time
    BY <1>2 DEF AlertsInv, AlertsTypeOK
  <2>3. lastSent[s[1]] \in Nat /\ lastSent[s[1]] <= time
    BY <1>1, <2>2, StartIsLate DEF Never
  <2> QED  BY <1>1, <1>2, <1>3, <2>1, <2>3
<1>7. PostsOfSlots'
  <2>1. posting' \subseteq Channel \X Nat \X Nat /\ posts' \subseteq Channel \X Nat \X Nat \X Nat
    BY <1>3, <1>4 DEF AlertsInv, PostsOfSlots
  <2>2. \A a \in posts' : a[4] >= a[3]
    BY <1>4, <1>6 DEF AlertsInv, PostsOfSlots
  <2>3. ASSUME PostInterval > 0
        PROVE  /\ \A a \in posts' : SlotOf(a) \notin posting'
               /\ \A a, b \in posts' : SlotOf(a) = SlotOf(b) => a = b
    <3>1. /\ \A a \in posts : SlotOf(a) \notin posting
          /\ \A a, b \in posts : SlotOf(a) = SlotOf(b) => a = b
      BY <2>3 DEF AlertsInv, PostsOfSlots
    <3>2. \A a \in posts : SlotOf(a) # SlotOf(q)
      BY <1>3, <3>1
    <3> QED  BY <1>3, <1>4, <3>1, <3>2, Zenon
  <2>4. PostInterval > 0 =>
          /\ (\A a \in posts : SlotOf(a) \notin posting)'
          /\ (\A a, b \in posts : SlotOf(a) = SlotOf(b) => a = b)'
    BY <2>3 DEF SlotOf
  <2> QED  BY <2>1, <2>2, <2>4 DEF PostsOfSlots, SlotOf
<1>8. AlertsTypeOK' /\ SlotsSpaced' /\ ChannelHeard'
  BY <1>4, <1>5 DEF AlertsInv, AlertsTypeOK, SlotsSpaced, ChannelHeard
<1> QED  BY <1>4, <1>5, <1>7, <1>8 DEF AlertsInv

LEMMA AlertsNextInv == ASSUME AlertsInv, AlertsNext PROVE AlertsInv'
  BY AlertTimeInv, SendAlertInv, DeliverInv, PostInv DEF AlertsNext

LEMMA AlertsHold == ASSUME AlertsInv PROVE AlertsTypeOK /\ PostsSpaced /\ ChannelHeard
<1> SUFFICES ASSUME NEW a \in posts, NEW b \in posts, a # b, a[1] = b[1]
    PROVE  a[4] - b[3] >= PostInterval \/ b[4] - a[3] >= PostInterval
  BY DEF AlertsInv, PostsSpaced
<1>1. a[3] \in Nat /\ a[4] \in Nat /\ b[3] \in Nat /\ b[4] \in Nat /\ a[4] >= a[3] /\ b[4] >= b[3]
  BY DEF AlertsInv, PostsOfSlots
<1>2. CASE PostInterval = 0
  BY <1>1, <1>2
<1>3. CASE PostInterval > 0
  <2>1. SlotOf(a) # SlotOf(b)
    BY <1>3 DEF AlertsInv, PostsOfSlots
  <2>2. SlotOf(a) \in Slots /\ SlotOf(b) \in Slots
    BY DEF Slots
  <2>3. SlotOf(a)[1] = a[1] /\ SlotOf(a)[3] = a[3] /\ SlotOf(b)[1] = b[1] /\ SlotOf(b)[3] = b[3]
    BY DEF SlotOf
  <2>4. a[3] - b[3] >= PostInterval \/ b[3] - a[3] >= PostInterval
    BY <2>1, <2>2, <2>3 DEF AlertsInv, SlotsSpaced
  <2> QED  BY <1>1, <2>4, AlertsAssumption
<1> QED  BY <1>2, <1>3, AlertsAssumption

LEMMA AlertsRests == ASSUME AlertsInv, UNCHANGED alertVars PROVE AlertsInv'
<1>1. UNCHANGED <<time, dedup, history, delivering, lastSent, posting, posts, Slots>>
  BY DEF alertVars, Slots
<1>2. AlertsTypeOK' /\ ChannelHeard' /\ SlotsSpaced'
  BY <1>1 DEF AlertsInv, AlertsTypeOK, ChannelHeard, SlotsSpaced
<1>3. PostsOfSlots'
  BY <1>1 DEF AlertsInv, PostsOfSlots
<1> QED  BY <1>1, <1>2, <1>3 DEF AlertsInv

-----------------------------------------------------------------------------
\* Keys and rate limits

BucketRecord == [tokens : 0..Burst, at : 0..now, full : BOOLEAN]

AccessTypes ==
  /\ keyFile \in [Key -> {"none", "enabled", "disabled", "torn"}]
  /\ keyCache \in [Key -> {"none", "enabled", "disabled"}]
  /\ bucket \in [Key -> BucketRecord] /\ served \in [Key -> [count : Nat, since : 0..now]]
  /\ serving \in BOOLEAN /\ now \in 0..MaxNow /\ revoked \subseteq Key

\* A server that does not run has nothing cached, ...
CacheIsServed == ~serving => \A k \in Key : keyCache[k] = "none"

\* ... the file of a revoked key says so, ...
RevokedIsFiled == \A k \in revoked : keyCache[k] # "enabled" /\ keyFile[k] = "disabled"

\* ... and what a key got through was in its bucket when it was full, or came since.
Spent(k) == served[k].count = 0 \/ /\ ~bucket[k].full /\ served[k].since <= bucket[k].at
                                   /\ bucket[k].tokens + served[k].count
                                        <= Burst + Rate * (bucket[k].at - served[k].since)

AccessInv == AccessTypes /\ CacheIsServed /\ RevokedIsFiled /\ \A k \in Key : Spent(k)

LEMMA RateAdds ==
  ASSUME NEW x \in Nat, NEW y \in Nat, NEW z \in Nat, x <= y, y <= z
  PROVE  /\ Rate * (z - x) = Rate * (y - x) + Rate * (z - y)
         /\ Rate * (z - x) \in Nat /\ Rate * (y - x) \in Nat /\ Rate * (z - y) \in Nat
<1>1. Rate \in Nat
  BY AccessAssumption
<1>2. \A a, b \in Nat : Rate * (a + b) = Rate * a + Rate * b /\ Rate * a \in Nat
  BY <1>1
<1> DEFINE a == y - x
           b == z - y
<1>3. a \in Nat /\ b \in Nat /\ z - x = a + b
  OBVIOUS
<1> HIDE DEF a, b
<1>4. Rate * (a + b) = Rate * a + Rate * b /\ Rate * a \in Nat /\ Rate * b \in Nat
      /\ Rate * (a + b) \in Nat
  <2>1. a + b \in Nat
    BY <1>3
  <2> QED  BY <1>2, <1>3, <2>1
<1> QED  BY <1>3, <1>4 DEF a, b

LEMMA AccessInitInv == ASSUME AccessInit PROVE AccessInv
<1>1. 0 \in 0..Burst /\ 0 \in 0..MaxNow
  BY AccessAssumption
<1>2. NoBucket \in [tokens : 0..Burst, at : 0..0, full : BOOLEAN]
      /\ Unserved \in [count : Nat, since : 0..0] /\ Unserved.count = 0
  BY <1>1 DEF NoBucket, Unserved
<1>3. AccessTypes
  BY <1>1, <1>2 DEF AccessInit, AccessTypes, BucketRecord
<1> QED  BY <1>2, <1>3 DEF AccessInit, AccessInv, CacheIsServed, RevokedIsFiled, Spent

LEMMA TokensType ==
  ASSUME AccessTypes, NEW k \in Key
  PROVE  /\ Tokens(k) \in 0..Burst
         /\ ~bucket[k].full => Tokens(k) <= bucket[k].tokens + Rate * (now - bucket[k].at)
         /\ bucket[k].full => Tokens(k) = Burst
<1>1. bucket[k].tokens \in 0..Burst /\ bucket[k].at \in 0..now /\ now \in Nat /\ Burst \in Nat
      /\ Rate \in Nat /\ bucket[k].full \in BOOLEAN
  BY AccessAssumption DEF AccessTypes, BucketRecord
<1>2. Rate * (now - bucket[k].at) \in Nat /\ (now - bucket[k].at) * Rate = Rate * (now - bucket[k].at)
  <2>1. \A a \in Nat : Rate * a \in Nat /\ a * Rate = Rate * a
    BY <1>1
  <2>2. now - bucket[k].at \in Nat
    BY <1>1
  <2> QED  BY <2>1, <2>2
<1> DEFINE r == Rate * (now - bucket[k].at)
<1>3. Tokens(k) = IF bucket[k].full \/ bucket[k].tokens + r > Burst THEN Burst ELSE bucket[k].tokens + r
  BY <1>2 DEF Tokens
<1> HIDE DEF r
<1>4. r \in Nat
  BY <1>2 DEF r
<1>5. /\ Tokens(k) \in 0..Burst /\ (~bucket[k].full => Tokens(k) <= bucket[k].tokens + r)
      /\ (bucket[k].full => Tokens(k) = Burst)
  BY <1>1, <1>3, <1>4
<1> QED  BY <1>5 DEF r

LEMMA RequestInv == ASSUME AccessInv, NEW k \in Key, Request(k) PROVE AccessInv'
<1>0. AccessTypes /\ Burst \in Nat \ {0} /\ Rate \in Nat /\ now \in Nat
  BY AccessAssumption DEF AccessInv, AccessTypes
<1>1. /\ UNCHANGED <<keyCache, expired, serving, revoked, now>>
      /\ keyCache[k] = "enabled" /\ serving
      /\ keyFile' = [keyFile EXCEPT ![k] = "enabled"]
      /\ bucket' = [bucket EXCEPT ![k] = Refilled(k)]
  BY DEF Request
<1> DEFINE c == served[k].count
           s == served[k].since
           b == bucket[k]
           t == Tokens(k)
<1>2. c \in Nat /\ s \in 0..now /\ b.at \in 0..now /\ b.tokens \in 0..Burst /\ b.full \in BOOLEAN
  BY <1>0 DEF AccessTypes, BucketRecord
<1>3. /\ t \in 0..Burst /\ (~b.full => t <= b.tokens + Rate * (now - b.at))
      /\ (b.full => t = Burst)
  BY <1>0, TokensType
<1>4. Spent(k)
  BY DEF AccessInv
<1>5. served' = IF t < 1 THEN served
                ELSE [served EXCEPT ![k] = [count |-> c + 1, since |-> IF c = 0 THEN now ELSE s]]
  BY DEF Request
<1>6. Refilled(k) = [tokens |-> IF t >= 1 THEN t - 1 ELSE t, at |-> now, full |-> FALSE]
  BY DEF Refilled
<1>7. Refilled(k) \in BucketRecord
  <2>1. (IF t >= 1 THEN t - 1 ELSE t) \in 0..Burst /\ now \in 0..now
    BY <1>0, <1>3
  <2> QED  BY <1>6, <2>1 DEF BucketRecord
<1>8. served' \in [Key -> [count : Nat, since : 0..now]]
  <2>1. [count |-> c + 1, since |-> IF c = 0 THEN now ELSE s] \in [count : Nat, since : 0..now]
    BY <1>0, <1>2
  <2> HIDE DEF c, s, t
  <2> QED  BY <2>1, <1>0, <1>5 DEF AccessTypes
<1>9. AccessTypes'
  BY <1>0, <1>1, <1>7, <1>8 DEF AccessTypes, BucketRecord
<1>10. CacheIsServed'
  BY <1>1 DEF AccessInv, CacheIsServed
<1>11. k \notin revoked
  BY <1>1 DEF AccessInv, RevokedIsFiled
<1>12. RevokedIsFiled'
  BY <1>0, <1>1, <1>11 DEF AccessInv, RevokedIsFiled, AccessTypes
<1>13. ASSUME NEW j \in Key, j # k PROVE Spent(j)'
  <2>1. served'[j] = served[j] /\ bucket'[j] = bucket[j]
    BY <1>0, <1>1, <1>5, <1>13 DEF AccessTypes
  <2> QED  BY <2>1 DEF AccessInv, Spent
<1>14. bucket'[k] = Refilled(k)
  BY <1>0, <1>1 DEF AccessTypes
<1>15. Spent(k)'
  <2>1. c = 0 \/ (~b.full /\ s <= b.at /\ b.tokens + c <= Burst + Rate * (b.at - s))
    BY <1>4 DEF Spent
  <2>2. c # 0 => t + c <= Burst + Rate * (now - s) /\ s <= now /\ Rate * (now - s) \in Nat
    <3> SUFFICES ASSUME c # 0
                 PROVE  t + c <= Burst + Rate * (now - s) /\ s <= now /\ Rate * (now - s) \in Nat
      OBVIOUS
    <3>1. s \in Nat /\ b.at \in Nat /\ now \in Nat /\ s <= b.at /\ b.at <= now
      BY <1>0, <1>2, <2>1
    <3>2. /\ Rate * (now - s) = Rate * (b.at - s) + Rate * (now - b.at)
          /\ Rate * (now - s) \in Nat /\ Rate * (b.at - s) \in Nat /\ Rate * (now - b.at) \in Nat
      BY <3>1, RateAdds
    <3>3. b.tokens + c <= Burst + Rate * (b.at - s) /\ t <= b.tokens + Rate * (now - b.at)
      BY <1>3, <2>1
    <3> HIDE DEF t, c, s, b
    <3>4. t \in Nat /\ c \in Nat /\ b.tokens \in Nat /\ Burst \in Nat
      BY <1>0, <1>2, <1>3
    <3> QED  BY <3>1, <3>2, <3>3, <3>4
  <2>3. bucket'[k].at = now /\ ~bucket'[k].full /\ bucket'[k].tokens = IF t >= 1 THEN t - 1 ELSE t
    BY <1>6, <1>14
  <2>4. CASE t < 1
    <3>1. served'[k] = served[k] /\ bucket'[k].tokens = t
      BY <1>3, <1>5, <2>3, <2>4
    <3> QED  BY <1>1, <2>2, <2>3, <3>1 DEF Spent
  <2>5. CASE ~(t < 1)
    <3>1. served'[k] = [count |-> c + 1, since |-> IF c = 0 THEN now ELSE s]
      BY <1>0, <1>5, <2>5 DEF AccessTypes
    <3>2. bucket'[k].tokens = t - 1 /\ t \in Nat /\ t <= Burst
      BY <1>3, <2>3, <2>5
    <3>3. CASE c = 0
      <4>1. served'[k].count = 1 /\ served'[k].since = now
        BY <3>1, <3>3
      <4>2. Rate * (now - now) = 0
        <5>1. Rate * 0 = 0 /\ now - now = 0
          BY <1>0
        <5> QED  BY <5>1
      <4> HIDE DEF t
      <4> QED  BY <1>0, <2>3, <3>2, <4>1, <4>2 DEF Spent
    <3>4. CASE c # 0
      <4>1. served'[k].count = c + 1 /\ served'[k].since = s
        BY <3>1, <3>4
      <4>2. t - 1 + (c + 1) <= Burst + Rate * (now - s) /\ s <= now
        <5> HIDE DEF t, c, s
        <5> QED  BY <1>0, <1>2, <1>3, <2>2, <3>4
      <4> HIDE DEF t, c, s
      <4> QED  BY <2>3, <3>2, <4>1, <4>2 DEF Spent
    <3> QED  BY <3>3, <3>4
  <2> QED  BY <2>4, <2>5
<1>16. \A j \in Key : Spent(j)'
  BY <1>13, <1>15
<1> QED  BY <1>9, <1>10, <1>12, <1>16 DEF AccessInv

\* The buckets rest, and the clock does not go back.
LEMMA BucketsRest ==
  ASSUME AccessInv, UNCHANGED <<bucket, served>>, now' \in 0..MaxNow, now <= now'
  PROVE  /\ bucket' \in [Key -> BucketRecord]' /\ served' \in [Key -> [count : Nat, since : 0..now']]
         /\ \A k \in Key : Spent(k)'
<1>1. 0..now \subseteq 0..now'
  BY AccessAssumption DEF AccessInv, AccessTypes
<1>2. BucketRecord \subseteq BucketRecord'
  BY <1>1 DEF BucketRecord
<1>3. bucket' \in [Key -> BucketRecord]'
  BY <1>2 DEF AccessInv, AccessTypes
<1>4. served' \in [Key -> [count : Nat, since : 0..now']]
  BY <1>1 DEF AccessInv, AccessTypes
<1> QED  BY <1>3, <1>4 DEF AccessInv, Spent

LEMMA AccessNextInv == ASSUME AccessInv, AccessNext PROVE AccessInv'
<1>0. AccessTypes /\ MaxNow \in Nat /\ Burst \in Nat
  BY AccessAssumption DEF AccessInv
<1>00. now \in 0..MaxNow /\ now <= now
  BY <1>0 DEF AccessTypes
<1>1. ASSUME NEW k \in Key, CreateKey(k) PROVE AccessInv'
  <2>1. UNCHANGED <<keyCache, serving, revoked, bucket, served, now>> /\ keyFile[k] = "none"
        /\ keyFile' = [keyFile EXCEPT ![k] = "enabled"]
    BY <1>1 DEF CreateKey
  <2>2. AccessTypes' /\ \A j \in Key : Spent(j)'
    BY <1>0, <1>00, <2>1, BucketsRest DEF AccessTypes
  <2> QED  BY <1>0, <2>1, <2>2 DEF AccessInv, AccessTypes, CacheIsServed, RevokedIsFiled
<1>2. ASSUME NEW k \in Key, Expires(k) PROVE AccessInv'
  <2>1. UNCHANGED <<keyFile, keyCache, serving, revoked, bucket, served, now>>
    BY <1>2 DEF Expires
  <2>2. AccessTypes' /\ \A j \in Key : Spent(j)'
    BY <1>0, <1>00, <2>1, BucketsRest DEF AccessTypes
  <2> QED  BY <2>1, <2>2 DEF AccessInv, CacheIsServed, RevokedIsFiled
<1>3. ASSUME NEW k \in Key, Killed(k) PROVE AccessInv'
  <2>1. UNCHANGED <<revoked, bucket, served, now>> /\ keyCache[k] = "enabled"
        /\ keyFile' = [keyFile EXCEPT ![k] = "torn"] /\ serving' = FALSE
        /\ keyCache' = [j \in Key |-> "none"]
    BY <1>3 DEF Killed
  <2>2. AccessTypes' /\ \A j \in Key : Spent(j)'
    BY <1>0, <1>00, <2>1, BucketsRest DEF AccessTypes
  <2>3. k \notin revoked
    BY <2>1 DEF AccessInv, RevokedIsFiled
  <2> QED  BY <1>0, <2>1, <2>2, <2>3 DEF AccessInv, AccessTypes, CacheIsServed, RevokedIsFiled
<1>4. ASSUME NEW k \in Key, ResetLimit(k) PROVE AccessInv'
  <2>1. UNCHANGED <<keyFile, keyCache, serving, revoked, now>>
        /\ bucket' = [bucket EXCEPT ![k] = NoBucket] /\ served' = [served EXCEPT ![k] = Unserved]
    BY <1>4 DEF ResetLimit
  <2>2. NoBucket \in BucketRecord /\ Unserved \in [count : Nat, since : 0..now]
    BY <1>0, <1>00 DEF NoBucket, Unserved, BucketRecord
  <2>3. AccessTypes'
    BY <1>0, <2>1, <2>2 DEF AccessTypes, BucketRecord
  <2>4. \A j \in Key : j # k => served'[j] = served[j] /\ bucket'[j] = bucket[j]
    BY <1>0, <2>1 DEF AccessTypes
  <2>5. served'[k].count = 0
    BY <1>0, <2>1 DEF AccessTypes, Unserved
  <2>6. \A j \in Key : Spent(j)'
    BY <2>4, <2>5 DEF AccessInv, Spent
  <2> QED  BY <2>1, <2>3, <2>6 DEF AccessInv, CacheIsServed, RevokedIsFiled
<1>5. ASSUME NEW k \in Key, NEW here \in BOOLEAN, RevokeKey(k, here) PROVE AccessInv'
  <2>1. /\ UNCHANGED <<serving, bucket, served, now>>
        /\ here => serving
        /\ keyFile' = [keyFile EXCEPT ![k] = "disabled"]
        /\ keyCache' = IF here THEN [keyCache EXCEPT ![k] = "disabled"] ELSE keyCache
        /\ revoked' = IF here \/ keyCache[k] # "enabled" THEN revoked \cup {k} ELSE revoked
    BY <1>5 DEF RevokeKey, Revokes
  <2>2. AccessTypes' /\ \A j \in Key : Spent(j)'
    BY <1>0, <1>00, <2>1, BucketsRest DEF AccessTypes
  <2>3. CacheIsServed'
    BY <2>1 DEF AccessInv, CacheIsServed
  <2>4. ASSUME NEW j \in revoked' PROVE keyCache'[j] # "enabled" /\ keyFile'[j] = "disabled"
    <3>1. j \in Key /\ (j # k => j \in revoked) /\ (j \notin revoked => here \/ keyCache[j] # "enabled")
      BY <1>0, <2>1, <2>4 DEF AccessTypes
    <3>2. keyFile'[j] = "disabled"
      BY <1>0, <2>1, <3>1 DEF AccessInv, RevokedIsFiled, AccessTypes
    <3>3. keyCache'[j] # "enabled"
      BY <1>0, <2>1, <3>1 DEF AccessInv, RevokedIsFiled, AccessTypes, CacheIsServed
    <3> QED  BY <3>2, <3>3
  <2> QED  BY <2>2, <2>3, <2>4 DEF AccessInv, RevokedIsFiled
<1>6. ASSUME StartServer PROVE AccessInv'
  <2>1. UNCHANGED <<keyFile, revoked, now>> /\ serving' = TRUE
        /\ keyCache' = [k \in Key |-> Loaded(k)]
        /\ bucket' = [k \in Key |-> NoBucket] /\ served' = [k \in Key |-> Unserved]
    BY <1>6 DEF StartServer
  <2>2. NoBucket \in BucketRecord /\ Unserved \in [count : Nat, since : 0..now]
        /\ Unserved.count = 0
    BY <1>0, <1>00 DEF NoBucket, Unserved, BucketRecord
  <2>3. \A k \in Key : Loaded(k) \in {"none", "enabled", "disabled"}
                       /\ (keyFile[k] = "disabled" => Loaded(k) = "disabled")
    BY <1>0 DEF Loaded, AccessTypes
  <2>4. AccessTypes'
    BY <1>0, <2>1, <2>2, <2>3 DEF AccessTypes, BucketRecord
  <2>5. \A j \in Key : Spent(j)'
    BY <2>1, <2>2 DEF Spent
  <2>6. RevokedIsFiled'
    BY <1>0, <2>1, <2>3 DEF AccessInv, AccessTypes, RevokedIsFiled
  <2> QED  BY <2>1, <2>4, <2>5, <2>6 DEF AccessInv, CacheIsServed
<1>7. ASSUME StopServer PROVE AccessInv'
  <2>1. UNCHANGED <<keyFile, revoked, bucket, served, now>> /\ serving' = FALSE
        /\ keyCache' = [k \in Key |-> "none"]
    BY <1>7 DEF StopServer
  <2>2. AccessTypes' /\ \A j \in Key : Spent(j)'
    BY <1>0, <1>00, <2>1, BucketsRest DEF AccessTypes
  <2> QED  BY <1>0, <2>1, <2>2 DEF AccessInv, AccessTypes, CacheIsServed, RevokedIsFiled
<1>8. ASSUME ClockTicks PROVE AccessInv'
  <2>1. UNCHANGED <<keyFile, keyCache, serving, revoked, bucket, served>>
    BY <1>8 DEF ClockTicks
  <2>2. now' \in 0..MaxNow /\ now <= now'
    BY <1>0, <1>00, <1>8 DEF ClockTicks
  <2>3. AccessTypes' /\ \A j \in Key : Spent(j)'
    BY <1>0, <2>1, <2>2, BucketsRest DEF AccessTypes
  <2> QED  BY <2>1, <2>3 DEF AccessInv, CacheIsServed, RevokedIsFiled
<1> QED  BY <1>1, <1>2, <1>3, <1>4, <1>5, <1>6, <1>7, <1>8, RequestInv DEF AccessNext

LEMMA AccessHolds == ASSUME AccessInv PROVE AccessTypeOK /\ RevokedStaysOut /\ BurstBound
<1>1. AccessTypes /\ Burst \in Nat /\ Rate \in Nat /\ now \in Nat
  BY AccessAssumption DEF AccessInv, AccessTypes
<1>2. AccessTypeOK
  BY <1>1 DEF AccessTypes, AccessTypeOK, BucketRecord
<1>3. RevokedStaysOut
  BY DEF AccessInv, RevokedIsFiled, RevokedStaysOut
<1>4. ASSUME NEW k \in Key
      PROVE  served[k].count <= Burst + Rate * (now - served[k].since)
  <2> DEFINE c == served[k].count
             s == served[k].since
             b == bucket[k]
  <2>1. c \in Nat /\ s \in 0..now /\ b.at \in 0..now /\ b.tokens \in 0..Burst
    BY <1>1 DEF AccessTypes, BucketRecord
  <2>2. c = 0 \/ (s <= b.at /\ b.tokens + c <= Burst + Rate * (b.at - s))
    BY DEF AccessInv, Spent
  <2>3. s \in Nat /\ b.at \in Nat /\ b.tokens \in Nat /\ s <= now /\ b.at <= now
    BY <1>1, <2>1
  <2>4. Rate * (now - s) \in Nat
    BY <1>1, <2>3, RateAdds
  <2>5. c # 0 => /\ Rate * (now - s) = Rate * (b.at - s) + Rate * (now - b.at)
                 /\ Rate * (b.at - s) \in Nat /\ Rate * (now - b.at) \in Nat
    <3>1. ASSUME s <= b.at
          PROVE  /\ Rate * (now - s) = Rate * (b.at - s) + Rate * (now - b.at)
                 /\ Rate * (b.at - s) \in Nat /\ Rate * (now - b.at) \in Nat
      BY <1>1, <2>3, <3>1, RateAdds
    <3> QED  BY <2>2, <3>1
  <2> HIDE DEF c, s, b
  <2>6. c <= Burst + Rate * (now - s)
    BY <1>1, <2>1, <2>2, <2>3, <2>4, <2>5
  <2> QED  BY <2>6 DEF c, s
<1> QED  BY <1>2, <1>3, <1>4 DEF BurstBound

LEMMA AccessRests == ASSUME AccessInv, UNCHANGED accessVars PROVE AccessInv'
  BY DEF AccessInv, AccessTypes, CacheIsServed, RevokedIsFiled, Spent, BucketRecord,
         accessVars

-----------------------------------------------------------------------------
\* The catalogue of profiles and the migrations

\* The versions at one source have a newest one, by either order: only so many
\* were ever written.
Ranks == {Numbered, ByText}
HasNewest ==
  \A s \in Shelf, n \in Profile, rank \in Ranks :
    \E b \in Nat : \A v \in VersionsAt(s, n) : rank[v] <= b

OnePlan ==
  migration = <<>> \/ \E p \in Plan :
    migration = <<[plan |-> p, states |-> Migrated(p), success |-> Succeeds(p)]>>

AnswersAreHeld ==
  \A k \in DOMAIN answers : k[2] # AnyVersion => Holding(k[1], k[2]) # {}

CatalogueInv == CatalogueTypeOK /\ HasNewest /\ AnswersAreHeld /\ VersionedFresh /\ OnePlan

LEMMA ShelvesListed ==
  /\ Shelf = {"builtin", "user", "project"} /\ "user" \in Shelf
  /\ \A s \in Shelf : Priority[s] \in Nat
  /\ Priority["builtin"] = 0 /\ Priority["user"] = 100 /\ Priority["project"] = 200
  BY DEF Shelf, Priority

LEMMA RanksAreNumbers ==
  ASSUME NEW rank \in Ranks, NEW v \in Version
  PROVE  rank[v] \in Nat
  BY CatalogueAssumption DEF Ranks, Numbered, ByText

LEMMA FirstIsOne ==
  ASSUME NEW S \in SUBSET Shelf, S # {}
  PROVE  First(S) \in S
<1>1. \E s \in S : \A t \in S : Priority[t] <= Priority[s]
  <2>1. CASE "project" \in S
    <3>1. \A t \in S : Priority[t] <= Priority["project"]
      BY ShelvesListed
    <3> QED  BY <2>1, <3>1
  <2>2. CASE "project" \notin S /\ "user" \in S
    <3>1. \A t \in S : t = "user" \/ t = "builtin"
      BY <2>2, ShelvesListed
    <3>2. \A t \in S : Priority[t] <= Priority["user"]
      BY <3>1, ShelvesListed
    <3> QED  BY <2>2, <3>2
  <2>3. CASE "project" \notin S /\ "user" \notin S
    <3>1. \A t \in S : t = "builtin"
      BY <2>3, ShelvesListed
    <3>2. \A t \in S : Priority[t] <= Priority["builtin"]
      BY <3>1, ShelvesListed
    <3> QED  BY <3>1, <3>2
  <2> QED  BY <2>1, <2>2, <2>3
<1> QED  BY <1>1 DEF First

LEMMA LatestIsOne ==
  ASSUME CatalogueInv, NEW s \in Shelf, NEW n \in Profile, NEW rank \in Ranks,
         VersionsAt(s, n) # {}
  PROVE  Latest(s, n, rank) \in VersionsAt(s, n)
<1> DEFINE V == VersionsAt(s, n)
           B == {b \in Nat : \A v \in V : rank[v] <= b}
<1>1. B \subseteq Nat /\ B # {}
  BY DEF CatalogueInv, HasNewest
<1>2. PICK m \in B : \A b \in B : m <= b
  BY <1>1, LeastNumber
<1>3. m \in Nat /\ \A v \in V : rank[v] <= m
  BY <1>2
<1>4. \A v \in V : v \in Version /\ rank[v] \in Nat
  BY RanksAreNumbers DEF VersionsAt
<1>5. V # {}
  OBVIOUS
<1> HIDE DEF V
<1>6. \E v \in V : rank[v] = m
  <2> SUFFICES ASSUME \A v \in V : rank[v] # m PROVE FALSE
    OBVIOUS
  <2>1. \A v \in V : rank[v] <= m - 1 /\ 0 <= m - 1
    BY <1>3, <1>4
  <2>2. m - 1 \in Nat
    BY <1>3, <1>5, <2>1
  <2>3. m - 1 \in B
    BY <2>1, <2>2
  <2> QED  BY <1>2, <1>3, <2>3
<1>7. \E v \in V : \A w \in V : rank[w] <= rank[v]
  BY <1>3, <1>6
<1> QED  BY <1>7 DEF Latest, V

LEMMA MetadataIs ==
  ASSUME CatalogueInv, NEW s \in Shelf, NEW n \in Profile, NEW v \in VersionsAt(s, n)
  PROVE  Metadata(s, n, v) \in MetaType
<1>1. v \in Version /\ shelved[s][n][v] > 0
  BY DEF VersionsAt
<1>2. shelved[s][n][v] \in 0..MaxRevision
  BY <1>1 DEF CatalogueInv, CatalogueTypeOK
<1>3. shelved[s][n][v] \in 1..MaxRevision
  BY <1>1, <1>2, CatalogueAssumption
<1> QED  BY <1>1, <1>3 DEF Metadata, MetaType

LEMMA LookedUpType ==
  ASSUME CatalogueInv, NEW n \in Profile, NEW v \in Version \cup {AnyVersion}, Holding(n, v) # {}
  PROVE  LookedUp(n, v) \in MetaType
<1> DEFINE s == First(Holding(n, v))
<1>1. Holding(n, v) \in SUBSET Shelf
  BY DEF Holding
<1>2. s \in Holding(n, v) /\ s \in Shelf
  BY <1>1, FirstIsOne
<1> HIDE DEF s
<1>3. CASE v = AnyVersion
  <2>1. VersionsAt(s, n) # {}
    BY <1>2, <1>3 DEF Holding
  <2>2. Latest(s, n, Numbered) \in VersionsAt(s, n)
    BY <1>2, <2>1, LatestIsOne DEF Ranks
  <2>3. Metadata(s, n, Latest(s, n, Numbered)) \in MetaType
    BY <1>2, <2>2, MetadataIs
  <2> QED  BY <1>3, <2>3 DEF LookedUp, s
<1>4. CASE v # AnyVersion
  <2>1. v \in VersionsAt(s, n)
    BY <1>2, <1>4 DEF Holding, VersionsAt
  <2>2. Metadata(s, n, v) \in MetaType
    BY <1>2, <2>1, MetadataIs
  <2> QED  BY <1>4, <2>2 DEF LookedUp, s
<1> QED  BY <1>3, <1>4

LEMMA ListedType ==
  ASSUME CatalogueInv
  PROVE  DOMAIN Listed \subseteq Profile /\ Range(Listed) \subseteq MetaType
<1>1. CASE listing # <<>>
  BY <1>1 DEF Listed, CatalogueInv, CatalogueTypeOK
<1>2. CASE listing = <<>>
  <2> DEFINE N == {m \in Profile : Holding(m, AnyVersion) # {}}
             g(n) == LET s == First(Holding(n, AnyVersion)) IN Metadata(s, n, Latest(s, n, ByText))
  <2>1. Listed = [n \in N |-> g(n)]
    BY <1>2 DEF Listed
  <2>2. ASSUME NEW n \in N PROVE g(n) \in MetaType
    <3> DEFINE s == First(Holding(n, AnyVersion))
    <3>1. Holding(n, AnyVersion) \in SUBSET Shelf /\ Holding(n, AnyVersion) # {} /\ n \in Profile
      BY DEF Holding
    <3>2. s \in Holding(n, AnyVersion) /\ s \in Shelf
      BY <3>1, FirstIsOne
    <3> HIDE DEF s
    <3>3. VersionsAt(s, n) # {}
      BY <3>2 DEF Holding
    <3>4. Latest(s, n, ByText) \in VersionsAt(s, n)
      BY <3>1, <3>2, <3>3, LatestIsOne DEF Ranks
    <3>5. Metadata(s, n, Latest(s, n, ByText)) \in MetaType
      BY <3>1, <3>2, <3>4, MetadataIs
    <3> QED  BY <3>5 DEF s
  <2> HIDE DEF g
  <2>3. DOMAIN Listed = N /\ \A n \in N : Listed[n] = g(n)
    BY <2>1
  <2>4. Range(Listed) \subseteq MetaType
    BY <2>2, <2>3 DEF Range
  <2> QED  BY <2>3, <2>4
<1> QED  BY <1>1, <1>2

Maps(f, D, M) == DOMAIN f \subseteq D /\ Range(f) \subseteq M

\* Leaving out a key and adding one, in either cache
LEMMA WithoutType ==
  ASSUME NEW D, NEW M, NEW f, Maps(f, D, M), NEW x
  PROVE  /\ DOMAIN Without(f, x) = DOMAIN f \ {x} /\ Range(Without(f, x)) \subseteq M
         /\ DOMAIN Without(f, x) \subseteq D
         /\ \A z \in DOMAIN f \ {x} : Without(f, x)[z] = f[z]
<1>1. Without(f, x) = [z \in DOMAIN f \ {x} |-> f[z]]
  BY DEF Without, Restrict
<1>2. DOMAIN f \subseteq D /\ \A z \in DOMAIN f : f[z] \in M
  BY DEF Maps, Range
<1> QED  BY <1>1, <1>2 DEF Range

LEMMA WithType ==
  ASSUME NEW D, NEW M, NEW f, Maps(f, D, M), NEW x \in D, NEW y \in M
  PROVE  /\ DOMAIN With(f, x, y) = DOMAIN f \cup {x} /\ Range(With(f, x, y)) \subseteq M
         /\ DOMAIN With(f, x, y) \subseteq D
         /\ \A z \in DOMAIN f \cup {x} : With(f, x, y)[z] = IF z = x THEN y ELSE f[z]
<1>1. With(f, x, y) = [z \in DOMAIN f \cup {x} |-> IF z = x THEN y ELSE f[z]]
  BY DEF With
<1>2. DOMAIN f \subseteq D /\ \A z \in DOMAIN f : f[z] \in M
  BY DEF Maps, Range
<1>3. DOMAIN With(f, x, y) = DOMAIN f \cup {x}
      /\ \A z \in DOMAIN f \cup {x} : With(f, x, y)[z] = IF z = x THEN y ELSE f[z]
  BY <1>1
<1>4. \A z \in DOMAIN f \cup {x} : With(f, x, y)[z] \in M
  BY <1>2, <1>3
<1> QED  BY <1>2, <1>3, <1>4 DEF Range

LEMMA CatalogueInitInv == ASSUME CatalogueInit PROVE CatalogueInv
<1>1. answers = <<>> /\ listing = <<>> /\ meddled = {} /\ migration = <<>>
      /\ shelved = [s \in Shelf |-> [n \in Profile |-> [v \in Version |-> 0]]]
  BY DEF CatalogueInit
<1>2. DOMAIN answers = {} /\ DOMAIN listing = {}
  BY <1>1
<1>3. Range(answers) = {} /\ Range(listing) = {}
  BY <1>2 DEF Range
<1>4. shelved \in [Shelf -> [Profile -> [Version -> 0..MaxRevision]]]
  BY <1>1, CatalogueAssumption
<1>5. \A s \in Shelf, n \in Profile : VersionsAt(s, n) = {}
  BY <1>1 DEF VersionsAt
<1>6. CatalogueTypeOK
  BY <1>1, <1>2, <1>3, <1>4 DEF CatalogueTypeOK
<1>7. HasNewest
  BY <1>5 DEF HasNewest
<1>8. VersionedFresh /\ AnswersAreHeld
  BY <1>2 DEF VersionedFresh, AnswersAreHeld
<1> QED  BY <1>1, <1>6, <1>7, <1>8 DEF CatalogueInv, OnePlan

\* When the files are as before, so are the versions and the answers.
LEMMA FilesSame ==
  ASSUME CatalogueInv, UNCHANGED shelved
  PROVE  /\ HasNewest'
         /\ \A n, v : LookedUp(n, v)' = LookedUp(n, v) /\ Holding(n, v)' = Holding(n, v)
<1>1. \A s, n : VersionsAt(s, n)' = VersionsAt(s, n)
  BY DEF VersionsAt
<1>2. HasNewest'
  BY <1>1 DEF CatalogueInv, HasNewest
<1>3. \A n, v : Holding(n, v)' = Holding(n, v)
  BY <1>1 DEF Holding
<1>4. \A s, n, rank : Latest(s, n, rank)' = Latest(s, n, rank)
  BY <1>1 DEF Latest
<1>5. \A s, n, v : Metadata(s, n, v)' = Metadata(s, n, v)
  BY DEF Metadata
<1>6. ASSUME NEW n, NEW v PROVE LookedUp(n, v)' = LookedUp(n, v)
  BY <1>3, <1>4, <1>5 DEF LookedUp
<1> QED  BY <1>2, <1>3, <1>6

\* One file written: every other version is answered as before.
LEMMA OneWritten ==
  ASSUME CatalogueInv, NEW s \in Shelf, NEW n \in Profile, NEW v \in Version,
         shelved[s][n][v] < MaxRevision, shelved' = [shelved EXCEPT ![s][n][v] = @ + 1]
  PROVE  /\ shelved' \in [Shelf -> [Profile -> [Version -> 0..MaxRevision]]]
         /\ HasNewest'
         /\ \A m \in Profile, w \in Version :
              (m # n \/ w # v) /\ Holding(m, w) # {} => LookedUp(m, w)' = LookedUp(m, w)
         /\ \A m \in Profile, w \in Version : Holding(m, w) # {} => Holding(m, w)' # {}
<1>1. shelved \in [Shelf -> [Profile -> [Version -> 0..MaxRevision]]]
  BY DEF CatalogueInv, CatalogueTypeOK
<1>2. shelved[s][n][v] + 1 \in 0..MaxRevision
  <2>1. shelved[s][n][v] \in 0..MaxRevision
    BY <1>1
  <2> QED  BY <2>1, CatalogueAssumption
<1>3. shelved' \in [Shelf -> [Profile -> [Version -> 0..MaxRevision]]]
  BY <1>1, <1>2
<1>4. \A t \in Shelf, m \in Profile, w \in Version :
        m # n \/ w # v => shelved'[t][m][w] = shelved[t][m][w]
  BY <1>1
<1>5. HasNewest'
  <2> SUFFICES ASSUME NEW t \in Shelf, NEW m \in Profile, NEW rank \in Ranks
      PROVE  \E b \in Nat : \A w \in VersionsAt(t, m)' : rank[w] <= b
    BY DEF HasNewest, Ranks, Numbered, ByText
  <2>1. PICK b \in Nat : \A w \in VersionsAt(t, m) : rank[w] <= b
    BY DEF CatalogueInv, HasNewest
  <2>2. rank[v] \in Nat /\ \A w \in Version : rank[w] \in Nat
    BY RanksAreNumbers
  <2>3. \A w \in VersionsAt(t, m)' : w \in Version /\ (w = v \/ w \in VersionsAt(t, m))
    BY <1>4 DEF VersionsAt
  <2>4. b + rank[v] \in Nat
    BY <2>1, <2>2
  <2>5. \A w \in VersionsAt(t, m)' : rank[w] <= b + rank[v]
    <3> SUFFICES ASSUME NEW w \in VersionsAt(t, m)' PROVE rank[w] <= b + rank[v]
      OBVIOUS
    <3>1. rank[w] \in Nat /\ (w = v \/ rank[w] <= b)
      BY <2>1, <2>2, <2>3
    <3> QED  BY <2>1, <2>2, <3>1
  <2> QED  BY <2>4, <2>5
<1>6. ASSUME NEW m \in Profile, NEW w \in Version
      PROVE  /\ w # AnyVersion
             /\ Holding(m, w) = {t \in Shelf : shelved[t][m][w] > 0}
             /\ Holding(m, w)' = {t \in Shelf : shelved'[t][m][w] > 0}
  <2>1. w # AnyVersion
    BY CatalogueAssumption
  <2>2. Holding(m, w) = {t \in Shelf : shelved[t][m][w] > 0}
    BY <2>1 DEF Holding
  <2>3. Holding(m, w)' = {t \in Shelf : shelved'[t][m][w] > 0}
    BY <2>1 DEF Holding
  <2> QED  BY <2>1, <2>2, <2>3
<1>7. ASSUME NEW m \in Profile, NEW w \in Version, m # n \/ w # v, Holding(m, w) # {}
      PROVE  LookedUp(m, w)' = LookedUp(m, w)
  <2>1. Holding(m, w)' = Holding(m, w)
    <3>1. \A t \in Shelf : shelved'[t][m][w] = shelved[t][m][w]
      BY <1>4, <1>7
    <3>2. {t \in Shelf : shelved[t][m][w] > 0} = {t \in Shelf : shelved'[t][m][w] > 0}
      BY <3>1
    <3> QED  BY <1>6, <3>2
  <2>0. PICK f : f = First(Holding(m, w))
    OBVIOUS
  <2>2. LookedUp(m, w) = Metadata(f, m, w) /\ LookedUp(m, w)' = Metadata(f, m, w)'
    BY <1>6, <2>0, <2>1 DEF LookedUp
  <2>3. f \in Shelf
    <3>1. Holding(m, w) \in SUBSET Shelf
      BY DEF Holding
    <3> QED  BY <1>7, <2>0, <3>1, FirstIsOne
  <2>4. shelved'[f][m][w] = shelved[f][m][w]
    BY <1>4, <1>7, <2>3
  <2> QED  BY <2>2, <2>4 DEF Metadata
<1>8. ASSUME NEW m \in Profile, NEW w \in Version, Holding(m, w) # {}
      PROVE  Holding(m, w)' # {}
  <2>1. PICK t \in Shelf : shelved[t][m][w] > 0
    BY <1>6, <1>8
  <2>2. shelved[t][m][w] \in Nat /\ shelved'[t][m][w] \in {shelved[t][m][w], shelved[t][m][w] + 1}
    BY <1>1, CatalogueAssumption
  <2>3. shelved'[t][m][w] > 0
    BY <2>1, <2>2
  <2> QED  BY <1>6, <2>3
<1> QED  BY <1>3, <1>5, <1>7, <1>8

LEMMA ResolveInv ==
  ASSUME CatalogueInv, NEW n \in Profile, NEW v \in Version \cup {AnyVersion}, Resolve(n, v)
  PROVE  CatalogueInv'
<1>1. UNCHANGED <<shelved, meddled, migration>>
  BY DEF Resolve
<1>2. HasNewest' /\ \A m, w : LookedUp(m, w)' = LookedUp(m, w) /\ Holding(m, w)' = Holding(m, w)
  BY <1>1, FilesSame
<1>3. OnePlan'
  BY <1>1 DEF CatalogueInv, OnePlan
<1>4. CASE Holding(n, v) = {}
  <2>1. listing' = Listed /\ UNCHANGED answers
    BY <1>4 DEF Resolve
  <2>2. CatalogueTypeOK'
    BY <1>1, <2>1, ListedType DEF CatalogueInv, CatalogueTypeOK
  <2>3. VersionedFresh' /\ AnswersAreHeld'
    BY <1>1, <1>2, <2>1 DEF CatalogueInv, VersionedFresh, AnswersAreHeld
  <2> QED  BY <1>2, <1>3, <2>2, <2>3 DEF CatalogueInv
<1>5. CASE Holding(n, v) # {}
  <2> DEFINE k == <<n, v>>
             y == LookedUp(n, v)
  <2>1. answers' = With(answers, k, y) /\ UNCHANGED listing
    BY <1>5 DEF Resolve
  <2>2. k \in Profile \X (Version \cup {AnyVersion}) /\ k[1] = n /\ k[2] = v
    OBVIOUS
  <2>3. y \in MetaType
    BY <1>5, LookedUpType
  <2>4. Maps(answers, Profile \X (Version \cup {AnyVersion}), MetaType)
    BY DEF CatalogueInv, CatalogueTypeOK, Maps
  <2> HIDE DEF k, y
  <2>5. /\ DOMAIN answers' = DOMAIN answers \cup {k} /\ Range(answers') \subseteq MetaType
        /\ DOMAIN answers' \subseteq Profile \X (Version \cup {AnyVersion})
        /\ \A z \in DOMAIN answers \cup {k} : answers'[z] = IF z = k THEN y ELSE answers[z]
    BY <2>1, <2>2, <2>3, <2>4, WithType
  <2>6. CatalogueTypeOK'
    BY <1>1, <2>1, <2>5 DEF CatalogueInv, CatalogueTypeOK
  <2>7. VersionedFresh'
    <3> SUFFICES ASSUME NEW z \in DOMAIN answers', z[2] # AnyVersion, z[1] \notin meddled
        PROVE  answers'[z] = LookedUp(z[1], z[2])
      BY <1>1, <1>2 DEF VersionedFresh
    <3>1. CASE z = k
      BY <2>2, <2>5, <3>1 DEF y
    <3>2. CASE z # k
      BY <2>5, <3>2 DEF CatalogueInv, VersionedFresh
    <3> QED  BY <3>1, <3>2
  <2>8. AnswersAreHeld'
    BY <1>2, <1>5, <2>2, <2>5 DEF CatalogueInv, AnswersAreHeld
  <2> QED  BY <1>2, <1>3, <2>6, <2>7, <2>8 DEF CatalogueInv
<1> QED  BY <1>4, <1>5

LEMMA ListProfilesInv == ASSUME CatalogueInv, ListProfiles PROVE CatalogueInv'
<1>1. listing' = Listed /\ UNCHANGED <<shelved, answers, meddled, migration>>
  BY DEF ListProfiles
<1>2. HasNewest' /\ \A m, w : LookedUp(m, w)' = LookedUp(m, w) /\ Holding(m, w)' = Holding(m, w)
  BY <1>1, FilesSame
<1>3. CatalogueTypeOK'
  BY <1>1, ListedType DEF CatalogueInv, CatalogueTypeOK
<1>4. VersionedFresh' /\ AnswersAreHeld' /\ OnePlan'
  BY <1>1, <1>2 DEF CatalogueInv, VersionedFresh, AnswersAreHeld, OnePlan
<1> QED  BY <1>2, <1>3, <1>4 DEF CatalogueInv

LEMMA RegisterInv ==
  ASSUME CatalogueInv, NEW n \in Profile, NEW v \in Version, Register(n, v)
  PROVE  CatalogueInv'
<1> DEFINE k == <<n, v>>
<1>1. shelved' = [shelved EXCEPT !["user"][n][v] = @ + 1] /\ UNCHANGED <<meddled, migration>>
      /\ answers' = Without(answers, k) /\ listing' = Without(listing, n)
      /\ shelved["user"][n][v] < MaxRevision
  BY DEF Register, Dropped
<1>2. /\ shelved' \in [Shelf -> [Profile -> [Version -> 0..MaxRevision]]]
      /\ HasNewest'
      /\ \A m \in Profile, w \in Version :
           (m # n \/ w # v) /\ Holding(m, w) # {} => LookedUp(m, w)' = LookedUp(m, w)
      /\ \A m \in Profile, w \in Version : Holding(m, w) # {} => Holding(m, w)' # {}
  BY <1>1, OneWritten, ShelvesListed
<1>3. Maps(answers, Profile \X (Version \cup {AnyVersion}), MetaType)
      /\ Maps(listing, Profile, MetaType)
  BY DEF CatalogueInv, CatalogueTypeOK, Maps
<1>4. /\ DOMAIN answers' = DOMAIN answers \ {k} /\ Range(answers') \subseteq MetaType
      /\ DOMAIN answers' \subseteq Profile \X (Version \cup {AnyVersion})
      /\ \A z \in DOMAIN answers \ {k} : answers'[z] = answers[z]
  <2>1. answers' = Without(answers, k) /\ Maps(answers, Profile \X (Version \cup {AnyVersion}), MetaType)
    BY <1>1, <1>3
  <2> HIDE DEF k
  <2> DEFINE D == Profile \X (Version \cup {AnyVersion})
             f == Without(answers, k)
  <2> HIDE DEF D
  <2>0. Maps(answers, D, MetaType)
    BY <2>1 DEF D
  <2>2. /\ DOMAIN f = DOMAIN answers \ {k} /\ Range(f) \subseteq MetaType
        /\ DOMAIN f \subseteq D
        /\ \A z \in DOMAIN answers \ {k} : f[z] = answers[z]
    <3> HIDE DEF f
    <3>1. /\ DOMAIN Without(answers, k) = DOMAIN answers \ {k}
          /\ Range(Without(answers, k)) \subseteq MetaType /\ DOMAIN Without(answers, k) \subseteq D
          /\ \A z \in DOMAIN answers \ {k} : Without(answers, k)[z] = answers[z]
      BY <2>0, WithoutType
    <3> QED  BY <3>1 DEF f
  <2> QED  BY <2>1, <2>2 DEF D
<1>5. DOMAIN listing' \subseteq Profile /\ Range(listing') \subseteq MetaType
  BY <1>1, <1>3, WithoutType
<1>6. CatalogueTypeOK'
  BY <1>1, <1>2, <1>4, <1>5 DEF CatalogueInv, CatalogueTypeOK
<1>7. ASSUME NEW z \in DOMAIN answers', z[2] # AnyVersion
      PROVE  z[1] \in Profile /\ z[2] \in Version /\ (z[1] # n \/ z[2] # v)
             /\ z \in DOMAIN answers /\ answers'[z] = answers[z]
  BY <1>4, <1>7
<1>8. VersionedFresh'
  <2> SUFFICES ASSUME NEW z \in DOMAIN answers', z[2] # AnyVersion, z[1] \notin meddled
      PROVE  answers'[z] = LookedUp(z[1], z[2])'
    BY <1>1 DEF VersionedFresh
  <2>1. Holding(z[1], z[2]) # {} /\ answers[z] = LookedUp(z[1], z[2])
    BY <1>7 DEF CatalogueInv, VersionedFresh, AnswersAreHeld
  <2>2. LookedUp(z[1], z[2])' = LookedUp(z[1], z[2])
    BY <1>2, <1>7, <2>1
  <2> QED  BY <1>7, <2>1, <2>2
<1>9. AnswersAreHeld'
  <2> SUFFICES ASSUME NEW z \in DOMAIN answers', z[2] # AnyVersion PROVE Holding(z[1], z[2])' # {}
    BY DEF AnswersAreHeld
  <2> QED  BY <1>2, <1>7 DEF CatalogueInv, AnswersAreHeld
<1>10. OnePlan'
  BY <1>1 DEF CatalogueInv, OnePlan
<1> QED  BY <1>2, <1>6, <1>8, <1>9, <1>10 DEF CatalogueInv

LEMMA MeddleInv ==
  ASSUME CatalogueInv, NEW s \in Shelf, NEW n \in Profile, NEW v \in Version, Meddle(s, n, v)
  PROVE  CatalogueInv'
<1>1. shelved' = [shelved EXCEPT ![s][n][v] = @ + 1] /\ meddled' = meddled \cup {n}
      /\ UNCHANGED <<answers, listing, migration>> /\ shelved[s][n][v] < MaxOutside
  BY DEF Meddle
<1>2. shelved[s][n][v] < MaxRevision
  <2>1. shelved[s][n][v] \in 0..MaxRevision
    BY DEF CatalogueInv, CatalogueTypeOK
  <2> QED  BY <1>1, <2>1, CatalogueAssumption
<1>3. /\ shelved' \in [Shelf -> [Profile -> [Version -> 0..MaxRevision]]]
      /\ HasNewest'
      /\ \A m \in Profile, w \in Version :
           (m # n \/ w # v) /\ Holding(m, w) # {} => LookedUp(m, w)' = LookedUp(m, w)
      /\ \A m \in Profile, w \in Version : Holding(m, w) # {} => Holding(m, w)' # {}
  BY <1>1, <1>2, OneWritten
<1>4. CatalogueTypeOK'
  BY <1>1, <1>3 DEF CatalogueInv, CatalogueTypeOK
<1>5. ASSUME NEW z \in DOMAIN answers, z[2] # AnyVersion
      PROVE  z[1] \in Profile /\ z[2] \in Version
  BY <1>5 DEF CatalogueInv, CatalogueTypeOK
<1>6. VersionedFresh'
  <2> SUFFICES ASSUME NEW z \in DOMAIN answers, z[2] # AnyVersion, z[1] \notin meddled, z[1] # n
      PROVE  answers[z] = LookedUp(z[1], z[2])'
    BY <1>1 DEF VersionedFresh
  <2>1. Holding(z[1], z[2]) # {} /\ answers[z] = LookedUp(z[1], z[2])
    BY DEF CatalogueInv, VersionedFresh, AnswersAreHeld
  <2>2. LookedUp(z[1], z[2])' = LookedUp(z[1], z[2])
    BY <1>3, <1>5, <2>1
  <2> QED  BY <2>1, <2>2
<1>7. AnswersAreHeld'
  <2> SUFFICES ASSUME NEW z \in DOMAIN answers, z[2] # AnyVersion PROVE Holding(z[1], z[2])' # {}
    BY <1>1 DEF AnswersAreHeld
  <2> QED  BY <1>3, <1>5 DEF CatalogueInv, AnswersAreHeld
<1>8. OnePlan'
  BY <1>1 DEF CatalogueInv, OnePlan
<1> QED  BY <1>3, <1>4, <1>6, <1>7, <1>8 DEF CatalogueInv

LEMMA NewRegistryInv == ASSUME CatalogueInv, NewRegistry PROVE CatalogueInv'
<1>1. answers' = <<>> /\ listing' = <<>> /\ meddled' = {} /\ UNCHANGED <<shelved, migration>>
  BY DEF NewRegistry
<1>2. DOMAIN answers' = {} /\ DOMAIN listing' = {}
  BY <1>1
<1>3. Range(answers') = {} /\ Range(listing') = {}
  BY <1>2 DEF Range
<1>4. CatalogueTypeOK'
  BY <1>1, <1>2, <1>3 DEF CatalogueInv, CatalogueTypeOK
<1>5. HasNewest'
  BY <1>1, FilesSame
<1>6. VersionedFresh' /\ AnswersAreHeld' /\ OnePlan'
  BY <1>1, <1>2 DEF CatalogueInv, VersionedFresh, AnswersAreHeld, OnePlan
<1> QED  BY <1>4, <1>5, <1>6 DEF CatalogueInv

LEMMA RegistryNextInv == ASSUME CatalogueInv, RegistryNext PROVE CatalogueInv'
  BY ResolveInv, ListProfilesInv, RegisterInv, MeddleInv, NewRegistryInv DEF RegistryNext

LEMMA MigrationNextInv == ASSUME CatalogueInv, MigrationNext PROVE CatalogueInv'
<1>1. PICK p \in Plan : Execute(p)
  BY DEF MigrationNext
<1>2. UNCHANGED <<shelved, answers, listing, meddled>> /\ OnePlan'
  BY <1>1 DEF Execute, OnePlan
<1>3. HasNewest' /\ \A m, w : LookedUp(m, w)' = LookedUp(m, w) /\ Holding(m, w)' = Holding(m, w)
  BY <1>2, FilesSame
<1>4. CatalogueTypeOK'
  BY <1>2 DEF CatalogueInv, CatalogueTypeOK
<1>5. VersionedFresh' /\ AnswersAreHeld'
  BY <1>2, <1>3 DEF CatalogueInv, VersionedFresh, AnswersAreHeld
<1> QED  BY <1>2, <1>3, <1>4, <1>5 DEF CatalogueInv

LEMMA SuccessKeepsRuns ==
  ASSUME NEW p \in Plan, Succeeds(p), NEW s \in OldState \ p.removed
  PROVE  /\ s \in DOMAIN Migrated(p)
         /\ Migrated(p)[s] \in NewStates(p)
         /\ s \in Ended => p.new[Migrated(p)[s]] = "terminal"
<1> DEFINE D == {t \in OldState : Target(p, t) \in NewStates(p) \/ t \in NewStates(p)}
<1>1. Unmapped(p) = {} /\ Reopened(p) = {}
  BY DEF Succeeds
<1>2. s \in DOMAIN Migrated(p)
  BY <1>1 DEF Unmapped
<1>3. DOMAIN Migrated(p) = D
      /\ \A t \in D : Migrated(p)[t] = IF Target(p, t) \in NewStates(p) THEN Target(p, t) ELSE t
  BY DEF Migrated
<1>4. Migrated(p)[s] \in NewStates(p)
  BY <1>2, <1>3
<1>5. ASSUME s \in Ended PROVE p.new[Migrated(p)[s]] = "terminal"
  <2>1. Target(p, s) \in NewStates(p) /\ p.new[Target(p, s)] = "terminal"
    BY <1>1, <1>5 DEF Reopened
  <2> QED  BY <1>2, <1>3, <2>1
<1> QED  BY <1>2, <1>4, <1>5

LEMMA CatalogueHolds ==
  ASSUME CatalogueInv
  PROVE  CatalogueTypeOK /\ VersionedFresh /\ MigrationKeepsRuns
<1>1. MigrationKeepsRuns
  <2> SUFFICES ASSUME NEW i \in DOMAIN migration, migration[i].success
      PROVE  \A s \in OldState \ migration[i].plan.removed :
               /\ s \in DOMAIN migration[i].states
               /\ migration[i].states[s] \in NewStates(migration[i].plan)
               /\ s \in Ended => migration[i].plan.new[migration[i].states[s]] = "terminal"
    BY DEF MigrationKeepsRuns
  <2>1. PICK p \in Plan :
          migration = <<[plan |-> p, states |-> Migrated(p), success |-> Succeeds(p)]>>
    BY DEF CatalogueInv, OnePlan
  <2> DEFINE m == [plan |-> p, states |-> Migrated(p), success |-> Succeeds(p)]
  <2>a. m.plan = p /\ m.states = Migrated(p) /\ m.success = Succeeds(p)
    OBVIOUS
  <2> HIDE DEF m
  <2>b. migration = <<m>>
    BY <2>1 DEF m
  <2>c. i = 1 /\ migration[i] = m
    BY <2>b
  <2>2. migration[i].plan = p /\ migration[i].states = Migrated(p)
        /\ migration[i].success = Succeeds(p)
    BY <2>a, <2>c
  <2> QED  BY <2>2, SuccessKeepsRuns
<1> QED  BY <1>1 DEF CatalogueInv

LEMMA CatalogueRests == ASSUME CatalogueInv, UNCHANGED catalogueVars PROVE CatalogueInv'
  BY DEF CatalogueInv, AnswersAreHeld, CatalogueTypeOK, HasNewest, OnePlan, VersionedFresh,
         Holding, VersionsAt, LookedUp, Latest, Metadata, catalogueVars

-----------------------------------------------------------------------------
\* Plugins and the registry of providers

Plug == [status : {"disabled", "enabled", "error"}, version : Nat, active : BOOLEAN]

LifeCycleInv ==
  /\ catalog \in Seq(PluginId) /\ IsInjective(catalog)
  /\ plug \in [PluginId -> Plug] /\ onDisk \in [PluginId -> Nat]
  /\ EnabledIsSetUp

ProvidersInv ==
  /\ providers \in Seq(Provider) /\ IsInjective(providers) /\ DOMAIN usage = ToSet(providers)
  /\ DefaultRegistered

PluginsInv == LifeCycleInv /\ ProvidersInv

LEMMA SingleList ==
  ASSUME NEW S, NEW x \in S
  PROVE  <<x>> \in Seq(S) /\ IsInjective(<<x>>) /\ ToSet(<<x>>) = {x}
<1>1. <<x>> \in Seq(S) /\ Len(<<x>>) = 1 /\ <<x>>[1] = x
  OBVIOUS
<1>2. DOMAIN <<x>> = {1}
  OBVIOUS
<1>3. ToSet(<<x>>) = {x}
  BY <1>1, <1>2 DEF ToSet
<1>4. IsInjective(<<x>>)
  BY <1>2 DEF IsInjective
<1> QED  BY <1>1, <1>3, <1>4

LEMMA WithNewType ==
  ASSUME NEW S \in SUBSET PluginId, NEW ids \in Seq(S), IsInjective(ids),
         NEW ps \in Seq(S), IsInjective(ps)
  PROVE  /\ WithNew(ids, ps) \in Seq(S) /\ IsInjective(WithNew(ids, ps))
         /\ ToSet(WithNew(ids, ps)) = ToSet(ids) \cup ToSet(ps)
<1> DEFINE T == PluginId \ ToSet(ids)
           u == OnlyIn(ps, T)
<1>1. u \in Seq(S) /\ ToSet(u) = ToSet(ps) \cap T /\ IsInjective(u)
  <2> HIDE DEF T
  <2> QED  BY OnlyInType, OnlyInInjective
<1>2. ToSet(ids) \subseteq S /\ ToSet(ps) \subseteq S
  BY MemberOf
<1>3. ToSet(ids) \cap ToSet(u) = {} /\ ToSet(ids) \cup ToSet(u) = ToSet(ids) \cup ToSet(ps)
  BY <1>1, <1>2
<1> HIDE DEF u
<1>4. ids \o u \in Seq(S) /\ ToSet(ids \o u) = ToSet(ids) \cup ToSet(u) /\ IsInjective(ids \o u)
  BY <1>1, <1>3, ConcatHolds
<1>5. WithNew(ids, ps) = ids \o u
  BY DEF WithNew, u
<1> QED  BY <1>3, <1>4, <1>5

\* Files met in any order are all of them.
LEMMA AllMet ==
  ASSUME NEW new \in SUBSET PluginId, NEW ps \in SetToAllKPermutations(new),
         Len(ps) = Cardinality(new)
  PROVE  ps \in Seq(PluginId) /\ IsInjective(ps) /\ ToSet(ps) = new
<1>1. PICK s \in SUBSET new : ps \in SetToSeqs(s)
  BY DEF SetToAllKPermutations
<1>2. IsFiniteSet(new) /\ IsFiniteSet(s)
  BY PluginsAssumption, FS_Subset
<1> DEFINE c == Cardinality(s)
<1>3. c \in Nat
  BY <1>2, FS_CardinalityType
<1>4. ps \in [1..c -> s] /\ \A i, j \in 1..c : i # j => ps[i] # ps[j]
  BY <1>1 DEF SetToSeqs
<1>5. IsFiniteSet(1..c) /\ Cardinality(1..c) = c
  BY <1>3, FS_Interval
<1>6. ps \in Injection(1..c, s)
  <2> HIDE DEF c
  <2> QED  BY <1>4 DEF Injection, IsInjective
<1>7. ps \in Surjection(1..c, s)
  <2> HIDE DEF c
  <2>1. Cardinality(1..c) = Cardinality(s)
    BY <1>5 DEF c
  <2> QED  BY <1>2, <1>6, <2>1, FS_Injection
<1>8. ps \in Seq(s) /\ Len(ps) = c
  <2> HIDE DEF c
  <2>1. ps \in Seq(s)
    BY <1>3, <1>4, SeqDef
  <2> QED  BY <1>3, <1>4, <2>1, LenProperties
<1>9. s = new
  BY <1>2, <1>8, FS_Subset
<1>10. ps \in Seq(PluginId)
  <2>1. s \subseteq PluginId
    OBVIOUS
  <2> QED  BY <1>8, <2>1, SeqMonotonic
<1>11. ToSet(ps) = s
  <2> HIDE DEF c
  <2>1. DOMAIN ps = 1..c
    BY <1>4
  <2>2. \A y \in s : \E i \in 1..c : ps[i] = y
    BY <1>7 DEF Surjection
  <2>3. \A i \in 1..c : ps[i] \in s
    BY <1>4
  <2> QED  BY <2>1, <2>2, <2>3 DEF ToSet
<1>12. IsInjective(ps)
  BY <1>6 DEF Injection
<1> QED  BY <1>9, <1>10, <1>11, <1>12

LEMMA PluginsInitInv == ASSUME PluginsInit PROVE PluginsInv
<1>1. /\ onDisk = [p \in PluginId |-> 1] /\ catalog = <<>> /\ plug = [p \in PluginId |-> NotThere]
      /\ providers = <<>> /\ dflt = NoPlugin /\ usage = [p \in {} |-> NoUse]
  BY DEF PluginsInit
<1>2. <<>> \in Seq(PluginId) /\ <<>> \in Seq(Provider) /\ DOMAIN <<>> = {}
  OBVIOUS
<1>3. IsInjective(<<>>) /\ ToSet(<<>>) = {}
  BY <1>2 DEF IsInjective, ToSet
<1>4. NotThere \in Plug /\ NotThere.status = "disabled"
  BY DEF NotThere, Plug
<1>5. plug \in [PluginId -> Plug] /\ \A p \in PluginId : plug[p].status = "disabled"
  BY <1>1, <1>4
<1>6. DOMAIN usage = {}
  BY <1>1
<1> QED  BY <1>1, <1>2, <1>3, <1>5, <1>6
         DEF PluginsInv, LifeCycleInv, ProvidersInv, EnabledIsSetUp, DefaultRegistered

LEMMA LifeCycleTypes ==
  ASSUME LifeCycleInv
  PROVE  /\ catalog \in Seq(PluginId) /\ IsInjective(catalog) /\ Known \subseteq PluginId
         /\ plug \in [PluginId -> Plug] /\ onDisk \in [PluginId -> Nat]
         /\ \A p \in PluginId : /\ plug[p] \in Plug /\ plug[p].version \in Nat /\ plug[p].active \in BOOLEAN
                                /\ plug[p].status = "enabled" => p \in Known /\ plug[p].active
         /\ \A p \in PluginId : Registered(p) \in Plug /\ Registered(p).status = "disabled"
         /\ NotThere \in Plug /\ NotThere.status = "disabled"
<1>1. catalog \in Seq(PluginId) /\ plug \in [PluginId -> Plug] /\ onDisk \in [PluginId -> Nat]
  BY DEF LifeCycleInv
<1>2. \A p \in PluginId : plug[p] \in Plug /\ plug[p].version \in Nat /\ plug[p].active \in BOOLEAN
  BY <1>1 DEF Plug
<1>3. \A p \in PluginId : Registered(p) \in Plug /\ Registered(p).status = "disabled"
  BY <1>1 DEF Registered, Plug
<1>4. NotThere \in Plug /\ NotThere.status = "disabled"
  BY DEF NotThere, Plug
<1> QED  BY <1>1, <1>2, <1>3, <1>4, MemberOf DEF LifeCycleInv, EnabledIsSetUp, Has, Known

LEMMA PlugSets ==
  ASSUME NEW f \in [PluginId -> Plug], NEW p \in PluginId, NEW r \in Plug
  PROVE  /\ [f EXCEPT ![p] = r] \in [PluginId -> Plug] /\ [f EXCEPT ![p] = r][p] = r
         /\ \A q \in PluginId : q # p => [f EXCEPT ![p] = r][q] = f[q]
  OBVIOUS

LEMMA DisabledType ==
  ASSUME LifeCycleInv, NEW p \in PluginId, NEW raises \in BOOLEAN
  PROVE  /\ Disabled(plug, p, raises) \in [PluginId -> Plug]
         /\ \A q \in PluginId : Disabled(plug, p, raises)[q].status = "enabled" =>
              q \in Known /\ Disabled(plug, p, raises)[q].active
<1> DEFINE r == [plug[p] EXCEPT !.status = "disabled", !.active = FALSE]
<1>1. plug \in [PluginId -> Plug] /\ plug[p] \in Plug
      /\ \A q \in PluginId : plug[q].status = "enabled" => q \in Known /\ plug[q].active
  BY LifeCycleTypes
<1>2. r \in Plug /\ r.status = "disabled"
  BY <1>1 DEF Plug
<1>3. Disabled(plug, p, raises) = plug \/ Disabled(plug, p, raises) = [plug EXCEPT ![p] = r]
  BY <1>1 DEF Disabled
<1> HIDE DEF r
<1>4. CASE Disabled(plug, p, raises) = plug
  BY <1>1, <1>4
<1>5. CASE Disabled(plug, p, raises) = [plug EXCEPT ![p] = r]
  BY <1>1, <1>2, <1>5
<1> QED  BY <1>3, <1>4, <1>5

LEMMA LifeCycleNextInv ==
  ASSUME LifeCycleInv, LifeCycleNext
  PROVE  LifeCycleInv'
<1>0. /\ catalog \in Seq(PluginId) /\ IsInjective(catalog) /\ Known \subseteq PluginId
      /\ plug \in [PluginId -> Plug] /\ onDisk \in [PluginId -> Nat]
      /\ \A p \in PluginId : plug[p].status = "enabled" => p \in Known /\ plug[p].active
  BY LifeCycleTypes
<1>1. ASSUME NEW p \in PluginId, Enable(p) PROVE LifeCycleInv'
  <2>1. PICK raises \in BOOLEAN : plug' = [plug EXCEPT
          ![p].status = IF raises \/ p \in Provider THEN "error" ELSE "enabled",
          ![p].active = @ \/ ~raises]
    BY <1>1 DEF Enable
  <2>2. p \in Known /\ UNCHANGED <<onDisk, catalog>>
    BY <1>1 DEF Enable, Has
  <2> DEFINE st == IF raises \/ p \in Provider THEN "error" ELSE "enabled"
             on == plug[p].active \/ ~raises
             r == [plug[p] EXCEPT !.status = st, !.active = on]
  <2>3. plug[p] \in Plug /\ st \in {"disabled", "enabled", "error"} /\ on \in BOOLEAN
        /\ (st = "enabled" => on)
    BY LifeCycleTypes
  <2>4. r \in Plug /\ (r.status = "enabled" => r.active)
    <3> HIDE DEF st, on
    <3> QED  BY <2>3 DEF Plug
  <2>5. plug' = [plug EXCEPT ![p] = r]
    BY <1>0, <2>1
  <2> HIDE DEF r
  <2>6. plug' \in [PluginId -> Plug]
        /\ \A q \in PluginId : plug'[q].status = "enabled" => q \in Known /\ plug'[q].active
    BY <1>0, <2>2, <2>4, <2>5
  <2> QED  BY <1>0, <2>2, <2>6 DEF LifeCycleInv, EnabledIsSetUp, Has, Known
<1>2. ASSUME NEW p \in PluginId, Disable(p) PROVE LifeCycleInv'
  <2>1. PICK raises \in BOOLEAN : plug' = Disabled(plug, p, raises)
    BY <1>2 DEF Disable
  <2>2. UNCHANGED <<onDisk, catalog>>
    BY <1>2 DEF Disable
  <2>3. plug' \in [PluginId -> Plug]
        /\ \A q \in PluginId : plug'[q].status = "enabled" => q \in Known /\ plug'[q].active
    BY <2>1, DisabledType
  <2> QED  BY <1>0, <2>2, <2>3 DEF LifeCycleInv, EnabledIsSetUp, Has, Known
<1>3. ASSUME NEW p \in PluginId, Install(p) PROVE LifeCycleInv'
  <2>1. catalog' = WithNew(catalog, <<p>>) /\ plug' = [plug EXCEPT ![p] = Registered(p)] /\ onDisk' = onDisk
    BY <1>3 DEF Install
  <2>2. catalog' \in Seq(PluginId) /\ IsInjective(catalog') /\ ToSet(catalog') = Known \cup {p}
    <3>1. PICK one \in Seq(PluginId) : one = <<p>> /\ IsInjective(one) /\ ToSet(one) = {p}
      BY SingleList
    <3>2. catalog' = WithNew(catalog, one) /\ PluginId \in SUBSET PluginId
      BY <1>0, <2>1, <3>1
    <3>3. catalog \in Seq(PluginId) /\ IsInjective(catalog) /\ ToSet(catalog) = Known
      BY <1>0 DEF Known
    <3>4. catalog' \in Seq(PluginId) /\ IsInjective(catalog')
          /\ ToSet(catalog') = ToSet(catalog) \cup ToSet(one)
      <4>1. /\ WithNew(catalog, one) \in Seq(PluginId) /\ IsInjective(WithNew(catalog, one))
            /\ ToSet(WithNew(catalog, one)) = ToSet(catalog) \cup ToSet(one)
        BY <3>1, <3>3, WithNewType
      <4> QED  BY <3>2, <4>1
    <3> QED  BY <3>1, <3>3, <3>4
  <2>3. Registered(p) \in Plug /\ Registered(p).status = "disabled"
    BY LifeCycleTypes
  <2>4. plug' \in [PluginId -> Plug]
        /\ \A q \in PluginId : plug'[q].status = "enabled" => q \in ToSet(catalog') /\ plug'[q].active
    BY <1>0, <2>1, <2>2, <2>3
  <2> QED  BY <1>0, <2>1, <2>2, <2>4 DEF LifeCycleInv, EnabledIsSetUp, Has, Known
<1>4. ASSUME NEW p \in PluginId, Uninstall(p) PROVE LifeCycleInv'
  <2>1. PICK raises \in BOOLEAN :
          \/ plug' = Disabled(plug, p, raises) /\ catalog' = catalog
          \/ catalog' = OnlyIn(catalog, PluginId \ {p}) /\ plug' = [plug EXCEPT ![p] = NotThere]
    BY <1>4 DEF Uninstall
  <2>2. onDisk' = onDisk
    BY <1>4 DEF Uninstall
  <2>3. CASE plug' = Disabled(plug, p, raises) /\ catalog' = catalog
    <3>1. plug' \in [PluginId -> Plug]
          /\ \A q \in PluginId : plug'[q].status = "enabled" => q \in Known /\ plug'[q].active
      BY <2>3, DisabledType
    <3> QED  BY <1>0, <2>2, <2>3, <3>1 DEF LifeCycleInv, EnabledIsSetUp, Has, Known
  <2>4. CASE catalog' = OnlyIn(catalog, PluginId \ {p}) /\ plug' = [plug EXCEPT ![p] = NotThere]
    <3>1. catalog' \in Seq(PluginId) /\ ToSet(catalog') = ToSet(catalog) \cap (PluginId \ {p})
          /\ IsInjective(catalog')
      BY <1>0, <2>4, OnlyInType, OnlyInInjective
    <3>2. ToSet(catalog') = Known \ {p}
      BY <1>0, <3>1 DEF Known
    <3>3. NotThere \in Plug /\ NotThere.status = "disabled"
      BY LifeCycleTypes
    <3>4. plug' \in [PluginId -> Plug]
          /\ \A q \in PluginId : plug'[q].status = "enabled" => q \in ToSet(catalog') /\ plug'[q].active
      BY <1>0, <2>4, <3>2, <3>3
    <3> QED  BY <1>0, <2>2, <3>1, <3>4 DEF LifeCycleInv, EnabledIsSetUp, Has, Known
  <2> QED  BY <2>1, <2>3, <2>4
<1>5. CASE Discover
  <2> DEFINE new == {p \in PluginId : IsNew(p)}
  <2>1. PICK ps \in SetToAllKPermutations(new) :
          Len(ps) = Cardinality(new) /\ catalog' = WithNew(catalog, ps)
    BY <1>5 DEF Discover
  <2>2. plug' = [p \in PluginId |-> IF p \in new THEN Registered(p) ELSE plug[p]] /\ onDisk' = onDisk
    BY <1>5 DEF Discover
  <2>3. new \in SUBSET PluginId
    OBVIOUS
  <2> HIDE DEF new
  <2>4. ps \in Seq(PluginId) /\ IsInjective(ps) /\ ToSet(ps) = new
    BY <2>1, <2>3, AllMet
  <2>5. catalog' \in Seq(PluginId) /\ IsInjective(catalog') /\ ToSet(catalog') = Known \cup new
    BY <1>0, <2>1, <2>4, WithNewType DEF Known
  <2>6. \A p \in PluginId : Registered(p) \in Plug /\ Registered(p).status = "disabled"
    BY LifeCycleTypes
  <2>7. plug' \in [PluginId -> Plug]
        /\ \A q \in PluginId : plug'[q].status = "enabled" => q \in ToSet(catalog') /\ plug'[q].active
    BY <1>0, <2>2, <2>5, <2>6
  <2> QED  BY <1>0, <2>2, <2>5, <2>7 DEF LifeCycleInv, EnabledIsSetUp, Has, Known
<1>6. ASSUME NEW p \in PluginId, Reload(p) PROVE LifeCycleInv'
  <2> DEFINE rest == OnlyIn(catalog, PluginId \ {p})
             new == {q \in PluginId : onDisk[q] > 0 /\ (q = p \/ IsNew(q))}
             was == Has(p) /\ plug[p].status = "enabled"
             again(raises) == [Registered(p) EXCEPT
                                 !.status = IF raises \/ p \in Provider THEN "error" ELSE "enabled",
                                 !.active = ~raises]
  <2>1. PICK ps \in SetToAllKPermutations(new), raises \in BOOLEAN :
          /\ Len(ps) = Cardinality(new) /\ catalog' = WithNew(rest, ps)
          /\ plug' = [q \in PluginId |->
               IF q = p /\ was /\ onDisk[p] > 0 THEN again(raises)
               ELSE IF q \in new THEN Registered(q)
               ELSE IF q = p THEN NotThere ELSE plug[q]]
          /\ onDisk' = onDisk
    BY <1>6 DEF Reload
  <2>2. new \in SUBSET PluginId /\ (onDisk[p] > 0 => p \in new)
    OBVIOUS
  <2>3. again(raises) \in Plug /\ (again(raises).status = "enabled" => again(raises).active)
    <3>1. Registered(p) \in Plug
      BY LifeCycleTypes
    <3> QED  BY <3>1 DEF Plug
  <2>4. \A q \in PluginId : Registered(q) \in Plug /\ Registered(q).status = "disabled"
    BY LifeCycleTypes
  <2>5. NotThere \in Plug /\ NotThere.status = "disabled"
    BY LifeCycleTypes
  <2>6. rest \in Seq(PluginId) /\ IsInjective(rest) /\ ToSet(rest) = Known \ {p}
    <3>1. rest \in Seq(PluginId) /\ IsInjective(rest) /\ ToSet(rest) = ToSet(catalog) \cap (PluginId \ {p})
      BY <1>0, OnlyInType, OnlyInInjective
    <3> QED  BY <1>0, <3>1 DEF Known
  <2> HIDE DEF rest, new, was, again
  <2>7. ps \in Seq(PluginId) /\ IsInjective(ps) /\ ToSet(ps) = new
    BY <2>1, <2>2, AllMet
  <2>8. catalog' \in Seq(PluginId) /\ IsInjective(catalog') /\ ToSet(catalog') = (Known \ {p}) \cup new
    BY <2>1, <2>6, <2>7, WithNewType
  <2>9. ASSUME NEW q \in PluginId
        PROVE  plug'[q] \in Plug
               /\ (plug'[q].status = "enabled" => q \in ToSet(catalog') /\ plug'[q].active)
    <3>1. CASE q = p /\ was /\ onDisk[p] > 0
      BY <2>1, <2>2, <2>3, <2>8, <3>1
    <3>2. CASE ~(q = p /\ was /\ onDisk[p] > 0)
      <4>1. CASE q \in new
        BY <2>1, <2>4, <3>2, <4>1
      <4>2. CASE q \notin new /\ q = p
        BY <2>1, <2>5, <3>2, <4>2
      <4>3. CASE q \notin new /\ q # p
        BY <1>0, <2>1, <2>8, <4>3
      <4> QED  BY <4>1, <4>2, <4>3
    <3> QED  BY <3>1, <3>2
  <2>10. plug' \in [PluginId -> Plug]
    <3>1. DOMAIN plug' = PluginId /\ plug' = [q \in PluginId |-> plug'[q]]
      BY <2>1
    <3> QED  BY <2>9, <3>1
  <2> QED  BY <1>0, <2>1, <2>8, <2>9, <2>10 DEF LifeCycleInv, EnabledIsSetUp, Has, Known
<1>7. CASE Shutdown
  <2>1. plug' = [p \in PluginId |->
          IF plug[p].status = "enabled" THEN [plug[p] EXCEPT !.status = "disabled", !.active = FALSE]
          ELSE [plug[p] EXCEPT !.status = "disabled"]] /\ UNCHANGED <<onDisk, catalog>>
    BY <1>7 DEF Shutdown
  <2>2. ASSUME NEW p \in PluginId
        PROVE  /\ [plug[p] EXCEPT !.status = "disabled", !.active = FALSE] \in Plug
               /\ [plug[p] EXCEPT !.status = "disabled"] \in Plug
               /\ [plug[p] EXCEPT !.status = "disabled", !.active = FALSE].status = "disabled"
               /\ [plug[p] EXCEPT !.status = "disabled"].status = "disabled"
    <3>1. plug[p] \in Plug
      BY LifeCycleTypes
    <3> QED  BY <3>1 DEF Plug
  <2>3. plug' \in [PluginId -> Plug] /\ \A p \in PluginId : plug'[p].status = "disabled"
    BY <2>1, <2>2
  <2> QED  BY <1>0, <2>1, <2>3 DEF LifeCycleInv, EnabledIsSetUp
<1>8. ASSUME NEW p \in PluginId, DiskEdited(p) PROVE LifeCycleInv'
  <2>1. PICK v \in 0..MaxRelease : onDisk' = [onDisk EXCEPT ![p] = v]
    BY <1>8 DEF DiskEdited
  <2>2. UNCHANGED <<catalog, plug>>
    BY <1>8 DEF DiskEdited
  <2>3. v \in Nat
    BY PluginsAssumption
  <2>4. onDisk' \in [PluginId -> Nat]
    BY <1>0, <2>1, <2>3
  <2> QED  BY <1>0, <2>2, <2>4 DEF LifeCycleInv, EnabledIsSetUp, Has, Known
<1> QED  BY <1>1, <1>2, <1>3, <1>4, <1>5, <1>6, <1>7, <1>8 DEF LifeCycleNext

-----------------------------------------------------------------------------
LEMMA NoneAndSome ==
  ASSUME NEW S, NEW s \in Seq(S)
  PROVE  /\ s = <<>> <=> ToSet(s) = {}
         /\ s # <<>> => Head(s) \in ToSet(s)
<1>1. s = <<>> => ToSet(s) = {}
  BY DEF ToSet
<1>2. s # <<>> => Head(s) \in ToSet(s)
  <2> SUFFICES ASSUME s # <<>> PROVE Head(s) \in ToSet(s)
    OBVIOUS
  <2>1. Head(s) = s[1] /\ Len(s) >= 1 /\ Len(s) \in Nat
    BY TailHolds
  <2> QED  BY <2>1, MemberOf
<1> QED  BY <1>1, <1>2

LEMMA ProvidersNextInv == ASSUME ProvidersInv, ProvidersNext PROVE ProvidersInv'
<1>0. /\ providers \in Seq(Provider) /\ IsInjective(providers) /\ DOMAIN usage = ToSet(providers)
      /\ ToSet(providers) \subseteq Provider /\ Provider \in SUBSET PluginId /\ NoPlugin \notin Provider
      /\ IF providers = <<>> THEN dflt = NoPlugin ELSE dflt \in ToSet(providers)
  BY PluginsAssumption, MemberOf DEF ProvidersInv, DefaultRegistered
<1>1. ASSUME NEW p \in Provider, NEW d \in BOOLEAN, RegisterProvider(p, d) PROVE ProvidersInv'
  <2>1. /\ providers' = WithNew(providers, <<p>>)
        /\ usage' = [q \in DOMAIN usage \cup {p} |-> IF q = p THEN NoUse ELSE usage[q]]
        /\ dflt' = IF d \/ dflt = NoPlugin THEN p ELSE dflt
    BY <1>1 DEF RegisterProvider
  <2>2. providers' \in Seq(Provider) /\ IsInjective(providers')
        /\ ToSet(providers') = ToSet(providers) \cup {p}
    <3>1. PICK one \in Seq(Provider) : one = <<p>> /\ IsInjective(one) /\ ToSet(one) = {p}
      BY SingleList
    <3>2. providers' = WithNew(providers, one) /\ Provider \in SUBSET PluginId
      BY <1>0, <2>1, <3>1
    <3>3. providers \in Seq(Provider) /\ IsInjective(providers)
      BY <1>0
    <3>4. /\ WithNew(providers, one) \in Seq(Provider) /\ IsInjective(WithNew(providers, one))
          /\ ToSet(WithNew(providers, one)) = ToSet(providers) \cup ToSet(one)
      BY <3>1, <3>2, <3>3, WithNewType
    <3> QED  BY <3>1, <3>2, <3>4
  <2>3. DOMAIN usage' = ToSet(providers')
    BY <1>0, <2>1, <2>2
  <2>4. providers' # <<>>
    BY <2>2, NoneAndSome
  <2>5. dflt' \in ToSet(providers')
    BY <1>0, <2>1, <2>2
  <2> QED  BY <2>2, <2>3, <2>4, <2>5 DEF ProvidersInv, DefaultRegistered
<1>2. ASSUME NEW p \in Provider, UnregisterProvider(p) PROVE ProvidersInv'
  <2>1. /\ providers' = OnlyIn(providers, Provider \ {p})
        /\ usage' = [q \in DOMAIN usage \ {p} |-> usage[q]]
        /\ dflt' = IF dflt # p THEN dflt ELSE IF providers' = <<>> THEN NoPlugin ELSE Head(providers')
    BY <1>2 DEF UnregisterProvider
  <2>2. providers' \in Seq(Provider) /\ IsInjective(providers')
        /\ ToSet(providers') = ToSet(providers) \ {p}
    <3>1. providers' \in Seq(Provider) /\ IsInjective(providers')
          /\ ToSet(providers') = ToSet(providers) \cap (Provider \ {p})
      BY <1>0, <2>1, OnlyInType, OnlyInInjective
    <3> QED  BY <1>0, <3>1
  <2>3. DOMAIN usage' = ToSet(providers')
    BY <1>0, <2>1, <2>2
  <2>4. /\ providers' = <<>> <=> ToSet(providers') = {}
        /\ providers' # <<>> => Head(providers') \in ToSet(providers')
        /\ providers = <<>> <=> ToSet(providers) = {}
    BY <1>0, <2>2, NoneAndSome
  <2>5. IF providers' = <<>> THEN dflt' = NoPlugin ELSE dflt' \in ToSet(providers')
    BY <1>0, <2>1, <2>2, <2>4
  <2> QED  BY <2>2, <2>3, <2>5 DEF ProvidersInv, DefaultRegistered
<1>3. CASE Complete
  <2>1. DOMAIN usage' = DOMAIN usage /\ UNCHANGED <<providers, dflt>>
    BY <1>3 DEF Complete
  <2> QED  BY <2>1 DEF ProvidersInv, DefaultRegistered
<1>4. ASSUME NEW p \in Provider, ServiceChanges(p) PROVE ProvidersInv'
  <2>1. UNCHANGED <<providers, dflt, usage>>
    BY <1>4 DEF ServiceChanges
  <2> QED  BY <2>1 DEF ProvidersInv, DefaultRegistered
<1> QED  BY <1>1, <1>2, <1>3, <1>4 DEF ProvidersNext

\* Neither half touches the other's state.
LEMMA PluginsNextInv == ASSUME PluginsInv, PluginsNext PROVE PluginsInv'
<1>1. CASE LifeCycleNext
  <2>1. UNCHANGED llmVars
    BY <1>1 DEF LifeCycleNext, Enable, Disable, Install, Uninstall, Discover, Reload, Shutdown, DiskEdited
  <2> QED  BY <1>1, <2>1, LifeCycleNextInv
           DEF PluginsInv, ProvidersInv, DefaultRegistered, llmVars
<1>2. CASE ProvidersNext
  <2>1. UNCHANGED <<onDisk, catalog, plug>>
    BY <1>2 DEF ProvidersNext, RegisterProvider, UnregisterProvider, Complete, ServiceChanges
  <2> QED  BY <1>2, <2>1, ProvidersNextInv
           DEF PluginsInv, LifeCycleInv, EnabledIsSetUp, Has, Known
<1> QED  BY <1>1, <1>2 DEF PluginsNext

LEMMA PluginsHold == ASSUME PluginsInv PROVE PluginsTypeOK /\ EnabledIsSetUp /\ DefaultRegistered
<1>1. ASSUME NEW p \in PluginId PROVE plug[p].status \in {"disabled", "enabled", "error"}
  <2>1. plug[p] \in Plug
    BY LifeCycleTypes DEF PluginsInv
  <2> QED  BY <2>1 DEF Plug
<1> QED  BY <1>1, LifeCycleTypes DEF PluginsInv, LifeCycleInv, ProvidersInv, PluginsTypeOK

LEMMA PluginsRests == ASSUME PluginsInv, UNCHANGED pluginVars PROVE PluginsInv'
  BY DEF PluginsInv, LifeCycleInv, ProvidersInv, EnabledIsSetUp, DefaultRegistered, Has,
         Known, pluginVars, llmVars

-----------------------------------------------------------------------------
\* The store of installed plugins

FileKind == {"half", "local", "published"}
Files == {NoDirectory} \cup SUBSET FileKind
StoreCall == [step : {"download", "verify", "record", "save", "forget"}, package : Package,
              source : {"repository", "local", "none"}]
IsTable(f) == DOMAIN f \subseteq Package /\ \A p \in DOMAIN f : f[p] \in {"repository", "local"}

StoreTypes ==
  /\ unpacked \in [Package -> Files]
  /\ IsTable(records) /\ (indexFile = Torn \/ IsTable(indexFile))
  /\ installing = Resting \/ installing \in StoreCall
  /\ stops \in 0..MaxStops /\ full \in 0..MaxFull

\* Whatever is downloaded has a directory and no record, and what is recorded has a source
\* and was verified.
CallIsSound ==
  /\ installing.step \in {"download", "verify"} =>
       unpacked[installing.package] \in SUBSET FileKind /\ installing.package \notin DOMAIN records
  /\ installing.step = "record" =>
       /\ installing.source \in {"repository", "local"}
       /\ installing.source = "repository" /\ installing.package \in Signed =>
            unpacked[installing.package] = {"published"}

\* An index file that can be read holds the records in memory.
FileIsRecords == indexFile # Torn => indexFile = records

StoreInv == StoreTypes /\ CallIsSound /\ FileIsRecords /\ InstalledIsPublished

LEMMA StoreInitInv == ASSUME StoreInit PROVE StoreInv
<1>1. installing.step = "rest"
  BY DEF StoreInit, Resting
<1>2. IsTable(<<>>)
  BY DEF IsTable
<1>3. StoreTypes
  BY <1>2, PluginStoreAssumption DEF StoreInit, StoreTypes, Files
<1>4. DOMAIN records = {} /\ indexFile = records
  BY DEF StoreInit
<1> QED  BY <1>1, <1>3, <1>4 DEF StoreInv, CallIsSound, FileIsRecords, InstalledIsPublished

LEMMA StepRests ==
  ASSUME installing' = Resting
  PROVE  CallIsSound'
<1>1. installing'.step = "rest"
  BY DEF Resting
<1> QED  BY <1>1 DEF CallIsSound

LEMMA GoesTo ==
  ASSUME NEW p \in Package, NEW source \in {"repository", "local", "none"},
         NEW step \in {"download", "verify", "record", "save", "forget"}, Goes(p, source, step)
  PROVE  /\ installing' \in StoreCall
         /\ installing'.step = step /\ installing'.package = p /\ installing'.source = source
BY DEF Goes, StoreCall

LEMMA CallUnderWay ==
  ASSUME StoreInv, ~AtStep("rest")
  PROVE  installing \in StoreCall /\ installing.package \in Package
         /\ installing.source \in {"repository", "local", "none"}
<1>1. installing # Resting
  BY DEF AtStep, Resting
<1>2. installing \in StoreCall
  BY <1>1 DEF StoreInv, StoreTypes
<1> QED  BY <1>2 DEF StoreCall

\* A step that changes the files of one package to files of the three kinds, or to none
LEMMA FilesChange ==
  ASSUME StoreInv, NEW p \in Package, NEW inside \in Files,
         unpacked' = [unpacked EXCEPT ![p] = inside]
  PROVE  unpacked' \in [Package -> Files] /\ unpacked'[p] = inside
BY DEF StoreInv, StoreTypes

\* A step that leaves the records alone keeps what they say, if it empties or fills a
\* directory as a whole, or if the package has no record.
LEMMA RecordsKept ==
  ASSUME StoreInv, NEW p \in Package, NEW inside \in Files, UNCHANGED <<records, indexFile>>,
         unpacked' = [unpacked EXCEPT ![p] = inside],
         p \notin DOMAIN records \/ inside \in {{"local"}, NoDirectory}
  PROVE  InstalledIsPublished' /\ FileIsRecords'
<1>1. \A q \in Package : unpacked'[q] = IF q = p THEN inside ELSE unpacked[q]
  BY DEF StoreInv, StoreTypes
<1>2. Signed \subseteq Package
  BY PluginStoreAssumption
<1>3. FileIsRecords'
  BY DEF StoreInv, FileIsRecords
<1> QED  BY <1>1, <1>2, <1>3 DEF StoreInv, InstalledIsPublished

LEMMA StoreBegins ==
  ASSUME StoreInv, NEW p \in Package, InstallPackage(p) \/ InstallLocal(p) \/ UninstallPackage(p)
  PROVE  StoreInv'
<1>1. CASE InstallPackage(p)
  <2>1. /\ UNCHANGED <<records, indexFile, stops, full>>
        /\ unpacked' = [unpacked EXCEPT ![p] = IF unpacked[p] = NoDirectory THEN {} ELSE unpacked[p]]
        /\ Goes(p, "repository", "download")
    BY <1>1 DEF InstallPackage
  <2>2. (IF unpacked[p] = NoDirectory THEN {} ELSE unpacked[p]) \in SUBSET FileKind
    BY DEF StoreInv, StoreTypes, Files
  <2>3. unpacked' \in [Package -> Files] /\ unpacked'[p] \in SUBSET FileKind
    <3>1. (IF unpacked[p] = NoDirectory THEN {} ELSE unpacked[p]) \in Files
      BY <2>2 DEF Files
    <3>2. unpacked' \in [Package -> Files]
          /\ unpacked'[p] = IF unpacked[p] = NoDirectory THEN {} ELSE unpacked[p]
      BY <2>1, <3>1, FilesChange
    <3> QED  BY <2>2, <3>2
  <2>4. installing' \in StoreCall /\ installing'.step = "download" /\ installing'.package = p
    BY <2>1, GoesTo
  <2>5. p \notin DOMAIN records
    BY <1>1 DEF InstallPackage
  <2>6. (IF unpacked[p] = NoDirectory THEN {} ELSE unpacked[p]) \in Files
    BY <2>2 DEF Files
  <2>7. InstalledIsPublished' /\ FileIsRecords'
    BY <2>1, <2>5, <2>6, RecordsKept
  <2> QED  BY <2>1, <2>3, <2>4, <2>5, <2>7 DEF StoreInv, StoreTypes, CallIsSound
<1>2. CASE InstallLocal(p)
  <2>1. /\ UNCHANGED <<records, indexFile, stops, full>>
        /\ unpacked' = [unpacked EXCEPT ![p] = {"local"}] /\ Goes(p, "local", "record")
    BY <1>2 DEF InstallLocal
  <2>2. unpacked' \in [Package -> Files]
    <3>1. {"local"} \in Files
      BY DEF Files, FileKind
    <3> QED  BY <2>1, <3>1, FilesChange
  <2>3. installing' \in StoreCall /\ installing'.step = "record" /\ installing'.source = "local"
    BY <2>1, GoesTo
  <2>4. {"local"} \in Files
    BY DEF Files, FileKind
  <2>5. InstalledIsPublished' /\ FileIsRecords'
    BY <2>1, <2>4, RecordsKept
  <2> QED  BY <2>1, <2>2, <2>3, <2>5 DEF StoreInv, StoreTypes, CallIsSound
<1>3. CASE UninstallPackage(p)
  <2>1. /\ UNCHANGED <<records, indexFile, stops, full>>
        /\ unpacked' = [unpacked EXCEPT ![p] = NoDirectory] /\ Goes(p, "none", "forget")
    BY <1>3 DEF UninstallPackage
  <2>2. unpacked' \in [Package -> Files]
    BY <2>1, FilesChange DEF Files
  <2>3. installing' \in StoreCall /\ installing'.step = "forget"
    BY <2>1, GoesTo
  <2>4. NoDirectory \in Files
    BY DEF Files
  <2>5. InstalledIsPublished' /\ FileIsRecords'
    BY <2>1, <2>4, RecordsKept
  <2> QED  BY <2>1, <2>2, <2>3, <2>5 DEF StoreInv, StoreTypes, CallIsSound
<1> QED  BY <1>1, <1>2, <1>3

LEMMA StoreDownloads ==
  ASSUME StoreInv, DownloadsHalf \/ \E overwritten \in SUBSET {"local"} : Downloads(overwritten)
  PROVE  StoreInv'
<1> DEFINE p == installing.package
<1>0. AtStep("download") /\ installing \in StoreCall /\ p \in Package
      /\ unpacked[p] \in SUBSET FileKind /\ p \notin DOMAIN records
      /\ UNCHANGED <<records, indexFile, stops, full>>
  <2>1. AtStep("download") /\ UNCHANGED <<records, indexFile, stops, full>>
    BY DEF DownloadsHalf, Downloads
  <2>2. ~AtStep("rest")
    BY <2>1 DEF AtStep
  <2> QED  BY <2>1, <2>2, CallUnderWay DEF StoreInv, CallIsSound, AtStep
<1>1. CASE DownloadsHalf
  <2>1. UNCHANGED installing /\ unpacked' = [unpacked EXCEPT ![p] = unpacked[p] \cup {"half"}]
    BY <1>1 DEF DownloadsHalf
  <2> DEFINE inside == unpacked[p] \cup {"half"}
  <2>2. inside \in SUBSET FileKind
    BY <1>0 DEF FileKind
  <2> HIDE DEF inside
  <2>5. inside \in Files /\ unpacked' = [unpacked EXCEPT ![p] = inside]
    BY <2>1, <2>2 DEF inside, Files
  <2>3. unpacked' \in [Package -> Files] /\ unpacked'[p] \in SUBSET FileKind
    <3>1. unpacked' \in [Package -> Files] /\ unpacked'[p] = inside
      BY <1>0, <2>5, FilesChange
    <3> QED  BY <2>2, <3>1
  <2>4. installing.step = "download"
    BY <1>0 DEF AtStep
  <2>6. InstalledIsPublished' /\ FileIsRecords'
    BY <1>0, <2>5, RecordsKept
  <2> QED  BY <1>0, <2>1, <2>3, <2>4, <2>6 DEF StoreInv, StoreTypes, CallIsSound
<1>2. ASSUME NEW overwritten \in SUBSET {"local"}, Downloads(overwritten) PROVE StoreInv'
  <2>1. unpacked' = [unpacked EXCEPT ![p] = (unpacked[p] \ ({"half"} \cup overwritten)) \cup {"published"}]
        /\ Goes(p, "repository", "verify")
    BY <1>2 DEF Downloads
  <2> DEFINE inside == (unpacked[p] \ ({"half"} \cup overwritten)) \cup {"published"}
  <2>2. inside \in SUBSET FileKind
    BY <1>0 DEF FileKind
  <2> HIDE DEF inside
  <2>5. inside \in Files /\ unpacked' = [unpacked EXCEPT ![p] = inside]
    BY <2>1, <2>2 DEF inside, Files
  <2>3. unpacked' \in [Package -> Files] /\ unpacked'[p] \in SUBSET FileKind
    <3>1. unpacked' \in [Package -> Files] /\ unpacked'[p] = inside
      BY <1>0, <2>5, FilesChange
    <3> QED  BY <2>2, <3>1
  <2>4. installing' \in StoreCall /\ installing'.step = "verify" /\ installing'.package = p
    BY <1>0, <2>1, GoesTo
  <2>6. InstalledIsPublished' /\ FileIsRecords'
    BY <1>0, <2>5, RecordsKept
  <2> QED  BY <1>0, <2>3, <2>4, <2>6 DEF StoreInv, StoreTypes, CallIsSound
<1> QED  BY <1>1, <1>2

LEMMA StoreVerifies == ASSUME StoreInv, VerifyFails \/ Verified PROVE StoreInv'
<1> DEFINE p == installing.package
<1>0. AtStep("verify") /\ installing \in StoreCall /\ p \in Package
      /\ UNCHANGED <<records, indexFile, stops, full>>
  <2>1. AtStep("verify") /\ UNCHANGED <<records, indexFile, stops, full>>
    BY DEF VerifyFails, Verified
  <2>2. ~AtStep("rest")
    BY <2>1 DEF AtStep
  <2> QED  BY <2>1, <2>2, CallUnderWay
<1>1. CASE VerifyFails
  <2>1. installing' = Resting /\ unpacked' = [unpacked EXCEPT ![p] = NoDirectory]
    BY <1>1 DEF VerifyFails
  <2>2. unpacked' \in [Package -> Files]
    BY <1>0, <2>1, FilesChange DEF Files
  <2>3. InstalledIsPublished' /\ FileIsRecords'
    BY <1>0, <2>1, RecordsKept DEF Files
  <2> QED  BY <1>0, <2>1, <2>2, <2>3, StepRests DEF StoreInv, StoreTypes
<1>2. CASE Verified
  <2>1. UNCHANGED unpacked /\ (p \in Signed => unpacked[p] = {"published"})
        /\ Goes(p, "repository", "record")
    BY <1>2 DEF Verified, ChecksumMatches
  <2>2. installing' \in StoreCall /\ installing'.step = "record" /\ installing'.package = p
        /\ installing'.source = "repository"
    BY <1>0, <2>1, GoesTo
  <2>3. InstalledIsPublished' /\ FileIsRecords'
    BY <1>0, <2>1 DEF StoreInv, InstalledIsPublished, FileIsRecords
  <2> QED  BY <1>0, <2>1, <2>2, <2>3 DEF StoreInv, StoreTypes, CallIsSound
<1> QED  BY <1>1, <1>2

LEMMA StoreRecords == ASSUME StoreInv, RecordMade \/ Forgets PROVE StoreInv'
<1> DEFINE p == installing.package
<1>0. ~AtStep("rest") /\ installing \in StoreCall /\ p \in Package /\ indexFile' = Torn
      /\ UNCHANGED <<unpacked, stops, full>>
  <2>1. ~AtStep("rest") /\ indexFile' = Torn /\ UNCHANGED <<unpacked, stops, full>>
    BY DEF RecordMade, Forgets, AtStep
  <2> QED  BY <2>1, CallUnderWay
<1>1. CASE RecordMade
  <2>1. installing.step = "record" /\ records' = Plus(records, p, installing.source)
        /\ Goes(p, installing.source, "save")
    BY <1>1 DEF RecordMade, AtStep
  <2>2. installing.source \in {"repository", "local"}
    BY <2>1 DEF StoreInv, CallIsSound
  <2>3. IsTable(records')
    BY <1>0, <2>1, <2>2 DEF StoreInv, StoreTypes, IsTable, Plus
  <2>4. installing' \in StoreCall /\ installing'.step = "save" /\ installing'.package = p
        /\ installing'.source = installing.source
    BY <1>0, <2>1, <2>2, GoesTo
  <2>5. InstalledIsPublished'
    <3>1. DOMAIN records' = DOMAIN records \cup {p}
          /\ \A q \in DOMAIN records' : records'[q] = IF q = p THEN installing.source ELSE records[q]
      BY <2>1 DEF Plus
    <3>2. installing.source = "repository" /\ p \in Signed => unpacked[p] = {"published"}
      BY <2>1 DEF StoreInv, CallIsSound
    <3> QED  BY <1>0, <3>1, <3>2 DEF StoreInv, InstalledIsPublished
  <2>6. CallIsSound'
    BY <2>4 DEF CallIsSound
  <2>7. FileIsRecords'
    BY <1>0 DEF FileIsRecords
  <2> QED  BY <1>0, <2>3, <2>4, <2>5, <2>6, <2>7 DEF StoreInv, StoreTypes
<1>2. CASE Forgets
  <2>1. records' = Restrict(records, DOMAIN records \ {p}) /\ Goes(p, "none", "save")
    BY <1>2 DEF Forgets
  <2>2. IsTable(records')
    BY <2>1 DEF StoreInv, StoreTypes, IsTable, Restrict
  <2>3. installing' \in StoreCall /\ installing'.step = "save" /\ installing'.source = "none"
    BY <1>0, <2>1, GoesTo
  <2>4. InstalledIsPublished'
    <3>1. DOMAIN records' \subseteq DOMAIN records
          /\ \A q \in DOMAIN records' : records'[q] = records[q]
      BY <2>1 DEF Restrict
    <3> QED  BY <1>0, <3>1 DEF StoreInv, InstalledIsPublished
  <2>5. CallIsSound'
    BY <2>3 DEF CallIsSound
  <2>6. FileIsRecords'
    BY <1>0 DEF FileIsRecords
  <2> QED  BY <1>0, <2>2, <2>3, <2>4, <2>5, <2>6 DEF StoreInv, StoreTypes
<1> QED  BY <1>1, <1>2

LEMMA StoreNextInv == ASSUME StoreInv, StoreNext PROVE StoreInv'
<1>1. ASSUME IndexSaved PROVE StoreInv'
  <2>1. UNCHANGED <<unpacked, records, stops, full>> /\ indexFile' = records /\ installing' = Resting
    BY <1>1 DEF IndexSaved
  <2>2. InstalledIsPublished' /\ FileIsRecords'
    BY <2>1 DEF StoreInv, InstalledIsPublished, FileIsRecords
  <2> QED  BY <2>1, <2>2, StepRests DEF StoreInv, StoreTypes
<1>2. ASSUME SaveFails PROVE StoreInv'
  <2>1. /\ UNCHANGED <<records, indexFile, stops>> /\ full < MaxFull /\ full' = full + 1
        /\ unpacked' = [unpacked EXCEPT ![installing.package] = NoDirectory]
        /\ installing' = Resting /\ ~AtStep("rest")
    BY <1>2 DEF SaveFails, AtStep
  <2>2. unpacked' \in [Package -> Files]
    BY <2>1, FilesChange, CallUnderWay DEF Files
  <2>3. full' \in 0..MaxFull
    BY <2>1, PluginStoreAssumption DEF StoreInv, StoreTypes
  <2>4. InstalledIsPublished' /\ FileIsRecords'
    BY <2>1, RecordsKept, CallUnderWay DEF Files
  <2> QED  BY <2>1, <2>2, <2>3, <2>4, StepRests DEF StoreInv, StoreTypes
<1>3. ASSUME Stops PROVE StoreInv'
  <2>1. /\ UNCHANGED <<unpacked, indexFile, full>> /\ stops < MaxStops /\ stops' = stops + 1
        /\ records' = IF indexFile = Torn THEN <<>> ELSE indexFile
        /\ installing' = Resting
    BY <1>3 DEF Stops
  <2>2. stops' \in 0..MaxStops
    BY <2>1, PluginStoreAssumption DEF StoreInv, StoreTypes
  <2>3. IsTable(<<>>)
    BY DEF IsTable
  <2>4. IsTable(records')
    BY <2>1, <2>3 DEF StoreInv, StoreTypes
  <2>5. InstalledIsPublished' /\ FileIsRecords'
    BY <2>1 DEF StoreInv, InstalledIsPublished, FileIsRecords
  <2> QED  BY <2>1, <2>2, <2>4, <2>5, StepRests DEF StoreInv, StoreTypes
<1> QED  BY <1>1, <1>2, <1>3, StoreBegins, StoreDownloads, StoreVerifies, StoreRecords DEF StoreNext

LEMMA StoreHolds == ASSUME StoreInv PROVE StoreTypeOK /\ InstalledIsPublished
<1>1. Range(records) \subseteq {"repository", "local"}
  BY DEF StoreInv, StoreTypes, IsTable, Range
<1> QED  BY <1>1 DEF StoreInv, StoreTypes, StoreTypeOK, IsTable, FileKind, Files

LEMMA StoreRests == ASSUME StoreInv, UNCHANGED storeVars PROVE StoreInv'
  BY DEF StoreInv, CallIsSound, FileIsRecords, InstalledIsPublished, StoreTypes, storeVars

-----------------------------------------------------------------------------
\* The commands of the grid

\* Nobody knows a task that was not submitted.
KnownIsAcked ==
  \A t \in Job : /\ file[t] # "absent" => t \in acked
                 /\ \A p \in Proc : mem[p][t] # "absent" => t \in acked

\* As long as no two processes have run at the same time, the one that runs writes to the
\* file that has the name, and knows what is in it.
OneAtATime ==
  ~shared => \A p \in alive : p \in attached /\ mem[p] = file /\ \A q \in alive : q = p

ConsoleInv == ConsoleTypeOK /\ KnownIsAcked /\ OneAtATime /\ KeptAlone

JobTable == [Job -> {"absent", "queued", "assigned", "done"}]

LEMMA ConsoleInitInv == ASSUME ConsoleInit PROVE ConsoleInv
<1>1. Nothing \in JobTable
  BY DEF Nothing, JobTable
<1>2. 0 \in 0..MaxAborts
  BY ConsoleAssumption
<1> QED  BY <1>1, <1>2 DEF ConsoleInit, ConsoleInv, ConsoleTypeOK, KnownIsAcked, OneAtATime, KeptAlone,
                           Nothing, JobTable

LEMMA NotesEffect ==
  ASSUME ConsoleTypeOK, NEW p \in Proc, NEW t \in Job, NEW status \in {"queued", "assigned", "done"},
         Notes(p, t, status)
  PROVE  /\ mem' \in [Proc -> JobTable] /\ file' \in JobTable
         /\ \A q \in Proc : q # p => mem'[q] = mem[q]
         /\ \A u \in Job : u # t => mem'[p][u] = mem[p][u] /\ file'[u] = file[u]
         /\ mem'[p][t] = status
         /\ p \in attached => file'[t] = status
         /\ p \in attached /\ mem[p] = file => mem'[p] = file'
<1>1. mem \in [Proc -> JobTable] /\ file \in JobTable
  BY DEF ConsoleTypeOK, JobTable
<1>2. mem[p] \in JobTable
  BY <1>1
<1>3. mem' = [mem EXCEPT ![p] = [mem[p] EXCEPT ![t] = status]]
  BY DEF Notes
<1>4. [mem[p] EXCEPT ![t] = status] \in JobTable
  BY <1>2 DEF JobTable
<1>5. mem' \in [Proc -> JobTable] /\ mem'[p] = [mem[p] EXCEPT ![t] = status]
      /\ \A q \in Proc : q # p => mem'[q] = mem[q]
  BY <1>1, <1>3, <1>4
<1>6. file' = IF p \in attached THEN [file EXCEPT ![t] = status] ELSE file
  BY DEF Notes
<1>7. file' \in JobTable /\ (p \in attached => file'[t] = status)
      /\ \A u \in Job : u # t => file'[u] = file[u]
  BY <1>1, <1>6 DEF JobTable
<1>8. mem'[p][t] = status /\ \A u \in Job : u # t => mem'[p][u] = mem[p][u]
  BY <1>2, <1>5 DEF JobTable
<1> QED  BY <1>5, <1>6, <1>7, <1>8

\* A process notes that a task was submitted, assigned or completed.
LEMMA NotingInv ==
  ASSUME ConsoleInv, NEW p \in alive, NEW t \in Job, NEW status \in {"queued", "assigned", "done"},
         Notes(p, t, status), UNCHANGED <<alive, attached, shared, aborts>>,
         acked \subseteq acked', acked' \subseteq acked \cup {t}, t \in acked',
         completed \subseteq completed', completed' \subseteq acked',
         status \in Unfinished \/ t \in completed'
  PROVE  ConsoleInv'
<1>1. ConsoleTypeOK /\ p \in Proc
  BY DEF ConsoleInv, ConsoleTypeOK
<1>2. /\ mem' \in [Proc -> JobTable] /\ file' \in JobTable
      /\ \A q \in Proc : q # p => mem'[q] = mem[q]
      /\ \A u \in Job : u # t => mem'[p][u] = mem[p][u] /\ file'[u] = file[u]
      /\ mem'[p][t] = status
      /\ p \in attached => file'[t] = status
      /\ p \in attached /\ mem[p] = file => mem'[p] = file'
  BY <1>1, NotesEffect
<1>3. ConsoleTypeOK'
  BY <1>1, <1>2 DEF ConsoleTypeOK, JobTable
<1>4. KnownIsAcked'
  <2> SUFFICES ASSUME NEW u \in Job
               PROVE  /\ file'[u] # "absent" => u \in acked'
                      /\ \A q \in Proc : mem'[q][u] # "absent" => u \in acked'
    BY DEF KnownIsAcked
  <2>1. CASE u = t
    BY <2>1
  <2>2. CASE u # t
    <3>1. \A q \in Proc : mem'[q][u] = mem[q][u]
      BY <1>2, <2>2
    <3> QED  BY <1>2, <2>2, <3>1 DEF ConsoleInv, KnownIsAcked
  <2> QED  BY <2>1, <2>2
<1>5. OneAtATime'
  BY <1>2 DEF ConsoleInv, OneAtATime
<1>6. KeptAlone'
  <2> SUFFICES ASSUME ~shared, NEW u \in acked' \ completed' PROVE file'[u] \in Unfinished
    BY DEF KeptAlone
  <2>1. p \in attached
    BY DEF ConsoleInv, OneAtATime
  <2>2. u \in Job
    BY <1>3 DEF ConsoleTypeOK
  <2>3. CASE u = t
    BY <1>2, <2>1, <2>3
  <2>4. CASE u # t
    <3>1. u \in acked \ completed /\ file'[u] = file[u]
      BY <1>2, <2>2, <2>4
    <3> QED  BY <3>1 DEF ConsoleInv, KeptAlone
  <2> QED  BY <2>3, <2>4
<1> QED  BY <1>3, <1>4, <1>5, <1>6 DEF ConsoleInv

LEMMA ProcStartsInv == ASSUME ConsoleInv, NEW p \in Proc, ProcStarts(p) PROVE ConsoleInv'
<1>1. /\ UNCHANGED <<file, acked, completed, aborts>>
      /\ alive' = alive \union {p} /\ attached' = attached \union {p}
      /\ mem' = [mem EXCEPT ![p] = file] /\ shared' = (shared \/ alive # {})
  BY DEF ProcStarts
<1>2. ConsoleTypeOK
  BY DEF ConsoleInv
<1>3. ConsoleTypeOK'
  BY <1>1, <1>2 DEF ConsoleTypeOK
<1>4. \A q \in Proc : mem'[q] = IF q = p THEN file ELSE mem[q]
  BY <1>1, <1>2 DEF ConsoleTypeOK
<1>5. KnownIsAcked'
  BY <1>1, <1>4 DEF ConsoleInv, KnownIsAcked
<1>6. ~shared' => ~shared /\ alive = {}
  BY <1>1, <1>2 DEF ConsoleTypeOK
<1>7. OneAtATime'
  BY <1>1, <1>4, <1>6 DEF OneAtATime
<1>8. KeptAlone'
  BY <1>1, <1>6 DEF ConsoleInv, KeptAlone
<1> QED  BY <1>3, <1>5, <1>7, <1>8 DEF ConsoleInv

LEMMA ProcStopsInv == ASSUME ConsoleInv, NEW p \in Proc, ProcStops(p) PROVE ConsoleInv'
<1>1. /\ UNCHANGED <<acked, completed, shared, aborts>>
      /\ p \in alive /\ alive' = alive \ {p} /\ mem' = [mem EXCEPT ![p] = Nothing]
      /\ attached' \subseteq attached \ {p}
      /\ file' = Compacted(mem[p]) \/ file' = file
  BY DEF ProcStops
<1>2. ConsoleTypeOK
  BY DEF ConsoleInv
<1>3. Nothing \in JobTable /\ Compacted(mem[p]) \in JobTable
  BY DEF Nothing, Compacted, JobTable
<1>4. ConsoleTypeOK'
  BY <1>1, <1>2, <1>3 DEF ConsoleTypeOK, JobTable
<1>5. \A q \in Proc : mem'[q] = IF q = p THEN Nothing ELSE mem[q]
  BY <1>1, <1>2 DEF ConsoleTypeOK
<1>6. \A t \in Job : Compacted(mem[p])[t] = IF mem[p][t] \in Unfinished THEN "queued" ELSE "absent"
  BY DEF Compacted
<1>7. KnownIsAcked'
  <2> SUFFICES ASSUME NEW t \in Job
               PROVE  /\ file'[t] # "absent" => t \in acked
                      /\ \A q \in Proc : mem'[q][t] # "absent" => t \in acked
    BY <1>1 DEF KnownIsAcked
  <2>1. file'[t] # "absent" => t \in acked
    BY <1>1, <1>6 DEF ConsoleInv, KnownIsAcked, Unfinished
  <2>2. \A q \in Proc : mem'[q][t] # "absent" => t \in acked
    BY <1>5 DEF ConsoleInv, KnownIsAcked, Nothing
  <2> QED  BY <2>1, <2>2
<1>8. OneAtATime'
  BY <1>1 DEF ConsoleInv, OneAtATime
<1>9. KeptAlone'
  <2> SUFFICES ASSUME ~shared, NEW t \in acked \ completed PROVE file'[t] \in Unfinished
    BY <1>1 DEF KeptAlone
  <2>1. file[t] \in Unfinished /\ mem[p] = file /\ t \in Job
    BY <1>1, <1>2 DEF ConsoleInv, KeptAlone, OneAtATime, ConsoleTypeOK
  <2>2. Compacted(mem[p])[t] = "queued"
    BY <1>6, <2>1
  <2> QED  BY <1>1, <2>1, <2>2 DEF Unfinished
<1> QED  BY <1>4, <1>7, <1>8, <1>9 DEF ConsoleInv

LEMMA AbortedInv == ASSUME ConsoleInv, NEW p \in Proc, Aborted(p) PROVE ConsoleInv'
<1>1. /\ UNCHANGED <<file, acked, completed, shared>>
      /\ alive' = alive \ {p} /\ mem' = [mem EXCEPT ![p] = Nothing]
      /\ attached' = attached \ {p} /\ aborts < MaxAborts /\ aborts' = aborts + 1
  BY DEF Aborted
<1>2. ConsoleTypeOK
  BY DEF ConsoleInv
<1>3. Nothing \in JobTable /\ aborts' \in 0..MaxAborts
  BY <1>1, <1>2, ConsoleAssumption DEF Nothing, JobTable, ConsoleTypeOK
<1>4. ConsoleTypeOK'
  BY <1>1, <1>2, <1>3 DEF ConsoleTypeOK, JobTable
<1>5. \A q \in Proc : mem'[q] = IF q = p THEN Nothing ELSE mem[q]
  BY <1>1, <1>2 DEF ConsoleTypeOK
<1>6. KnownIsAcked'
  BY <1>1, <1>5 DEF ConsoleInv, KnownIsAcked, Nothing
<1>7. OneAtATime'
  <2> SUFFICES ASSUME ~shared, NEW q \in alive \ {p}
               PROVE  q \in attached' /\ mem'[q] = file /\ \A o \in alive \ {p} : o = q
    BY <1>1 DEF OneAtATime
  <2>1. q \in attached /\ mem[q] = file /\ (\A o \in alive : o = q) /\ q \in Proc
    BY <1>2 DEF ConsoleInv, OneAtATime, ConsoleTypeOK
  <2> QED  BY <1>1, <1>5, <2>1
<1>8. KeptAlone'
  BY <1>1 DEF ConsoleInv, KeptAlone
<1> QED  BY <1>4, <1>6, <1>7, <1>8 DEF ConsoleInv

LEMMA ConsoleNextInv == ASSUME ConsoleInv, ConsoleNext PROVE ConsoleInv'
<1>0. ConsoleTypeOK /\ "daemon" \in Proc /\ Command \subseteq Proc
  BY DEF ConsoleInv, Proc
<1>1. ASSUME NEW p \in Proc, NEW t \in Job, SubmitTask(p, t) PROVE ConsoleInv'
  <2>1. p \in alive /\ Notes(p, t, "queued") /\ acked' = acked \union {t}
        /\ UNCHANGED <<alive, attached, completed, shared, aborts>>
    BY <1>1 DEF SubmitTask
  <2>2. completed \subseteq acked'
    BY <1>0, <2>1 DEF ConsoleTypeOK
  <2> QED  BY <2>1, <2>2, NotingInv DEF Unfinished
<1>2. ASSUME NEW t \in Job, DaemonAssigns(t) PROVE ConsoleInv'
  <2>1. "daemon" \in alive /\ Notes("daemon", t, "assigned") /\ mem["daemon"][t] = "queued"
        /\ UNCHANGED <<alive, attached, acked, completed, shared, aborts>>
    BY <1>2 DEF DaemonAssigns
  <2>2. completed \subseteq acked /\ t \in acked
    BY <1>0, <2>1 DEF ConsoleTypeOK, ConsoleInv, KnownIsAcked
  <2> QED  BY <2>1, <2>2, NotingInv DEF Unfinished
<1>3. ASSUME NEW t \in Job, DaemonCompletes(t) PROVE ConsoleInv'
  <2>1. "daemon" \in alive /\ Notes("daemon", t, "done") /\ mem["daemon"][t] = "assigned"
        /\ completed' = completed \union {t}
        /\ UNCHANGED <<alive, attached, acked, shared, aborts>>
    BY <1>3 DEF DaemonCompletes
  <2>2. completed \subseteq acked /\ t \in acked
    BY <1>0, <2>1 DEF ConsoleTypeOK, ConsoleInv, KnownIsAcked
  <2> QED  BY <2>1, <2>2, NotingInv
<1> QED  BY <1>0, <1>1, <1>2, <1>3, ProcStartsInv, ProcStopsInv, AbortedInv
         DEF ConsoleNext, CoordinatorStart, CoordinatorSubmit, CoordinatorShow

LEMMA ConsoleHolds == ASSUME ConsoleInv PROVE ConsoleTypeOK /\ KeptAlone
BY DEF ConsoleInv

LEMMA ConsoleRests == ASSUME ConsoleInv, UNCHANGED consoleVars PROVE ConsoleInv'
  BY DEF ConsoleInv, ConsoleTypeOK, KeptAlone, KnownIsAcked, OneAtATime, consoleVars

-----------------------------------------------------------------------------
\* The calls of a language model

CompletionRecord == [of : LlmProvider, stream : BOOLEAN, at : {"new", "checked", "sent", "over"},
                     end : Outcome \union {""}]
LlmInv == LlmTypeOK /\ OnlyProviderErrors

LEMMA RaisedIsProviderError ==
  ASSUME NEW p \in LlmProvider, NEW what
  PROVE  Raised(p, what) \in ProviderError
<1>1. OpenAIRaises(what) \in ProviderError
  BY DEF OpenAIRaises, ProviderError
<1>2. AnthropicRaises(what) \in ProviderError
  BY DEF AnthropicRaises, ProviderError
<1>3. OllamaRaises(what) \in ProviderError
  BY DEF OllamaRaises, ProviderError
<1>4. p = "openai" \/ p = "anthropic" \/ p = "ollama"
  BY DEF LlmProvider
<1> QED  BY <1>1, <1>2, <1>3, <1>4 DEF Raised

LEMMA LlmInitInv == ASSUME LlmInit PROVE LlmInv
<1>1. NoCompletion \in CompletionRecord /\ NoCompletion.end # "foreign"
  BY DEF NoCompletion, CompletionRecord, LlmProvider
<1>2. completion \in [Completion -> CompletionRecord]
  BY <1>1 DEF LlmInit
<1>3. switches \in 0..MaxSwitches
  BY LlmAssumption DEF LlmInit
<1>4. client \in [LlmProvider -> {"none", "open"}]
  BY DEF LlmInit
<1>5. LlmTypeOK
  BY <1>2, <1>3, <1>4, Zenon DEF LlmTypeOK, CompletionRecord
<1> QED  BY <1>1, <1>5 DEF LlmInit, LlmInv, OnlyProviderErrors

\* A completion that is replaced by another record
LEMMA CompletionStep ==
  ASSUME LlmInv, NEW r \in Completion, NEW c \in CompletionRecord, c.end # "foreign",
         completion' = [completion EXCEPT ![r] = c], UNCHANGED <<client, switches>>
  PROVE  LlmInv'
<1>1. completion \in [Completion -> CompletionRecord]
  BY DEF LlmInv, LlmTypeOK, CompletionRecord
<1>2. completion' \in [Completion -> CompletionRecord]
      /\ \A q \in Completion : completion'[q] = IF q = r THEN c ELSE completion[q]
  BY <1>1
<1>3. LlmTypeOK'
  BY <1>2 DEF LlmInv, LlmTypeOK, CompletionRecord
<1> QED  BY <1>2, <1>3 DEF LlmInv, OnlyProviderErrors

LEMMA EndsWell ==
  ASSUME LlmInv, NEW r \in Completion, NEW outcome \in Outcome, outcome # "foreign",
         completion' = Ends(r, outcome), UNCHANGED <<client, switches>>
  PROVE  LlmInv'
<1>1. completion \in [Completion -> CompletionRecord]
  BY DEF LlmInv, LlmTypeOK, CompletionRecord
<1> DEFINE c == [completion[r] EXCEPT !.at = "over", !.end = outcome]
<1>2. completion[r] \in CompletionRecord
  BY <1>1
<1>3. c \in CompletionRecord /\ c.end = outcome
  BY <1>2 DEF CompletionRecord
<1>4. completion' = [completion EXCEPT ![r] = c]
  BY <1>1 DEF Ends
<1> HIDE DEF c
<1> QED  BY <1>3, <1>4, CompletionStep

LEMMA BeginsWell ==
  ASSUME LlmInv, NEW r \in Completion, NEW p \in LlmProvider, NEW stream \in BOOLEAN,
         Begins(r, p, stream)
  PROVE  LlmInv'
<1> DEFINE c == [of |-> p, stream |-> stream, at |-> IF client[p] = "open" THEN "checked" ELSE "over",
                 end |-> IF client[p] = "open" THEN "" ELSE "Error"]
<1>1. completion' = [completion EXCEPT ![r] = c] /\ UNCHANGED <<client, switches>>
  BY DEF Begins
<1>2. c \in CompletionRecord /\ c.end # "foreign"
  <2>1. CASE client[p] = "open"
    BY <2>1 DEF CompletionRecord
  <2>2. CASE client[p] # "open"
    BY <2>2 DEF CompletionRecord, Outcome, ProviderError
  <2> QED  BY <2>1, <2>2
<1> HIDE DEF c
<1> QED  BY <1>1, <1>2, CompletionStep

LEMMA SendsWell == ASSUME LlmInv, NEW r \in Completion, Sends(r) PROVE LlmInv'
<1>1. completion \in [Completion -> CompletionRecord]
  BY DEF LlmInv, LlmTypeOK, CompletionRecord
<1>2. completion[r] \in CompletionRecord /\ completion[r].end # "foreign"
  BY <1>1 DEF LlmInv, OnlyProviderErrors
<1>3. completion' = [completion EXCEPT ![r].at = "sent"]
        \/ completion' = Ends(r, Raised(completion[r].of, "no attribute"))
  BY DEF Sends
<1>4. UNCHANGED <<client, switches>>
  BY DEF Sends
<1>5. CASE completion' = [completion EXCEPT ![r].at = "sent"]
  <2> DEFINE c == [completion[r] EXCEPT !.at = "sent"]
  <2>1. c \in CompletionRecord /\ c.end = completion[r].end
    BY <1>2 DEF CompletionRecord
  <2>2. completion' = [completion EXCEPT ![r] = c]
    BY <1>1, <1>5
  <2> HIDE DEF c
  <2> QED  BY <1>2, <1>4, <2>1, <2>2, CompletionStep
<1>6. CASE completion' = Ends(r, Raised(completion[r].of, "no attribute"))
  <2>1. Raised(completion[r].of, "no attribute") \in ProviderError
    BY <1>2, RaisedIsProviderError DEF CompletionRecord
  <2> QED  BY <1>4, <1>6, <2>1, EndsWell DEF Outcome, ProviderError
<1> QED  BY <1>3, <1>5, <1>6

LEMMA FailsWell ==
  ASSUME LlmInv, NEW r \in Completion, NEW p \in LlmProvider, NEW stream, Fails(r, p, stream)
  PROVE  LlmInv'
<1>1. PICK what \in Failure[p] : completion' = Ends(r, Raised(p, what))
  BY DEF Fails
<1>2. Raised(p, what) \in ProviderError
  BY RaisedIsProviderError
<1>3. UNCHANGED <<client, switches>>
  BY DEF Fails
<1> QED  BY <1>1, <1>2, <1>3, EndsWell DEF Outcome, ProviderError

LEMMA AnswerWell ==
  ASSUME LlmInv, NEW r \in Completion, NEW p, NEW stream, NEW malformed \in BOOLEAN,
         AnswerArrives(r, p, stream, malformed)
  PROVE  LlmInv'
<1>1. completion' = Ends(r, "malformed") \/ completion' = Ends(r, "result")
  BY DEF AnswerArrives
<1>2. UNCHANGED <<client, switches>>
  BY DEF AnswerArrives
<1> QED  BY <1>1, <1>2, EndsWell DEF Outcome

LEMMA LlmNextInv == ASSUME LlmInv, LlmNext PROVE LlmInv'
<1>1. ASSUME NEW p \in LlmProvider, Enabled(p) PROVE LlmInv'
  <2>1. UNCHANGED completion /\ switches' = switches + 1 /\ switches < MaxSwitches
        /\ client' = [client EXCEPT ![p] = "open"]
    BY <1>1 DEF Enabled
  <2>2. switches \in 0..MaxSwitches /\ client \in [LlmProvider -> {"none", "open"}]
        /\ completion \in [Completion -> CompletionRecord]
    BY DEF LlmInv, LlmTypeOK, CompletionRecord
  <2>3. switches' \in 0..MaxSwitches
    BY <2>1, <2>2, LlmAssumption
  <2>4. client' \in [LlmProvider -> {"none", "open"}]
    BY <2>1, <2>2
  <2>5. completion' \in [Completion -> CompletionRecord]
    BY <2>1, <2>2
  <2>6. LlmTypeOK'
    BY <2>3, <2>4, <2>5, Zenon DEF LlmTypeOK, CompletionRecord
  <2> QED  BY <2>1, <2>6 DEF LlmInv, OnlyProviderErrors
<1>2. ASSUME NEW p \in LlmProvider, OnDisable(p) PROVE LlmInv'
  <2>1. UNCHANGED <<completion, switches>> /\ client' = [client EXCEPT ![p] = "none"]
    BY <1>2 DEF OnDisable
  <2> QED  BY <2>1 DEF LlmInv, LlmTypeOK, OnlyProviderErrors
<1>3. "openai" \in LlmProvider /\ "anthropic" \in LlmProvider /\ "ollama" \in LlmProvider
  BY DEF LlmProvider
<1>4. ASSUME NEW r \in Completion,
             CompleteOpenAI(r) \/ CompleteAnthropic(r) \/ CompleteOllama(r)
             \/ StreamOpenAI(r) \/ StreamAnthropic(r) \/ StreamOllama(r)
      PROVE  LlmInv'
  <2>1. \A p \in LlmProvider, s \in BOOLEAN : Begins(r, p, s) \/ Fails(r, p, s) => LlmInv'
    BY BeginsWell, FailsWell
  <2>2. \A p \in LlmProvider, s, m \in BOOLEAN : AnswerArrives(r, p, s, m) => LlmInv'
    BY AnswerWell
  <2> QED  BY <1>3, <1>4, <2>1, <2>2
           DEF CompleteOpenAI, CompleteAnthropic, CompleteOllama, StreamOpenAI, StreamAnthropic,
               StreamOllama
<1> QED  BY <1>1, <1>2, <1>3, <1>4, SendsWell
         DEF LlmNext, OnEnableOpenAI, OnEnableAnthropic, OnEnableOllama

LEMMA LlmRests == ASSUME LlmInv, UNCHANGED clientVars PROVE LlmInv'
  BY DEF LlmInv, LlmTypeOK, OnlyProviderErrors, clientVars

-----------------------------------------------------------------------------
\* The lifecycle hooks

\* What a walk has called are the handlers before its place that are not passed
\* over, and the list it walks only ever grows at the end.
HeardSoFar ==
  /\ walk.at <= Len(Walked) + 1
  /\ walk.heard = OnlyIn(SubSeq(Walked, 1, walk.at - 1), Asked)
  /\ IsPrefix(OnlyIn(walk.began, Asked), OnlyIn(Walked, Asked))

Walk == [on : BOOLEAN, sync : BOOLEAN, same : BOOLEAN, own : Seq(HookHandler), at : Nat \ {0},
         began : Seq(HookHandler), heard : Seq(HookHandler)]

HooksInv == HooksTypeOK /\ walk \in Walk /\ (walk.on => HeardSoFar)

LEMMA PrefixOfItself ==
  ASSUME NEW S, NEW s \in Seq(S)
  PROVE  IsPrefix(s, s)
<1>1. Len(s) \in Nat /\ Len(s) <= Len(s)
  BY LenProperties
<1> QED  BY <1>1 DEF IsPrefix

LEMMA PrefixOfAppend ==
  ASSUME NEW S, NEW s \in Seq(S), NEW t \in Seq(S), NEW e \in S, IsPrefix(s, t)
  PROVE  IsPrefix(s, Append(t, e))
<1> DEFINE u == Append(t, e)
<1>1. u \in Seq(S) /\ Len(u) = Len(t) + 1 /\ Len(t) \in Nat /\ Len(s) \in Nat
      /\ \A i \in 1..Len(t) : u[i] = t[i]
  BY AppendProperties, LenProperties
<1>2. Len(s) <= Len(t) /\ SubSeq(s, 1, Len(s)) = SubSeq(t, 1, Len(s))
  BY DEF IsPrefix
<1>3. SubSeq(t, 1, Len(s)) = SubSeq(u, 1, Len(s))
  <2> HIDE DEF u
  <2>1. SubSeq(t, 1, Len(s)) \in Seq(S) /\ Len(SubSeq(t, 1, Len(s))) = Len(s)
        /\ \A i \in 1..Len(s) : SubSeq(t, 1, Len(s))[i] = t[i]
    BY <1>1, <1>2
  <2>2. SubSeq(u, 1, Len(s)) \in Seq(S) /\ Len(SubSeq(u, 1, Len(s))) = Len(s)
        /\ \A i \in 1..Len(s) : SubSeq(u, 1, Len(s))[i] = u[i]
    BY <1>1, <1>2
  <2>3. \A i \in 1..Len(s) : u[i] = t[i]
    BY <1>1, <1>2
  <2> QED  BY <2>1, <2>2, <2>3, SeqEqual
<1>4. Len(s) <= Len(u)
  BY <1>1, <1>2
<1> QED  BY <1>2, <1>3, <1>4 DEF IsPrefix

\* The beginning of a list is the same after an addition, and grows by the
\* member that follows it.
LEMMA BeginningOf ==
  ASSUME NEW S, NEW s \in Seq(S), NEW n \in 0..Len(s)
  PROVE  /\ SubSeq(s, 1, n) \in Seq(S) /\ Len(SubSeq(s, 1, n)) = n
         /\ \A i \in 1..n : SubSeq(s, 1, n)[i] = s[i]
<1>1. Len(s) \in Nat
  BY LenProperties
<1> QED  BY <1>1

LEMMA BeginningStays ==
  ASSUME NEW S, NEW s \in Seq(S), NEW e \in S, NEW n \in 0..Len(s)
  PROVE  SubSeq(Append(s, e), 1, n) = SubSeq(s, 1, n)
<1> DEFINE u == Append(s, e)
<1>1. u \in Seq(S) /\ Len(u) = Len(s) + 1 /\ Len(s) \in Nat /\ \A i \in 1..Len(s) : u[i] = s[i]
  BY AppendProperties, LenProperties
<1>2. n \in 0..Len(u) /\ \A i \in 1..n : i \in 1..Len(s)
  BY <1>1
<1> HIDE DEF u
<1>3. SubSeq(u, 1, n) \in Seq(S) /\ Len(SubSeq(u, 1, n)) = n /\ \A i \in 1..n : SubSeq(u, 1, n)[i] = u[i]
  BY <1>1, <1>2, BeginningOf
<1>4. SubSeq(s, 1, n) \in Seq(S) /\ Len(SubSeq(s, 1, n)) = n /\ \A i \in 1..n : SubSeq(s, 1, n)[i] = s[i]
  BY BeginningOf
<1> QED  BY <1>1, <1>2, <1>3, <1>4, SeqEqual DEF u

LEMMA BeginningGrows ==
  ASSUME NEW S, NEW s \in Seq(S), NEW n \in 1..Len(s)
  PROVE  SubSeq(s, 1, n) = Append(SubSeq(s, 1, n - 1), s[n])
<1>1. Len(s) \in Nat /\ n \in 0..Len(s) /\ n - 1 \in 0..Len(s) /\ s[n] \in S /\ n \in Nat
  BY LenProperties, ElementOfSeq
<1> DEFINE a == SubSeq(s, 1, n)
           b == SubSeq(s, 1, n - 1)
           c == Append(b, s[n])
<1>2. a \in Seq(S) /\ Len(a) = n /\ \A i \in 1..n : a[i] = s[i]
  BY <1>1, BeginningOf
<1>3. b \in Seq(S) /\ Len(b) = n - 1 /\ \A i \in 1..(n - 1) : b[i] = s[i]
  BY <1>1, BeginningOf
<1> HIDE DEF a, b
<1>4. c \in Seq(S) /\ Len(c) = n /\ c[n] = s[n] /\ \A i \in 1..(n - 1) : c[i] = b[i]
  <2>1. Len(b) + 1 = n /\ Len(b) = n - 1
    BY <1>1, <1>3
  <2> QED  BY <1>1, <1>3, <2>1, AppendProperties
<1> HIDE DEF c
<1>5. \A i \in 1..n : i \in 1..(n - 1) \/ i = n
  BY <1>1
<1>6. \A i \in 1..n : a[i] = c[i]
  BY <1>2, <1>3, <1>4, <1>5
<1>7. a = c
  BY <1>2, <1>4, <1>6, SeqEqual
<1> QED  BY <1>7 DEF a, b, c

LEMMA WholeList == ASSUME NEW S, NEW s \in Seq(S) PROVE SubSeq(s, 1, Len(s)) = s
<1>1. Len(s) \in Nat /\ Len(s) \in 0..Len(s)
  BY LenProperties
<1>2. SubSeq(s, 1, Len(s)) \in Seq(S) /\ Len(SubSeq(s, 1, Len(s))) = Len(s)
      /\ \A i \in 1..Len(s) : SubSeq(s, 1, Len(s))[i] = s[i]
  BY <1>1, BeginningOf
<1> QED  BY <1>2, SeqEqual

LEMMA HooksInitInv == ASSUME HooksInit PROVE HooksInv
<1>1. listed \in Seq(HookHandler) /\ walk \in Walk /\ ~walk.on
  BY DEF HooksInit, NoWalk, Walk
<1>2. hookOps \in 0..MaxHookOps
  BY HooksAssumption DEF HooksInit
<1> QED  BY <1>1, <1>2 DEF HooksInv, HooksTypeOK, Walk

LEMMA WalkedType == ASSUME HooksInv PROVE Walked \in Seq(HookHandler) /\ listed \in Seq(HookHandler)
  BY DEF HooksInv, HooksTypeOK, Walked, Walk

\* A removal and a clear: the walk keeps its list.
LEMMA DetachedInv ==
  ASSUME HooksInv, HookCounted, listed' \in Seq(HookHandler), walk' = Detached
  PROVE  HooksInv'
<1>1. hookOps' \in 0..MaxHookOps
  BY HooksAssumption DEF HooksInv, HooksTypeOK, HookCounted
<1>2. CASE walk.on /\ walk.same
  <2>1. walk' = [walk EXCEPT !.same = FALSE, !.own = listed]
    BY <1>2 DEF Detached
  <2>2. walk \in Walk /\ listed \in Seq(HookHandler)
    BY DEF HooksInv, HooksTypeOK
  <2>3. walk' \in Walk /\ walk'.own = listed /\ ~walk'.same /\ walk'.at = walk.at
        /\ walk'.heard = walk.heard /\ walk'.began = walk.began /\ walk'.sync = walk.sync
    BY <2>1, <2>2 DEF Walk
  <2>4. Walked' = Walked /\ Asked' = Asked
    BY <1>2, <2>3 DEF Walked, Asked, Skipped
  <2>5. HeardSoFar'
    BY <1>2, <2>3, <2>4 DEF HooksInv, HeardSoFar
  <2>6. HooksTypeOK'
    BY <1>1, <2>3 DEF HooksTypeOK, Walk
  <2> QED  BY <2>3, <2>5, <2>6 DEF HooksInv
<1>3. CASE ~(walk.on /\ walk.same)
  <2>1. walk' = walk
    BY <1>3 DEF Detached
  <2>2. HooksTypeOK'
    BY <1>1, <2>1 DEF HooksInv, HooksTypeOK
  <2>3. walk.on => HeardSoFar'
    <3> SUFFICES ASSUME walk.on PROVE HeardSoFar'
      OBVIOUS
    <3>1. ~walk.same
      BY <1>3
    <3>2. Walked' = Walked /\ Asked' = Asked
      BY <2>1, <3>1 DEF Walked, Asked, Skipped
    <3> QED  BY <2>1, <3>2 DEF HooksInv, HeardSoFar
  <2> QED  BY <2>1, <2>2, <2>3 DEF HooksInv
<1> QED  BY <1>2, <1>3

LEMMA RegisterHookInv ==
  ASSUME HooksInv, NEW h \in HookHandler, RegisterHook(h)
  PROVE  HooksInv'
<1>1. listed' = Append(listed, h) /\ walk' = walk /\ HookCounted
  BY DEF RegisterHook
<1>2. hookOps' \in 0..MaxHookOps
  BY <1>1, HooksAssumption DEF HooksInv, HooksTypeOK, HookCounted
<1>3. listed \in Seq(HookHandler) /\ Walked \in Seq(HookHandler) /\ listed' \in Seq(HookHandler)
  BY <1>1, WalkedType
<1>4. HooksTypeOK'
  BY <1>1, <1>2, <1>3 DEF HooksInv, HooksTypeOK
<1>5. ASSUME walk.on PROVE HeardSoFar'
  <2>1. HeardSoFar /\ walk.at \in Nat \ {0}
    BY <1>5 DEF HooksInv, HooksTypeOK
  <2>2. Asked' = Asked
    BY <1>1 DEF Asked, Skipped
  <2>3. CASE ~walk.same
    <3>1. Walked' = Walked
      BY <1>1, <2>3 DEF Walked
    <3> QED  BY <1>1, <2>1, <2>2, <3>1 DEF HeardSoFar
  <2>4. CASE walk.same
    <3>1. Walked = listed /\ Walked' = Append(Walked, h)
      BY <1>1, <2>4 DEF Walked
    <3>2. Len(Walked') = Len(Walked) + 1 /\ Len(Walked) \in Nat
      BY <1>3, <3>1
    <3>3. walk.at - 1 \in 0..Len(Walked)
      BY <2>1, <3>2 DEF HeardSoFar
    <3>4. SubSeq(Walked', 1, walk.at - 1) = SubSeq(Walked, 1, walk.at - 1)
      BY <1>3, <3>1, <3>3, BeginningStays
    <3>5. OnlyIn(Walked', Asked) = IF h \in Asked THEN Append(OnlyIn(Walked, Asked), h)
                                                  ELSE OnlyIn(Walked, Asked)
      BY <1>3, <3>1, OnlyInAppend
    <3>6. OnlyIn(Walked, Asked) \in Seq(HookHandler) /\ OnlyIn(walk.began, Asked) \in Seq(HookHandler)
      BY <1>3, OnlyInType DEF HooksInv, HooksTypeOK
    <3>7. IsPrefix(OnlyIn(walk.began, Asked), OnlyIn(Walked', Asked))
      BY <2>1, <3>5, <3>6, PrefixOfAppend DEF HeardSoFar
    <3>8. walk.at <= Len(Walked') + 1
      BY <2>1, <3>2 DEF HeardSoFar
    <3> QED  BY <1>1, <2>1, <2>2, <3>4, <3>7, <3>8 DEF HeardSoFar
  <2> QED  BY <2>3, <2>4
<1> QED  BY <1>1, <1>4, <1>5 DEF HooksInv

LEMMA BeginInv == ASSUME HooksInv, NEW sync \in BOOLEAN, Begin(sync) PROVE HooksInv'
<1>1. walk' = [NoWalk EXCEPT !.on = TRUE, !.sync = sync, !.began = listed] /\ UNCHANGED <<listed, hookOps>>
  BY DEF Begin
<1>2. listed \in Seq(HookHandler) /\ hookOps \in 0..MaxHookOps
  BY DEF HooksInv, HooksTypeOK
<1>3. walk' \in Walk /\ walk'.same /\ walk'.at = 1 /\ walk'.heard = <<>> /\ walk'.began = listed
  <2>1. NoWalk \in Walk /\ NoWalk.same /\ NoWalk.at = 1 /\ NoWalk.heard = <<>>
    BY DEF NoWalk, Walk
  <2> QED  BY <1>1, <1>2, <2>1 DEF Walk
<1>4. Walked' = listed
  BY <1>1, <1>3 DEF Walked
<1>5. Len(listed) \in Nat /\ SubSeq(listed, 1, 0) = <<>>
  BY <1>2
<1>6. HeardSoFar'
  <2>1. walk'.at <= Len(Walked') + 1
    BY <1>3, <1>4, <1>5
  <2>2. SubSeq(Walked', 1, walk'.at - 1) = <<>>
    BY <1>3, <1>4, <1>5
  <2>3. OnlyIn(<<>>, Asked') = <<>>
    BY OnlyInEmpty
  <2>4. OnlyIn(listed, Asked') \in Seq(HookHandler)
    BY <1>2, OnlyInType
  <2>5. IsPrefix(OnlyIn(listed, Asked'), OnlyIn(listed, Asked'))
    BY <2>4, PrefixOfItself
  <2> QED  BY <1>3, <1>4, <2>1, <2>2, <2>3, <2>5 DEF HeardSoFar
<1>7. HooksTypeOK'
  BY <1>1, <1>2, <1>3 DEF HooksTypeOK, Walk
<1> QED  BY <1>3, <1>6, <1>7 DEF HooksInv

LEMMA CallHandlerInv == ASSUME HooksInv, CallHandler PROVE HooksInv'
<1> DEFINE h == Walked[walk.at]
           new == IF Skipped(h) THEN walk.heard ELSE Append(walk.heard, h)
<1>1. walk.on /\ walk.at <= Len(Walked) /\ UNCHANGED <<listed, hookOps>>
      /\ walk' = [walk EXCEPT !.at = walk.at + 1, !.heard = new]
  BY DEF CallHandler
<1>2. walk \in Walk /\ Walked \in Seq(HookHandler) /\ HeardSoFar
  BY <1>1, WalkedType DEF HooksInv
<1>3. walk.at \in 1..Len(Walked) /\ Len(Walked) \in Nat /\ h \in HookHandler
  <2>1. walk.at \in Nat \ {0} /\ Len(Walked) \in Nat
    BY <1>2, LenProperties DEF Walk
  <2>2. walk.at \in 1..Len(Walked)
    BY <1>1, <2>1
  <2> QED  BY <1>2, <2>1, <2>2, ElementOfSeq
<1>4. new \in Seq(HookHandler)
  BY <1>2, <1>3 DEF Walk
<1> HIDE DEF new
<1>5. walk' \in Walk /\ walk'.at = walk.at + 1 /\ walk'.heard = new /\ walk'.same = walk.same
      /\ walk'.own = walk.own /\ walk'.began = walk.began /\ walk'.sync = walk.sync
  <2>1. walk.at + 1 \in Nat \ {0}
    BY <1>3
  <2> QED  BY <1>1, <1>2, <1>4, <2>1 DEF Walk
<1>6. Walked' = Walked /\ Asked' = Asked
  BY <1>1, <1>5 DEF Walked, Asked, Skipped
<1>7. SubSeq(Walked, 1, walk.at) = Append(SubSeq(Walked, 1, walk.at - 1), h)
  BY <1>2, <1>3, BeginningGrows
<1>8. SubSeq(Walked, 1, walk.at - 1) \in Seq(HookHandler)
  <2>1. walk.at - 1 \in 0..Len(Walked)
    BY <1>3
  <2> QED  BY <1>2, <2>1, BeginningOf
<1>9. new = OnlyIn(SubSeq(Walked, 1, walk.at), Asked)
  <2>1. h \in Asked <=> ~Skipped(h)
    BY <1>3 DEF Asked
  <2>2. walk.heard = OnlyIn(SubSeq(Walked, 1, walk.at - 1), Asked)
    BY <1>2 DEF HeardSoFar
  <2> DEFINE w == SubSeq(Walked, 1, walk.at - 1)
  <2>3. OnlyIn(Append(w, h), Asked) = IF h \in Asked THEN Append(OnlyIn(w, Asked), h) ELSE OnlyIn(w, Asked)
    <3>1. w \in Seq(HookHandler) /\ h \in HookHandler
      BY <1>3, <1>8
    <3> HIDE DEF w, h
    <3> QED  BY <3>1, OnlyInAppend
  <2> QED  BY <1>7, <2>1, <2>2, <2>3 DEF new
<1>10. walk'.at - 1 = walk.at /\ walk'.at <= Len(Walked) + 1
  BY <1>3, <1>5
<1>11. HeardSoFar'
  BY <1>2, <1>5, <1>6, <1>9, <1>10 DEF HeardSoFar
<1>12. HooksTypeOK'
  BY <1>1, <1>5 DEF HooksInv, HooksTypeOK, Walk
<1> QED  BY <1>5, <1>11, <1>12 DEF HooksInv

LEMMA HooksNextInv == ASSUME HooksInv, HooksNext PROVE HooksInv'
<1>1. ASSUME NEW h \in HookHandler, UnregisterHook(h) PROVE HooksInv'
  <2>1. OnlyIn(listed, HookHandler \ {h}) \in Seq(HookHandler)
    BY WalkedType, OnlyInType
  <2> QED  BY <1>1, <2>1, DetachedInv DEF UnregisterHook, Removes
<1>2. CASE ClearHooks
  <2>1. <<>> \in Seq(HookHandler)
    OBVIOUS
  <2> QED  BY <1>2, <2>1, DetachedInv DEF ClearHooks
<1>3. CASE TriggerReturns
  <2>1. walk' = NoWalk /\ UNCHANGED <<listed, hookOps>>
    BY <1>3 DEF TriggerReturns
  <2>2. walk' \in Walk /\ ~walk'.on
    BY <2>1 DEF NoWalk, Walk
  <2>3. HooksTypeOK'
    BY <2>1, <2>2 DEF HooksInv, HooksTypeOK, Walk
  <2> QED  BY <2>2, <2>3 DEF HooksInv
<1>4. Trigger \/ TriggerSync => HooksInv'
  BY BeginInv DEF Trigger, TriggerSync
<1> QED  BY <1>1, <1>2, <1>3, <1>4, RegisterHookInv, CallHandlerInv DEF HooksNext

LEMMA HooksHold == ASSUME HooksInv PROVE HooksTypeOK /\ EveryoneHeard
<1>1. ASSUME walk.on, walk.at > Len(Walked) PROVE IsPrefix(OnlyIn(walk.began, Asked), walk.heard)
  <2>1. Walked \in Seq(HookHandler) /\ HeardSoFar /\ walk.at \in Nat /\ Len(Walked) \in Nat
    BY <1>1, WalkedType, LenProperties DEF HooksInv, HooksTypeOK
  <2>2. walk.at - 1 = Len(Walked)
    BY <1>1, <2>1 DEF HeardSoFar
  <2>3. SubSeq(Walked, 1, walk.at - 1) = Walked
    BY <2>1, <2>2, WholeList
  <2> QED  BY <2>1, <2>3 DEF HeardSoFar
<1> QED  BY <1>1 DEF HooksInv, EveryoneHeard

LEMMA HooksRests == ASSUME HooksInv, UNCHANGED hooksVars PROVE HooksInv'
  BY DEF HooksInv, HeardSoFar, HooksTypeOK, Asked, Walked, Skipped, hooksVars

-----------------------------------------------------------------------------
\* The chaos scenarios

\* Two sleeps run side by side. While the main thread sleeps before the second
\* snapshot, the thread that undoes the fault has more left to sleep, by what
\* the duration is longer than that pause; once the pause before the third
\* snapshot has begun it has less left, by more than a thread may be late.
ChaosInv ==
  /\ ChaosTypeOK
  /\ stage \in {"none", "ready", "inject"} => \A s \in Timed : undo[s] = Woken
  /\ stage \in {"inject", "settle", "recover"} => length > 0
  /\ stage \in {"settle", "recover"} => pause >= -Jitter
  /\ stage = "settle" =>
       \A s \in Timed : undo[s] # Woken =>
         s = Current /\ undo[s] = pause + length * Second - SettleTime(length)
  /\ stage = "settle" /\ injected /\ Current \in Timed => undo[Current] # Woken
  /\ stage = "recover" => \A s \in Timed : undo[s] # Woken => undo[s] <= pause - 2

LEMMA ScenariosListed ==
  /\ Scenario = {"disk-corruption", "memory-pressure", "event-flood", "random-crash",
                 "degraded-mode", "network-partition", "network-latency", "disk-full",
                 "cpu-spike", "wal-corruption"}
  /\ \A s \in Scenario : Durations[s] \in Nat \ {0}
  /\ Order \in Seq(Scenario)
  /\ Timed \subseteq Scenario
<1>0. Order \in Seq({"disk-corruption", "memory-pressure", "event-flood", "random-crash",
                 "degraded-mode", "network-partition", "network-latency", "disk-full",
                 "cpu-spike", "wal-corruption"}) /\ DOMAIN Order = 1..10
  BY DEF Order
<1>1. Scenario = {"disk-corruption", "memory-pressure", "event-flood", "random-crash",
                 "degraded-mode", "network-partition", "network-latency", "disk-full",
                 "cpu-spike", "wal-corruption"}
  <2>1. DOMAIN Order = {1, 2, 3, 4, 5, 6, 7, 8, 9, 10}
    BY <1>0
  <2>2. Scenario = {Order[i] : i \in {1, 2, 3, 4, 5, 6, 7, 8, 9, 10}}
    BY <2>1, Zenon DEF Scenario, ToSet
  <2>3. /\ Order[1] = "network-partition" /\ Order[2] = "network-latency"
        /\ Order[3] = "disk-full" /\ Order[4] = "disk-corruption"
        /\ Order[5] = "memory-pressure" /\ Order[6] = "cpu-spike"
        /\ Order[7] = "random-crash" /\ Order[8] = "degraded-mode"
        /\ Order[9] = "wal-corruption" /\ Order[10] = "event-flood"
    BY DEF Order
  <2>4. Scenario = {Order[1], Order[2], Order[3], Order[4], Order[5], Order[6], Order[7],
                    Order[8], Order[9], Order[10]}
    BY <2>2
  <2> QED  BY <2>3, <2>4
<1>2. ASSUME NEW s \in Scenario PROVE Durations[s] \in {2, 3, 5, 8}
  BY <1>2 DEF Durations
<1>3. Order \in Seq(Scenario)
  BY <1>0, <1>1
<1>4. Timed \subseteq Scenario
  BY <1>1 DEF Timed
<1> QED  BY <1>1, <1>2, <1>3, <1>4

LEMMA PausesCompare ==
  ASSUME NEW d \in Nat \ {0}
  PROVE  /\ SettleTime(d) \in Nat /\ SettleTime(d) >= 2
         /\ d * Second - SettleTime(d) >= 4 /\ d * Second \in Nat
         /\ RecoverTime(d) = d * Second
  BY DEF SettleTime, RecoverTime, Second

LEMMA WokenIsLate == Woken \in Int /\ Woken < -Jitter /\ -Jitter > -2 /\ Jitter \in Nat
                     /\ Woken < 0 /\ 0 >= -Jitter
  BY ChaosAssumption DEF Woken

LEMMA ChaosInitInv == ASSUME ChaosInit PROVE ChaosInv
<1>1. undo \in [Timed -> Int] /\ \A s \in Timed : undo[s] = Woken /\ undo[s] >= Woken
  BY WokenIsLate DEF ChaosInit
<1>2. todo \in Seq(Scenario)
  BY DEF ChaosInit
<1>3. signals \in 0..MaxSignals
  BY ChaosAssumption DEF ChaosInit
<1>4. pause \in Int /\ pause >= Woken
  BY WokenIsLate DEF ChaosInit
<1> QED  BY <1>1, <1>2, <1>3, <1>4 DEF ChaosInit, ChaosInv, ChaosTypeOK, Health

\* What a step that changes neither a sleep nor the scenario keeps.
LEMMA ReadyAgain ==
  ASSUME ChaosInv, \A s \in Timed : undo[s] = Woken, UNCHANGED undo,
         stage' \in {"none", "ready"}, todo' \in Seq(Scenario), length' \in Nat,
         pause' \in {pause, 0}, injected' \in BOOLEAN, erred' \in BOOLEAN, before' \in Health,
         result' \in {"none", "passed", "failed"}, signals' \in 0..MaxSignals
  PROVE  ChaosInv'
<1>1. pause' \in Int /\ pause' >= Woken
  BY WokenIsLate DEF ChaosInv, ChaosTypeOK
<1>2. ChaosTypeOK'
  BY <1>1 DEF ChaosInv, ChaosTypeOK
<1> QED  BY <1>2 DEF ChaosInv

LEMMA ChaosRunInv ==
  ASSUME ChaosInv, NEW s \in Scenario, NEW allowed, NEW d \in Override \union {0},
         ChaosRun(s, allowed, d)
  PROVE  ChaosInv'
<1>1. d \in Nat
  BY ChaosAssumption
<1> QED  BY <1>1, ReadyAgain DEF ChaosRun, ChaosInv, ChaosTypeOK

LEMMA RunAllInv == ASSUME ChaosInv, NEW allowed, RunAll(allowed) PROVE ChaosInv'
<1>1. \A T : OnlyIn(Order, T) \in Seq(Scenario)
  BY ScenariosListed, OnlyInType
<1> QED  BY <1>1, ReadyAgain DEF RunAll, ChaosInv, ChaosTypeOK

LEMMA RunScenarioInv == ASSUME ChaosInv, RunScenario PROVE ChaosInv'
<1>1. Head(todo) \in Scenario
  BY DEF RunScenario, ChaosInv, ChaosTypeOK
<1>2. length' \in Nat /\ length' > 0
  <2>1. length' = IF length = 0 THEN Durations[Head(todo)] ELSE length
    BY DEF RunScenario, Current
  <2>2. length \in Nat
    BY DEF ChaosInv, ChaosTypeOK
  <2>3. Durations[Head(todo)] \in Nat \ {0}
    BY <1>1, ScenariosListed
  <2> QED  BY <2>1, <2>2, <2>3
<1>3. pause' \in Int /\ pause' >= Woken
  BY WokenIsLate DEF RunScenario
<1>4. UNCHANGED <<todo, undo, result, signals>> /\ stage' = "inject" /\ stage = "ready"
      /\ injected' = FALSE /\ erred' = FALSE /\ before' \in Health /\ todo # <<>>
  BY DEF RunScenario
<1>5. ChaosTypeOK'
  BY <1>2, <1>3, <1>4 DEF ChaosInv, ChaosTypeOK
<1> QED  BY <1>2, <1>4, <1>5 DEF ChaosInv

LEMMA InjectsInv ==
  ASSUME ChaosInv, NEW s \in Scenario, NEW own \in Nat, NEW ok \in BOOLEAN, NEW raised \in BOOLEAN,
         Injects(s, own, ok, raised),
         \/ UNCHANGED undo /\ (s \in Timed => ~ok)
         \/ s \in Timed /\ own = 0 /\ undo' = [undo EXCEPT ![s] = length * Second]
  PROVE  ChaosInv'
<1>1. stage = "inject" /\ Head(todo) = s /\ stage' = "settle" /\ injected' = ok /\ erred' = raised
      /\ UNCHANGED <<todo, length, before, result, signals>>
      /\ pause' = own + SettleTime(length)
  BY DEF Injects, Current
<1>2. length \in Nat \ {0} /\ todo \in Seq(Scenario) /\ todo # <<>>
  BY <1>1 DEF ChaosInv, ChaosTypeOK
<1>3. SettleTime(length) \in Nat /\ length * Second \in Nat
  BY <1>2, PausesCompare
<1>4. pause' \in Nat
  BY <1>1, <1>3
<1>5. pause' \in Int /\ pause' >= Woken /\ pause' >= -Jitter
  BY <1>4, WokenIsLate
<1>6. undo \in [Timed -> Int] /\ \A q \in Timed : undo[q] = Woken
  BY <1>1 DEF ChaosInv, ChaosTypeOK
<1>7. CASE UNCHANGED undo /\ (s \in Timed => ~ok)
  <2>1. ChaosTypeOK'
    BY <1>1, <1>2, <1>5, <1>7 DEF ChaosInv, ChaosTypeOK
  <2> QED  BY <1>1, <1>2, <1>5, <1>6, <1>7, <2>1 DEF ChaosInv, Current
<1>8. CASE s \in Timed /\ own = 0 /\ undo' = [undo EXCEPT ![s] = length * Second]
  <2>1. undo' \in [Timed -> Int] /\ undo'[s] = length * Second
        /\ \A q \in Timed : q # s => undo'[q] = Woken
    BY <1>3, <1>6, <1>8
  <2>2. \A q \in Timed : undo'[q] >= Woken
    BY <1>3, <2>1, WokenIsLate
  <2>3. undo'[s] # Woken
    BY <1>3, <2>1, WokenIsLate
  <2>4. undo'[s] = pause' + length * Second - SettleTime(length)
    BY <1>1, <1>3, <1>8, <2>1
  <2>5. ChaosTypeOK'
    BY <1>1, <1>2, <1>5, <2>1, <2>2 DEF ChaosInv, ChaosTypeOK
  <2>6. Head(todo') = s /\ SettleTime(length') = SettleTime(length) /\ length' = length
    BY <1>1
  <2> QED  BY <1>1, <1>2, <1>5, <2>1, <2>3, <2>4, <2>5, <2>6 DEF ChaosInv, Current
<1> QED  BY <1>7, <1>8

LEMMA FaultInv == ASSUME ChaosInv, Fault PROVE ChaosInv'
<1>0. "network-partition" \in Timed /\ "network-latency" \in Timed /\ "disk-full" \in Timed
      /\ "memory-pressure" \in Timed /\ "cpu-spike" \in Timed /\ "disk-corruption" \notin Timed
      /\ "random-crash" \notin Timed /\ "degraded-mode" \notin Timed
      /\ "wal-corruption" \notin Timed /\ "event-flood" \notin Timed
  BY DEF Timed
<1>1. /\ Second = 6 /\ Second \div 2 \in Nat /\ 4 * Second \in Nat /\ 2 * Second \in Nat
      /\ length * Second \in Nat
      /\ (IF length < 4 THEN 3 * length ELSE 2 * Second) \in Nat
  BY DEF ChaosInv, ChaosTypeOK, Second
<1>2. ASSUME NEW s \in Timed, BeginsFault(s) PROVE ChaosInv'
  <2>1. s \in Scenario
    BY ScenariosListed
  <2>2. Injects(s, 0, TRUE, FALSE) /\ undo' = [undo EXCEPT ![s] = length * Second]
    BY <1>2 DEF BeginsFault
  <2> QED  BY <2>1, <2>2, InjectsInv
<1>3. ASSUME NEW s \in Scenario, NEW own \in Nat, NEW ok \in BOOLEAN, NEW raised \in BOOLEAN,
             s \in Timed => ~ok, NoThread(s, own, ok, raised)
      PROVE  ChaosInv'
  <2>1. Injects(s, own, ok, raised) /\ UNCHANGED undo
    BY <1>3 DEF NoThread
  <2> QED  BY <1>3, <2>1, InjectsInv
<1>4. CASE FaultNetworkPartition
  BY <1>0, <1>1, <1>2, <1>3, <1>4, ScenariosListed DEF FaultNetworkPartition
<1>5. CASE FaultNetworkLatency
  BY <1>0, <1>1, <1>2, <1>3, <1>5, ScenariosListed DEF FaultNetworkLatency
<1>6. CASE FaultDiskFull
  BY <1>0, <1>1, <1>2, <1>3, <1>6, ScenariosListed DEF FaultDiskFull
<1>7. CASE FaultDiskCorruption
  BY <1>0, <1>1, <1>3, <1>7, ScenariosListed DEF FaultDiskCorruption
<1>8. CASE FaultMemoryPressure
  BY <1>0, <1>1, <1>2, <1>3, <1>8, ScenariosListed DEF FaultMemoryPressure
<1>9. CASE FaultCpuSpike
  BY <1>0, <1>1, <1>2, <1>3, <1>9, ScenariosListed DEF FaultCpuSpike
<1>10. CASE FaultRandomCrash
  BY <1>0, <1>1, <1>3, <1>10, ScenariosListed DEF FaultRandomCrash
<1>11. CASE FaultDegradedMode
  BY <1>0, <1>1, <1>3, <1>11, ScenariosListed DEF FaultDegradedMode
<1>12. CASE FaultWalCorruption
  BY <1>0, <1>1, <1>3, <1>12, ScenariosListed DEF FaultWalCorruption
<1>13. CASE FaultEventFlood
  BY <1>0, <1>1, <1>3, <1>13, ScenariosListed DEF FaultEventFlood
<1> QED  BY <1>4, <1>5, <1>6, <1>7, <1>8, <1>9, <1>10, <1>11, <1>12, <1>13 DEF Fault

LEMMA CaptureDuringInv == ASSUME ChaosInv, CaptureDuring PROVE ChaosInv'
<1>1. stage = "settle" /\ pause <= 0 /\ stage' = "recover" /\ pause' = RecoverTime(length)
      /\ UNCHANGED <<todo, length, injected, erred, before, undo, result, signals>>
  BY DEF CaptureDuring
<1>2. length \in Nat \ {0} /\ pause \in Int
  BY <1>1 DEF ChaosInv, ChaosTypeOK
<1>3. pause' = length * Second /\ pause' \in Nat /\ SettleTime(length) \in Nat /\ SettleTime(length) >= 2
  BY <1>1, <1>2, PausesCompare
<1>4. pause' >= Woken /\ pause' >= -Jitter
  BY <1>3, WokenIsLate
<1>5. ChaosTypeOK'
  BY <1>1, <1>3, <1>4 DEF ChaosInv, ChaosTypeOK
<1>6. ASSUME NEW s \in Timed, undo'[s] # Woken PROVE undo'[s] <= pause' - 2
  <2>1. undo'[s] = pause + pause' - SettleTime(length)
    BY <1>1, <1>3, <1>6 DEF ChaosInv
  <2> QED  BY <1>1, <1>2, <1>3, <2>1
<1> QED  BY <1>1, <1>2, <1>4, <1>5, <1>6 DEF ChaosInv

LEMMA CaptureAfterInv == ASSUME ChaosInv, NEW after, CaptureAfter(after) PROVE ChaosInv'
<1>1. stage = "recover" /\ pause <= 0 /\ UNCHANGED <<undo, signals>> /\ todo' = Tail(todo)
      /\ stage' = "ready" /\ length' = 0 /\ pause' = 0
      /\ result' \in {"none", "passed", "failed"} /\ before' \in Health /\ injected' = FALSE
      /\ erred' = FALSE
  BY DEF CaptureAfter, Health
<1>2. ASSUME NEW s \in Timed PROVE undo[s] = Woken
  <2>1. pause \in Int /\ undo[s] \in Int /\ undo[s] >= Woken
    BY DEF ChaosInv, ChaosTypeOK
  <2>2. ASSUME undo[s] # Woken PROVE FALSE
    <3>1. undo[s] <= pause - 2
      BY <1>1, <2>2 DEF ChaosInv
    <3>2. undo[s] >= Woken + 1 /\ Woken \in Int
      BY <2>1, <2>2, WokenIsLate
    <3> QED  BY <1>1, <2>1, <3>1, <3>2, ChaosAssumption DEF Woken
  <2> QED  BY <2>2
<1>3. todo' \in Seq(Scenario)
  BY <1>1 DEF ChaosInv, ChaosTypeOK
<1>4. signals' \in 0..MaxSignals
  BY <1>1 DEF ChaosInv, ChaosTypeOK
<1> QED  BY <1>1, <1>2, <1>3, <1>4, ReadyAgain

LEMMA RestoreInv == ASSUME ChaosInv, NEW s \in Timed, Restore(s) PROVE ChaosInv'
<1>1. undo[s] <= 0 /\ undo[s] # Woken /\ undo' = [undo EXCEPT ![s] = Woken]
      /\ UNCHANGED <<stage, todo, length, pause, injected, erred, before, result, signals>>
  BY DEF Restore
<1>2. undo \in [Timed -> Int] /\ pause \in Int
  BY DEF ChaosInv, ChaosTypeOK
<1>3. undo' \in [Timed -> Int] /\ undo'[s] = Woken /\ \A q \in Timed : q # s => undo'[q] = undo[q]
  BY <1>1, <1>2, WokenIsLate
<1>4. \A q \in Timed : undo'[q] >= Woken
  BY <1>3, WokenIsLate DEF ChaosInv, ChaosTypeOK
<1>5. ChaosTypeOK'
  BY <1>1, <1>3, <1>4 DEF ChaosInv, ChaosTypeOK
<1>6. stage # "settle"
  <2> SUFFICES ASSUME stage = "settle" PROVE FALSE
    OBVIOUS
  <2>1. undo[s] = pause + length * Second - SettleTime(length) /\ length \in Nat \ {0}
        /\ pause >= -Jitter
    BY <1>1 DEF ChaosInv, ChaosTypeOK
  <2>2. SettleTime(length) \in Nat /\ length * Second \in Nat /\ length * Second - SettleTime(length) >= 4
    BY <2>1, PausesCompare
  <2> DEFINE a == length * Second
             b == SettleTime(length)
  <2> HIDE DEF a, b
  <2>3. undo[s] = pause + a - b /\ a \in Nat /\ b \in Nat /\ a - b >= 4
    BY <2>1, <2>2 DEF a, b
  <2>4. undo[s] \in Int
    BY <1>2
  <2> QED  BY <1>1, <1>2, <2>1, <2>3, <2>4, WokenIsLate
<1> QED  BY <1>1, <1>3, <1>5, <1>6 DEF ChaosInv

LEMMA ProcessEndsInv ==
  ASSUME ChaosInv, ProcessEnds, signals' \in 0..MaxSignals
  PROVE  ChaosInv'
<1>1. undo' = [s \in Timed |-> Woken] /\ stage' = "none" /\ todo' = <<>> /\ length' = 0
      /\ pause' = 0 /\ injected' = FALSE /\ erred' = FALSE /\ before' \in Health
      /\ UNCHANGED result
  BY DEF ProcessEnds, Health
<1>2. undo' \in [Timed -> Int] /\ \A s \in Timed : undo'[s] = Woken /\ undo'[s] >= Woken
  BY <1>1, WokenIsLate
<1>3. todo' \in Seq(Scenario) /\ pause' \in Int /\ pause' >= Woken
  BY <1>1, WokenIsLate
<1>4. ChaosTypeOK'
  BY <1>1, <1>2, <1>3 DEF ChaosInv, ChaosTypeOK
<1> QED  BY <1>1, <1>2, <1>4 DEF ChaosInv

LEMMA TickInv == ASSUME ChaosInv, Tick PROVE ChaosInv'
<1>1. stage \in {"settle", "recover"} /\ pause > -Jitter /\ pause' = pause - 1
      /\ undo' = [s \in Timed |-> IF s \in Sleeping THEN undo[s] - 1 ELSE undo[s]]
      /\ UNCHANGED <<stage, todo, length, injected, erred, before, result, signals>>
      /\ \A s \in Sleeping : undo[s] > -Jitter
  BY DEF Tick
<1>2. undo \in [Timed -> Int] /\ pause \in Int
  BY DEF ChaosInv, ChaosTypeOK
<1>3. ASSUME NEW s \in Timed
      PROVE  /\ undo'[s] \in Int
             /\ undo[s] = Woken => undo'[s] = Woken
             /\ undo[s] # Woken => undo'[s] = undo[s] - 1 /\ undo'[s] # Woken
             /\ undo'[s] >= Woken
  <2>1. CASE undo[s] = Woken
    BY <1>1, <1>2, <2>1, WokenIsLate DEF Sleeping
  <2>2. CASE undo[s] # Woken
    <3>1. undo[s] > -Jitter /\ undo'[s] = undo[s] - 1 /\ undo[s] \in Int
      BY <1>1, <1>2, <2>2 DEF Sleeping
    <3> QED  BY <2>2, <3>1, WokenIsLate
  <2> QED  BY <2>1, <2>2
<1>4. undo' \in [Timed -> Int]
  BY <1>1, <1>2, <1>3
<1>5. pause' \in Int /\ pause' >= -Jitter /\ pause' >= Woken
  BY <1>1, <1>2, WokenIsLate
<1>6. ChaosTypeOK'
  BY <1>1, <1>3, <1>4, <1>5 DEF ChaosInv, ChaosTypeOK
<1>7. stage' = "settle" =>
       \A s \in Timed : undo'[s] # Woken =>
         s = Current' /\ undo'[s] = pause' + length' * Second - SettleTime(length')
  <2> SUFFICES ASSUME stage' = "settle", NEW s \in Timed, undo'[s] # Woken
      PROVE s = Current' /\ undo'[s] = pause' + length' * Second - SettleTime(length')
    OBVIOUS
  <2>1. undo[s] # Woken /\ undo'[s] = undo[s] - 1
    BY <1>3
  <2>2. s = Current /\ undo[s] = pause + length * Second - SettleTime(length) /\ length \in Nat \ {0}
    BY <1>1, <2>1 DEF ChaosInv, ChaosTypeOK
  <2>3. SettleTime(length) \in Nat /\ length * Second \in Nat
    BY <2>2, PausesCompare
  <2> DEFINE a == length * Second
             b == SettleTime(length)
  <2> HIDE DEF a, b
  <2>4. undo[s] = pause + a - b /\ a \in Nat /\ b \in Nat
    BY <2>2, <2>3 DEF a, b
  <2>5. undo'[s] = pause' + a - b
    BY <1>1, <1>2, <2>1, <2>4
  <2> QED  BY <1>1, <2>2, <2>5 DEF a, b, Current
<1>8. stage' = "recover" => \A s \in Timed : undo'[s] # Woken => undo'[s] <= pause' - 2
  BY <1>1, <1>2, <1>3 DEF ChaosInv
<1>9. stage' = "settle" /\ injected' /\ Current' \in Timed => undo'[Current'] # Woken
  BY <1>1, <1>3 DEF ChaosInv, Current
<1> QED  BY <1>1, <1>5, <1>6, <1>7, <1>8, <1>9 DEF ChaosInv

LEMMA ChaosNextInv == ASSUME ChaosInv, ChaosNext PROVE ChaosInv'
<1>1. CASE Exit
  <2>1. ProcessEnds /\ signals' \in 0..MaxSignals
    BY <1>1 DEF Exit, ChaosInv, ChaosTypeOK
  <2> QED  BY <2>1, ProcessEndsInv
<1>2. CASE ProcessKilled
  <2>1. ProcessEnds /\ signals' = signals + 1 /\ signals < MaxSignals /\ signals \in 0..MaxSignals
    BY <1>2 DEF ProcessKilled, ChaosInv, ChaosTypeOK
  <2>2. signals' \in 0..MaxSignals
    BY <2>1, ChaosAssumption
  <2> QED  BY <2>1, <2>2, ProcessEndsInv
<1> QED  BY <1>1, <1>2, ChaosRunInv, RunAllInv, RunScenarioInv, FaultInv, CaptureDuringInv,
            CaptureAfterInv, RestoreInv, TickInv DEF ChaosNext

LEMMA ChaosHolds == ASSUME ChaosInv PROVE ChaosTypeOK /\ FaultGoneAtEnd /\ SeenUnderFault
  BY DEF ChaosInv, FaultGoneAtEnd, SeenUnderFault, Sleeping

LEMMA ChaosRests == ASSUME ChaosInv, UNCHANGED chaosVars PROVE ChaosInv'
  BY DEF ChaosInv, ChaosTypeOK, Current, chaosVars

-----------------------------------------------------------------------------
\* The forge of skills

\* The rejections that are planned for: each run's third and the ones after it.
Late == {e \in Draft \X (RejectionLimit..MaxRejections) : e[2] <= rejected[e[1]]}

\* The history has an event for some of these rejections, and what the
\* statistics count is not more than what was earned.
EmergenceInv ==
  /\ EmergenceTypeOK /\ IndexAgrees /\ SkillNeedsRejections /\ PromotionEarned
  /\ IsFiniteSet(Late) /\ Len(drifts) <= Cardinality(Late)
  /\ fixes <= fixed /\ earned <= fixed
  /\ skill # "none" => fixes <= earned

\* Events of one run in a history
Events(s, d) == Cardinality({i \in DOMAIN s : s[i] = d})

LEMMA EventsAppend ==
  ASSUME NEW s \in Seq(Draft), NEW e \in Draft, NEW d
  PROVE  /\ Events(s, d) \in Nat
         /\ Events(Append(s, e), d) = IF d = e THEN Events(s, d) + 1 ELSE Events(s, d)
<1> DEFINE t == Append(s, e)
           I == {i \in DOMAIN s : s[i] = d}
           J == {i \in DOMAIN t : t[i] = d}
           n == Len(s) + 1
<1>1. Len(s) \in Nat /\ DOMAIN s = 1..Len(s) /\ DOMAIN t = 1..n /\ t[n] = e
      /\ \A i \in 1..Len(s) : t[i] = s[i]
  BY AppendProperties, LenProperties
<1> HIDE DEF t
<1>2. IsFiniteSet(1..Len(s)) /\ I \subseteq 1..Len(s) /\ n \notin I
  BY <1>1, FS_Interval
<1>3. IsFiniteSet(I) /\ Cardinality(I) \in Nat
  BY <1>2, FS_Subset, FS_CardinalityType
<1>4. J = IF d = e THEN I \cup {n} ELSE I
  <2>1. \A i \in 1..n : i \in 1..Len(s) \/ i = n
    BY <1>1
  <2>2. 1..Len(s) \subseteq 1..n /\ n \in 1..n
    BY <1>1
  <2> HIDE DEF n
  <2> QED  BY <1>1, <2>1, <2>2
<1> HIDE DEF I, J, n
<1>5. Cardinality(J) = IF d = e THEN Cardinality(I) + 1 ELSE Cardinality(I)
  BY <1>2, <1>3, <1>4, FS_AddElement
<1> QED  BY <1>3, <1>5 DEF Events, I, J, t

LEMMA EventsTail ==
  ASSUME NEW s \in Seq(Draft), s # <<>>, NEW d
  PROVE  Events(Tail(s), d) = IF d = Head(s) THEN Events(s, d) - 1 ELSE Events(s, d)
<1> DEFINE t == Tail(s)
           I == {i \in DOMAIN s : s[i] = d}
           J == {i \in DOMAIN t : t[i] = d}
           n == Len(s)
           f == [j \in J |-> j + 1]
<1>1. n \in Nat /\ n >= 1 /\ DOMAIN s = 1..n /\ DOMAIN t = 1..(n - 1) /\ Head(s) = s[1]
      /\ \A i \in 1..(n - 1) : t[i] = s[i + 1]
  <2>1. n \in Nat /\ n >= 1 /\ DOMAIN s = 1..n
    BY LenProperties, EmptySeq
  <2> QED  BY <2>1, HeadTailProperties, LenProperties
<1> HIDE DEF t, n
<1>2. IsFiniteSet(1..n) /\ I \subseteq 1..n /\ IsFiniteSet(1..(n - 1)) /\ J \subseteq 1..(n - 1)
  BY <1>1, FS_Interval
<1>3. IsFiniteSet(I) /\ Cardinality(I) \in Nat /\ IsFiniteSet(J) /\ IsFiniteSet(I \ {1})
  BY <1>2, FS_Subset, FS_CardinalityType
<1>4. f \in Bijection(J, I \ {1})
  <2>1. \A j \in J : j \in Int /\ j + 1 \in I \ {1}
    BY <1>1
  <2>2. \A i \in I \ {1} : i - 1 \in J /\ i \in Int
    BY <1>1
  <2> HIDE DEF I, J
  <2>3. f \in [J -> I \ {1}]
    BY <2>1
  <2>4. \A a, b \in J : a # b => f[a] # f[b]
    BY <2>1
  <2>5. \A i \in I \ {1} : \E j \in J : f[j] = i
    BY <2>2
  <2> QED  BY <2>3, <2>4, <2>5, Fun_IsBij
<1> HIDE DEF f
<1>5. Cardinality(J) = Cardinality(I \ {1})
  <2>1. ExistsBijection(J, I \ {1})
    BY <1>4 DEF ExistsBijection
  <2> QED  BY <1>3, <2>1, FS_Bijection
<1>6. 1 \in I <=> d = Head(s)
  BY <1>1
<1>7. Cardinality(I \ {1}) = IF 1 \in I THEN Cardinality(I) - 1 ELSE Cardinality(I)
  BY <1>3, FS_RemoveElement
<1> QED  BY <1>5, <1>6, <1>7 DEF Events, I, J, t

LEMMA EmergenceInitInv == ASSUME EmergenceInit PROVE EmergenceInv
<1>1. rejected = [d \in Draft |-> 0] /\ drifts = <<>> /\ byRun = [d \in Draft |-> 0]
      /\ skill = "none" /\ fixes = 0 /\ earned = 0 /\ fixed = 0 /\ reboots = 0
  BY DEF EmergenceInit
<1>2. drifts \in Seq(Draft) /\ Len(drifts) = 0 /\ DOMAIN drifts = {}
  BY <1>1
<1>3. EmergenceTypeOK
  BY <1>1, <1>2, EmergenceAssumption DEF EmergenceTypeOK
<1>4. Late = {}
  <2> SUFFICES ASSUME NEW e \in Late PROVE FALSE
    OBVIOUS
  <2>1. e[1] \in Draft /\ e[2] \in RejectionLimit..MaxRejections /\ e[2] <= rejected[e[1]]
    BY DEF Late
  <2>2. e[2] <= 0 /\ e[2] \in 3..MaxRejections
    BY <1>1, <2>1 DEF RejectionLimit
  <2> QED  BY <2>2, EmergenceAssumption
<1>5. IsFiniteSet(Late) /\ Cardinality(Late) = 0
  BY <1>4, FS_EmptySet
<1>6. IndexAgrees
  <2>1. \A d \in Draft : {i \in DOMAIN drifts : drifts[i] = d} = {}
    BY <1>2
  <2> QED  BY <1>1, <2>1, FS_EmptySet DEF IndexAgrees
<1> QED  BY <1>1, <1>2, <1>3, <1>5, <1>6 DEF EmergenceInv, SkillNeedsRejections, PromotionEarned

LEMMA RecordDriftInv ==
  ASSUME EmergenceInv, NEW d \in Draft, RecordDrift(d)
  PROVE  /\ drifts' \in Seq(Draft) /\ Len(drifts') <= MaxHistory /\ Len(drifts') <= Len(drifts) + 1
         /\ byRun' \in [Draft -> Nat]
         /\ IndexAgrees'
<1> DEFINE r == Recorded(d)
           h == Head(r)
           added == [byRun EXCEPT ![d] = @ + 1]
<1>0. drifts \in Seq(Draft) /\ Len(drifts) <= MaxHistory /\ byRun \in [Draft -> Nat]
      /\ (\A c \in Draft : byRun[c] = Events(drifts, c)) /\ MaxHistory \in Nat \ {0}
  BY EmergenceAssumption DEF EmergenceInv, EmergenceTypeOK, IndexAgrees, Events
<1>1. r \in Seq(Draft) /\ Len(r) = Len(drifts) + 1 /\ Len(drifts) \in Nat /\ r # <<>>
  <2>1. r \in Seq(Draft) /\ Len(r) = Len(drifts) + 1
    BY <1>0, AppendProperties DEF Recorded
  <2>2. Len(drifts) \in Nat
    BY <1>0, LenProperties
  <2> HIDE DEF r
  <2>3. r # <<>>
    BY <2>1, <2>2, EmptySeq
  <2> QED  BY <2>1, <2>2, <2>3
<1>2. added \in [Draft -> Nat] /\ \A c \in Draft : added[c] = Events(r, c) /\ Events(r, c) \in Nat
  <2>1. \A c \in Draft : Events(drifts, c) \in Nat
          /\ Events(r, c) = IF c = d THEN Events(drifts, c) + 1 ELSE Events(drifts, c)
    BY <1>0, EventsAppend DEF Recorded
  <2> QED  BY <1>0, <2>1
<1>3. drifts' = (IF Overflows(d) THEN Tail(r) ELSE r)
      /\ byRun' = (IF Overflows(d) THEN [added EXCEPT ![h] = @ - 1] ELSE added)
  BY DEF RecordDrift, Reindexed
<1>4. Overflows(d) <=> Len(r) > MaxHistory
  BY DEF Overflows
<1> HIDE DEF added, r
<1>5. CASE ~Overflows(d)
  <2>1. Len(r) <= MaxHistory
    BY <1>0, <1>1, <1>4, <1>5
  <2>2. IndexAgrees'
    BY <1>2, <1>3, <1>5 DEF IndexAgrees, Events
  <2> QED  BY <1>1, <1>2, <1>3, <1>5, <2>1, <2>2
<1>6. CASE Overflows(d)
  <2>1. Tail(r) \in Seq(Draft) /\ Len(Tail(r)) = Len(r) - 1 /\ h \in Draft /\ h = r[1]
    BY <1>1, HeadTailProperties, LenProperties, EmptySeq
  <2>2. \A c \in Draft : Events(Tail(r), c) = IF c = h THEN Events(r, c) - 1 ELSE Events(r, c)
    BY <1>1, EventsTail
  <2>3. \A c \in Draft : Events(Tail(r), c) \in Nat
    <3> SUFFICES ASSUME NEW c \in Draft PROVE Events(Tail(r), c) \in Nat
      OBVIOUS
    <3> QED  BY <2>1, EventsAppend
  <2> HIDE DEF h
  <2>4. \A c \in Draft : byRun'[c] = Events(Tail(r), c)
    BY <1>2, <1>3, <1>6, <2>1, <2>2
  <2>5. byRun' \in [Draft -> Nat]
    <3>1. added[h] - 1 \in Nat
      BY <1>2, <2>1, <2>2, <2>3
    <3> QED  BY <1>2, <1>3, <1>6, <3>1
  <2>6. IndexAgrees'
    BY <1>3, <1>6, <2>4 DEF IndexAgrees, Events
  <2> QED  BY <1>0, <1>1, <1>3, <1>6, <2>1, <2>5, <2>6
<1> QED  BY <1>5, <1>6

LEMMA RejectInv == ASSUME EmergenceInv, NEW d \in Draft, Reject(d) PROVE EmergenceInv'
<1> DEFINE n == rejected[d] + 1
           e == <<d, n>>
<1>1. rejected[d] < MaxRejections /\ rejected' = [rejected EXCEPT ![d] = n]
      /\ UNCHANGED <<skill, fixes, earned, fixed, reboots>>
  BY DEF Reject
<1>2. rejected \in [Draft -> 0..MaxRejections] /\ rejected[d] \in Nat /\ MaxRejections \in Nat
      /\ drifts \in Seq(Draft) /\ Len(drifts) \in Nat
  <2>1. rejected \in [Draft -> 0..MaxRejections] /\ drifts \in Seq(Draft)
    BY DEF EmergenceInv, EmergenceTypeOK
  <2> QED  BY <2>1, LenProperties, EmergenceAssumption
<1>3. n \in 0..MaxRejections /\ n \in Nat
  BY <1>1, <1>2
<1>4. rejected' \in [Draft -> 0..MaxRejections] /\ rejected'[d] = n
      /\ \A c \in Draft : c # d => rejected'[c] = rejected[c]
  BY <1>1, <1>2, <1>3
<1> HIDE DEF n
<1>5. e[1] = d /\ e[2] = n
  OBVIOUS
<1> HIDE DEF e
<1>6. \A x \in Draft \X (RejectionLimit..MaxRejections) :
        x[1] \in Draft /\ x[2] \in Nat /\ (x = e <=> x[1] = d /\ x[2] = n)
  BY DEF e, RejectionLimit
<1>7. Late' = (IF n >= RejectionLimit THEN Late \cup {e} ELSE Late) /\ e \notin Late
  <2>1. \A x \in Draft \X (RejectionLimit..MaxRejections) :
          x[2] <= rejected'[x[1]] <=> x[2] <= rejected[x[1]] \/ x = e
    <3> SUFFICES ASSUME NEW x \in Draft \X (RejectionLimit..MaxRejections)
        PROVE  x[2] <= rejected'[x[1]] <=> x[2] <= rejected[x[1]] \/ x = e
      OBVIOUS
    <3>1. CASE x[1] = d
      <4>1. rejected'[x[1]] = n /\ rejected[x[1]] = n - 1 /\ x[2] \in Nat /\ (x = e <=> x[2] = n)
        BY <1>2, <1>4, <1>6, <3>1 DEF n
      <4> QED  BY <1>3, <4>1
    <3>2. CASE x[1] # d
      BY <1>4, <1>6, <3>2
    <3> QED  BY <3>1, <3>2
  <2>2. e \in Draft \X (RejectionLimit..MaxRejections) <=> n >= RejectionLimit
    BY <1>3 DEF e, RejectionLimit
  <2>3. e \notin Late
    <3> SUFFICES ASSUME e \in Late PROVE FALSE
      OBVIOUS
    <3>1. n <= rejected[d]
      BY <1>5 DEF Late
    <3> QED  BY <1>2, <3>1 DEF n
  <2> QED  BY <2>1, <2>2, <2>3 DEF Late
<1>8. IsFiniteSet(Late) /\ Cardinality(Late) \in Nat /\ Len(drifts) <= Cardinality(Late)
  BY FS_CardinalityType DEF EmergenceInv
<1>9. IsFiniteSet(Late')
      /\ Cardinality(Late') = IF n >= RejectionLimit THEN Cardinality(Late) + 1 ELSE Cardinality(Late)
  BY <1>7, <1>8, FS_AddElement
<1>10. SkillNeedsRejections'
  <2>1. Cardinality(Late') >= Cardinality(Late) /\ Cardinality(Late') \in Nat
    BY <1>8, <1>9
  <2>2. SkillNeedsRejections
    BY DEF EmergenceInv
  <2> QED  BY <1>1, <1>8, <2>1, <2>2 DEF SkillNeedsRejections, Late, MinOccurrences
<1>11. CASE n >= RejectionLimit
  <2>1. RecordDrift(d)
    BY <1>11 DEF Reject, Planned, n
  <2>2. /\ drifts' \in Seq(Draft) /\ Len(drifts') <= MaxHistory /\ Len(drifts') <= Len(drifts) + 1
        /\ byRun' \in [Draft -> Nat]
        /\ IndexAgrees'
    BY <2>1, RecordDriftInv
  <2>3. Len(drifts') <= Cardinality(Late')
    <3>1. Len(drifts') \in Nat
      BY <2>2, LenProperties
    <3> QED  BY <1>2, <1>8, <1>9, <1>11, <2>2, <3>1
  <2>4. EmergenceTypeOK'
    BY <1>1, <1>4, <2>2 DEF EmergenceInv, EmergenceTypeOK
  <2> QED  BY <1>1, <1>9, <1>10, <2>2, <2>3, <2>4 DEF EmergenceInv, PromotionEarned
<1>12. CASE ~(n >= RejectionLimit)
  <2>1. UNCHANGED <<drifts, byRun>>
    BY <1>12 DEF Reject, Planned, n
  <2>2. EmergenceTypeOK'
    BY <1>1, <1>4, <2>1 DEF EmergenceInv, EmergenceTypeOK
  <2>3. IndexAgrees'
    BY <2>1 DEF EmergenceInv, IndexAgrees
  <2>4. Len(drifts') <= Cardinality(Late')
    BY <1>8, <1>9, <1>12, <2>1
  <2> QED  BY <1>1, <1>9, <1>10, <2>1, <2>2, <2>3, <2>4 DEF EmergenceInv, PromotionEarned
<1> QED  BY <1>11, <1>12

LEMMA EmergenceNextInv == ASSUME EmergenceInv, EmergenceNext PROVE EmergenceInv'
<1>0. {fixes, earned, fixed} \subseteq Nat /\ MaxFixes \in Nat /\ fixed <= MaxFixes
      /\ Promotion \in Nat \ {0}
  BY EmergenceAssumption DEF EmergenceInv, EmergenceTypeOK
<1>1. CASE CheckEmergence
  <2>1. skill' = "T3" /\ fixes' = 0 /\ earned' = 0 /\ UNCHANGED <<rejected, drifts, byRun, fixed, reboots>>
        /\ Len(drifts) >= MinOccurrences
    BY <1>1 DEF CheckEmergence, SavedStats, Candidate
  <2>2. EmergenceTypeOK'
    BY <1>0, <2>1 DEF EmergenceInv, EmergenceTypeOK
  <2>3. Late' = Late
    BY <2>1 DEF Late
  <2>4. SkillNeedsRejections'
    <3>1. Cardinality(Late) >= MinOccurrences
      <4>1. Len(drifts) \in Nat /\ Cardinality(Late) \in Nat /\ Len(drifts) <= Cardinality(Late)
        BY LenProperties, FS_CardinalityType DEF EmergenceInv, EmergenceTypeOK
      <4> QED  BY <2>1, <4>1 DEF MinOccurrences
    <3> QED  BY <2>3, <3>1 DEF SkillNeedsRejections, Late, MinOccurrences
  <2>5. IndexAgrees'
    BY <2>1 DEF EmergenceInv, IndexAgrees
  <2> QED  BY <1>0, <2>1, <2>2, <2>3, <2>4, <2>5 DEF EmergenceInv, PromotionEarned
<1>2. ASSUME NEW success \in BOOLEAN, RecordFix(success) PROVE EmergenceInv'
  <2> DEFINE n == IF success THEN fixes + 1 ELSE fixes
  <2>1. fixed < MaxFixes /\ fixed' = fixed + 1 /\ fixes' = n
        /\ earned' = (IF success /\ skill # "none" THEN earned + 1 ELSE earned)
        /\ skill' = (IF n >= Promotion /\ skill # "none" THEN "T2" ELSE skill)
        /\ UNCHANGED <<rejected, drifts, byRun, reboots>>
    BY <1>2 DEF RecordFix
  <2>2. n \in Nat /\ n <= fixed' /\ earned' \in Nat /\ earned' <= fixed' /\ fixed' \in Nat /\ fixed' <= MaxFixes
        /\ earned' >= earned
    BY <1>0, <2>1 DEF EmergenceInv
  <2>3. skill \in {"none", "T3", "T2"} /\ skill' \in {"none", "T3", "T2"}
    BY <2>1 DEF EmergenceInv, EmergenceTypeOK
  <2>4. (skill' # "none" <=> skill # "none") /\ (skill # "none" => n <= earned')
    BY <1>0, <2>1 DEF EmergenceInv
  <2> HIDE DEF n
  <2>5. EmergenceTypeOK'
    <3>1. {fixes', earned', fixed'} \subseteq 0..MaxFixes
      BY <1>0, <2>1, <2>2
    <3> QED  BY <2>1, <2>3, <3>1 DEF EmergenceInv, EmergenceTypeOK
  <2>6. PromotionEarned'
    <3> SUFFICES ASSUME skill' = "T2" PROVE earned' >= Promotion
      BY DEF PromotionEarned
    <3>1. CASE n >= Promotion /\ skill # "none"
      BY <1>0, <2>2, <2>4, <3>1
    <3>2. CASE ~(n >= Promotion /\ skill # "none")
      <4>1. skill = "T2"
        BY <2>1, <3>2
      <4>2. earned >= Promotion
        BY <4>1 DEF EmergenceInv, PromotionEarned
      <4> QED  BY <1>0, <2>2, <4>2
    <3> QED  BY <3>1, <3>2
  <2>7. Late' = Late
    BY <2>1 DEF Late
  <2>8. SkillNeedsRejections' /\ IndexAgrees'
    BY <2>1, <2>4 DEF EmergenceInv, SkillNeedsRejections, IndexAgrees
  <2> QED  BY <2>1, <2>2, <2>4, <2>5, <2>6, <2>7, <2>8 DEF EmergenceInv
<1>3. CASE Reboot
  <2>1. reboots < MaxReboots /\ reboots' = reboots + 1 /\ drifts' = <<>>
        /\ byRun' = [d \in Draft |-> 0] /\ fixes' = 0 /\ UNCHANGED <<rejected, skill, earned, fixed>>
    BY <1>3 DEF Reboot
  <2>2. drifts' \in Seq(Draft) /\ Len(drifts') = 0 /\ DOMAIN drifts' = {}
    BY <2>1
  <2>3. reboots' \in 0..MaxReboots
    <3>1. reboots \in 0..MaxReboots
      BY DEF EmergenceInv, EmergenceTypeOK
    <3> QED  BY <2>1, <3>1, EmergenceAssumption
  <2>4. EmergenceTypeOK'
    BY <1>0, <2>1, <2>2, <2>3, EmergenceAssumption DEF EmergenceInv, EmergenceTypeOK
  <2>5. IndexAgrees'
    <3>1. \A d \in Draft : {i \in DOMAIN drifts' : drifts'[i] = d} = {}
      BY <2>2
    <3> QED  BY <2>1, <3>1, FS_EmptySet DEF IndexAgrees
  <2>6. Late' = Late /\ Cardinality(Late) \in Nat
    BY <2>1, FS_CardinalityType DEF Late, EmergenceInv
  <2>7. SkillNeedsRejections' /\ PromotionEarned'
    BY <2>1 DEF EmergenceInv, SkillNeedsRejections, PromotionEarned
  <2> QED  BY <1>0, <2>1, <2>2, <2>4, <2>5, <2>6, <2>7 DEF EmergenceInv
<1> QED  BY <1>1, <1>2, <1>3, RejectInv DEF EmergenceNext

LEMMA EmergenceHolds ==
  ASSUME EmergenceInv
  PROVE  EmergenceTypeOK /\ IndexAgrees /\ SkillNeedsRejections /\ PromotionEarned
  BY DEF EmergenceInv

LEMMA EmergenceRests == ASSUME EmergenceInv, UNCHANGED emergenceVars PROVE EmergenceInv'
  BY DEF EmergenceInv, EmergenceTypeOK, IndexAgrees, Late, PromotionEarned,
         SkillNeedsRejections, emergenceVars

-----------------------------------------------------------------------------
\* Remediation

AttemptRecord ==
  [of : Signature \union {""}, auto : BOOLEAN,
   at : {"new", "planned", "acting", "resting", "over"}, next : 1..2,
   status : {"none", "running", "success", "failed", "skipped"},
   began : 0..MaxMinutes, ended : 0..MaxMinutes]

\* A failure that was under way when a succeeded, and ended later
Overtaken(a) ==
  \E c \in Attempt :
    /\ attempt[c].of = attempt[a].of /\ attempt[c].status = "failed"
    /\ attempt[c].began <= attempt[a].ended /\ attempt[c].ended >= attempt[a].ended

Live(r) == r.at \in {"planned", "acting", "resting"}
Begun(r) == r.at \in {"acting", "resting"}

AttemptOK(r, m) ==
  /\ r.began <= m /\ r.ended <= m
  /\ Live(r) => r.of \in Signature
  /\ r.status \in {"success", "failed"} => r.of \in Signature
  /\ r.at = "planned" => r.began = 0
  /\ r.at # "over" => r.status \notin {"success", "failed"}

\* A success keeps its signature at rest unless it was overtaken, and what is
\* under way for the signature began before the success or long after it.
RestKept ==
  \A a \in Attempt : attempt[a].status = "success" =>
    Overtaken(a) \/ cooldown[attempt[a].of] >= attempt[a].ended + 5

BegunApart ==
  \A a, b \in Attempt :
    attempt[a].status = "success" /\ Begun(attempt[b]) /\ attempt[b].of = attempt[a].of =>
      \/ Overtaken(a)
      \/ attempt[b].began <= attempt[a].ended
      \/ attempt[b].began >= attempt[a].ended + 5

RemediationInv ==
  /\ RemediationTypeOK
  /\ \A a \in Attempt : AttemptOK(attempt[a], minute)
  /\ RestKept /\ BegunApart

LEMMA RemediationTypes ==
  RemediationTypeOK <=>
    /\ minute \in 0..MaxMinutes /\ cooldown \in [Signature -> 0..(MaxMinutes + 5)]
    /\ attempt \in [Attempt -> AttemptRecord]
  BY Zenon DEF RemediationTypeOK, AttemptRecord

LEMMA AttemptFields ==
  ASSUME NEW r \in AttemptRecord
  PROVE  /\ r.of \in Signature \union {""} /\ r.auto \in BOOLEAN
         /\ r.at \in {"new", "planned", "acting", "resting", "over"} /\ r.next \in 1..2
         /\ r.status \in {"none", "running", "success", "failed", "skipped"}
         /\ r.began \in Nat /\ r.ended \in Nat /\ r.began \in 0..MaxMinutes /\ r.ended \in 0..MaxMinutes
         /\ r = [of |-> r.of, auto |-> r.auto, at |-> r.at, next |-> r.next, status |-> r.status,
                 began |-> r.began, ended |-> r.ended]
<1>1. /\ r.of \in Signature \union {""} /\ r.auto \in BOOLEAN
      /\ r.at \in {"new", "planned", "acting", "resting", "over"} /\ r.next \in 1..2
      /\ r.status \in {"none", "running", "success", "failed", "skipped"}
      /\ r.began \in 0..MaxMinutes /\ r.ended \in 0..MaxMinutes
  BY DEF AttemptRecord
<1>2. r = [of |-> r.of, auto |-> r.auto, at |-> r.at, next |-> r.next, status |-> r.status,
           began |-> r.began, ended |-> r.ended]
  BY DEF AttemptRecord
<1>3. r.began \in Nat /\ r.ended \in Nat
  <2>1. r.began \in 0..MaxMinutes /\ r.ended \in 0..MaxMinutes
    BY <1>1
  <2> QED  BY <2>1, RemediationAssumption
<1> QED  BY <1>1, <1>2, <1>3

LEMMA AttemptOver ==
  ASSUME NEW q \in AttemptRecord, NEW ok \in BOOLEAN, minute \in 0..MaxMinutes
  PROVE  [q EXCEPT !.at = "over", !.next = 1, !.ended = minute,
                   !.status = IF ok THEN "success" ELSE "failed"] \in AttemptRecord
<1> DEFINE O == Signature \union {""}
           T == {"new", "planned", "acting", "resting", "over"}
           S == {"none", "running", "success", "failed", "skipped"}
           N == 1..2
           M == 0..MaxMinutes
           s == IF ok THEN "success" ELSE "failed"
<1>1. AttemptRecord = [of : O, auto : BOOLEAN, at : T, next : N, status : S, began : M, ended : M]
  BY DEF AttemptRecord
<1>2. "over" \in T /\ s \in S /\ 1 \in N /\ minute \in M
  OBVIOUS
<1> HIDE DEF O, T, S, N, M, s
<1>3. [q EXCEPT !.at = "over", !.next = 1, !.ended = minute, !.status = s] \in AttemptRecord
  BY <1>1, <1>2
<1> QED  BY <1>3 DEF s

\* A record with some of its fields set
LEMMA AttemptSet ==
  ASSUME NEW o \in Signature \union {""}, NEW u \in BOOLEAN,
         NEW t \in {"new", "planned", "acting", "resting", "over"}, NEW n \in 1..2,
         NEW s \in {"none", "running", "success", "failed", "skipped"},
         NEW b \in 0..MaxMinutes, NEW e \in 0..MaxMinutes
  PROVE  [of |-> o, auto |-> u, at |-> t, next |-> n, status |-> s, began |-> b, ended |-> e]
           \in AttemptRecord
  BY Zenon DEF AttemptRecord

LEMMA NoAttemptType == NoAttempt \in AttemptRecord
<1>1. "" \in Signature \union {""} /\ 1 \in 1..2 /\ 0 \in 0..MaxMinutes
  BY RemediationAssumption
<1> QED  BY <1>1, AttemptSet DEF NoAttempt

LEMMA AttemptPlanned ==
  ASSUME NEW q \in AttemptRecord, NEW o \in Signature, NEW u \in BOOLEAN
  PROVE  [q EXCEPT !.of = o, !.at = "planned", !.auto = u] \in AttemptRecord
<1> DEFINE O == Signature \union {""}
           T == {"new", "planned", "acting", "resting", "over"}
           S == {"none", "running", "success", "failed", "skipped"}
           N == 1..2
           M == 0..MaxMinutes
<1>1. AttemptRecord = [of : O, auto : BOOLEAN, at : T, next : N, status : S, began : M, ended : M]
  BY DEF AttemptRecord
<1>2. o \in O /\ "planned" \in T
  BY Zenon
<1> HIDE DEF O, T, S, N, M
<1> QED  BY <1>1, <1>2

\* The other steps of an attempt
LEMMA AttemptGoesOn ==
  ASSUME NEW q \in AttemptRecord, minute \in 0..MaxMinutes
  PROVE  /\ [q EXCEPT !.at = "acting", !.began = minute, !.status = "running"] \in AttemptRecord
         /\ [q EXCEPT !.at = "resting"] \in AttemptRecord
         /\ \A n \in 1..2 : [q EXCEPT !.at = "acting", !.next = n] \in AttemptRecord
         /\ [q EXCEPT !.at = "over", !.status = "skipped"] \in AttemptRecord
<1> DEFINE O == Signature \union {""}
           T == {"new", "planned", "acting", "resting", "over"}
           S == {"none", "running", "success", "failed", "skipped"}
           N == 1..2
           M == 0..MaxMinutes
<1>1. AttemptRecord = [of : O, auto : BOOLEAN, at : T, next : N, status : S, began : M, ended : M]
  BY DEF AttemptRecord
<1>2. "acting" \in T /\ "resting" \in T /\ "over" \in T /\ "running" \in S /\ "skipped" \in S
      /\ minute \in M
  OBVIOUS
<1> HIDE DEF O, T, S, N, M
<1>3. /\ [q EXCEPT !.at = "acting", !.began = minute, !.status = "running"] \in AttemptRecord
      /\ [q EXCEPT !.at = "resting"] \in AttemptRecord
  BY <1>1, <1>2
<1>4. \A n \in N : [q EXCEPT !.at = "acting", !.next = n] \in AttemptRecord
  BY <1>1, <1>2
<1>5. [q EXCEPT !.at = "over", !.status = "skipped"] \in AttemptRecord
  BY <1>1, <1>2
<1> QED  BY <1>3, <1>4, <1>5 DEF N

-----------------------------------------------------------------------------
\* The patterns of a signature, and the best match of a message

LEMMA FourAreFinite ==
  \A w, x, y, z : IsFiniteSet({w, x, y, z}) /\ {w, x, y, z} # {}
<1> SUFFICES ASSUME NEW w, NEW x, NEW y, NEW z
    PROVE IsFiniteSet({w, x, y, z}) /\ {w, x, y, z} # {}
  OBVIOUS
<1>1. IsFiniteSet({} \cup {w})
  BY FS_EmptySet, FS_AddElement
<1>2. IsFiniteSet(({} \cup {w}) \cup {x})
  BY <1>1, FS_AddElement
<1>3. IsFiniteSet((({} \cup {w}) \cup {x}) \cup {y})
  BY <1>2, FS_AddElement
<1>4. IsFiniteSet(((({} \cup {w}) \cup {x}) \cup {y}) \cup {z})
  BY <1>3, FS_AddElement
<1>5. {w, x, y, z} = ((({} \cup {w}) \cup {x}) \cup {y}) \cup {z}
  OBVIOUS
<1> QED  BY <1>4, <1>5

FourPatterns(s) == \E w, x, y, z : DefaultPatterns[s].patterns = {w, x, y, z}

LEMMA EachHasFour == \A i \in DOMAIN Names : FourPatterns(Names[i])
<1>1. FourPatterns("connection_timeout") /\ FourPatterns("rate_limit")
  BY DEF FourPatterns, DefaultPatterns, SignatureOf
<1>2. FourPatterns("state_invalid") /\ FourPatterns("state_machine_stuck")
  BY DEF FourPatterns, DefaultPatterns, SignatureOf
<1>3. FourPatterns("memory_pressure") /\ FourPatterns("disk_full")
  BY DEF FourPatterns, DefaultPatterns, SignatureOf
<1>4. FourPatterns("validation_failed") /\ FourPatterns("dependency_down")
  BY DEF FourPatterns, DefaultPatterns, SignatureOf
<1>5. FourPatterns("config_error") /\ FourPatterns("hitl_user_timeout")
  BY DEF FourPatterns, DefaultPatterns, SignatureOf
<1>6. FourPatterns("hitl_repeated_rejection") /\ FourPatterns("hitl_drift_escalation")
      /\ FourPatterns("hitl_chain_loop")
  BY DEF FourPatterns, DefaultPatterns, SignatureOf
<1>7. \A i \in DOMAIN Names :
        Names[i] \in {"connection_timeout", "rate_limit", "state_invalid", "state_machine_stuck",
          "memory_pressure", "disk_full", "validation_failed", "dependency_down", "config_error",
          "hitl_user_timeout", "hitl_repeated_rejection", "hitl_drift_escalation", "hitl_chain_loop"}
  BY DEF Names
<1> QED  BY <1>1, <1>2, <1>3, <1>4, <1>5, <1>6, <1>7, Zenon

LEMMA ConfidenceIs ==
  ASSUME NEW text, NEW i \in DOMAIN Names
  PROVE  MatchConfidence(text, Names[i]) \in 0..100
<1> DEFINE P == DefaultPatterns[Names[i]].patterns
           k == Cardinality(Contained(text) \cap P)
           n == Cardinality(P)
<1>1. IsFiniteSet(P) /\ P # {}
  <2>1. PICK w, x, y, z : P = {w, x, y, z}
    BY EachHasFour DEF FourPatterns
  <2> HIDE DEF P
  <2> QED  BY <2>1, FourAreFinite
<1> HIDE DEF P
<1>2. n \in Nat \ {0}
  BY <1>1, FS_CardinalityType, FS_EmptySet
<1>3. k \in Nat
  BY <1>1, FS_Subset, FS_CardinalityType
<1> HIDE DEF k, n
<1>4. 200 * k \in Nat
  BY <1>3
<1> DEFINE m == 200 * k
<1>5. MatchConfidence(text, Names[i]) = IF m \div n > 100 THEN 100 ELSE m \div n
  BY DEF MatchConfidence, P, k, n
<1> HIDE DEF m
<1>6. m \in Nat
  BY <1>4 DEF m
<1>7. m \div n \in Nat
  BY <1>2, <1>6
<1> QED  BY <1>5, <1>7

LEMMA BestMatchIsOne ==
  ASSUME NEW text, Matches(text) # {}
  PROVE  BestMatch(text) \in Signature
<1> DEFINE M == Matches(text)
           conf(i) == MatchConfidence(text, Names[i])
           K == {k \in 0..100 : \E i \in M : k = 100 - conf(i)}
<1>1. M \in SUBSET DOMAIN Names /\ DOMAIN Names \in SUBSET Nat
  BY DEF Matches, Names
<1>2. \A i \in M : conf(i) \in 0..100
  BY <1>1, ConfidenceIs
<1> HIDE DEF conf
<1>3. K \in SUBSET Nat /\ K # {}
  <2>1. PICK i \in M : TRUE
    OBVIOUS
  <2>2. 100 - conf(i) \in K
    BY <1>2, <2>1
  <2> QED  BY <2>2
<1>4. PICK k \in K : \A l \in K : k <= l
  BY <1>3, LeastNumber
<1> DEFINE I == {i \in M : conf(i) = 100 - k}
<1>5. I \in SUBSET Nat /\ I # {}
  BY <1>1, <1>2, <1>4
<1>6. PICK i \in I : \A j \in I : i <= j
  BY <1>5, LeastNumber
<1>7. \A j \in M : conf(i) > conf(j) \/ (conf(i) = conf(j) /\ i <= j)
  <2> SUFFICES ASSUME NEW j \in M PROVE conf(i) > conf(j) \/ (conf(i) = conf(j) /\ i <= j)
    OBVIOUS
  <2>1. conf(j) \in 0..100 /\ 100 - conf(j) \in K
    BY <1>2
  <2>2. k <= 100 - conf(j) /\ conf(i) = 100 - k /\ k \in 0..100
    BY <1>4, <1>6, <2>1
  <2>3. CASE conf(j) = 100 - k
    BY <1>6, <2>2, <2>3
  <2>4. CASE conf(j) # 100 - k
    BY <2>1, <2>2, <2>4
  <2> QED  BY <2>3, <2>4
<1>8. \E x \in Matches(text) : \A j \in Matches(text) :
        LET ci == MatchConfidence(text, Names[x])  cj == MatchConfidence(text, Names[j])
        IN ci > cj \/ (ci = cj /\ x <= j)
  BY <1>6, <1>7 DEF conf
<1> DEFINE c == CHOOSE x \in Matches(text) : \A j \in Matches(text) :
                  LET ci == MatchConfidence(text, Names[x])  cj == MatchConfidence(text, Names[j])
                  IN ci > cj \/ (ci = cj /\ x <= j)
<1>9. c \in Matches(text)
  BY <1>8
<1>10. BestMatch(text) = Names[c]
  BY DEF BestMatch
<1> HIDE DEF c
<1> QED  BY <1>1, <1>9, <1>10 DEF Signature, Range

LEMMA PlanLength == \A class : Len(ActionsFor(class)) \in 1..2
  BY DEF ActionsFor

-----------------------------------------------------------------------------
LEMMA RemediationInitInv == ASSUME RemediationInit PROVE RemediationInv
<1>0. MaxMinutes \in Nat
  BY RemediationAssumption
<1>1. NoAttempt \in AttemptRecord
  BY NoAttemptType
<1>2. minute = 0 /\ cooldown = [s \in Signature |-> 0] /\ attempt = [a \in Attempt |-> NoAttempt]
  BY DEF RemediationInit
<1>3. minute \in 0..MaxMinutes /\ cooldown \in [Signature -> 0..(MaxMinutes + 5)]
      /\ attempt \in [Attempt -> AttemptRecord]
  BY <1>0, <1>1, <1>2
<1>4. RemediationTypeOK
  BY <1>3, RemediationTypes
<1>5. NoAttempt.began = 0 /\ NoAttempt.ended = 0 /\ NoAttempt.at = "new" /\ NoAttempt.status = "none"
  BY DEF NoAttempt
<1>6. \A a \in Attempt : attempt[a] = NoAttempt
  BY <1>2
<1>7. AttemptOK(NoAttempt, minute)
  BY <1>2, <1>5 DEF AttemptOK, Live
<1> QED  BY <1>4, <1>5, <1>6, <1>7 DEF RemediationInv, RestKept, BegunApart

\* One attempt goes on, and no signature's rest changes.
LEMMA QuietStep ==
  ASSUME RemediationInv, NEW a \in Attempt, NEW r \in AttemptRecord,
         attempt' = [attempt EXCEPT ![a] = r], UNCHANGED <<minute, cooldown>>,
         attempt[a].status \notin {"success", "failed"}, r.status \notin {"success", "failed"},
         AttemptOK(r, minute),
         Begun(r) => \/ Begun(attempt[a]) /\ r.of = attempt[a].of /\ r.began = attempt[a].began
                     \/ r.began = minute /\ minute >= cooldown[r.of]
  PROVE  RemediationInv'
<1>1. minute \in 0..MaxMinutes /\ cooldown \in [Signature -> 0..(MaxMinutes + 5)]
      /\ attempt \in [Attempt -> AttemptRecord]
  BY RemediationTypes DEF RemediationInv
<1>2. attempt' \in [Attempt -> AttemptRecord] /\ attempt'[a] = r
      /\ \A b \in Attempt : b # a => attempt'[b] = attempt[b]
  BY <1>1
<1>3. RemediationTypeOK'
  <2>1. minute' \in 0..MaxMinutes /\ cooldown' \in [Signature -> 0..(MaxMinutes + 5)]
    BY <1>1
  <2> QED  BY <1>2, <2>1, Zenon DEF RemediationTypeOK, AttemptRecord
<1>4. \A b \in Attempt : AttemptOK(attempt'[b], minute')
  <2>1. \A b \in Attempt : AttemptOK(attempt[b], minute)
    BY DEF RemediationInv
  <2> QED  BY <1>2, <2>1
<1>5. ASSUME NEW b \in Attempt, attempt'[b].status = "success"
      PROVE  b # a /\ attempt'[b] = attempt[b] /\ (Overtaken(b) => Overtaken(b)')
  <2>1. b # a /\ attempt'[b] = attempt[b]
    BY <1>2, <1>5
  <2>2. ASSUME Overtaken(b) PROVE Overtaken(b)'
    <3>1. PICK c \in Attempt :
            /\ attempt[c].of = attempt[b].of /\ attempt[c].status = "failed"
            /\ attempt[c].began <= attempt[b].ended /\ attempt[c].ended >= attempt[b].ended
      BY <2>2 DEF Overtaken
    <3>2. c # a
      BY <3>1
    <3>3. attempt'[c] = attempt[c]
      BY <1>2, <3>2
    <3> QED  BY <2>1, <3>1, <3>3 DEF Overtaken
  <2> QED  BY <2>1, <2>2
<1>6. RestKept'
  BY <1>5 DEF RemediationInv, RestKept
<1>7. BegunApart'
  <2> SUFFICES ASSUME NEW b \in Attempt, NEW c \in Attempt, attempt'[b].status = "success",
                      Begun(attempt'[c]), attempt'[c].of = attempt'[b].of
      PROVE  \/ Overtaken(b)'
             \/ attempt'[c].began <= attempt'[b].ended
             \/ attempt'[c].began >= attempt'[b].ended + 5
    BY DEF BegunApart, Begun
  <2>1. attempt'[b] = attempt[b] /\ (Overtaken(b) => Overtaken(b)')
    BY <1>5
  <2>2. CASE c # a
    BY <1>2, <2>1, <2>2 DEF RemediationInv, BegunApart
  <2>3. CASE c = a
    <3>1. attempt'[c] = r
      BY <1>2, <2>3
    <3>2. CASE Begun(attempt[a]) /\ r.of = attempt[a].of /\ r.began = attempt[a].began
      BY <2>1, <2>3, <3>1, <3>2 DEF RemediationInv, BegunApart
    <3>3. CASE r.began = minute /\ minute >= cooldown[r.of]
      <4>1. Overtaken(b) \/ cooldown[r.of] >= attempt[b].ended + 5
        BY <2>1, <3>1 DEF RemediationInv, RestKept
      <4>2. r.of \in Signature
        BY <3>1 DEF AttemptOK, Begun, Live
      <4>3. cooldown[r.of] \in Nat /\ minute \in Nat /\ attempt[b].ended \in Nat
        <5>1. attempt[b] \in AttemptRecord /\ cooldown[r.of] \in 0..(MaxMinutes + 5)
          BY <1>1, <4>2
        <5>2. attempt[b].ended \in Nat
          BY <5>1, AttemptFields
        <5> QED  BY <1>1, <5>1, <5>2, RemediationAssumption
      <4> QED  BY <2>1, <3>1, <3>3, <4>1, <4>3
    <3> QED  BY <3>1, <3>2, <3>3
  <2> QED  BY <2>2, <2>3
<1> QED  BY <1>3, <1>4, <1>6, <1>7 DEF RemediationInv

\* One attempt ends, and its signature rests from now on.
LEMMA FinishedStep ==
  ASSUME RemediationInv, NEW a \in Attempt, NEW ok \in BOOLEAN, Finished(a, ok), UNCHANGED minute,
         attempt[a].at = "planned" \/ Begun(attempt[a]), attempt[a].at = "planned" => ~ok
  PROVE  RemediationInv'
<1> DEFINE s == attempt[a].of
           status == IF ok THEN "success" ELSE "failed"
           r == [attempt[a] EXCEPT !.at = "over", !.next = 1, !.ended = minute, !.status = status]
<1>1. minute \in 0..MaxMinutes /\ minute \in Nat /\ cooldown \in [Signature -> 0..(MaxMinutes + 5)]
      /\ attempt \in [Attempt -> AttemptRecord] /\ MaxMinutes \in Nat
  <2>1. minute \in 0..MaxMinutes /\ cooldown \in [Signature -> 0..(MaxMinutes + 5)]
      /\ attempt \in [Attempt -> AttemptRecord]
    BY RemediationTypes DEF RemediationInv
  <2> QED  BY <2>1, RemediationAssumption
<1>2. AttemptOK(attempt[a], minute) /\ s \in Signature /\ attempt[a].status \notin {"success", "failed"}
  BY DEF RemediationInv, AttemptOK, Live, Begun
<1>3. attempt[a] \in AttemptRecord
  BY <1>1
<1>4. attempt' = [attempt EXCEPT ![a] = r]
  BY <1>1 DEF Finished
<1>5. cooldown' = [cooldown EXCEPT ![s] = minute + RestFor(ok)]
  BY DEF Finished
<1>6. r \in AttemptRecord
  BY <1>1, <1>3, AttemptOver
<1>7. r.of = s /\ r.status = status /\ r.began = attempt[a].began /\ r.ended = minute /\ r.at = "over"
  BY <1>3 DEF AttemptRecord
<1> HIDE DEF r
<1>8. attempt' \in [Attempt -> AttemptRecord] /\ attempt'[a] = r
      /\ \A b \in Attempt : b # a => attempt'[b] = attempt[b]
  BY <1>1, <1>4, <1>6
<1>9. RestFor(ok) \in {1, 5} /\ (ok => RestFor(ok) = 5) /\ (~ok => RestFor(ok) = 1)
  BY DEF RestFor
<1> HIDE DEF s
<1>10. cooldown' \in [Signature -> 0..(MaxMinutes + 5)] /\ cooldown'[s] = minute + RestFor(ok)
       /\ \A u \in Signature : u # s => cooldown'[u] = cooldown[u]
  <2>1. minute + RestFor(ok) \in 0..(MaxMinutes + 5)
    BY <1>1, <1>9
  <2> QED  BY <1>1, <1>2, <1>5, <2>1
<1>11. RemediationTypeOK'
  <2>1. minute' \in 0..MaxMinutes
    BY <1>1
  <2> QED  BY <1>8, <1>10, <2>1, Zenon DEF RemediationTypeOK, AttemptRecord
<1>12. \A b \in Attempt : AttemptOK(attempt'[b], minute')
  <2>1. AttemptOK(r, minute)
    <3>1. attempt[a].began <= minute
      BY <1>2 DEF AttemptOK
    <3>2. r.began <= minute /\ r.ended <= minute /\ r.of \in Signature /\ r.at = "over"
      BY <1>1, <1>2, <1>7, <3>1
    <3> QED  BY <3>2 DEF AttemptOK, Live
  <2>2. \A b \in Attempt : AttemptOK(attempt[b], minute)
    BY DEF RemediationInv
  <2> QED  BY <1>8, <2>1, <2>2
<1>13. \A b \in Attempt : attempt[b].status = "success" => b # a /\ attempt'[b] = attempt[b]
  BY <1>2, <1>8
<1>14. ASSUME NEW b \in Attempt, attempt[b].status = "success", Overtaken(b) PROVE Overtaken(b)'
  <2>1. PICK c \in Attempt :
          /\ attempt[c].of = attempt[b].of /\ attempt[c].status = "failed"
          /\ attempt[c].began <= attempt[b].ended /\ attempt[c].ended >= attempt[b].ended
    BY <1>14 DEF Overtaken
  <2>2. c # a
    BY <1>2, <2>1
  <2>3. attempt'[c] = attempt[c] /\ attempt'[b] = attempt[b]
    BY <1>8, <1>13, <1>14, <2>2
  <2> QED  BY <2>1, <2>3 DEF Overtaken
<1>15. \A b \in Attempt : attempt'[b].began \in Nat /\ attempt'[b].ended \in Nat
                          /\ attempt'[b].ended <= minute /\ attempt'[b].began <= minute
  <2>1. \A b \in Attempt : attempt'[b].began \in Nat /\ attempt'[b].ended \in Nat
    BY <1>8, AttemptFields
  <2> QED  BY <1>12, <2>1 DEF AttemptOK
<1>16. RestKept'
  <2> SUFFICES ASSUME NEW b \in Attempt, attempt'[b].status = "success"
      PROVE  Overtaken(b)' \/ cooldown'[attempt'[b].of] >= attempt'[b].ended + 5
    BY DEF RestKept
  <2>1. CASE b = a
    <3>1. ok /\ attempt'[b].of = s /\ attempt'[b].ended = minute
      BY <1>7, <1>8, <2>1
    <3>2. cooldown'[attempt'[b].of] = minute + 5
      BY <1>9, <1>10, <3>1
    <3> QED  BY <1>1, <3>1, <3>2
  <2>2. CASE b # a
    <3>1. attempt'[b] = attempt[b] /\ attempt[b].status = "success"
      BY <1>8, <2>2
    <3>2. Overtaken(b) \/ cooldown[attempt[b].of] >= attempt[b].ended + 5
      BY <3>1 DEF RemediationInv, RestKept
    <3>3. attempt[b].of \in Signature
      BY <3>1 DEF RemediationInv, AttemptOK
    <3>4. CASE attempt[b].of # s
      BY <1>10, <1>14, <3>1, <3>2, <3>3, <3>4
    <3>5. CASE attempt[b].of = s /\ ok
      <4>1. cooldown'[attempt'[b].of] = minute + 5
        BY <1>9, <1>10, <3>1, <3>5
      <4> QED  BY <1>1, <1>15, <4>1
    <3>6. CASE attempt[b].of = s /\ ~ok
      <4>1. \/ Overtaken(b)
            \/ attempt[a].began <= attempt[b].ended
            \/ attempt[a].began >= attempt[b].ended + 5
        <5>1. CASE Begun(attempt[a])
          BY <3>1, <3>6, <5>1 DEF RemediationInv, BegunApart, s
        <5>2. CASE attempt[a].at = "planned"
          <6>1. attempt[a].began = 0
            BY <1>2, <5>2 DEF AttemptOK
          <6> QED  BY <1>15, <3>1, <6>1
        <5> QED  BY <5>1, <5>2
      <4>2. CASE Overtaken(b)
        BY <1>14, <3>1, <4>2
      <4>3. CASE attempt[a].began <= attempt[b].ended
        <5>1. attempt'[a].of = attempt'[b].of /\ attempt'[a].status = "failed"
          BY <1>7, <1>8, <3>1, <3>6
        <5>2. attempt'[a].began <= attempt'[b].ended /\ attempt'[a].ended >= attempt'[b].ended
          <6>1. attempt'[a].ended = minute /\ attempt'[a].began = attempt[a].began
            BY <1>7, <1>8
          <6> QED  BY <1>1, <1>15, <3>1, <4>3, <6>1
        <5> QED  BY <5>1, <5>2 DEF Overtaken
      <4>4. CASE attempt[a].began >= attempt[b].ended + 5
        <5>1. cooldown'[attempt'[b].of] = minute + 1
          BY <1>9, <1>10, <3>1, <3>6
        <5>2. attempt[a].began \in Nat /\ attempt[a].began <= minute
          BY <1>2, <1>3, AttemptFields DEF AttemptOK
        <5>3. attempt'[b].ended \in Nat
          BY <1>15
        <5> QED  BY <1>1, <3>1, <4>4, <5>1, <5>2, <5>3
      <4> QED  BY <4>1, <4>2, <4>3, <4>4
    <3> QED  BY <3>4, <3>5, <3>6
  <2> QED  BY <2>1, <2>2
<1>17. BegunApart'
  <2> SUFFICES ASSUME NEW b \in Attempt, NEW c \in Attempt, attempt'[b].status = "success",
                      Begun(attempt'[c]), attempt'[c].of = attempt'[b].of
      PROVE  \/ Overtaken(b)'
             \/ attempt'[c].began <= attempt'[b].ended
             \/ attempt'[c].began >= attempt'[b].ended + 5
    BY DEF BegunApart, Begun
  <2>1. c # a /\ attempt'[c] = attempt[c]
    BY <1>7, <1>8 DEF Begun
  <2>2. CASE b = a
    <3>1. attempt'[b].ended = minute
      BY <1>7, <1>8, <2>2
    <3> QED  BY <1>15, <3>1
  <2>3. CASE b # a
    <3>1. attempt'[b] = attempt[b]
      BY <1>8, <2>3
    <3>2. \/ Overtaken(b)
          \/ attempt[c].began <= attempt[b].ended
          \/ attempt[c].began >= attempt[b].ended + 5
      BY <2>1, <3>1 DEF RemediationInv, BegunApart
    <3> QED  BY <1>14, <2>1, <3>1, <3>2
  <2> QED  BY <2>2, <2>3
<1> QED  BY <1>11, <1>12, <1>16, <1>17 DEF RemediationInv

LEMMA CreatePlanInv ==
  ASSUME RemediationInv, NEW a \in Attempt, NEW text, CreatePlan(a, text)
  PROVE  RemediationInv'
<1> DEFINE s == BestMatch(text)
           u == AutoExecute(text, s)
           r == [NoAttempt EXCEPT !.of = s, !.at = "planned", !.auto = u]
<1>1. attempt[a].at = "new" /\ Matches(text) # {} /\ UNCHANGED <<minute, cooldown>>
      /\ attempt' = [attempt EXCEPT ![a] = r]
  BY DEF CreatePlan
<1>3. s \in Signature
  BY <1>1, BestMatchIsOne
<1>4. u \in BOOLEAN
  BY DEF AutoExecute
<1> HIDE DEF s, u
<1>2. /\ NoAttempt.status = "none" /\ NoAttempt.began = 0 /\ NoAttempt.ended = 0
      /\ NoAttempt \in AttemptRecord
  BY NoAttemptType DEF NoAttempt
<1>5. r \in AttemptRecord
  BY <1>2, <1>3, <1>4, AttemptPlanned
<1>6. r.of = s /\ r.at = "planned" /\ r.status = "none" /\ r.began = 0 /\ r.ended = 0
  BY <1>2 DEF AttemptRecord
<1> HIDE DEF r
<1>7. minute \in Nat
  BY RemediationTypes, RemediationAssumption DEF RemediationInv
<1>8. AttemptOK(r, minute)
  BY <1>3, <1>6, <1>7 DEF AttemptOK, Live
<1>9. attempt[a].status \notin {"success", "failed"}
  BY <1>1 DEF RemediationInv, AttemptOK
<1> QED  BY <1>1, <1>5, <1>6, <1>8, <1>9, QuietStep DEF Begun

LEMMA ExecutePlanInv == ASSUME RemediationInv, NEW a \in Attempt, ExecutePlan(a) PROVE RemediationInv'
<1> DEFINE q == attempt[a]
<1>1. q.at = "planned" /\ UNCHANGED minute
  BY DEF ExecutePlan
<1>2. minute \in 0..MaxMinutes /\ minute \in Nat /\ attempt \in [Attempt -> AttemptRecord]
      /\ cooldown \in [Signature -> 0..(MaxMinutes + 5)] /\ q \in AttemptRecord
  BY RemediationTypes, RemediationAssumption DEF RemediationInv
<1>3. AttemptOK(q, minute) /\ q.of \in Signature /\ q.status \notin {"success", "failed"}
      /\ q.began <= minute /\ q.ended <= minute
  BY <1>1 DEF RemediationInv, AttemptOK, Live
<1>4. \/ /\ attempt' = [attempt EXCEPT ![a] = [NoAttempt EXCEPT !.at = "over", !.status = "skipped"]]
         /\ UNCHANGED cooldown
      \/ /\ ~(minute < cooldown[q.of])
         /\ \/ Finished(a, FALSE)
            \/ /\ attempt' = [attempt EXCEPT ![a].at = "acting", ![a].began = minute,
                                             ![a].status = "running"]
               /\ UNCHANGED cooldown
  BY DEF ExecutePlan
<1>5. CASE Finished(a, FALSE)
  BY <1>1, <1>5, FinishedStep
<1>6. CASE /\ attempt' = [attempt EXCEPT ![a] = [NoAttempt EXCEPT !.at = "over", !.status = "skipped"]]
           /\ UNCHANGED cooldown
  <2> DEFINE r == [NoAttempt EXCEPT !.at = "over", !.status = "skipped"]
  <2>1. r \in AttemptRecord
    BY <1>2, NoAttemptType, AttemptGoesOn
  <2>2. NoAttempt.began = 0 /\ NoAttempt.ended = 0
    BY DEF NoAttempt
  <2>3. r.at = "over" /\ r.status = "skipped" /\ r.began = 0 /\ r.ended = 0
    BY <2>2, NoAttemptType DEF AttemptRecord
  <2> HIDE DEF r
  <2>4. AttemptOK(r, minute)
    BY <1>2, <2>3 DEF AttemptOK, Live
  <2>5. attempt' = [attempt EXCEPT ![a] = r]
    BY <1>6 DEF r
  <2> QED  BY <1>1, <1>3, <1>6, <2>1, <2>3, <2>4, <2>5, QuietStep DEF Begun
<1>7. CASE /\ ~(minute < cooldown[q.of]) /\ UNCHANGED cooldown
           /\ attempt' = [attempt EXCEPT ![a].at = "acting", ![a].began = minute,
                                        ![a].status = "running"]
  <2> DEFINE r == [q EXCEPT !.at = "acting", !.began = minute, !.status = "running"]
  <2>1. r \in AttemptRecord
    BY <1>2, AttemptGoesOn
  <2>2. r.at = "acting" /\ r.status = "running" /\ r.began = minute /\ r.ended = q.ended /\ r.of = q.of
    BY <1>2 DEF AttemptRecord
  <2>3. attempt' = [attempt EXCEPT ![a] = r]
    BY <1>2, <1>7
  <2> HIDE DEF r
  <2>4. AttemptOK(r, minute)
    BY <1>2, <1>3, <2>2 DEF AttemptOK, Live
  <2>5. minute >= cooldown[r.of]
    <3>1. cooldown[q.of] \in 0..(MaxMinutes + 5)
      BY <1>2, <1>3
    <3> QED  BY <1>2, <1>7, <2>2, <3>1, RemediationAssumption
  <2> QED  BY <1>1, <1>3, <1>7, <2>1, <2>2, <2>3, <2>4, <2>5, QuietStep
<1> QED  BY <1>4, <1>5, <1>6, <1>7

LEMMA ActionEndsInv ==
  ASSUME RemediationInv, NEW a \in Attempt, NEW ok \in BOOLEAN, ActionEnds(a, ok)
  PROVE  RemediationInv'
<1> DEFINE q == attempt[a]
<1>1. q.at = "acting" /\ UNCHANGED minute
  BY DEF ActionEnds
<1>2. minute \in 0..MaxMinutes /\ minute \in Nat /\ attempt \in [Attempt -> AttemptRecord]
      /\ q \in AttemptRecord
  BY RemediationTypes, RemediationAssumption DEF RemediationInv
<1>3. AttemptOK(q, minute) /\ q.of \in Signature /\ q.status \notin {"success", "failed"}
      /\ q.began <= minute /\ q.ended <= minute
  BY <1>1 DEF RemediationInv, AttemptOK, Live
<1>4. CASE ok
  <2>1. Finished(a, ok)
    BY <1>4 DEF ActionEnds
  <2> QED  BY <1>1, <2>1, FinishedStep DEF Begun
<1>5. CASE ~ok
  <2> DEFINE r == [q EXCEPT !.at = "resting"]
  <2>1. attempt' = [attempt EXCEPT ![a] = r] /\ UNCHANGED cooldown
    BY <1>2, <1>5 DEF ActionEnds
  <2>2. r \in AttemptRecord
    BY <1>2, AttemptGoesOn
  <2>3. r.at = "resting" /\ r.status = q.status /\ r.began = q.began /\ r.ended = q.ended /\ r.of = q.of
    BY <1>2 DEF AttemptRecord
  <2> HIDE DEF r
  <2>4. AttemptOK(r, minute)
    BY <1>2, <1>3, <2>3 DEF AttemptOK, Live
  <2> QED  BY <1>1, <1>3, <2>1, <2>2, <2>3, <2>4, QuietStep DEF Begun
<1> QED  BY <1>4, <1>5

LEMMA PauseOverInv == ASSUME RemediationInv, NEW a \in Attempt, PauseOver(a) PROVE RemediationInv'
<1> DEFINE q == attempt[a]
           n == q.next + 1
<1>1. q.at = "resting" /\ UNCHANGED minute
  BY DEF PauseOver
<1>2. minute \in 0..MaxMinutes /\ minute \in Nat /\ attempt \in [Attempt -> AttemptRecord]
      /\ q \in AttemptRecord
  BY RemediationTypes, RemediationAssumption DEF RemediationInv
<1>3. AttemptOK(q, minute) /\ q.of \in Signature /\ q.status \notin {"success", "failed"}
      /\ q.began <= minute /\ q.ended <= minute
  BY <1>1 DEF RemediationInv, AttemptOK, Live
<1>4. \/ Finished(a, FALSE)
      \/ /\ ~(n > Len(PlanOf(a))) /\ UNCHANGED cooldown
         /\ attempt' = [attempt EXCEPT ![a].at = "acting", ![a].next = n]
  BY DEF PauseOver
<1>5. CASE Finished(a, FALSE)
  BY <1>1, <1>5, FinishedStep DEF Begun
<1>6. CASE /\ ~(n > Len(PlanOf(a))) /\ UNCHANGED cooldown
           /\ attempt' = [attempt EXCEPT ![a].at = "acting", ![a].next = n]
  <2>1. n \in 1..2
    <3>1. q.next \in 1..2
      BY <1>2, AttemptFields
    <3>2. Len(PlanOf(a)) \in 1..2
      BY <1>3, PlanLength DEF PlanOf
    <3>3. q.next + 1 <= Len(PlanOf(a))
      BY <1>6, <3>1, <3>2
    <3>4. \A x, y \in 1..2 : x + 1 <= y => x + 1 \in 1..2
      OBVIOUS
    <3> QED  BY <3>1, <3>2, <3>3, <3>4, Zenon
  <2> HIDE DEF n
  <2> DEFINE r == [q EXCEPT !.at = "acting", !.next = n]
  <2>2. attempt' = [attempt EXCEPT ![a] = r]
    BY <1>2, <1>6
  <2>3. r \in AttemptRecord
    BY <1>2, <2>1, AttemptGoesOn
  <2>4. r.at = "acting" /\ r.status = q.status /\ r.began = q.began /\ r.ended = q.ended /\ r.of = q.of
    BY <1>2 DEF AttemptRecord
  <2> HIDE DEF r
  <2>5. AttemptOK(r, minute)
    BY <1>2, <1>3, <2>4 DEF AttemptOK, Live
  <2> QED  BY <1>1, <1>3, <1>6, <2>2, <2>3, <2>4, <2>5, QuietStep DEF Begun
<1> QED  BY <1>4, <1>5, <1>6

LEMMA RemediationNextInv == ASSUME RemediationInv, RemediationNext PROVE RemediationInv'
<1>1. CASE MinutePasses
  <2>1. minute < MaxMinutes /\ minute' = minute + 1 /\ UNCHANGED <<cooldown, attempt>>
    BY <1>1 DEF MinutePasses
  <2>2. minute \in 0..MaxMinutes /\ cooldown \in [Signature -> 0..(MaxMinutes + 5)]
        /\ attempt \in [Attempt -> AttemptRecord] /\ MaxMinutes \in Nat
    BY RemediationTypes, RemediationAssumption DEF RemediationInv
  <2>3. minute' \in 0..MaxMinutes
    BY <2>1, <2>2
  <2>4. RemediationTypeOK'
    BY <2>1, <2>2, <2>3, Zenon DEF RemediationTypeOK, AttemptRecord
  <2>5. \A a \in Attempt : AttemptOK(attempt'[a], minute')
    <3> SUFFICES ASSUME NEW a \in Attempt PROVE AttemptOK(attempt[a], minute')
      BY <2>1
    <3>1. attempt[a].began \in Nat /\ attempt[a].ended \in Nat
      BY <2>2, AttemptFields
    <3>2. AttemptOK(attempt[a], minute)
      BY DEF RemediationInv
    <3> QED  BY <2>1, <2>2, <3>1, <3>2 DEF AttemptOK
  <2>6. RestKept' /\ BegunApart'
    BY <2>1 DEF RemediationInv, RestKept, BegunApart, Overtaken
  <2> QED  BY <2>4, <2>5, <2>6 DEF RemediationInv
<1> QED  BY <1>1, CreatePlanInv, ExecutePlanInv, ActionEndsInv, PauseOverInv DEF RemediationNext

LEMMA RemediationHolds == ASSUME RemediationInv PROVE RemediationTypeOK
  BY DEF RemediationInv

\* Only an execution outside its cooldown begins to act.
LEMMA RestsAfterSuccess ==
  ASSUME RemediationInv, RemediationNext \/ UNCHANGED remediationVars,
         NEW b \in Attempt, attempt[b].at = "planned", attempt'[b].at = "acting",
         NEW a \in Attempt, attempt[a].status = "success", attempt[a].of = attempt[b].of
  PROVE  minute >= attempt[a].ended + 5 \/ Overtaken(a)
<1>1. attempt \in [Attempt -> AttemptRecord]
  BY RemediationTypes DEF RemediationInv
<1>2. ASSUME NEW c \in Attempt, NEW r, attempt' = [attempt EXCEPT ![c] = r], r.at # "acting"
      PROVE  FALSE
  <2>1. attempt'[b] = IF b = c THEN r ELSE attempt[b]
    BY <1>1, <1>2
  <2> QED  BY <1>2, <2>1
<1>3. ASSUME NEW c \in Attempt, NEW ok, Finished(c, ok) PROVE FALSE
  <2> DEFINE r == [attempt[c] EXCEPT !.at = "over", !.next = 1, !.ended = minute,
                                     !.status = IF ok THEN "success" ELSE "failed"]
  <2>1. attempt' = [attempt EXCEPT ![c] = r]
    BY <1>1, <1>3 DEF Finished
  <2>2. r.at = "over"
    BY <1>1 DEF AttemptRecord
  <2> HIDE DEF r
  <2> QED  BY <1>2, <2>1, <2>2
<1>4. ASSUME NEW c \in Attempt, NEW text, CreatePlan(c, text) PROVE FALSE
  <2> DEFINE r == [NoAttempt EXCEPT !.of = BestMatch(text), !.at = "planned",
                                    !.auto = AutoExecute(text, BestMatch(text))]
  <2>1. attempt' = [attempt EXCEPT ![c] = r]
    BY <1>4 DEF CreatePlan
  <2>2. r.at = "planned"
    BY NoAttemptType DEF AttemptRecord
  <2> HIDE DEF r
  <2> QED  BY <1>2, <2>1, <2>2
<1>5. ASSUME NEW c \in Attempt, c # b, attempt'[b] = attempt[b] PROVE FALSE
  BY <1>5
<1>6. ASSUME NEW c \in Attempt, ActionEnds(c, TRUE) \/ ActionEnds(c, FALSE) \/ PauseOver(c) PROVE FALSE
  <2>1. c # b
    BY <1>6 DEF ActionEnds, PauseOver
  <2>2. attempt'[b] = attempt[b]
    BY <1>1, <1>6, <2>1 DEF ActionEnds, PauseOver, Finished
  <2> QED  BY <1>5, <2>1, <2>2
<1>7. attempt' # attempt
  BY <1>1
<1>8. PICK c \in Attempt : ExecutePlan(c)
  BY <1>4, <1>6, <1>7 DEF RemediationNext, MinutePasses, remediationVars
<1>9. c = b
  <2> SUFFICES ASSUME c # b PROVE FALSE
    OBVIOUS
  <2>1. attempt'[b] = attempt[b]
    BY <1>1, <1>8 DEF ExecutePlan, Finished
  <2> QED  BY <1>5, <2>1
<1>10. minute >= cooldown[attempt[b].of]
  <2>1. ~(minute < cooldown[attempt[b].of])
    <3> SUFFICES ASSUME minute < cooldown[attempt[b].of] PROVE FALSE
      OBVIOUS
    <3> DEFINE r == [NoAttempt EXCEPT !.at = "over", !.status = "skipped"]
    <3>1. attempt' = [attempt EXCEPT ![b] = r]
      BY <1>8, <1>9 DEF ExecutePlan
    <3>2. r.at = "over"
      BY NoAttemptType DEF AttemptRecord
    <3> HIDE DEF r
    <3> QED  BY <1>2, <3>1, <3>2
  <2>2. minute \in 0..MaxMinutes /\ cooldown \in [Signature -> 0..(MaxMinutes + 5)]
        /\ attempt[b].of \in Signature /\ MaxMinutes \in Nat
    BY RemediationTypes, RemediationAssumption DEF RemediationInv, AttemptOK, Live
  <2>3. cooldown[attempt[b].of] \in 0..(MaxMinutes + 5)
    BY <2>2
  <2> QED  BY <2>1, <2>2, <2>3
<1>11. Overtaken(a) \/ cooldown[attempt[a].of] >= attempt[a].ended + 5
  BY DEF RemediationInv, RestKept
<1>12. CASE cooldown[attempt[a].of] >= attempt[a].ended + 5
  <2>1. attempt[b].of \in Signature
    BY DEF RemediationInv, AttemptOK, Live
  <2>2. attempt[a] \in AttemptRecord
    BY <1>1
  <2>3. attempt[a].ended \in Nat
    BY <2>2, AttemptFields
  <2>4. minute \in Nat /\ cooldown \in [Signature -> 0..(MaxMinutes + 5)] /\ MaxMinutes \in Nat
    BY RemediationTypes, RemediationAssumption DEF RemediationInv
  <2>5. cooldown[attempt[b].of] \in Nat
    BY <2>1, <2>4
  <2> QED  BY <1>10, <1>12, <2>3, <2>4, <2>5
<1> QED  BY <1>11, <1>12

LEMMA RemediationRests == ASSUME RemediationInv, UNCHANGED remediationVars PROVE RemediationInv'
  BY DEF RemediationInv, BegunApart, RemediationTypeOK, RestKept, Overtaken, remediationVars

===============================================================================
