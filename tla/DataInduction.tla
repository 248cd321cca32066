--------------------------- MODULE DataInduction ---------------------------
(***************************************************************************)
(* Facts about the recursive operators of the libraries that hold for      *)
(* every input.  Induction is an argument about a set: a nonempty set of   *)
(* natural numbers has a least element, so a set of bad sizes without one  *)
(* is empty.                                                               *)
(***************************************************************************)
EXTENDS Integers, Sequences, FiniteSets, FiniteSetsExt, Positions, FiniteSetTheorems, SequenceTheorems, WellFoundedInduction, TLAPS

LEMMA LeastNat ==
  ASSUME NEW T \in SUBSET Nat, T # {}
  PROVE  \E n \in T : \A m \in T : n <= m
<1>1. PICK n \in T : \A m \in T : ~ (<<m, n>> \in OpToRel(<, Nat))
  BY NatLessThanWellFounded, WFMin
<1>2. \A m \in T : ~(m < n)
  BY <1>1 DEF OpToRel
<1> QED BY <1>2

LEMMA SetInduction ==
  ASSUME NEW T, 0 \in T, \A n \in Nat : n \in T => n + 1 \in T
  PROVE  Nat \subseteq T
<1> SUFFICES ASSUME Nat \ T # {} PROVE FALSE
  OBVIOUS
<1>1. PICK n \in Nat \ T : \A m \in Nat \ T : n <= m
  BY LeastNat
<1>2. n # 0 /\ n - 1 \in Nat /\ n - 1 < n
  BY <1>1
<1>3. n - 1 \in T
  BY <1>1, <1>2
<1> QED BY <1>2, <1>3

-----------------------------------------------------------------------------
(* A sum over a finite set counts the pairs of a relation: as many with x  *)
(* on their left as the summand of x says.                                 *)

Pairs(C, T) == {z \in T \X UNION {C[x] : x \in T} : z[2] \in C[z[1]]}

LEMMA PairsFinite ==
  ASSUME NEW T, IsFiniteSet(T), NEW C, \A x \in T : IsFiniteSet(C[x])
  PROVE  IsFiniteSet(Pairs(C, T)) /\ Cardinality(Pairs(C, T)) \in Nat
<1> DEFINE column == [x \in T |-> C[x]]
           columns == {C[x] : x \in T}
<1>1. column \in Surjection(T, columns)
  BY DEF Surjection
<1>2. IsFiniteSet(columns)
  BY <1>1, FS_Surjection
<1>3. IsFiniteSet(UNION columns)
  BY <1>2, FS_UNION
<1>4. IsFiniteSet(T \X UNION columns)
  BY <1>3, FS_Product
<1>5. Pairs(C, T) \subseteq T \X UNION columns
  BY DEF Pairs
<1> QED BY <1>4, <1>5, FS_Subset, FS_CardinalityType

\* One column more.
LEMMA PairsSplit ==
  ASSUME NEW T, IsFiniteSet(T), NEW C, \A x \in T : IsFiniteSet(C[x]), NEW x \in T
  PROVE  Cardinality(Pairs(C, T)) = Cardinality(C[x]) + Cardinality(Pairs(C, T \ {x}))
<1> DEFINE rest == Pairs(C, T \ {x})
           col == {x} \X C[x]
<1>1. IsFiniteSet(T \ {x}) /\ IsFiniteSet(rest) /\ Cardinality(rest) \in Nat
  <2>1. IsFiniteSet(T \ {x})
    BY FS_RemoveElement
  <2> QED BY <2>1, PairsFinite
<1>2. IsFiniteSet(col) /\ Cardinality(col) = Cardinality(C[x]) /\ Cardinality(C[x]) \in Nat
  <2>1. IsFiniteSet({x}) /\ Cardinality({x}) = 1
    BY FS_Singleton
  <2>2. IsFiniteSet(C[x]) /\ Cardinality(C[x]) \in Nat
    BY FS_CardinalityType
  <2> QED BY <2>1, <2>2, FS_Product
<1>3. Pairs(C, T) = rest \cup col /\ rest \cap col = {}
  <2>1. ASSUME NEW z PROVE z \in Pairs(C, T) <=> z \in rest \cup col
    BY DEF Pairs
  <2> QED BY <2>1 DEF Pairs
<1> HIDE DEF rest, col
<1>4. Cardinality(Pairs(C, T)) = Cardinality(rest) + Cardinality(col) - Cardinality({})
  BY <1>1, <1>2, <1>3, FS_Union
<1>5. Cardinality({}) = 0
  BY FS_EmptySet
<1> QED BY <1>1, <1>2, <1>4, <1>5 DEF rest, col

LEMMA PairsOfNone == \A C : Pairs(C, {}) = {}
BY DEF Pairs

\* What the recursion of MapThenFoldSet asks of the sum h of the sizes of C.
Some(s) == CHOOSE x \in s : TRUE
SumsUp(h, C, T) ==
  h = [s \in SUBSET T |-> IF s = {} THEN 0 ELSE Cardinality(C[Some(s)]) + h[s \ {Some(s)}]]

LEMMA PairsSumUp ==
  ASSUME NEW T, IsFiniteSet(T), NEW C, \A x \in T : IsFiniteSet(C[x])
  PROVE  SumsUp([s \in SUBSET T |-> Cardinality(Pairs(C, s))], C, T)
<1> DEFINE pairs == [s \in SUBSET T |-> Cardinality(Pairs(C, s))]
<1> SUFFICES ASSUME NEW s \in SUBSET T
    PROVE  pairs[s] = IF s = {} THEN 0 ELSE Cardinality(C[Some(s)]) + pairs[s \ {Some(s)}]
  BY DEF SumsUp
<1>1. IsFiniteSet(s)
  BY FS_Subset
<1>2. CASE s = {}
  BY <1>2, PairsOfNone, FS_EmptySet
<1>3. CASE s # {}
  <2>1. Some(s) \in s
    BY <1>3 DEF Some
  <2> QED BY <1>1, <1>3, <2>1, PairsSplit
<1> QED BY <1>2, <1>3

\* The recursion has one solution over the subsets of a finite set.
LEMMA SumIsPairs ==
  ASSUME NEW T, IsFiniteSet(T), NEW C, \A x \in T : IsFiniteSet(C[x]), NEW h, SumsUp(h, C, T)
  PROVE  h[T] = Cardinality(Pairs(C, T))
<1> DEFINE pairs == [s \in SUBSET T |-> Cardinality(Pairs(C, s))]
<1>1. SumsUp(pairs, C, T)
  BY PairsSumUp
<1> DEFINE Agree == {n \in Nat : \A s \in SUBSET T : Cardinality(s) = n => h[s] = pairs[s]}
<1> HIDE DEF pairs
<1>2. 0 \in Agree
  <2> SUFFICES ASSUME NEW s \in SUBSET T, Cardinality(s) = 0 PROVE h[s] = pairs[s]
    OBVIOUS
  <2>1. s = {}
    BY FS_Subset, FS_EmptySet
  <2> QED BY <1>1, <2>1 DEF SumsUp
<1>3. ASSUME NEW n \in Nat, n \in Agree PROVE n + 1 \in Agree
  <2> SUFFICES ASSUME NEW s \in SUBSET T, Cardinality(s) = n + 1 PROVE h[s] = pairs[s]
    OBVIOUS
  <2>1. IsFiniteSet(s) /\ s # {}
    BY FS_Subset, FS_EmptySet
  <2>2. Some(s) \in s
    BY <2>1 DEF Some
  <2> DEFINE r == s \ {Some(s)}
  <2>3. r \in SUBSET T /\ Cardinality(r) = n
    <3>1. Cardinality(s \ {Some(s)}) = Cardinality(s) - 1
      BY <2>1, <2>2, FS_RemoveElement
    <3> QED BY <3>1
  <2>4. h[r] = pairs[r]
    BY <1>3, <2>3
  <2>5. h[s] = Cardinality(C[Some(s)]) + h[r]
    BY <2>1 DEF SumsUp
  <2>6. pairs[s] = Cardinality(C[Some(s)]) + pairs[r]
    BY <1>1, <2>1 DEF SumsUp
  <2> QED BY <2>4, <2>5, <2>6
<1>4. Cardinality(T) \in Agree
  <2>1. Nat \subseteq Agree
    BY <1>2, <1>3, SetInduction
  <2> QED BY <2>1, FS_CardinalityType
<1> QED BY <1>4 DEF pairs

-----------------------------------------------------------------------------
(* A sum of the values of a function counts cells: g[x] of them over x.    *)

SumOf(g, T) == MapThenSumSet(LAMBDA x : g[x], T)
Cells(g, T) == {c \in T \X Nat : c[2] \in 1 .. g[c[1]]}

LEMMA CellsArePairs ==
  ASSUME NEW T, NEW g, \A x \in T : g[x] \in Nat
  PROVE  LET C == [x \in T |-> 1 .. g[x]]
         IN  /\ \A x \in T : IsFiniteSet(C[x]) /\ Cardinality(C[x]) = g[x]
             /\ Cells(g, T) = Pairs(C, T)
<1> DEFINE C == [x \in T |-> 1 .. g[x]]
<1>1. ASSUME NEW x \in T PROVE IsFiniteSet(C[x]) /\ Cardinality(C[x]) = g[x]
  <2>1. g[x] \in Nat /\ C[x] = 1 .. g[x]
    OBVIOUS
  <2>2. IsFiniteSet(1 .. g[x]) /\ Cardinality(1 .. g[x]) = g[x]
    BY <2>1, FS_Interval
  <2> QED BY <2>1, <2>2
<1>2. ASSUME NEW c PROVE c \in Cells(g, T) <=> c \in Pairs(C, T)
  BY DEF Cells, Pairs
<1> QED BY <1>1, <1>2

LEMMA SumIsCells ==
  ASSUME NEW T, IsFiniteSet(T), NEW g, \A x \in T : g[x] \in Nat
  PROVE  SumOf(g, T) = Cardinality(Cells(g, T)) /\ SumOf(g, T) \in Nat
<1> DEFINE C == [x \in T |-> 1 .. g[x]]
           Solves(h) == h = [s \in SUBSET T |-> IF s = {} THEN 0 ELSE g[Some(s)] + h[s \ {Some(s)}]]
<1>1. /\ \A x \in T : IsFiniteSet(C[x]) /\ Cardinality(C[x]) = g[x]
      /\ Cells(g, T) = Pairs(C, T)
  BY CellsArePairs
<1>2. \A s \in SUBSET T : s # {} => Some(s) \in T
  BY DEF Some
<1> HIDE DEF C
<1>3. \A h : Solves(h) <=> SumsUp(h, C, T)
  BY <1>1, <1>2 DEF SumsUp
<1>4. SumOf(g, T) = (CHOOSE h : Solves(h))[T]
  BY DEF SumOf, MapThenSumSet, MapThenFoldSet, Some
<1>5. \E h : Solves(h)
  BY <1>1, <1>3, PairsSumUp
<1>6. PICK h : Solves(h) /\ SumOf(g, T) = h[T]
  BY <1>4, <1>5
<1>7. SumOf(g, T) = Cardinality(Pairs(C, T))
  BY <1>1, <1>3, <1>6, SumIsPairs
<1> QED BY <1>1, <1>7, PairsFinite

LEMMA SumSplit ==
  ASSUME NEW T, IsFiniteSet(T), NEW g, \A x \in T : g[x] \in Nat, NEW x \in T
  PROVE  SumOf(g, T) = g[x] + SumOf(g, T \ {x}) /\ SumOf(g, T \ {x}) \in Nat
<1> DEFINE C == [y \in T |-> 1 .. g[y]]
           D == [y \in T \ {x} |-> 1 .. g[y]]
<1>1. IsFiniteSet(T \ {x})
  BY FS_RemoveElement
<1>2. /\ \A y \in T : IsFiniteSet(C[y]) /\ Cardinality(C[y]) = g[y]
      /\ Cells(g, T) = Pairs(C, T)
  BY CellsArePairs
<1>3. Cells(g, T \ {x}) = Pairs(D, T \ {x})
  BY CellsArePairs
<1>4. Pairs(D, T \ {x}) = Pairs(C, T \ {x})
  BY DEF Pairs
<1>5. Cardinality(Pairs(C, T)) = Cardinality(C[x]) + Cardinality(Pairs(C, T \ {x}))
  BY <1>2, PairsSplit
<1> QED BY <1>1, <1>2, <1>3, <1>4, <1>5, SumIsCells

\* One summand grows by one.
LEMMA SumIncrement ==
  ASSUME NEW T, IsFiniteSet(T), NEW g, NEW h, \A x \in T : g[x] \in Nat, NEW x \in T,
         h[x] = g[x] + 1, \A y \in T \ {x} : h[y] = g[y]
  PROVE  SumOf(h, T) = SumOf(g, T) + 1
<1>1. SumOf(g, T) = g[x] + SumOf(g, T \ {x}) /\ SumOf(g, T \ {x}) \in Nat
  BY SumSplit
<1>2. SumOf(h, T) = h[x] + SumOf(h, T \ {x})
  BY SumSplit
<1>3. SumOf(h, T \ {x}) = SumOf(g, T \ {x})
  <2>1. IsFiniteSet(T \ {x})
    BY FS_RemoveElement
  <2>2. Cells(h, T \ {x}) = Cells(g, T \ {x})
    BY DEF Cells
  <2> QED BY <2>1, <2>2, SumIsCells
<1> QED BY <1>1, <1>2, <1>3

\* What the recursion of MapThenSumSet asks of the sum h of the values of g.
Adds(h, g, T) ==
  h = [s \in SUBSET T |-> IF s = {} THEN 0 ELSE g[Some(s)] + h[s \ {Some(s)}]]

LEMMA SumsAdd ==
  ASSUME NEW T, IsFiniteSet(T), NEW g, \A x \in T : g[x] \in Nat
  PROVE  (\E h : Adds(h, g, T)) /\ \A h : Adds(h, g, T) => h[T] = SumOf(g, T)
<1> DEFINE C == [x \in T |-> 1 .. g[x]]
<1>1. /\ \A x \in T : IsFiniteSet(C[x]) /\ Cardinality(C[x]) = g[x]
      /\ Cells(g, T) = Pairs(C, T)
  BY CellsArePairs
<1>2. \A s \in SUBSET T : s # {} => Some(s) \in T
  BY DEF Some
<1> HIDE DEF C
<1>3. \A h : Adds(h, g, T) <=> SumsUp(h, C, T)
  BY <1>1, <1>2 DEF SumsUp, Adds
<1>4. \E h : SumsUp(h, C, T)
  BY <1>1, PairsSumUp
<1>5. \A h : SumsUp(h, C, T) => h[T] = SumOf(g, T)
  BY <1>1, SumIsPairs, SumIsCells
<1> QED BY <1>3, <1>4, <1>5

\* Two summands that make n everywhere.
LEMMA SumComplement ==
  ASSUME NEW T, IsFiniteSet(T), NEW n \in Nat, NEW f, NEW g,
         \A x \in T : f[x] \in Nat /\ g[x] \in Nat /\ g[x] + f[x] = n
  PROVE  SumOf(g, T) = n * Cardinality(T) - SumOf(f, T)
<1> DEFINE Good == {c \in Nat : \A s \in SUBSET T : Cardinality(s) = c => SumOf(g, s) = n * c - SumOf(f, s)}
<1>1. 0 \in Good
  <2> SUFFICES ASSUME NEW s \in SUBSET T, Cardinality(s) = 0 PROVE SumOf(g, s) = n * 0 - SumOf(f, s)
    OBVIOUS
  <2>1. s = {}
    BY FS_Subset, FS_EmptySet
  <2>2. Cells(f, {}) = {} /\ Cells(g, {}) = {}
    BY DEF Cells
  <2>3. SumOf(f, {}) = 0 /\ SumOf(g, {}) = 0
    BY <2>2, SumIsCells, FS_EmptySet
  <2> QED BY <2>1, <2>3
<1>2. ASSUME NEW c \in Nat, c \in Good PROVE c + 1 \in Good
  <2> SUFFICES ASSUME NEW s \in SUBSET T, Cardinality(s) = c + 1
      PROVE  SumOf(g, s) = n * (c + 1) - SumOf(f, s)
    OBVIOUS
  <2>1. IsFiniteSet(s) /\ s # {}
    BY FS_Subset, FS_EmptySet
  <2>2. PICK x \in s : TRUE
    BY <2>1
  <2>3. Cardinality(s \ {x}) = c
    <3>1. Cardinality(s \ {x}) = Cardinality(s) - 1
      BY <2>1, FS_RemoveElement
    <3> QED BY <3>1
  <2>4. SumOf(g, s \ {x}) = n * c - SumOf(f, s \ {x})
    BY <1>2, <2>3
  <2>5. SumOf(g, s) = g[x] + SumOf(g, s \ {x}) /\ SumOf(g, s \ {x}) \in Nat
    BY <2>1, SumSplit
  <2>6. SumOf(f, s) = f[x] + SumOf(f, s \ {x}) /\ SumOf(f, s \ {x}) \in Nat
    BY <2>1, SumSplit
  <2>7. f[x] \in Nat /\ g[x] \in Nat /\ g[x] + f[x] = n /\ n * (c + 1) = n * c + n /\ n * c \in Nat
    OBVIOUS
  <2> QED BY <2>4, <2>5, <2>6, <2>7
<1>3. Cardinality(T) \in Good
  <2>1. Nat \subseteq Good
    <3> HIDE DEF Good
    <3> QED BY <1>1, <1>2, SetInduction
  <2> QED BY <2>1, FS_CardinalityType
<1> QED BY <1>3


-----------------------------------------------------------------------------
(* How many elements of a queue are of a kind. *)

Marked(s, B) == {i \in DOMAIN s : s[i] \in B}

LEMMA MarkedFinite ==
  ASSUME NEW S, NEW s \in Seq(S), NEW B
  PROVE  IsFiniteSet(Marked(s, B)) /\ Cardinality(Marked(s, B)) \in Nat
<1>1. IsFiniteSet(1 .. Len(s))
  BY FS_Interval
<1>2. Marked(s, B) \in SUBSET (1 .. Len(s))
  BY DEF Marked
<1> QED BY <1>1, <1>2, FS_Subset, FS_CardinalityType

LEMMA MarkedAppend ==
  ASSUME NEW S, NEW s \in Seq(S), NEW x \in S, NEW B
  PROVE  Cardinality(Marked(Append(s, x), B)) = Cardinality(Marked(s, B)) + IF x \in B THEN 1 ELSE 0
<1> DEFINE n == Len(s) + 1
<1>1. IsFiniteSet(Marked(s, B)) /\ Cardinality(Marked(s, B)) \in Nat
  BY MarkedFinite
<1>2. n \notin Marked(s, B)
  BY DEF Marked
<1>3. CASE x \in B
  <2>1. Marked(Append(s, x), B) = Marked(s, B) \union {n}
    <3>1. ASSUME NEW i PROVE i \in Marked(Append(s, x), B) <=> i \in Marked(s, B) \/ i = n
      BY <1>3 DEF Marked
    <3> QED BY <3>1
  <2> QED BY <1>1, <1>2, <1>3, <2>1, FS_AddElement
<1>4. CASE x \notin B
  <2>1. Marked(Append(s, x), B) = Marked(s, B)
    <3>1. ASSUME NEW i PROVE i \in Marked(Append(s, x), B) <=> i \in Marked(s, B)
      BY <1>4 DEF Marked
    <3> QED BY <3>1
  <2> QED BY <1>1, <1>4, <2>1
<1> QED BY <1>3, <1>4

LEMMA MarkedTail ==
  ASSUME NEW S, NEW s \in Seq(S), s # <<>>, NEW B
  PROVE  Cardinality(Marked(s, B)) = Cardinality(Marked(Tail(s), B)) + IF Head(s) \in B THEN 1 ELSE 0
<1> DEFINE t == Marked(Tail(s), B)
           up == [i \in t |-> i + 1]
           rest == Marked(s, B) \ {1}
<1>1. Tail(s) \in Seq(S) /\ Len(Tail(s)) = Len(s) - 1 /\ Len(s) \in Nat \ {0} /\ Head(s) = s[1]
  OBVIOUS
<1>2. \A i \in 1 .. Len(s) - 1 : Tail(s)[i] = s[i + 1]
  OBVIOUS
<1>3. IsFiniteSet(t) /\ IsFiniteSet(Marked(s, B)) /\ Cardinality(Marked(s, B)) \in Nat /\ Cardinality(t) \in Nat
  BY <1>1, MarkedFinite
<1>4. up \in Bijection(t, rest)
  <2>1. \A i \in t : i \in 1 .. Len(s) - 1 /\ i + 1 \in rest
    BY <1>1, <1>2 DEF Marked
  <2>2. \A j \in rest : j - 1 \in t /\ up[j - 1] = j
    BY <1>1, <1>2 DEF Marked
  <2>3. up \in [t -> rest]
    BY <2>1
  <2>4. \A i, j \in t : up[i] = up[j] => i = j
    BY <2>1
  <2> HIDE DEF up
  <2>5. \A j \in rest : \E i \in t : up[i] = j
    BY <2>2
  <2> HIDE DEF t, rest
  <2> QED BY <2>3, <2>4, <2>5 DEF Bijection, Injection, Surjection, IsInjective
<1>5. Cardinality(rest) = Cardinality(t)
  BY <1>3, <1>4, FS_Bijection DEF ExistsBijection
<1>6. Cardinality(rest) = IF 1 \in Marked(s, B) THEN Cardinality(Marked(s, B)) - 1 ELSE Cardinality(Marked(s, B))
  BY <1>3, FS_RemoveElement
<1>7. 1 \in Marked(s, B) <=> Head(s) \in B
  BY <1>1 DEF Marked
<1> QED BY <1>3, <1>5, <1>6, <1>7

-----------------------------------------------------------------------------
(* The order of a finite set of numbers, and the items of a sequence at     *)
(* some positions.                                                         *)

\* The largest of a finite set of numbers.
LEMMA MaxNat ==
  ASSUME NEW T \in SUBSET Nat, IsFiniteSet(T), T # {}
  PROVE  \E n \in T : \A m \in T : m <= n
<1> DEFINE rank(n) == Cardinality(UpTo(T, n))
           gaps == {g \in Nat : \E n \in T : g = Cardinality(T) - rank(n)}
<1>1. Cardinality(T) \in Nat
  BY FS_CardinalityType
<1>2. ASSUME NEW n PROVE IsFiniteSet(UpTo(T, n)) /\ rank(n) \in Nat /\ rank(n) <= Cardinality(T)
  <2>1. UpTo(T, n) \in SUBSET T
    BY DEF UpTo
  <2> QED BY <2>1, FS_Subset, FS_CardinalityType
<1>3. ASSUME NEW m \in T, NEW n \in T, n < m PROVE rank(n) < rank(m)
  <2>1. UpTo(T, n) \in SUBSET UpTo(T, m) /\ m \in UpTo(T, m) /\ m \notin UpTo(T, n)
    <3>1. n \in Nat /\ m \in Nat /\ m <= m /\ ~(m <= n)
      BY <1>3
    <3>2. \A j \in T : j <= n => j <= m
      BY <1>3, <3>1
    <3> QED BY <3>1, <3>2 DEF UpTo
  <2>2. ASSUME NEW V, IsFiniteSet(V), NEW U \in SUBSET V, NEW x \in V, x \notin U
        PROVE  Cardinality(U) <= Cardinality(V) /\ Cardinality(U) # Cardinality(V)
    BY <2>2, FS_Subset
  <2>3. rank(n) <= rank(m) /\ rank(n) # rank(m)
    BY <1>2, <2>1, <2>2
  <2> QED BY <1>2, <2>3
<1> HIDE DEF rank
<1>4. \A n \in T : Cardinality(T) - rank(n) \in gaps
  BY <1>1, <1>2
<1>5. gaps # {} /\ gaps \in SUBSET Nat
  BY <1>4
<1> HIDE DEF gaps
<1>6. PICK g \in gaps : \A h \in gaps : g <= h
  BY <1>5, LeastNat
<1>7. PICK n \in T : g = Cardinality(T) - rank(n)
  BY <1>6 DEF gaps
<1>8. \A m \in T : rank(m) <= rank(n)
  BY <1>1, <1>2, <1>4, <1>6, <1>7
<1>9. ASSUME NEW m \in T PROVE m <= n
  BY <1>2, <1>3, <1>8
<1> QED BY <1>9

\* In a finite set of numbers every rank is somebody's.
LEMMA Ranks ==
  ASSUME NEW S \in SUBSET Nat, IsFiniteSet(S), NEW k \in 1 .. Cardinality(S)
  PROVE  \E i \in S : Cardinality(UpTo(S, i)) = k
<1> DEFINE rank(i) == Cardinality(UpTo(S, i))
           high == {i \in S : k <= rank(i)}
<1>0. Cardinality(S) \in Nat
  BY FS_CardinalityType
<1>1. \A i : UpTo(S, i) \in SUBSET S
  BY DEF UpTo
<1>2. \A i : IsFiniteSet(UpTo(S, i)) /\ rank(i) \in Nat
  BY <1>1, FS_Subset, FS_CardinalityType
<1>3. high # {}
  <2>1. S # {}
    BY FS_EmptySet
  <2>2. PICK m \in S : \A j \in S : j <= m
    BY <2>1, MaxNat
  <2>3. UpTo(S, m) = S
    BY <2>2 DEF UpTo
  <2> QED BY <2>3
<1> HIDE DEF rank
<1>4. PICK i \in high : \A j \in high : i <= j
  BY <1>3, LeastNat
<1> DEFINE below == UpTo(S, i) \ {i}
<1>5. i \in S /\ k <= rank(i)
  BY <1>4
<1> HIDE DEF high
<1>6. rank(i) <= k
  <2> SUFFICES ASSUME k < rank(i) PROVE FALSE
    BY <1>2
  <2>1. i \in UpTo(S, i)
    BY <1>5 DEF UpTo
  <2>2. IsFiniteSet(below) /\ Cardinality(below) = rank(i) - 1
    BY <1>2, <2>1, FS_RemoveElement DEF rank
  <2>3. Cardinality(below) >= k /\ Cardinality(below) # 0
    BY <1>2, <2>2
  <2>4. below # {} /\ below \in SUBSET Nat
    BY <2>3, FS_EmptySet DEF UpTo
  <2>5. PICK m \in below : \A j \in below : j <= m
    BY <2>2, <2>4, MaxNat
  <2>6. m \in S /\ m < i
    BY <2>5, <1>5 DEF UpTo
  <2>7. UpTo(S, m) = below
    <3>1. ASSUME NEW j \in S, j <= m PROVE j \in below
      BY <1>5, <2>6, <3>1 DEF UpTo
    <3>2. ASSUME NEW j \in below PROVE j \in S /\ j <= m
      BY <2>5, <3>2 DEF UpTo
    <3> QED BY <3>1, <3>2 DEF UpTo
  <2>8. m \in high
    BY <2>3, <2>6, <2>7, <1>0 DEF high, rank
  <2> QED BY <1>4, <1>5, <2>6, <2>8
<1> QED BY <1>2, <1>5, <1>6 DEF rank

\* A number is ahead of a larger one.
LEMMA RankGrows ==
  ASSUME NEW S \in SUBSET Nat, IsFiniteSet(S), NEW i \in S, NEW j \in S, i < j
  PROVE  Cardinality(UpTo(S, i)) < Cardinality(UpTo(S, j))
<1>1. UpTo(S, i) \in SUBSET UpTo(S, j) /\ UpTo(S, j) \in SUBSET S
  <2>1. \A k \in S : k <= i => k <= j
    OBVIOUS
  <2> QED BY <2>1 DEF UpTo
<1>2. j \in UpTo(S, j) /\ j \notin UpTo(S, i)
  BY DEF UpTo
<1>3. IsFiniteSet(UpTo(S, j))
  BY <1>1, FS_Subset
<1>4. ASSUME NEW V, IsFiniteSet(V), NEW U \in SUBSET V, NEW x \in V, x \notin U
      PROVE  Cardinality(U) < Cardinality(V)
  BY <1>4, FS_Subset, FS_CardinalityType
<1> QED BY <1>1, <1>2, <1>3, <1>4

LEMMA InOrderIs ==
  ASSUME NEW S \in SUBSET Nat, IsFiniteSet(S)
  PROVE  Cardinality(S) \in Nat /\ InOrder(S) \in Bijection(1 .. Cardinality(S), S)
<1> DEFINE n == Cardinality(S)
           rank(i) == Cardinality(UpTo(S, i))
<1>1. n \in Nat
  BY FS_CardinalityType
<1>2. \A k \in 1 .. n : InOrder(S)[k] \in S /\ rank(InOrder(S)[k]) = k
  BY Ranks DEF InOrder
<1>3. InOrder(S) \in [1 .. n -> S]
  BY <1>2 DEF InOrder
<1>4. \A i, j \in S : rank(i) = rank(j) => i = j
  <2> SUFFICES ASSUME NEW i \in S, NEW j \in S, rank(i) = rank(j), i # j PROVE FALSE
    OBVIOUS
  <2>1. i < j \/ j < i
    OBVIOUS
  <2>2. rank(i) \in Nat /\ rank(j) \in Nat
    <3>1. \A k : UpTo(S, k) \in SUBSET S
      BY DEF UpTo
    <3> QED BY <3>1, FS_Subset, FS_CardinalityType
  <2> QED BY <2>1, <2>2, RankGrows
<1>5. \A i \in S : rank(i) \in 1 .. n
  <2> SUFFICES ASSUME NEW i \in S PROVE rank(i) \in 1 .. n
    OBVIOUS
  <2>1. UpTo(S, i) \in SUBSET S /\ i \in UpTo(S, i)
    BY DEF UpTo
  <2>2. rank(i) \in Nat /\ rank(i) <= n /\ IsFiniteSet(UpTo(S, i))
    BY <2>1, FS_Subset, FS_CardinalityType
  <2>3. rank(i) # 0
    BY <2>1, <2>2, FS_EmptySet
  <2> QED BY <1>1, <2>2, <2>3
<1> HIDE DEF rank, n
<1>6. \A i \in S : InOrder(S)[rank(i)] = i
  BY <1>2, <1>4, <1>5
<1>7. \A i \in S : \E k \in 1 .. n : InOrder(S)[k] = i
  BY <1>5, <1>6
<1>8. \A k, m \in 1 .. n : InOrder(S)[k] = InOrder(S)[m] => k = m
  BY <1>2
<1>9. DOMAIN InOrder(S) = 1 .. n
  BY <1>3
<1> QED BY <1>1, <1>3, <1>7, <1>8, <1>9 DEF Bijection, Injection, Surjection, IsInjective, n

\* ItemsAt keeps the items at its positions, each once, and only them.
From(f, a, s, K) ==
  /\ f \in [1 .. Len(a) -> K] /\ IsInjective(f) /\ \A k \in K : \E n \in 1 .. Len(a) : f[n] = k
  /\ \A n \in 1 .. Len(a) : a[n] = s[f[n]]

LEMMA AtIs ==
  ASSUME NEW T, NEW s \in Seq(T), NEW P
  PROVE  /\ ItemsAt(s, P) \in Seq(T)
         /\ IsFiniteSet(P \cap 1 .. Len(s)) /\ Len(ItemsAt(s, P)) = Cardinality(P \cap 1 .. Len(s))
         /\ \E f : From(f, ItemsAt(s, P), s, P \cap 1 .. Len(s))
<1> DEFINE K == P \cap 1 .. Len(s)
           f == InOrder(K)
<1>1. DOMAIN s = 1 .. Len(s) /\ Len(s) \in Nat
  OBVIOUS
<1>2. IsFiniteSet(1 .. Len(s))
  BY <1>1, FS_Interval
<1>3. K \in SUBSET Nat /\ IsFiniteSet(K)
  BY <1>1, <1>2, FS_Subset
<1>4. Cardinality(K) \in Nat /\ f \in Bijection(1 .. Cardinality(K), K)
  BY <1>3, InOrderIs
<1>5. f \in [1 .. Cardinality(K) -> K] /\ IsInjective(f) /\ \A k \in K : \E m \in 1 .. Cardinality(K) : f[m] = k
  BY <1>4 DEF Bijection, Injection, Surjection
<1>6. ItemsAt(s, P) = [n \in DOMAIN f |-> s[f[n]]]
  BY <1>1 DEF ItemsAt
<1> HIDE DEF f
<1>7. ItemsAt(s, P) = [n \in 1 .. Cardinality(K) |-> s[f[n]]]
  BY <1>5, <1>6
<1>8. \A n \in 1 .. Cardinality(K) : s[f[n]] \in T
  <2>1. \A k \in K : s[k] \in T
    BY <1>1
  <2> HIDE DEF K
  <2> QED BY <1>5, <2>1
<1> HIDE DEF K
<1>9. ItemsAt(s, P) \in [1 .. Cardinality(K) -> T]
  BY <1>7, <1>8
<1>10. ItemsAt(s, P) \in Seq(T)
  BY <1>4, <1>9
<1>11. Len(ItemsAt(s, P)) = Cardinality(K)
  BY <1>4, <1>9, <1>10
<1>12. \A n \in 1 .. Cardinality(K) : ItemsAt(s, P)[n] = s[f[n]]
  BY <1>7
<1>13. From(f, ItemsAt(s, P), s, K)
  BY <1>5, <1>11, <1>12 DEF From
<1> QED BY <1>3, <1>10, <1>11, <1>13 DEF K

\* The order of a finite set is the only increasing enumeration of it.
Enumerates(g, n, S) ==
  /\ g \in [1 .. n -> S] /\ \A k \in S : \E i \in 1 .. n : g[i] = k
  /\ \A i, j \in 1 .. n : i < j => g[i] < g[j]

LEMMA InOrderUnique ==
  ASSUME NEW S \in SUBSET Nat, NEW n \in Nat, NEW g, Enumerates(g, n, S)
  PROVE  InOrder(S) = g
<1> DEFINE rank(i) == Cardinality(UpTo(S, i))
<1>0. g \in [1 .. n -> S] /\ (\A k \in S : \E i \in 1 .. n : g[i] = k) /\ \A i, j \in 1 .. n : i < j => g[i] < g[j]
  BY DEF Enumerates
<1>a. \A i \in 1 .. n : g[i] \in Nat
  BY <1>0
<1>b. \A i, j \in 1 .. n : g[i] = g[j] => i = j
  BY <1>0, <1>a
<1>c. \A i, j \in 1 .. n : g[j] <= g[i] => j <= i
  BY <1>0, <1>a
<1>d. \A i, j \in 1 .. n : j <= i => g[j] <= g[i]
  BY <1>0, <1>a
<1>1. IsFiniteSet(S) /\ Cardinality(S) = n
  <2>1. g \in Bijection(1 .. n, S)
    BY <1>0, <1>b DEF Bijection, Injection, Surjection, IsInjective
  <2>2. IsFiniteSet(1 .. n) /\ Cardinality(1 .. n) = n
    BY FS_Interval
  <2> QED BY <2>1, <2>2, FS_Bijection DEF ExistsBijection
<1>2. ASSUME NEW i \in 1 .. n PROVE rank(g[i]) = i
  <2> DEFINE h == [j \in 1 .. i |-> g[j]]
  <2>0. i \in Nat /\ \A j \in 1 .. i : j \in 1 .. n
    OBVIOUS
  <2>1. \A j \in 1 .. i : g[j] \in UpTo(S, g[i])
    BY <1>0, <1>d, <2>0 DEF UpTo
  <2>2. \A k \in UpTo(S, g[i]) : \E j \in 1 .. i : g[j] = k
    <3> SUFFICES ASSUME NEW k \in UpTo(S, g[i]) PROVE \E j \in 1 .. i : g[j] = k
      OBVIOUS
    <3>1. k \in S /\ k <= g[i]
      BY DEF UpTo
    <3>2. PICK j \in 1 .. n : g[j] = k
      BY <1>0, <3>1
    <3> QED BY <1>c, <3>1, <3>2
  <2>3. h \in Bijection(1 .. i, UpTo(S, g[i]))
    <3>1. h \in [1 .. i -> UpTo(S, g[i])]
      BY <2>1
    <3>2. \A j, k \in 1 .. i : h[j] = h[k] => j = k
      BY <1>b, <2>0
    <3>3. \A k \in UpTo(S, g[i]) : \E j \in 1 .. i : h[j] = k
      BY <2>2
    <3> HIDE DEF h
    <3> QED BY <3>1, <3>2, <3>3 DEF Bijection, Injection, Surjection, IsInjective
  <2>4. IsFiniteSet(1 .. i) /\ Cardinality(1 .. i) = i
    BY <2>0, FS_Interval
  <2> QED BY <2>3, <2>4, FS_Bijection DEF ExistsBijection
<1>3. ASSUME NEW i \in 1 .. n, NEW k \in S, rank(k) = i PROVE k = g[i]
  <2>1. PICK j \in 1 .. n : g[j] = k
    BY <1>0
  <2> QED BY <1>2, <1>3, <2>1
<1> HIDE DEF rank
<1>4. \A i \in 1 .. n : (CHOOSE k \in S : rank(k) = i) = g[i]
  BY <1>0, <1>2, <1>3
<1>5. InOrder(S) = [i \in 1 .. n |-> CHOOSE k \in S : rank(k) = i]
  BY <1>1 DEF InOrder, rank
<1> QED BY <1>0, <1>4, <1>5

LEMMA InOrderUp ==
  ASSUME NEW S \in SUBSET Nat, IsFiniteSet(S)
  PROVE  Enumerates(InOrder(S), Cardinality(S), S)
<1> DEFINE n == Cardinality(S)
           f == InOrder(S)
<1>1. n \in Nat /\ f \in Bijection(1 .. n, S)
  BY InOrderIs
<1>2. f \in [1 .. n -> S] /\ \A k \in S : \E i \in 1 .. n : f[i] = k
  BY <1>1 DEF Bijection, Injection, Surjection
<1>3. \A k \in 1 .. n : Cardinality(UpTo(S, f[k])) = k
  BY Ranks DEF InOrder
<1>4. ASSUME NEW i \in 1 .. n, NEW j \in 1 .. n, i < j PROVE f[i] < f[j]
  <2>1. f[i] \in S /\ f[j] \in S /\ Cardinality(UpTo(S, f[i])) = i /\ Cardinality(UpTo(S, f[j])) = j
    BY <1>2, <1>3
  <2> HIDE DEF f, n
  <2>2. f[i] \in Nat /\ f[j] \in Nat
    BY <2>1
  <2>3. CASE f[j] < f[i]
    <3>1. Cardinality(UpTo(S, f[j])) < Cardinality(UpTo(S, f[i]))
      BY <2>1, <2>3, RankGrows
    <3>2. j < i
      BY <2>1, <3>1
    <3>3. i \in Int /\ j \in Int
      BY <1>1
    <3> QED BY <1>4, <3>2, <3>3
  <2>4. CASE f[j] = f[i]
    BY <1>4, <2>1, <2>4
  <2> QED BY <2>2, <2>3, <2>4
<1> HIDE DEF f, n
<1>5. Enumerates(f, n, S)
  BY <1>2, <1>4 DEF Enumerates
<1> QED BY <1>5 DEF f, n

\* The order of a set and a larger number.
LEMMA InOrderAdd ==
  ASSUME NEW S \in SUBSET Nat, IsFiniteSet(S), NEW x \in Nat, \A i \in S : i < x
  PROVE  InOrder(S \cup {x}) = Append(InOrder(S), x)
<1> DEFINE n == Cardinality(S)
           f == InOrder(S)
           g == [k \in 1 .. n + 1 |-> IF k <= n THEN f[k] ELSE x]
<1>1. n \in Nat /\ Enumerates(f, n, S)
  BY InOrderUp, FS_CardinalityType
<1> HIDE DEF f, n
<1>2. /\ f \in [1 .. n -> S] /\ (\A k \in S : \E i \in 1 .. n : f[i] = k)
      /\ \A i, j \in 1 .. n : i < j => f[i] < f[j]
  BY <1>1 DEF Enumerates
<1>3. \A k \in 1 .. n : k \in 1 .. n + 1 /\ g[k] = f[k]
  BY <1>1
<1>4. n + 1 \in 1 .. n + 1 /\ g[n + 1] = x
  BY <1>1
<1>5. \A k \in 1 .. n + 1 : k \in 1 .. n \/ k = n + 1
  BY <1>1
<1>6. DOMAIN g = 1 .. n + 1
  OBVIOUS
<1>7. g \in [1 .. n + 1 -> S \cup {x}]
  BY <1>2
<1> HIDE DEF g
<1>8. \A k \in S \cup {x} : \E i \in 1 .. n + 1 : g[i] = k
  BY <1>2, <1>3, <1>4
<1>9. ASSUME NEW i \in 1 .. n + 1, NEW j \in 1 .. n + 1, i < j PROVE g[i] < g[j]
  <2>1. i \in 1 .. n
    BY <1>1, <1>9
  <2>2. CASE j \in 1 .. n
    BY <1>2, <1>3, <1>9, <2>1, <2>2
  <2>3. CASE j = n + 1
    BY <1>2, <1>3, <1>4, <2>1, <2>3
  <2> QED BY <1>5, <2>2, <2>3
<1>10. Enumerates(g, n + 1, S \cup {x})
  BY <1>7, <1>8, <1>9 DEF Enumerates
<1>11. InOrder(S \cup {x}) = g
  BY <1>1, <1>10, InOrderUnique
<1>12. f \in Seq(S \cup {x}) /\ Len(f) = n /\ x \in S \cup {x}
  BY <1>1, <1>2
<1> DEFINE T == S \cup {x}
           a == Append(f, x)
<1>13. a \in Seq(T) /\ Len(a) = n + 1 /\ a[n + 1] = x /\ \A k \in 1 .. n : a[k] = f[k]
  <2> HIDE DEF T
  <2> QED BY <1>1, <1>12 DEF T
<1>14. g \in Seq(T) /\ Len(g) = n + 1
  <2> HIDE DEF T
  <2> QED BY <1>1, <1>7 DEF T
<1>15. \A k \in 1 .. n + 1 : a[k] = g[k]
  <2> HIDE DEF a
  <2> QED BY <1>3, <1>4, <1>5, <1>13
<1>18. a = g
  <2> HIDE DEF a, T
  <2> QED BY <1>13, <1>14, <1>15, SeqEqual
<1> QED BY <1>11, <1>18 DEF f

\* The items at positions that are enumerated.
Picked(s, g, n) == [i \in 1 .. n |-> s[g[i]]]
LEMMA AtEnumerated ==
  ASSUME NEW s, NEW P, NEW m \in Nat, DOMAIN s = 1 .. m, NEW n \in Nat, NEW g, Enumerates(g, n, P \cap 1 .. m)
  PROVE  ItemsAt(s, P) = Picked(s, g, n)
<1>0. P \cap DOMAIN s = P \cap 1 .. m
  OBVIOUS
<1>3. P \cap DOMAIN s \in SUBSET Nat
  OBVIOUS
<1>1. InOrder(P \cap DOMAIN s) = g
  BY <1>0, <1>3, InOrderUnique
<1>2. DOMAIN g = 1 .. n
  BY DEF Enumerates
<1> QED BY <1>1, <1>2 DEF ItemsAt, Picked

\* All of them, or the even ones.
LEMMA AtAll ==
  ASSUME NEW s, NEW P, NEW m \in Nat, DOMAIN s = 1 .. m, \A i \in 1 .. m : i \in P
  PROVE  ItemsAt(s, P) = [i \in 1 .. m |-> s[i]]
<1> DEFINE g == [i \in 1 .. m |-> i]
<1>1. Enumerates(g, m, P \cap 1 .. m)
  BY DEF Enumerates
<1>2. ItemsAt(s, P) = Picked(s, g, m)
  <2> HIDE DEF g
  <2> QED BY <1>1, AtEnumerated
<1> QED BY <1>2 DEF Picked

LEMMA AtEven ==
  ASSUME NEW s, NEW P, NEW m \in Nat, DOMAIN s = 1 .. 2 * m, \A i \in 1 .. 2 * m : i \in P <=> i % 2 = 0
  PROVE  ItemsAt(s, P) = [i \in 1 .. m |-> s[2 * i]]
<1> DEFINE g == [i \in 1 .. m |-> 2 * i]
<1>1. \A i \in 1 .. m : 2 * i \in P \cap 1 .. 2 * m
  OBVIOUS
<1>2. \A k \in P \cap 1 .. 2 * m : \E i \in 1 .. m : g[i] = k
  <2> SUFFICES ASSUME NEW k \in P \cap 1 .. 2 * m PROVE \E i \in 1 .. m : g[i] = k
    OBVIOUS
  <2>1. k % 2 = 0 /\ k \in 1 .. 2 * m
    OBVIOUS
  <2>2. k = 2 * (k \div 2) /\ k \div 2 \in 1 .. m
    BY <2>1
  <2> QED BY <2>2
<1>3. \A i, j \in 1 .. m : i < j => g[i] < g[j]
  OBVIOUS
<1>4. Enumerates(g, m, P \cap 1 .. 2 * m)
  BY <1>1, <1>2, <1>3 DEF Enumerates
<1>5. 2 * m \in Nat
  OBVIOUS
<1>6. ItemsAt(s, P) = Picked(s, g, m)
  <2> HIDE DEF g
  <2> QED BY <1>4, <1>5, AtEnumerated
<1> QED BY <1>6 DEF Picked

-----------------------------------------------------------------------------
(* A fold from the left runs through a list: F[i] is what it has made of    *)
(* the first i items.  The step is given as a function on a set V of what  *)
(* the fold carries and a set T of items.                                  *)

\* The values a function takes on a finite set.
LEMMA ValuesFinite ==
  ASSUME NEW S, IsFiniteSet(S), NEW h
  PROVE  IsFiniteSet({h[i] : i \in S})
<1> DEFINE T == {h[i] : i \in S}
           f == [i \in S |-> h[i]]
<1>1. f \in [S -> T] /\ \A t \in T : \E i \in S : f[i] = t
  OBVIOUS
<1> HIDE DEF f, T
<1>2. f \in Surjection(S, T)
  BY <1>1 DEF Surjection
<1>4. IsFiniteSet(T)
  BY <1>2, FS_Surjection
<1> QED BY <1>4 DEF T

LEMMA MaxIs ==
  ASSUME NEW S \in SUBSET Nat, IsFiniteSet(S), S # {}
  PROVE  Max(S) \in S /\ \A y \in S : y <= Max(S)
<1>1. PICK n \in S : \A m \in S : m <= n
  BY MaxNat
<1>2. \A y \in S : n >= y
  BY <1>1
<1> DEFINE top == CHOOSE x \in S : \A y \in S : x >= y
<1>3. top \in S /\ \A y \in S : top >= y
  BY <1>2
<1> HIDE DEF top
<1>4. top \in S /\ \A y \in S : y <= top
  BY <1>3
<1> QED BY <1>4 DEF Max, top

LEMMA MaxUpTo ==
  ASSUME NEW i \in Nat, i > 0
  PROVE  Max(1 .. i) = i /\ (1 .. i) \ {Max(1 .. i)} = 1 .. i - 1 /\ 1 .. i # {}
<1>1. i \in 1 .. i
  OBVIOUS
<1>2. IsFiniteSet(1 .. i) /\ 1 .. i \in SUBSET Nat
  BY FS_Interval
<1>3. Max(1 .. i) \in 1 .. i /\ \A y \in 1 .. i : y <= Max(1 .. i)
  BY <1>1, <1>2, MaxIs
<1>4. Max(1 .. i) = i
  BY <1>1, <1>3
<1> QED BY <1>1, <1>4

\* Two functions of the sets of numbers agree when they agree on every set if
\* they do on it without its largest number.
LEMMA SetsAgree ==
  ASSUME NEW S \in SUBSET Nat, IsFiniteSet(S), NEW f, NEW g, f[{}] = g[{}],
         \A s \in SUBSET S : s # {} /\ f[s \ {Max(s)}] = g[s \ {Max(s)}] => f[s] = g[s]
  PROVE  f[S] = g[S]
<1> DEFINE Agree == {n \in Nat : \A s \in SUBSET S : Cardinality(s) = n => f[s] = g[s]}
<1>1. 0 \in Agree
  <2> SUFFICES ASSUME NEW s \in SUBSET S, Cardinality(s) = 0 PROVE f[s] = g[s]
    OBVIOUS
  <2>1. s = {}
    BY FS_Subset, FS_EmptySet
  <2> QED BY <2>1
<1>2. ASSUME NEW n \in Nat, n \in Agree PROVE n + 1 \in Agree
  <2> SUFFICES ASSUME NEW s \in SUBSET S, Cardinality(s) = n + 1 PROVE f[s] = g[s]
    OBVIOUS
  <2>1. IsFiniteSet(s) /\ s # {} /\ s \in SUBSET Nat
    <3>1. IsFiniteSet(s)
      BY FS_Subset
    <3>2. s # {}
      BY FS_EmptySet
    <3> QED BY <3>1, <3>2
  <2>2. Max(s) \in s
    BY <2>1, MaxIs
  <2>3. Cardinality(s \ {Max(s)}) = n
    <3>1. Cardinality(s \ {Max(s)}) = Cardinality(s) - 1
      BY <2>1, <2>2, FS_RemoveElement
    <3> QED BY <3>1
  <2>4. f[s \ {Max(s)}] = g[s \ {Max(s)}]
    <3>1. s \ {Max(s)} \in SUBSET S
      OBVIOUS
    <3> QED BY <1>2, <2>3, <3>1
  <2>5. s # {} /\ f[s \ {Max(s)}] = g[s \ {Max(s)}] => f[s] = g[s]
    OBVIOUS
  <2> QED BY <2>1, <2>4, <2>5
<1>3. Cardinality(S) \in Agree
  <2>1. Nat \subseteq Agree
    <3> HIDE DEF Agree
    <3> QED BY <1>1, <1>2, SetInduction
  <2> QED BY <2>1, FS_CardinalityType
<1> QED BY <1>3

\* What the recursion of FoldLeft asks of the fold h of a step G.
FoldStep(h, G, base, seq, s) == IF s = {} THEN base ELSE G[<<h[s \ {Max(s)}], seq[Max(s)]>>]
FoldsTo(h, G, base, seq, S) == h = [s \in SUBSET S |-> FoldStep(h, G, base, seq, s)]

LEMMA FoldExists ==
  ASSUME NEW V, NEW T, NEW G \in [V \X T -> V], NEW base \in V,
         NEW S \in SUBSET Nat, IsFiniteSet(S), NEW seq, \A i \in S : seq[i] \in T
  PROVE  \E h \in [SUBSET S -> V] : FoldsTo(h, G, base, seq, S)
<1> DEFINE Up(h, n) == \A s \in SUBSET S : Cardinality(s) <= n => h[s] = FoldStep(h, G, base, seq, s)
           Good == {n \in Nat : \E h \in [SUBSET S -> V] : Up(h, n)}
<1>0. ASSUME NEW s \in SUBSET S, s # {}
      PROVE  /\ Max(s) \in s /\ Max(s) \in S /\ IsFiniteSet(s) /\ s \ {Max(s)} \in SUBSET S
             /\ Cardinality(s) \in Nat /\ Cardinality(s \ {Max(s)}) = Cardinality(s) - 1
  <2>1. IsFiniteSet(s) /\ s \in SUBSET Nat
    BY FS_Subset
  <2>2. Max(s) \in s
    BY <1>0, <2>1, MaxIs
  <2> QED BY <2>1, <2>2, FS_RemoveElement, FS_CardinalityType
<1>a. ASSUME NEW h \in [SUBSET S -> V], NEW s \in SUBSET S PROVE FoldStep(h, G, base, seq, s) \in V
  <2>1. CASE s = {}
    BY <2>1 DEF FoldStep
  <2>2. CASE s # {}
    <3>1. h[s \ {Max(s)}] \in V /\ seq[Max(s)] \in T
      BY <1>0, <2>2
    <3> QED BY <2>2, <3>1 DEF FoldStep
  <2> QED BY <2>1, <2>2
<1>1. 0 \in Good
  <2> DEFINE h == [s \in SUBSET S |-> base]
  <2>1. h \in [SUBSET S -> V]
    OBVIOUS
  <2>2. ASSUME NEW s \in SUBSET S, Cardinality(s) <= 0 PROVE h[s] = FoldStep(h, G, base, seq, s)
    <3>1. IsFiniteSet(s) /\ Cardinality(s) \in Nat
      BY FS_Subset, FS_CardinalityType
    <3>2. s = {}
      BY <2>2, <3>1, FS_EmptySet
    <3> QED BY <3>2 DEF FoldStep
  <2> QED BY <2>1, <2>2
<1>2. ASSUME NEW n \in Nat, n \in Good PROVE n + 1 \in Good
  <2>1. PICK h \in [SUBSET S -> V] : Up(h, n)
    BY <1>2
  <2> DEFINE g == [s \in SUBSET S |-> FoldStep(h, G, base, seq, s)]
  <2>2. g \in [SUBSET S -> V]
    BY <1>a
  <2>3. ASSUME NEW s \in SUBSET S, Cardinality(s) <= n + 1 PROVE g[s] = FoldStep(g, G, base, seq, s)
    <3>1. CASE s = {}
      BY <3>1 DEF FoldStep
    <3>2. CASE s # {}
      <4>1. Cardinality(s \ {Max(s)}) <= n /\ s \ {Max(s)} \in SUBSET S
        BY <1>0, <2>3, <3>2
      <4>2. g[s \ {Max(s)}] = h[s \ {Max(s)}]
        <5> DEFINE r == s \ {Max(s)}
        <5>1. h[r] = FoldStep(h, G, base, seq, r)
          BY <2>1, <4>1
        <5>2. g[r] = FoldStep(h, G, base, seq, r)
          BY <4>1
        <5> HIDE DEF g
        <5> QED BY <5>1, <5>2
      <4>3. g[s] = FoldStep(h, G, base, seq, s)
        OBVIOUS
      <4> HIDE DEF g
      <4> QED BY <3>2, <4>2, <4>3 DEF FoldStep
    <3> QED BY <3>1, <3>2
  <2>4. Up(g, n + 1)
    BY <2>3
  <2> HIDE DEF g, Up
  <2> QED BY <2>2, <2>4
<1>3. Cardinality(S) \in Good
  <2>1. Nat \subseteq Good
    <3> HIDE DEF Good
    <3> QED BY <1>1, <1>2, SetInduction
  <2> QED BY <2>1, FS_CardinalityType
<1>4. PICK h \in [SUBSET S -> V] : Up(h, Cardinality(S))
  BY <1>3
<1>5. \A s \in SUBSET S : h[s] = FoldStep(h, G, base, seq, s)
  <2> SUFFICES ASSUME NEW s \in SUBSET S PROVE h[s] = FoldStep(h, G, base, seq, s)
    OBVIOUS
  <2>1. Cardinality(s) <= Cardinality(S)
    BY FS_Subset
  <2> QED BY <1>4, <2>1
<1>6. h = [s \in SUBSET S |-> FoldStep(h, G, base, seq, s)]
  BY <1>5
<1> QED BY <1>6 DEF FoldsTo

\* The run of a fold over a list of m items.
Runs(F, V, G, base, seq, m) ==
  F \in [0 .. m -> V] /\ F[0] = base /\ \A i \in 1 .. m : F[i] = G[<<F[i - 1], seq[i]>>]

\* The recursion has a solution, and its last value is that of the run.
Folded(V, G, base, seq, m) ==
  \E h \in [SUBSET (1 .. m) -> V], F \in [0 .. m -> V] :
     FoldsTo(h, G, base, seq, 1 .. m) /\ Runs(F, V, G, base, seq, m) /\ F[m] = h[1 .. m]

LEMMA FoldRuns ==
  ASSUME NEW V, NEW T, NEW G \in [V \X T -> V], NEW base \in V,
         NEW m \in Nat, NEW seq, \A i \in 1 .. m : seq[i] \in T
  PROVE  Folded(V, G, base, seq, m)
<1>1. IsFiniteSet(1 .. m) /\ 1 .. m \in SUBSET Nat
  BY FS_Interval
<1>2. PICK h \in [SUBSET (1 .. m) -> V] : FoldsTo(h, G, base, seq, 1 .. m)
  <2> DEFINE S == 1 .. m
  <2>1. IsFiniteSet(S) /\ S \in SUBSET Nat /\ \A i \in S : seq[i] \in T
    BY <1>1
  <2> HIDE DEF S
  <2>2. \E h \in [SUBSET S -> V] : FoldsTo(h, G, base, seq, S)
    BY <2>1, FoldExists
  <2> QED BY <2>2 DEF S
<1> DEFINE F == [i \in 0 .. m |-> h[1 .. i]]
<1>3. \A i \in 0 .. m : 1 .. i \in SUBSET (1 .. m)
  OBVIOUS
<1>4. \A s \in SUBSET (1 .. m) : h[s] = FoldStep(h, G, base, seq, s)
  BY <1>2 DEF FoldsTo
<1>5. F \in [0 .. m -> V]
  BY <1>3
<1>6. h[1 .. 0] = base
  <2>1. 1 .. 0 = {}
    OBVIOUS
  <2> QED BY <1>4, <2>1 DEF FoldStep
<1>7. ASSUME NEW i \in 1 .. m PROVE h[1 .. i] = G[<<h[1 .. i - 1], seq[i]>>]
  <2>1. Max(1 .. i) = i /\ (1 .. i) \ {Max(1 .. i)} = 1 .. i - 1 /\ 1 .. i # {}
    BY MaxUpTo
  <2>2. h[1 .. i] = FoldStep(h, G, base, seq, 1 .. i)
    BY <1>3, <1>4
  <2> QED BY <2>1, <2>2 DEF FoldStep
<1>8. F[m] = h[1 .. m] /\ F[0] = h[1 .. 0]
  OBVIOUS
<1>9. \A i \in 1 .. m : F[i] = G[<<F[i - 1], seq[i]>>]
  BY <1>7
<1>5a. F \in [0 .. m -> V]
  BY <1>5
<1> HIDE DEF F
<1>10. Runs(F, V, G, base, seq, m)
  BY <1>5, <1>6, <1>8, <1>9 DEF Runs
<1> QED BY <1>2, <1>5a, <1>8, <1>10 DEF Folded

-----------------------------------------------------------------------------
(* Quotients and remainders. *)

LEMMA DivMod ==
  ASSUME NEW n \in Nat, NEW l \in Nat, l > 0
  PROVE  n \div l \in Nat /\ n % l \in 0 .. l - 1 /\ n = l * (n \div l) + (n % l)
<1>1. n % l \in 0 .. l - 1
  OBVIOUS
<1>2. n \div l \in Int
  OBVIOUS
<1>3. n = l * (n \div l) + (n % l)
  OBVIOUS
<1>4. n \div l >= 0
  <2>0. PICK d \in Int : d = n \div l
    BY <1>2
  <2>1. n = l * d + (n % l)
    BY <2>0, <1>3
  <2>3. PICK m \in 0 .. l - 1 : m = n % l
    BY <1>1
  <2> SUFFICES ASSUME d <= -1 PROVE FALSE BY <2>0
  <2>2. l * d <= -l
    OBVIOUS
  <2> QED BY <2>1, <2>2, <2>3
<1> QED BY <1>1, <1>2, <1>3, <1>4

LEMMA DivModUnique ==
  ASSUME NEW q \in Nat, NEW l \in Nat, l > 0, NEW r \in 0 .. l - 1
  PROVE  (l * q + r) \div l = q /\ (l * q + r) % l = r
<1>1. l * q + r \in Nat
  OBVIOUS
<1> DEFINE n == l * q + r
<1>2. PICK d \in Nat : d = n \div l
  BY <1>1, DivMod
<1>3. PICK m \in 0 .. l - 1 : m = n % l
  BY <1>1, DivMod
<1>4. l * q + r = l * d + m
  BY <1>1, <1>2, <1>3, DivMod
<1>5. l * (q - d) = m - r
  BY <1>4
<1>6. q = d
  <2>1. CASE q - d >= 1
    <3>1. l * (q - d) >= l
      BY <2>1
    <3> QED BY <3>1, <1>5
  <2>2. CASE q - d <= -1
    <3>1. l * (q - d) <= -l
      BY <2>2
    <3> QED BY <3>1, <1>5
  <2> QED BY <2>1, <2>2
<1> QED BY <1>2, <1>3, <1>4, <1>6

LEMMA QuotientBelow ==
  ASSUME NEW e \in Nat, NEW l \in Nat, l > 0, NEW i \in 0 .. e * l - 1
  PROVE i \div l \in 0 .. e - 1
<1>1. PICK q \in Nat : q = i \div l
  BY DivMod
<1>2. l * q <= i
  BY <1>1, DivMod
<1>4. i < e * l
  OBVIOUS
<1>3. ~ (q >= e)
  <2> SUFFICES ASSUME q >= e PROVE FALSE
    OBVIOUS
  <2>1. l * q >= l * e
    OBVIOUS
  <2> QED BY <2>1, <1>2, <1>4
<1> QED BY <1>1, <1>3

LEMMA ProductInside ==
  ASSUME NEW e \in Nat, NEW l \in Nat, l > 0, NEW q \in 0 .. e - 1, NEW r \in 0 .. l - 1
  PROVE l * q + r \in 0 .. e * l - 1
<1>1. l * q <= l * (e - 1)
  OBVIOUS
<1>2. l * q + r <= l * (e - 1) + l - 1
  BY <1>1
<1>3. l * (e - 1) + l - 1 = e * l - 1
  OBVIOUS
<1>4. l * q >= 0
  OBVIOUS
<1> QED BY <1>2, <1>3, <1>4

-----------------------------------------------------------------------------
\* Labels divide a finite set into classes.
Classes(C, T, S, label) == \A t \in T : C[t] = {k \in S : label[k] = t}

LEMMA PartitionPairs ==
  ASSUME NEW T, NEW S, IsFiniteSet(S), NEW label, \A k \in S : label[k] \in T, NEW C, Classes(C, T, S, label)
  PROVE  Cardinality(Pairs(C, T)) = Cardinality(S) /\ \A t \in T : IsFiniteSet(C[t])
<1> DEFINE M == [k \in S |-> <<label[k], k>>]
           P == Pairs(C, T)
<1>0. \A t \in T : C[t] = {k \in S : label[k] = t}
  BY DEF Classes
<1>1. \A t \in T : IsFiniteSet(C[t])
  <2> SUFFICES ASSUME NEW t \in T PROVE IsFiniteSet(C[t])
    OBVIOUS
  <2>1. C[t] \in SUBSET S
    BY <1>0
  <2> QED BY <2>1, FS_Subset
<1>2. ASSUME NEW k \in S PROVE <<label[k], k>> \in P
  <2>1. k \in C[label[k]]
    BY <1>0
  <2> QED BY <2>1 DEF Pairs
<1>3. ASSUME NEW z \in P PROVE z[2] \in S /\ z = <<label[z[2]], z[2]>>
  <2>1. z \in T \X UNION {C[t] : t \in T} /\ z[1] \in T /\ z[2] \in C[z[1]]
    BY DEF Pairs
  <2>2. z = <<z[1], z[2]>>
    BY <2>1
  <2>3. z[2] \in S /\ label[z[2]] = z[1]
    BY <1>0, <2>1
  <2> QED BY <2>2, <2>3
<1>4. \A k \in S : M[k] = <<label[k], k>>
  OBVIOUS
<1> HIDE DEF P
<1>5. M \in [S -> P] /\ DOMAIN M = S
  BY <1>2
<1> HIDE DEF M
<1>6. IsInjective(M)
  <2>1. \A i, j \in S : M[i] = M[j] => i = j
    BY <1>4
  <2> QED BY <1>5, <2>1 DEF IsInjective
<1>7. \A z \in P : \E k \in S : M[k] = z
  BY <1>3, <1>4
<1>8. M \in Bijection(S, P)
  BY <1>5, <1>6, <1>7 DEF Bijection, Injection, Surjection
<1>9. Cardinality(P) = Cardinality(S)
  BY <1>8, FS_Bijection DEF ExistsBijection
<1> QED BY <1>1, <1>9 DEF P

\* The sizes of the classes add up.
LEMMA SumPartition ==
  ASSUME NEW T, IsFiniteSet(T), NEW S, IsFiniteSet(S), NEW label, \A k \in S : label[k] \in T,
         NEW C, Classes(C, T, S, label), NEW g, \A t \in T : g[t] = Cardinality(C[t])
  PROVE  SumOf(g, T) = Cardinality(S)
<1>1. Cardinality(Pairs(C, T)) = Cardinality(S) /\ \A t \in T : IsFiniteSet(C[t])
  BY PartitionPairs
<1>2. \A t \in T : g[t] \in Nat
  BY <1>1, FS_CardinalityType
<1>3. PICK h : Adds(h, g, T)
  BY <1>2, SumsAdd
<1>4. h[T] = SumOf(g, T)
  BY <1>2, <1>3, SumsAdd
<1>5. \A s \in SUBSET T : s # {} => Some(s) \in T
  BY DEF Some
<1>6. SumsUp(h, C, T)
  <2>1. h = [s \in SUBSET T |-> IF s = {} THEN 0 ELSE g[Some(s)] + h[s \ {Some(s)}]]
    BY <1>3 DEF Adds
  <2>2. \A s \in SUBSET T : (IF s = {} THEN 0 ELSE g[Some(s)] + h[s \ {Some(s)}])
                               = (IF s = {} THEN 0 ELSE Cardinality(C[Some(s)]) + h[s \ {Some(s)}])
    BY <1>5
  <2> QED BY <2>1, <2>2 DEF SumsUp
<1>7. h[T] = Cardinality(Pairs(C, T))
  BY <1>1, <1>6, SumIsPairs
<1> QED BY <1>1, <1>4, <1>7

\* A sum does not depend on what its summands are called.
LEMMA SumMoved ==
  ASSUME NEW T, IsFiniteSet(T), NEW U, IsFiniteSet(U), NEW M \in Bijection(T, U),
         NEW f, NEW g, \A y \in U : g[y] \in Nat, \A x \in T : f[x] = g[M[x]]
  PROVE  SumOf(f, T) = SumOf(g, U)
<1> DEFINE A == Cells(f, T)
           B == Cells(g, U)
           N0 == [c \in A |-> <<M[c[1]], c[2]>>]
<1>1. M \in [T -> U] /\ (\A x, y \in T : M[x] = M[y] => x = y) /\ \A y \in U : \E x \in T : M[x] = y
  BY DEF Bijection, Injection, Surjection, IsInjective
<1>2. \A x \in T : f[x] \in Nat
  BY <1>1
<1>3. SumOf(f, T) = Cardinality(A) /\ SumOf(g, U) = Cardinality(B)
  BY <1>2, SumIsCells
<1>4. \A c \in A : c[1] \in T /\ c[2] \in Nat /\ c[2] \in 1 .. f[c[1]] /\ c = <<c[1], c[2]>>
  BY DEF Cells
<1>5. \A x \in T, n \in Nat : n \in 1 .. f[x] => <<x, n>> \in A
  BY DEF Cells
<1>6. \A y \in U, n \in Nat : n \in 1 .. g[y] => <<y, n>> \in B
  BY DEF Cells
<1>7. \A c \in B : c[1] \in U /\ c[2] \in Nat /\ c[2] \in 1 .. g[c[1]] /\ c = <<c[1], c[2]>>
  BY DEF Cells
<1> HIDE DEF A, B
<1>8. \A c \in A : N0[c] = <<M[c[1]], c[2]>> /\ <<M[c[1]], c[2]>> \in B
  BY <1>1, <1>4, <1>6
<1>9. N0 \in [A -> B] /\ DOMAIN N0 = A
  BY <1>8
<1> HIDE DEF N0
<1>10. \A c, d \in A : N0[c] = N0[d] => c = d
  <2> SUFFICES ASSUME NEW c \in A, NEW d \in A, N0[c] = N0[d] PROVE c = d
    OBVIOUS
  <2>1. <<M[c[1]], c[2]>> = <<M[d[1]], d[2]>>
    BY <1>8
  <2>2. M[c[1]] = M[d[1]] /\ c[2] = d[2]
    BY <2>1
  <2> QED BY <1>1, <1>4, <2>2
<1>11. \A d \in B : \E c \in A : N0[c] = d
  <2> SUFFICES ASSUME NEW d \in B PROVE \E c \in A : N0[c] = d
    OBVIOUS
  <2>1. PICK x \in T : M[x] = d[1]
    BY <1>1, <1>7
  <2>2. f[x] = g[d[1]] /\ d[2] \in 1 .. f[x] /\ d[2] \in Nat
    BY <1>7, <2>1
  <2> DEFINE c == <<x, d[2]>>
  <2>3. c \in A /\ c[1] = x /\ c[2] = d[2]
    BY <1>5, <2>2
  <2>4. N0[c] = d
    <3> HIDE DEF c
    <3> QED BY <1>7, <1>8, <2>1, <2>3
  <2> QED BY <2>3, <2>4
<1>12. N0 \in Bijection(A, B)
  BY <1>9, <1>10, <1>11 DEF Bijection, Injection, Surjection, IsInjective
<1>13. IsFiniteSet(A)
  <2> DEFINE C == [x \in T |-> 1 .. f[x]]
  <2>1. (\A x \in T : IsFiniteSet(C[x])) /\ A = Pairs(C, T)
    BY <1>2, CellsArePairs DEF A
  <2> HIDE DEF C
  <2> QED BY <2>1, PairsFinite
<1>14. Cardinality(A) = Cardinality(B)
  BY <1>12, <1>13, FS_Bijection DEF ExistsBijection
<1> QED BY <1>3, <1>14

\* An item at the end of what is joined.
Conc(s, t) == s \o t

LEMMA AppendMoves ==
  ASSUME NEW T, NEW s \in Seq(T), NEW t \in Seq(T), NEW x \in T
  PROVE  Append(Conc(s, t), x) = Conc(s, Append(t, x)) /\ Append(Conc(s, t), x) = Conc(Conc(s, t), <<x>>)
<1> DEFINE a == Append(t, x)
           c == s \o t
           d == Append(c, x)
           e == s \o a
<1>1. a \in Seq(T) /\ Len(a) = Len(t) + 1 /\ (\A i \in 1 .. Len(t) : a[i] = t[i]) /\ a[Len(t) + 1] = x
  BY AppendProperties
<1>2. c \in Seq(T) /\ Len(c) = Len(s) + Len(t)
      /\ \A i \in 1 .. Len(s) + Len(t) : c[i] = IF i <= Len(s) THEN s[i] ELSE t[i - Len(s)]
  BY ConcatProperties
<1> HIDE DEF a, c
<1>3. d \in Seq(T) /\ Len(d) = Len(c) + 1 /\ (\A i \in 1 .. Len(c) : d[i] = c[i]) /\ d[Len(c) + 1] = x
  BY <1>2, AppendProperties
<1>4. e \in Seq(T) /\ Len(e) = Len(s) + Len(a)
      /\ \A i \in 1 .. Len(s) + Len(a) : e[i] = IF i <= Len(s) THEN s[i] ELSE a[i - Len(s)]
  BY <1>1, ConcatProperties
<1> HIDE DEF d, e
<1>5. Len(s) \in Nat /\ Len(t) \in Nat
  OBVIOUS
<1>6. ASSUME NEW i \in 1 .. Len(d) PROVE d[i] = e[i]
  <2>0. i \in Nat /\ i >= 1 /\ i <= Len(s) + Len(t) + 1 /\ Len(c) = Len(s) + Len(t)
    BY <1>2, <1>3, <1>5
  <2>1. CASE i <= Len(s)
    <3>1. i \in 1 .. Len(c) /\ i \in 1 .. Len(s) + Len(t) /\ i \in 1 .. Len(s) + Len(a)
      BY <1>1, <1>5, <2>0, <2>1
    <3>2. d[i] = c[i] /\ c[i] = s[i] /\ e[i] = s[i]
      BY <1>2, <1>3, <1>4, <2>1, <3>1
    <3> QED BY <3>2
  <2>2. CASE i > Len(s) /\ i <= Len(c)
    <3>1. i - Len(s) \in 1 .. Len(t)
      BY <1>2, <1>5, <2>2
    <3>2. d[i] = t[i - Len(s)]
      BY <1>2, <1>3, <1>5, <2>2
    <3>3. e[i] = a[i - Len(s)]
      BY <1>1, <1>2, <1>3, <1>4, <1>5, <2>2
    <3> QED BY <1>1, <3>1, <3>2, <3>3
  <2>3. CASE i > Len(c)
    <3>1. i = Len(c) + 1 /\ i - Len(s) = Len(t) + 1
      BY <1>5, <2>0, <2>3
    <3>2. e[i] = a[i - Len(s)]
      BY <1>1, <1>2, <1>3, <1>4, <1>5, <2>3
    <3> QED BY <1>1, <1>3, <3>1, <3>2
  <2> QED BY <1>2, <1>3, <1>5, <2>1, <2>2, <2>3
<1>7. d = e
  BY <1>1, <1>2, <1>3, <1>4, <1>5, <1>6, SeqEqual
<1>8. d = c \o <<x>>
  BY <1>2, AppendIsConcat DEF d
<1> QED BY <1>7, <1>8 DEF a, c, d, e, Conc
=============================================================================
