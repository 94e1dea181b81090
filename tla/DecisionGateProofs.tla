-------------------------- MODULE DecisionGateProofs --------------------------
(***************************************************************************)
(* What the gate promises for every set of notes, rules, requests and      *)
(* configurations.                                                         *)
(***************************************************************************)
EXTENDS DecisionGate, SequenceTheorems, FiniteSetTheorems, FunctionTheorems,
        WellFoundedInduction, TLAPS

-----------------------------------------------------------------------------
\* Smallest elements, and induction on the size of a set and on the number of a path.

LEMMA SmallestExists ==
    ASSUME NEW S \in SUBSET Nat, S # {}
    PROVE  \E x \in S : \A y \in S : x <= y
<1>1. \E x \in S : \A y \in S : ~(<<y, x>> \in OpToRel(<, Nat))
  BY NatLessThanWellFounded, WFMin
<1>2. PICK x \in S : \A y \in S : ~(<<y, x>> \in OpToRel(<, Nat))
  BY <1>1
<1>3. \A y \in S : ~(y < x)
  BY <1>2 DEF OpToRel
<1> QED  BY <1>3

LEMMA MinIsSmallest ==
    ASSUME NEW S \in SUBSET Nat, S # {}
    PROVE  Min(S) \in S /\ \A y \in S : Min(S) <= y
<1>1. \E x \in S : \A y \in S : x =< y
  BY SmallestExists
<1> QED  BY <1>1, Zenon DEF Min

-----------------------------------------------------------------------------
\* The order of the keys: it decides between any two, and it is transitive.

LEMMA BeatsTotal ==
    ASSUME NEW n \in Nat, NEW a \in [1..n -> Int], NEW b \in [1..n -> Int], a # b
    PROVE  Beats(a, b) \/ Beats(b, a)
<1> DEFINE Differ == {i \in 1..n : a[i] # b[i]}
<1>1. Differ # {}
  OBVIOUS
<1>2. PICK i \in Differ : \A j \in Differ : i <= j
  <2>1. Differ \in SUBSET Nat
    OBVIOUS
  <2> QED  BY <1>1, <2>1, SmallestExists
<1>3. \A j \in 1..(i - 1) : a[j] = b[j]
  <2> SUFFICES ASSUME NEW j \in 1..(i - 1) PROVE a[j] = b[j]
    OBVIOUS
  <2>1. j \in 1..n /\ ~(i <= j)
    OBVIOUS
  <2> QED  BY <1>2, <2>1
<1>4. i \in 1..n /\ (a[i] > b[i] \/ b[i] > a[i])
  OBVIOUS
<1>5. i \in DOMAIN a /\ i \in DOMAIN b
  BY <1>4
<1> QED  BY <1>3, <1>4, <1>5 DEF Beats

LEMMA BeatsTransitive ==
    ASSUME NEW n \in Nat, NEW a \in [1..n -> Int], NEW b \in [1..n -> Int],
           NEW c \in [1..n -> Int], Beats(a, b), Beats(b, c)
    PROVE  Beats(a, c)
<1>1. PICK i \in 1..n : a[i] > b[i] /\ \A j \in 1..(i - 1) : a[j] = b[j]
  BY DEF Beats
<1>2. PICK k \in 1..n : b[k] > c[k] /\ \A j \in 1..(k - 1) : b[j] = c[j]
  BY DEF Beats
<1>3. CASE i <= k
  <2>1. \A j \in 1..(i - 1) : j \in 1..(k - 1)
    BY <1>3
  <2>2. \A j \in 1..(i - 1) : a[j] = c[j]
    BY <1>1, <1>2, <2>1
  <2>3. b[i] = c[i] \/ b[i] > c[i]
    <3>1. i = k \/ i \in 1..(k - 1)
      BY <1>3
    <3> QED  BY <1>2, <3>1
  <2>4. a[i] > c[i]
    BY <1>1, <2>3
  <2> QED  BY <2>2, <2>4 DEF Beats
<1>4. CASE k < i
  <2>1. \A j \in 1..(k - 1) : j \in 1..(i - 1)
    BY <1>4
  <2>2. \A j \in 1..(k - 1) : a[j] = c[j]
    BY <1>1, <1>2, <2>1
  <2>3. k \in 1..(i - 1)
    BY <1>4
  <2>4. a[k] > c[k]
    BY <1>1, <1>2, <2>3
  <2> QED  BY <2>2, <2>4 DEF Beats
<1> QED  BY <1>3, <1>4

\* Rows of a finite set with keys of one length, no two alike.
Keyed(D, key, n) ==
    /\ IsFiniteSet(D) /\ n \in Nat
    /\ key \in [D -> [1..n -> Int]]
    /\ \A r, s \in D : key[r] = key[s] => r = s

IsBest(r, S, key) == \A s \in S \ {r} : Beats(key[r], key[s])

LEMMA BestExists ==
    ASSUME NEW D, NEW key, NEW n, Keyed(D, key, n), NEW S \in SUBSET D, S # {}
    PROVE  \E r \in S : IsBest(r, S, key)
<1> DEFINE Without == {T \in SUBSET D : T # {} /\ ~\E r \in T : IsBest(r, T, key)}
           Sizes == {Cardinality(T) : T \in Without}
<1>1. SUFFICES ASSUME Without # {} PROVE FALSE
  OBVIOUS
<1>2. \A T \in SUBSET D : IsFiniteSet(T) /\ Cardinality(T) \in Nat
  BY FS_Subset, FS_CardinalityType DEF Keyed
<1>3. Sizes \in SUBSET Nat /\ Sizes # {}
  BY <1>1, <1>2
<1>4. PICK size \in Sizes : \A other \in Sizes : size <= other
  BY <1>3, SmallestExists
<1>5. PICK T \in Without : size = Cardinality(T)
  OBVIOUS
<1>6. T \in SUBSET D /\ T # {} /\ ~\E r \in T : IsBest(r, T, key)
  OBVIOUS
<1>7. PICK x \in T : TRUE
  BY <1>6
<1> DEFINE rest == T \ {x}
<1>8. rest \in SUBSET D /\ Cardinality(rest) = size - 1
  BY <1>2, <1>5, <1>6, FS_RemoveElement
<1>9. CASE rest = {}
  <2>1. T \ {x} = {}
    BY <1>9
  <2>2. IsBest(x, T, key)
    BY <2>1 DEF IsBest
  <2> QED  BY <1>6, <2>2
<1>10. CASE rest # {}
  <2>1. rest \notin Without
    <3>1. SUFFICES ASSUME rest \in Without PROVE FALSE
      OBVIOUS
    <3>2. size <= size - 1 /\ size \in Nat
      BY <1>3, <1>4, <1>8, <3>1
    <3> QED  BY <3>2
  <2>2. PICK y \in rest : IsBest(y, rest, key)
    BY <1>8, <1>10, <2>1
  <2>3. x \in D /\ y \in D /\ x # y /\ y \in T
    BY <1>6
  <2>4. \A s \in D : key[s] \in [1..n -> Int]
    BY DEF Keyed
  <2>5. key[x] # key[y]
    BY <2>3 DEF Keyed
  <2>6. CASE Beats(key[x], key[y])
    <3>1. ASSUME NEW s \in T \ {x} PROVE Beats(key[x], key[s])
      <4>1. CASE s = y
        BY <2>6, <4>1
      <4>2. CASE s # y
        <5>1. Beats(key[y], key[s])
          BY <2>2, <4>2 DEF IsBest
        <5>2. s \in D /\ n \in Nat
          BY <1>6 DEF Keyed
        <5> QED  BY <2>3, <2>4, <2>6, <5>1, <5>2, BeatsTransitive
      <4> QED  BY <4>1, <4>2
    <3> QED  BY <1>6, <3>1 DEF IsBest
  <2>7. CASE Beats(key[y], key[x])
    <3>1. \A s \in T \ {y} : Beats(key[y], key[s])
      BY <2>2, <2>7 DEF IsBest
    <3> QED  BY <1>6, <2>3, <3>1 DEF IsBest
  <2> QED
    <3>1. n \in Nat
      BY DEF Keyed
    <3> QED  BY <2>3, <2>4, <2>5, <2>6, <2>7, <3>1, BeatsTotal
<1> QED  BY <1>9, <1>10

LEMMA BestIsMember ==
    ASSUME NEW D, NEW key, NEW n, Keyed(D, key, n), NEW S \in SUBSET D, S # {}
    PROVE  Best(S, key) \in S
<1>1. \E r \in S : \A s \in S \ {r} : Beats(key[r], key[s])
  BY BestExists DEF IsBest
<1> QED  BY <1>1, Zenon DEF Best

\* The best row per choice is a row.
LEMMA BestPerChoiceIsPart ==
    ASSUME NEW D, NEW key, NEW n, Keyed(D, key, n), NEW S \in SUBSET D
    PROVE  BestPerChoice(S, key) \in SUBSET S
<1> SUFFICES ASSUME NEW c \in ChoicesOf(S)
             PROVE  Best({r \in S : Norm[r.chosen] = c}, key) \in S
  BY DEF BestPerChoice
<1> DEFINE Rows == {r \in S : Norm[r.chosen] = c}
<1>1. Rows # {} /\ Rows \in SUBSET D
  BY DEF ChoicesOf
<1>2. Best(Rows, key) \in Rows
  BY <1>1, BestIsMember
<1> QED  BY <1>2

-----------------------------------------------------------------------------
\* The index: rules of distinct notes.

Rule == [path: Paths, id: Ids, control: BOOLEAN, active: BOOLEAN, situation: Situations,
         type: Types \cup {"general"}, scope: Scopes \cup {"global"}, chosen: Texts,
         rejected: SUBSET Texts, priority: Int, base: Int, evidence: Nat]
IsIndex(index) ==
    /\ IsFiniteSet(index) /\ index \subseteq Rule
    /\ \A r, s \in index : r.path = s.path => r = s

LEMMA PartIsIndex ==
    ASSUME NEW index, IsIndex(index), NEW part \in SUBSET index
    PROVE  IsIndex(part)
BY FS_Subset DEF IsIndex

\* What a rule of the index is compared by are whole numbers.
LEMMA NumbersOfRules ==
    ASSUME RuleConstants, NEW index, IsIndex(index), NEW q \in Request, NEW r \in index
    PROVE  /\ Score(r, q) \in Int /\ ScopeExact(r, q) \in Int /\ TypeExact(r, q) \in Int
           /\ Choosable(r, q) \in Int /\ r.priority \in Int /\ r.path \in Int
           /\ -Order[Norm[r.chosen]] \in Int /\ r.base \in Int /\ r.evidence \in Int
<1>1. r \in Rule
  BY DEF IsIndex
<1>2. /\ r.situation \in Situations /\ r.priority \in Int /\ r.chosen \in Texts
      /\ r.base \in Int /\ r.evidence \in Nat /\ r.path \in Paths
  BY <1>1 DEF Rule
<1>3. q.situation \in Situations
  BY DEF Request
<1>4. Score(r, q) \in Int
  <2>1. <<r.situation, q.situation>> \in Situations \X Situations
    BY <1>2, <1>3
  <2>2. Similar[<<r.situation, q.situation>>] \in 0..100
    BY <2>1 DEF RuleConstants
  <2> QED  BY <2>2 DEF Score
<1>5. Order[Norm[r.chosen]] \in Nat
  <2>1. Norm[r.chosen] \in Texts
    BY <1>2 DEF RuleConstants
  <2> QED  BY <2>1 DEF RuleConstants
<1>6. r.path \in Int
  <2>1. NumPaths \in Nat
    BY DEF RuleConstants
  <2> QED  BY <1>2, <2>1 DEF Paths
<1> QED  BY <1>2, <1>4, <1>5, <1>6 DEF ScopeExact, TypeExact, Choosable

LEMMA Tuples ==
    /\ \A a, b, c, d \in Int : <<a, b, c, d>> \in [1..4 -> Int]
    /\ \A a, b, c, d, e \in Int : <<a, b, c, d, e>> \in [1..5 -> Int]
    /\ \A a, b, c, d, e, f \in Int : <<a, b, c, d, e, f>> \in [1..6 -> Int]
<1>1. ASSUME NEW a \in Int, NEW b \in Int, NEW c \in Int, NEW d \in Int
      PROVE  <<a, b, c, d>> \in [1..4 -> Int]
  <2>1. <<a, b, c, d>> \in Seq(Int) /\ Len(<<a, b, c, d>>) = 4
    OBVIOUS
  <2> QED  BY <2>1, LenProperties
<1>2. ASSUME NEW a \in Int, NEW b \in Int, NEW c \in Int, NEW d \in Int, NEW e \in Int
      PROVE  <<a, b, c, d, e>> \in [1..5 -> Int]
  <2>1. <<a, b, c, d, e>> \in Seq(Int) /\ Len(<<a, b, c, d, e>>) = 5
    OBVIOUS
  <2> QED  BY <2>1, LenProperties
<1>3. ASSUME NEW a \in Int, NEW b \in Int, NEW c \in Int, NEW d \in Int, NEW e \in Int,
             NEW f \in Int
      PROVE  <<a, b, c, d, e, f>> \in [1..6 -> Int]
  <2>1. <<a, b, c, d, e, f>> \in Seq(Int) /\ Len(<<a, b, c, d, e, f>>) = 6
    OBVIOUS
  <2> QED  BY <2>1, LenProperties
<1> QED  BY <1>1, <1>2, <1>3

\* A key of whole numbers that ends in the path tells the rules of an index apart.
LEMMA KeyedByPath ==
    ASSUME NEW index, IsIndex(index), NEW n \in Nat,
           NEW key, key = [r \in index |-> key[r]],
           \A r \in index : key[r] \in [1..n -> Int] /\ key[r][n] = r.path
    PROVE  Keyed(index, key, n)
<1>1. key \in [index -> [1..n -> Int]]
  OBVIOUS
<1>2. \A r, s \in index : key[r] = key[s] => r = s
  BY DEF IsIndex
<1> QED  BY <1>1, <1>2 DEF Keyed, IsIndex

\* The keys of the two lookups tell the rows of any part of the index apart.
LEMMA ExactRowsKeyed ==
    ASSUME RuleConstants, NEW index, IsIndex(index), NEW q \in Request,
           NEW rows \in SUBSET index
    PROVE  Keyed(rows, [r \in rows |->
                           <<ScopeExact(r, q), TypeExact(r, q), r.priority, r.path>>], 4)
<1> DEFINE key == [r \in rows |->
                      <<ScopeExact(r, q), TypeExact(r, q), r.priority, r.path>>]
<1>1. IsIndex(rows)
  BY PartIsIndex
<1>2. ASSUME NEW r \in rows PROVE key[r] \in [1..4 -> Int] /\ key[r][4] = r.path
  <2>1. /\ ScopeExact(r, q) \in Int /\ TypeExact(r, q) \in Int /\ r.priority \in Int
        /\ r.path \in Int
    BY <1>1, NumbersOfRules
  <2>2. key[r] = <<ScopeExact(r, q), TypeExact(r, q), r.priority, r.path>>
    OBVIOUS
  <2>3. key[r][4] = r.path
    BY <2>2
  <2>4. key[r] \in [1..4 -> Int]
    <3>1. \A w, x, y, z \in Int : <<w, x, y, z>> \in [1..4 -> Int]
      BY Tuples
    <3>2. <<ScopeExact(r, q), TypeExact(r, q), r.priority, r.path>> \in [1..4 -> Int]
      BY <2>1, <3>1, Zenon
    <3> HIDE DEF key
    <3> QED  BY <2>2, <3>2, Zenon
  <2> QED  BY <2>3, <2>4
<1>3. key = [r \in rows |-> key[r]] /\ 4 \in Nat
  OBVIOUS
<1>4. \A r \in rows : key[r] \in [1..4 -> Int] /\ key[r][4] = r.path
  BY <1>2
<1>5. Keyed(rows, key, 4)
  <2> HIDE DEF key
  <2> QED  BY <1>1, <1>3, <1>4, KeyedByPath
<1> QED  BY <1>5

LEMMA ExactChoicesKeyed ==
    ASSUME RuleConstants, NEW index, IsIndex(index), NEW q \in Request,
           NEW rows \in SUBSET index
    PROVE  Keyed(rows, [r \in rows |->
                           <<ScopeExact(r, q), TypeExact(r, q), -Order[Norm[r.chosen]],
                             r.path>>], 4)
<1> DEFINE key == [r \in rows |->
                      <<ScopeExact(r, q), TypeExact(r, q), -Order[Norm[r.chosen]],
                        r.path>>]
<1>1. IsIndex(rows)
  BY PartIsIndex
<1>2. ASSUME NEW r \in rows PROVE key[r] \in [1..4 -> Int] /\ key[r][4] = r.path
  <2>1. /\ ScopeExact(r, q) \in Int /\ TypeExact(r, q) \in Int /\ -Order[Norm[r.chosen]] \in Int
        /\ r.path \in Int
    BY <1>1, NumbersOfRules
  <2>2. key[r] = <<ScopeExact(r, q), TypeExact(r, q), -Order[Norm[r.chosen]],
                   r.path>>
    OBVIOUS
  <2>3. key[r][4] = r.path
    BY <2>2
  <2>4. key[r] \in [1..4 -> Int]
    <3>1. \A w, x, y, z \in Int : <<w, x, y, z>> \in [1..4 -> Int]
      BY Tuples
    <3>2. <<ScopeExact(r, q), TypeExact(r, q), -Order[Norm[r.chosen]],
            r.path>> \in [1..4 -> Int]
      BY <2>1, <3>1, Zenon
    <3> HIDE DEF key
    <3> QED  BY <2>2, <3>2, Zenon
  <2> QED  BY <2>3, <2>4
<1>3. key = [r \in rows |-> key[r]] /\ 4 \in Nat
  OBVIOUS
<1>4. \A r \in rows : key[r] \in [1..4 -> Int] /\ key[r][4] = r.path
  BY <1>2
<1>5. Keyed(rows, key, 4)
  <2> HIDE DEF key
  <2> QED  BY <1>1, <1>3, <1>4, KeyedByPath
<1> QED  BY <1>5

LEMMA FuzzyRowsKeyed ==
    ASSUME RuleConstants, NEW index, IsIndex(index), NEW q \in Request,
           NEW rows \in SUBSET index
    PROVE  Keyed(rows, [r \in rows |->
                           <<Score(r, q), ScopeExact(r, q), TypeExact(r, q),
                             r.priority, r.path>>], 5)
<1> DEFINE key == [r \in rows |->
                      <<Score(r, q), ScopeExact(r, q), TypeExact(r, q),
                        r.priority, r.path>>]
<1>1. IsIndex(rows)
  BY PartIsIndex
<1>2. ASSUME NEW r \in rows PROVE key[r] \in [1..5 -> Int] /\ key[r][5] = r.path
  <2>1. /\ Score(r, q) \in Int /\ ScopeExact(r, q) \in Int /\ TypeExact(r, q) \in Int
        /\ r.priority \in Int /\ r.path \in Int
    BY <1>1, NumbersOfRules
  <2>2. key[r] = <<Score(r, q), ScopeExact(r, q), TypeExact(r, q),
                   r.priority, r.path>>
    OBVIOUS
  <2>3. key[r][5] = r.path
    BY <2>2
  <2>4. key[r] \in [1..5 -> Int]
    <3>1. \A v, w, x, y, z \in Int : <<v, w, x, y, z>> \in [1..5 -> Int]
      BY Tuples
    <3>2. <<Score(r, q), ScopeExact(r, q), TypeExact(r, q),
            r.priority, r.path>> \in [1..5 -> Int]
      BY <2>1, <3>1, Zenon
    <3> HIDE DEF key
    <3> QED  BY <2>2, <3>2, Zenon
  <2> QED  BY <2>3, <2>4
<1>3. key = [r \in rows |-> key[r]] /\ 5 \in Nat
  OBVIOUS
<1>4. \A r \in rows : key[r] \in [1..5 -> Int] /\ key[r][5] = r.path
  BY <1>2
<1>5. Keyed(rows, key, 5)
  <2> HIDE DEF key
  <2> QED  BY <1>1, <1>3, <1>4, KeyedByPath
<1> QED  BY <1>5

LEMMA ResolutionKeyed ==
    ASSUME RuleConstants, NEW index, IsIndex(index), NEW q \in Request,
           NEW rows \in SUBSET index
    PROVE  Keyed(rows, [r \in rows |-> ResolutionKey(r, q)], 6)
<1> DEFINE key == [r \in rows |-> ResolutionKey(r, q)]
<1>1. IsIndex(rows)
  BY PartIsIndex
<1>2. ASSUME NEW r \in rows PROVE key[r] \in [1..6 -> Int] /\ key[r][6] = r.path
  <2>1. /\ Score(r, q) \in Int /\ ScopeExact(r, q) \in Int /\ TypeExact(r, q) \in Int
        /\ Choosable(r, q) \in Int /\ r.priority \in Int /\ r.path \in Int
    BY <1>1, NumbersOfRules
  <2>2. key[r] = <<Score(r, q), ScopeExact(r, q), TypeExact(r, q),
                   Choosable(r, q), r.priority, r.path>>
    BY DEF ResolutionKey
  <2>3. key[r][6] = r.path
    BY <2>2
  <2>4. key[r] \in [1..6 -> Int]
    <3>1. \A u, v, w, x, y, z \in Int : <<u, v, w, x, y, z>> \in [1..6 -> Int]
      BY Tuples
    <3>2. <<Score(r, q), ScopeExact(r, q), TypeExact(r, q),
            Choosable(r, q), r.priority, r.path>> \in [1..6 -> Int]
      BY <2>1, <3>1, Zenon
    <3> HIDE DEF key
    <3> QED  BY <2>2, <3>2, Zenon
  <2> QED  BY <2>3, <2>4
<1>3. key = [r \in rows |-> key[r]] /\ 6 \in Nat
  OBVIOUS
<1>4. \A r \in rows : key[r] \in [1..6 -> Int] /\ key[r][6] = r.path
  BY <1>2
<1>5. Keyed(rows, key, 6)
  <2> HIDE DEF key
  <2> QED  BY <1>1, <1>3, <1>4, KeyedByPath
<1> QED  BY <1>5

LEMMA FuzzyChoicesKeyed ==
    ASSUME RuleConstants, NEW index, IsIndex(index), NEW q \in Request,
           NEW rows \in SUBSET index
    PROVE  Keyed(rows, [r \in rows |->
                           <<Score(r, q), ScopeExact(r, q), TypeExact(r, q),
                             r.priority, -Order[Norm[r.chosen]], r.path>>], 6)
<1> DEFINE key == [r \in rows |->
                      <<Score(r, q), ScopeExact(r, q), TypeExact(r, q),
                        r.priority, -Order[Norm[r.chosen]], r.path>>]
<1>1. IsIndex(rows)
  BY PartIsIndex
<1>2. ASSUME NEW r \in rows PROVE key[r] \in [1..6 -> Int] /\ key[r][6] = r.path
  <2>1. /\ Score(r, q) \in Int /\ ScopeExact(r, q) \in Int /\ TypeExact(r, q) \in Int
        /\ -Order[Norm[r.chosen]] \in Int /\ r.priority \in Int /\ r.path \in Int
    BY <1>1, NumbersOfRules
  <2>2. key[r] = <<Score(r, q), ScopeExact(r, q), TypeExact(r, q),
                   r.priority, -Order[Norm[r.chosen]], r.path>>
    OBVIOUS
  <2>3. key[r][6] = r.path
    BY <2>2
  <2>4. key[r] \in [1..6 -> Int]
    <3>1. \A u, v, w, x, y, z \in Int : <<u, v, w, x, y, z>> \in [1..6 -> Int]
      BY Tuples
    <3>2. <<Score(r, q), ScopeExact(r, q), TypeExact(r, q),
            r.priority, -Order[Norm[r.chosen]], r.path>> \in [1..6 -> Int]
      BY <2>1, <3>1, Zenon
    <3> HIDE DEF key
    <3> QED  BY <2>2, <3>2, Zenon
  <2> QED  BY <2>3, <2>4
<1>3. key = [r \in rows |-> key[r]] /\ 6 \in Nat
  OBVIOUS
<1>4. \A r \in rows : key[r] \in [1..6 -> Int] /\ key[r][6] = r.path
  BY <1>2
<1>5. Keyed(rows, key, 6)
  <2> HIDE DEF key
  <2> QED  BY <1>1, <1>3, <1>4, KeyedByPath
<1> QED  BY <1>5

LEMMA ExactIsPart ==
    ASSUME RuleConstants, NEW index, IsIndex(index), NEW q \in Request
    PROVE  /\ ExactCandidates(index, q) \in SUBSET index
           /\ \A r \in ExactCandidates(index, q) : InReach(r, q)
<1> DEFINE exact == {r \in index : InReach(r, q) /\ r.situation = q.situation}
           offered == {r \in exact : Available(q, r.chosen)}
           rowKey == [r \in exact |-> <<ScopeExact(r, q), TypeExact(r, q), r.priority, r.path>>]
           choiceKey == [r \in exact |-> <<ScopeExact(r, q), TypeExact(r, q),
                                          -Order[Norm[r.chosen]], r.path>>]
           choice == Norm[Best(exact, choiceKey).chosen]
           rows == {r \in exact : Norm[r.chosen] = choice}
<1>1. IsIndex(exact) /\ exact \in SUBSET index
  BY PartIsIndex
<1>2. Keyed(exact, rowKey, 4)
  BY <1>1, ExactRowsKeyed
<1>3. Keyed(exact, choiceKey, 4)
  BY <1>1, ExactChoicesKeyed
<1>4. ExactCandidates(index, q) =
        IF offered # {} THEN BestPerChoice(offered, rowKey)
        ELSE IF exact = {} THEN {} ELSE {Best(rows, rowKey)}
  BY Zenon DEF ExactCandidates
<1> HIDE DEF rowKey, choiceKey
<1>5. offered \in SUBSET exact
  OBVIOUS
<1>6. BestPerChoice(offered, rowKey) \in SUBSET offered
  BY <1>2, <1>5, BestPerChoiceIsPart
<1>7. exact # {} => Best(rows, rowKey) \in exact
  <2> SUFFICES ASSUME exact # {} PROVE Best(rows, rowKey) \in exact
    OBVIOUS
  <2>1. Best(exact, choiceKey) \in exact
    BY <1>3, BestIsMember
  <2>2. rows # {} /\ rows \in SUBSET exact
    BY <2>1
  <2>3. Best(rows, rowKey) \in rows
    BY <1>2, <2>2, BestIsMember
  <2> QED  BY <2>2, <2>3
<1>8. ExactCandidates(index, q) \in SUBSET exact
  <2> HIDE DEF exact, offered, rows
  <2> QED  BY <1>4, <1>5, <1>6, <1>7
<1> QED  BY <1>8

LEMMA FuzzyIsPart ==
    ASSUME RuleConstants, NEW index, IsIndex(index), NEW q \in Request
    PROVE  /\ FuzzyCandidates(index, q) \in SUBSET index
           /\ \A r \in FuzzyCandidates(index, q) : InReach(r, q)
<1> DEFINE eligible == {r \in index : InReach(r, q) /\ Score(r, q) >= MinRuleScore}
           rowKey == [r \in eligible |->
               <<Score(r, q), ScopeExact(r, q), TypeExact(r, q), r.priority, r.path>>]
           choiceKey == [r \in eligible |->
               <<Score(r, q), ScopeExact(r, q), TypeExact(r, q), r.priority,
                 -Order[Norm[r.chosen]], r.path>>]
           best == BestPerChoice(eligible, rowKey)
           offered == {r \in best : Available(q, r.chosen)}
           others == {r \in best \ offered : Score(r, q) >= MinMismatchScore}
<1>1. IsIndex(eligible) /\ eligible \in SUBSET index
  BY PartIsIndex
<1>2. Keyed(eligible, rowKey, 5)
  BY <1>1, FuzzyRowsKeyed
<1>3. FuzzyCandidates(index, q) = offered \cup Top(others, MaxUnavailable, choiceKey)
  BY Zenon DEF FuzzyCandidates
<1> HIDE DEF rowKey, choiceKey
<1>4. best \in SUBSET eligible
  BY <1>2, BestPerChoiceIsPart
<1> HIDE DEF best
<1>5. Top(others, MaxUnavailable, choiceKey) \in SUBSET others
  BY DEF Top
<1>6. FuzzyCandidates(index, q) \in SUBSET eligible
  BY <1>3, <1>4, <1>5
<1> QED  BY <1>6

\* A resolution names a rule of the index that is in reach of the request.
ResolutionOf(index, q, res) ==
    \/ res.kind = "NoMatch"
    \/ /\ res.kind \in {"Applicable", "OptionMismatch", "Ambiguous"}
       /\ res.rule \in index /\ InReach(res.rule, q) /\ res.margin \in Int

LEMMA CandidatesResolve ==
    ASSUME RuleConstants, NEW index, IsIndex(index), NEW q \in Request, NEW exact,
           NEW S \in SUBSET index, \A r \in S : InReach(r, q)
    PROVE  ResolutionOf(index, q, ResolveCandidates(S, q, exact))
<1> DEFINE key == [r \in S |-> ResolutionKey(r, q)]
           best == Best(S, key)
           rivals == {r \in S : Norm[r.chosen] # Norm[best.chosen]}
           rivalKey == [r \in rivals |-> ResolutionKey(r, q)]
           rival == Best(rivals, rivalKey)
           margin == IF rivals = {} THEN 0 ELSE Score(best, q) - Score(rival, q)
           res == ResolveCandidates(S, q, exact)
<1>1. CASE S = {}
  <2>1. res = NoMatch
    BY <1>1 DEF ResolveCandidates
  <2> QED  BY <2>1 DEF NoMatch, ResolutionOf
<1>2. CASE S # {}
  <2>1. ASSUME NEW part \in SUBSET S, NEW k, k = [r \in part |-> ResolutionKey(r, q)],
               part # {}
        PROVE  Best(part, k) \in part
    <3>1. Keyed(part, k, 6)
      BY <2>1, ResolutionKeyed
    <3> QED  BY <2>1, <3>1, BestIsMember
  <2>2. best \in S
    BY <1>2, <2>1
  <2>3. rivals # {} => rival \in rivals
    BY <2>1
  <2>4. margin \in Int
    <3>1. Score(best, q) \in Int
      BY <2>2, NumbersOfRules
    <3>2. rivals # {} => Score(rival, q) \in Int
      BY <2>3, NumbersOfRules
    <3> HIDE DEF best, rivals, rival
    <3> QED  BY <3>1, <3>2
  <2>5. res = IF rivals # {} /\ EquallyRelevant(best, rival, q)
              THEN Resolution("Ambiguous", best, margin, exact)
              ELSE IF Available(q, best.chosen) THEN Resolution("Applicable", best, margin, exact)
              ELSE IF exact \/ Score(best, q) >= MinMismatchScore
                   THEN Resolution("OptionMismatch", best, margin, exact)
              ELSE NoMatch
    BY <1>2, Zenon DEF ResolveCandidates
  <2>6. best \in index /\ InReach(best, q)
    BY <2>2
  <2> HIDE DEF best, rivals, rival, margin, res
  <2>7. \/ res = NoMatch
        \/ \E kind \in {"Applicable", "OptionMismatch", "Ambiguous"} :
              res = Resolution(kind, best, margin, exact)
    BY <2>5
  <2>8. ASSUME NEW kind \in {"Applicable", "OptionMismatch", "Ambiguous"},
               res = Resolution(kind, best, margin, exact)
        PROVE  ResolutionOf(index, q, res)
    <3>1. res.kind = kind /\ res.rule = best /\ res.margin = margin
      BY <2>8 DEF Resolution
    <3> QED  BY <2>4, <2>6, <3>1 DEF ResolutionOf
  <2>9. res = NoMatch => ResolutionOf(index, q, res)
    BY DEF NoMatch, ResolutionOf
  <2>10. ResolutionOf(index, q, res)
    BY <2>7, <2>8, <2>9
  <2> QED  BY <2>10 DEF res
<1> QED  BY <1>1, <1>2

LEMMA ResolveNamesARule ==
    ASSUME RuleConstants, NEW index, IsIndex(index), NEW q \in Request
    PROVE  ResolutionOf(index, q, Resolve(index, q))
<1>1. ResolutionOf(index, q, ResolveCandidates(ExactCandidates(index, q), q, TRUE))
  BY ExactIsPart, CandidatesResolve
<1>2. ResolutionOf(index, q, ResolveCandidates(FuzzyCandidates(index, q), q, FALSE))
  BY FuzzyIsPart, CandidatesResolve
<1> QED  BY <1>1, <1>2 DEF Resolve

-----------------------------------------------------------------------------
\* The loop of rebuild: what it has compiled after each path.

AfterPath(compilation, stored, p) ==
    IF p \in Present(stored)
    THEN CompileNote(compilation, [path |-> p, note |-> stored[p]]) ELSE compilation
NoRules == [failed |-> FALSE, rules |-> {}]
CompilesUpTo(upTo, stored, n) ==
    upTo = [p \in 0..n |-> IF p = 0 THEN NoRules ELSE AfterPath(upTo[p - 1], stored, p)]

LEMMA LoopExists ==
    ASSUME NEW stored
    PROVE  \A n \in Nat : \E upTo : CompilesUpTo(upTo, stored, n)
<1> DEFINE Without == {n \in Nat : ~\E upTo : CompilesUpTo(upTo, stored, n)}
<1>1. SUFFICES ASSUME Without # {} PROVE FALSE
  OBVIOUS
<1>2. PICK n \in Without : \A m \in Without : n <= m
  <2>1. Without \in SUBSET Nat
    OBVIOUS
  <2> QED  BY <1>1, <2>1, SmallestExists
<1>3. n \in Nat /\ ~\E upTo : CompilesUpTo(upTo, stored, n)
  OBVIOUS
<1>4. CASE n = 0
  <2> DEFINE first == [p \in 0..0 |-> NoRules]
  <2>1. \A p \in 0..0 : p = 0
    OBVIOUS
  <2>2. CompilesUpTo(first, stored, 0)
    BY <2>1 DEF CompilesUpTo
  <2> QED  BY <1>3, <1>4, <2>2
<1>5. CASE n # 0
  <2>1. n - 1 \in Nat /\ ~(n <= n - 1)
    BY <1>3, <1>5
  <2>2. PICK upTo : CompilesUpTo(upTo, stored, n - 1)
    BY <1>2, <2>1
  <2> DEFINE next == [p \in 0..n |-> IF p = n THEN AfterPath(upTo[n - 1], stored, n)
                                     ELSE upTo[p]]
  <2>3. ASSUME NEW p \in 0..n
        PROVE  next[p] = IF p = 0 THEN NoRules ELSE AfterPath(next[p - 1], stored, p)
    <3>1. CASE p = n
      <4>1. p - 1 \in 0..n /\ p - 1 # n /\ p # 0
        BY <1>3, <1>5, <3>1
      <4>2. next[p - 1] = upTo[n - 1]
        BY <3>1, <4>1
      <4> QED  BY <3>1, <4>1, <4>2
    <3>2. CASE p # n
      <4>1. p \in 0..n - 1 /\ next[p] = upTo[p]
        BY <1>3, <3>2
      <4>2. upTo[p] = IF p = 0 THEN NoRules ELSE AfterPath(upTo[p - 1], stored, p)
        BY <2>2, <4>1 DEF CompilesUpTo
      <4>3. p # 0 => p - 1 \in 0..n /\ p - 1 # n
        BY <1>3, <4>1
      <4>4. p # 0 => next[p - 1] = upTo[p - 1]
        BY <4>3
      <4> QED  BY <4>1, <4>2, <4>4
    <3> QED  BY <3>1, <3>2
  <2>4. next = [p \in 0..n |-> next[p]]
    OBVIOUS
  <2> HIDE DEF next
  <2>5. CompilesUpTo(next, stored, n)
    BY <2>3, <2>4 DEF CompilesUpTo
  <2> QED  BY <1>3, <2>5
<1> QED  BY <1>4, <1>5

\* Compile is the last value of the loop.
LEMMA CompileIsTheLoop ==
    ASSUME NEW stored, NumPaths \in Nat
    PROVE  \E upTo : /\ upTo[0] = NoRules
                     /\ \A p \in 1..NumPaths : upTo[p] = AfterPath(upTo[p - 1], stored, p)
                     /\ Compile(stored) = upTo[NumPaths]
<1> DEFINE loop == CHOOSE upTo : CompilesUpTo(upTo, stored, NumPaths)
<1>1. \E upTo : CompilesUpTo(upTo, stored, NumPaths)
  BY LoopExists
<1>2. Compile(stored) = loop[NumPaths]
  BY Zenon DEF Compile, CompilesUpTo, AfterPath, NoRules
<1>3. CompilesUpTo(loop, stored, NumPaths)
  BY <1>1, Zenon
<1> HIDE DEF loop
<1>4. loop[0] = NoRules
      /\ \A p \in 1..NumPaths : loop[p] = AfterPath(loop[p - 1], stored, p)
  <2>1. 0 \in 0..NumPaths /\ \A p \in 1..NumPaths : p \in 0..NumPaths /\ p # 0
    OBVIOUS
  <2> QED  BY <1>3, <2>1 DEF CompilesUpTo
<1> QED  BY <1>2, <1>4

\* What holds after every path: the rules are those of distinct executable notes, every
\* executable note has a rule of its id, and the loop has failed exactly when a control
\* policy was invalid or not alone with its id, or there are too many rules.
Typed(stored) == stored \in [Paths -> Note \cup {NoNote}]
Executables(stored, n) == {p \in Present(stored) : p <= n /\ Executable(stored[p])}
InvalidControl(stored, n) ==
    \E p \in Present(stored) : p <= n /\ ~Executable(stored[p]) /\ IsControl(stored[p])
ClashingControl(stored, n) ==
    \E p, o \in Executables(stored, n) :
        p # o /\ stored[p].id = stored[o].id /\ IsControl(stored[p])

CompilesNotes(index, stored, n) ==
    /\ IsIndex(index)
    /\ \A r \in index : /\ r.path \in Executables(stored, n)
                        /\ r.id = stored[r.path].id /\ r.control = IsControl(stored[r.path])
    /\ \A p \in Executables(stored, n) : \E r \in index : r.id = stored[p].id
    /\ \A r, s \in index : r.id = s.id => r = s

CompiledTo(compilation, stored, n) ==
    /\ compilation = [failed |-> compilation.failed, rules |-> compilation.rules]
    /\ compilation.failed \in BOOLEAN
    /\ CompilesNotes(compilation.rules, stored, n)
    /\ compilation.failed <=> \/ InvalidControl(stored, n)
                              \/ ClashingControl(stored, n)
                              \/ Cardinality(compilation.rules) > MaxRules

LEMMA CompiledIsARule ==
    ASSUME NEW p \in Paths, NEW note \in Note
    PROVE  /\ Compiled(p, note) \in Rule
           /\ Compiled(p, note).path = p /\ Compiled(p, note).id = note.id
           /\ Compiled(p, note).control = IsControl(note)
<1>1. /\ note.id \in Ids /\ note.active \in BOOLEAN /\ note.situation \in Situations
      /\ note.type \in Types \cup {"general"} /\ note.scope \in Scopes \cup {"global"}
      /\ note.chosen \in Texts /\ note.rejected \in SUBSET Texts /\ note.base \in {55, 70, 90}
      /\ note.evidence \in Nat
  BY DEF Note
<1>2. Priority(note.kind) \in Int /\ note.base \in Int
  BY <1>1 DEF Priority
<1>3. IsControl(note) \in BOOLEAN
  BY DEF IsControl
<1>4. Compiled(p, note) \in Rule
  BY <1>1, <1>2, <1>3 DEF Compiled, Rule
<1> QED  BY <1>4 DEF Compiled

\* The next path adds at most itself to the executable notes.
LEMMA NextPath ==
    ASSUME RuleConstants, NEW stored, Typed(stored), NEW n \in 1..NumPaths
    PROVE  /\ n \notin Executables(stored, n - 1)
           /\ n \notin Present(stored) \/ ~Executable(stored[n]) =>
                 Executables(stored, n) = Executables(stored, n - 1)
           /\ n \in Present(stored) /\ Executable(stored[n]) =>
                 Executables(stored, n) = Executables(stored, n - 1) \cup {n}
           /\ InvalidControl(stored, n) <=>
                 \/ InvalidControl(stored, n - 1)
                 \/ n \in Present(stored) /\ ~Executable(stored[n]) /\ IsControl(stored[n])
<1>1. \A p \in Paths : p <= n <=> p <= n - 1 \/ p = n
  <2>1. NumPaths \in Nat
    BY DEF RuleConstants
  <2> QED  BY <2>1 DEF Paths
<1>2. ~(n <= n - 1) /\ n \in Nat
  <2>1. NumPaths \in Nat
    BY DEF RuleConstants
  <2> QED  BY <2>1
<1>3. \A p \in Present(stored) : p \in Paths
  BY DEF Present
<1> QED  BY <1>1, <1>2, <1>3 DEF Executables, InvalidControl

LEMMA CompileNoteKeeps ==
    ASSUME RuleConstants, NEW stored, Typed(stored), NEW n \in 1..NumPaths,
           NEW compilation, CompiledTo(compilation, stored, n - 1), n \in Present(stored)
    PROVE  CompiledTo(CompileNote(compilation, [path |-> n, note |-> stored[n]]), stored, n)
<1> DEFINE note == stored[n]
           next == CompileNote(compilation, [path |-> n, note |-> note])
           twins == {r \in compilation.rules : r.id = note.id}
           before == Executables(stored, n - 1)
<1>1. note \in Note /\ n \in Paths
  BY DEF Present, Typed, Paths
<1>2. CompilesNotes(compilation.rules, stored, n - 1) /\ compilation.failed \in BOOLEAN
  BY DEF CompiledTo
<1>3. IsControl(note) \in BOOLEAN
  BY DEF IsControl
<1>4. /\ IsFiniteSet(compilation.rules)
      /\ Cardinality(compilation.rules) \in Nat /\ MaxRules \in Nat
  <2>1. IsFiniteSet(compilation.rules)
    BY <1>2 DEF CompilesNotes, IsIndex
  <2> QED  BY <2>1, FS_CardinalityType DEF RuleConstants
<1>5. CASE ~Executable(note)
  <2>1. next = [compilation EXCEPT !.failed = @ \/ IsControl(note)]
    BY <1>5 DEF CompileNote
  <2>2. next = [failed |-> compilation.failed \/ IsControl(note), rules |-> compilation.rules]
    BY <2>1 DEF CompiledTo
  <2>3. Executables(stored, n) = before
    BY <1>5, NextPath
  <2>4. InvalidControl(stored, n) <=> InvalidControl(stored, n - 1) \/ IsControl(note)
    BY <1>5, NextPath
  <2>5. CompilesNotes(compilation.rules, stored, n)
    BY <1>2, <2>3 DEF CompilesNotes
  <2>6. ClashingControl(stored, n) <=> ClashingControl(stored, n - 1)
    BY <2>3 DEF ClashingControl
  <2>7. next.failed = (compilation.failed \/ IsControl(note)) /\ next.rules = compilation.rules
    BY <2>2
  <2> QED  BY <2>2, <2>4, <2>5, <2>6, <2>7 DEF CompiledTo
<1>6. CASE Executable(note) /\ twins # {}
  <2>1. next = [compilation EXCEPT !.failed =
                   @ \/ IsControl(note) \/ \E r \in twins : r.control]
    BY <1>6, Zenon DEF CompileNote
  <2>2. next = [failed |-> compilation.failed \/ IsControl(note) \/ (\E r \in twins : r.control),
                rules |-> compilation.rules]
    BY <2>1 DEF CompiledTo
  <2>3. Executables(stored, n) = before \cup {n} /\ n \notin before
    BY <1>6, NextPath
  <2>4. InvalidControl(stored, n) <=> InvalidControl(stored, n - 1)
    BY <1>6, NextPath
  <2>5. \A r \in compilation.rules :
           r.path \in before /\ r.id = stored[r.path].id /\ r.control = IsControl(stored[r.path])
    BY <1>2 DEF CompilesNotes
  <2>6. CompilesNotes(compilation.rules, stored, n)
    BY <1>2, <1>6, <2>3 DEF CompilesNotes
  <2>7. ClashingControl(stored, n) <=>
           \/ ClashingControl(stored, n - 1)
           \/ IsControl(note)
           \/ \E r \in twins : r.control
    <3>1. ASSUME IsControl(note) PROVE ClashingControl(stored, n)
      <4>1. PICK r \in twins : TRUE
        BY <1>6
      <4>2. r.path \in before /\ note.id = stored[r.path].id
        BY <2>5
      <4> QED  BY <2>3, <3>1, <4>2 DEF ClashingControl
    <3>2. ASSUME NEW r \in twins, r.control PROVE ClashingControl(stored, n)
      <4>1. r.path \in before /\ note.id = stored[r.path].id /\ IsControl(stored[r.path])
        BY <2>5, <3>2
      <4> QED  BY <2>3, <4>1 DEF ClashingControl
    <3>3. ClashingControl(stored, n - 1) => ClashingControl(stored, n)
      BY <2>3 DEF ClashingControl
    <3>4. ASSUME ClashingControl(stored, n), ~IsControl(note), ~\E r \in twins : r.control
          PROVE  ClashingControl(stored, n - 1)
      <4>1. PICK p \in Executables(stored, n), o \in Executables(stored, n) :
               p # o /\ stored[p].id = stored[o].id /\ IsControl(stored[p])
        BY <3>4 DEF ClashingControl
      <4>2. p \in before
        BY <2>3, <3>4, <4>1
      <4>3. CASE o \in before
        BY <4>1, <4>2, <4>3 DEF ClashingControl
      <4>4. CASE o = n
        <5>1. PICK r \in compilation.rules : r.id = stored[p].id
          BY <1>2, <4>2 DEF CompilesNotes
        <5>2. r \in twins
          BY <4>1, <4>4, <5>1
        <5>3. r.path \in before /\ r.id = stored[r.path].id /\ ~IsControl(stored[r.path])
          BY <2>5, <3>4, <5>2
        <5>4. r.path # p
          BY <4>1, <5>3
        <5> QED  BY <4>1, <4>2, <5>1, <5>3, <5>4 DEF ClashingControl
      <4> QED  BY <2>3, <4>3, <4>4
    <3> QED  BY <3>1, <3>2, <3>3, <3>4
  <2>8. next.failed = (compilation.failed \/ IsControl(note) \/ (\E r \in twins : r.control))
        /\ next.rules = compilation.rules
    BY <2>2
  <2>9. next = [failed |-> next.failed, rules |-> next.rules]
    BY <2>2, <2>8
  <2> HIDE DEF next
  <2>10. next.failed \in BOOLEAN
    BY <1>2, <1>3, <2>8, Zenon
  <2>11. CompilesNotes(next.rules, stored, n)
    BY <2>6, <2>8
  <2>12. next.failed <=> \/ InvalidControl(stored, n)
                         \/ ClashingControl(stored, n)
                         \/ Cardinality(next.rules) > MaxRules
    <3>1. compilation.failed <=> \/ InvalidControl(stored, n - 1)
                                 \/ ClashingControl(stored, n - 1)
                                 \/ Cardinality(compilation.rules) > MaxRules
      BY DEF CompiledTo
    <3> HIDE DEF twins
    <3> QED  BY <2>4, <2>7, <2>8, <3>1, Zenon
  <2>13. CompiledTo(next, stored, n)
    BY <2>9, <2>10, <2>11, <2>12, Zenon DEF CompiledTo
  <2> QED  BY <2>13 DEF next
<1>7. CASE Executable(note) /\ twins = {}
  <2> DEFINE rule == Compiled(n, note)
  <2>1. next = [failed |-> compilation.failed \/ Cardinality(compilation.rules) >= MaxRules,
                rules |-> compilation.rules \cup {rule}]
    BY <1>7, Zenon DEF CompileNote
  <2>2. Executables(stored, n) = before \cup {n} /\ n \notin before
    BY <1>7, NextPath
  <2>3. InvalidControl(stored, n) <=> InvalidControl(stored, n - 1)
    BY <1>7, NextPath
  <2>4. rule \in Rule /\ rule.path = n /\ rule.id = note.id /\ rule.control = IsControl(note)
    BY <1>1, CompiledIsARule
  <2> HIDE DEF rule
  <2>5. \A r \in compilation.rules :
           r.path \in before /\ r.id = stored[r.path].id /\ r.control = IsControl(stored[r.path])
    BY <1>2 DEF CompilesNotes
  <2>6. \A r \in compilation.rules : r.path # n /\ r.id # note.id
    BY <1>7, <2>2, <2>5
  <2>7. rule \notin compilation.rules
    BY <2>4, <2>6
  <2>8. /\ IsFiniteSet(compilation.rules \cup {rule})
        /\ Cardinality(compilation.rules \cup {rule}) = Cardinality(compilation.rules) + 1
    BY <1>4, <2>7, FS_AddElement
  <2>9. IsIndex(compilation.rules \cup {rule})
    <3>1. compilation.rules \subseteq Rule
          /\ \A r, s \in compilation.rules : r.path = s.path => r = s
      BY <1>2 DEF CompilesNotes, IsIndex
    <3> QED  BY <2>4, <2>6, <2>8, <3>1 DEF IsIndex
  <2>10. CompilesNotes(compilation.rules \cup {rule}, stored, n)
    <3>1. \A r \in compilation.rules \cup {rule} :
             /\ r.path \in Executables(stored, n)
             /\ r.id = stored[r.path].id /\ r.control = IsControl(stored[r.path])
      BY <2>2, <2>4, <2>5
    <3>2. \A p \in Executables(stored, n) :
             \E r \in compilation.rules \cup {rule} : r.id = stored[p].id
      BY <1>2, <2>2, <2>4 DEF CompilesNotes
    <3>3. \A r, s \in compilation.rules \cup {rule} : r.id = s.id => r = s
      BY <1>2, <2>4, <2>6 DEF CompilesNotes
    <3> QED  BY <2>9, <3>1, <3>2, <3>3 DEF CompilesNotes
  <2>11. ClashingControl(stored, n) <=> ClashingControl(stored, n - 1)
    <3>1. \A p \in before : stored[p].id # note.id
      BY <1>2, <2>6 DEF CompilesNotes
    <3> QED  BY <2>2, <3>1 DEF ClashingControl
  <2>12. next.failed = (compilation.failed \/ Cardinality(compilation.rules) >= MaxRules)
         /\ next.rules = compilation.rules \cup {rule}
    BY <2>1
  <2>13. next = [failed |-> next.failed, rules |-> next.rules]
    BY <2>1, <2>12
  <2> HIDE DEF next
  <2>14. /\ Cardinality(next.rules) > MaxRules <=> Cardinality(compilation.rules) >= MaxRules
         /\ Cardinality(compilation.rules) > MaxRules => Cardinality(next.rules) > MaxRules
    BY <1>4, <2>8, <2>12
  <2>15. next.failed \in BOOLEAN
    <3>1. (Cardinality(compilation.rules) >= MaxRules) \in BOOLEAN
      BY <1>4
    <3> QED  BY <1>2, <2>12, <3>1, Zenon
  <2>16. CompilesNotes(next.rules, stored, n)
    BY <2>10, <2>12
  <2>17. next.failed <=> \/ InvalidControl(stored, n)
                         \/ ClashingControl(stored, n)
                         \/ Cardinality(next.rules) > MaxRules
    <3>1. compilation.failed <=> \/ InvalidControl(stored, n - 1)
                                 \/ ClashingControl(stored, n - 1)
                                 \/ Cardinality(compilation.rules) > MaxRules
      BY DEF CompiledTo
    <3> QED  BY <2>3, <2>11, <2>12, <2>14, <3>1, Zenon
  <2>18. CompiledTo(next, stored, n)
    BY <2>13, <2>15, <2>16, <2>17, Zenon DEF CompiledTo
  <2> QED  BY <2>18 DEF next
<1> QED  BY <1>5, <1>6, <1>7

LEMMA AfterPathKeeps ==
    ASSUME RuleConstants, NEW stored, Typed(stored), NEW n \in 1..NumPaths,
           NEW compilation, CompiledTo(compilation, stored, n - 1)
    PROVE  CompiledTo(AfterPath(compilation, stored, n), stored, n)
<1>1. CASE n \in Present(stored)
  BY <1>1, CompileNoteKeeps DEF AfterPath
<1>2. CASE n \notin Present(stored)
  <2>1. Executables(stored, n) = Executables(stored, n - 1)
    BY <1>2, NextPath
  <2>2. InvalidControl(stored, n) <=> InvalidControl(stored, n - 1)
    BY <1>2, NextPath
  <2>3. AfterPath(compilation, stored, n) = compilation
    BY <1>2 DEF AfterPath
  <2> QED  BY <2>1, <2>2, <2>3 DEF CompiledTo, CompilesNotes, ClashingControl
<1> QED  BY <1>1, <1>2

LEMMA CompileCompiles ==
    ASSUME RuleConstants, NEW stored, Typed(stored)
    PROVE  CompiledTo(Compile(stored), stored, NumPaths)
<1>1. NumPaths \in Nat /\ MaxRules \in Nat
  BY DEF RuleConstants
<1>2. PICK upTo : /\ upTo[0] = NoRules
                  /\ \A p \in 1..NumPaths : upTo[p] = AfterPath(upTo[p - 1], stored, p)
                  /\ Compile(stored) = upTo[NumPaths]
  BY <1>1, CompileIsTheLoop
<1>3. CompiledTo(upTo[0], stored, 0)
  <2>1. NoRules.failed = FALSE /\ NoRules.rules = {}
    BY DEF NoRules
  <2>2. \A p \in Present(stored) : ~(p <= 0)
    BY <1>1 DEF Present, Paths
  <2>3. IsFiniteSet({}) /\ Cardinality({}) = 0
    BY FS_EmptySet
  <2>4. CompilesNotes({}, stored, 0) /\ ~InvalidControl(stored, 0) /\ ~ClashingControl(stored, 0)
    BY <2>2, <2>3 DEF CompilesNotes, IsIndex, Executables, InvalidControl, ClashingControl
  <2>5. ~(Cardinality({}) > MaxRules)
    BY <1>1, <2>3
  <2>6. NoRules = [failed |-> NoRules.failed, rules |-> NoRules.rules]
    BY DEF NoRules
  <2> QED  BY <1>2, <2>1, <2>4, <2>5, <2>6 DEF CompiledTo
<1> DEFINE Broken == {n \in Nat : n <= NumPaths /\ ~CompiledTo(upTo[n], stored, n)}
<1>4. Broken = {}
  <2>1. SUFFICES ASSUME Broken # {} PROVE FALSE
    OBVIOUS
  <2>2. PICK n \in Broken : \A m \in Broken : n <= m
    <3>1. Broken \in SUBSET Nat
      OBVIOUS
    <3> QED  BY <2>1, <3>1, SmallestExists
  <2>3. n # 0
    BY <1>3
  <2>4. n \in 1..NumPaths /\ n - 1 \in Nat /\ n - 1 <= NumPaths /\ ~(n <= n - 1)
    BY <1>1, <2>3
  <2>5. CompiledTo(upTo[n - 1], stored, n - 1)
    BY <2>2, <2>4
  <2>6. CompiledTo(upTo[n], stored, n)
    BY <1>2, <2>4, <2>5, AfterPathKeeps
  <2> QED  BY <2>6
<1> QED  BY <1>1, <1>2, <1>4

\* There are as many rules as ids of executable notes.
LEMMA RulesCountIds ==
    ASSUME NEW index, NEW stored, NEW n, CompilesNotes(index, stored, n)
    PROVE  Cardinality({stored[p].id : p \in Executables(stored, n)}) = Cardinality(index)
<1> DEFINE ids == {stored[p].id : p \in Executables(stored, n)}
           idOf == [r \in index |-> r.id]
<1>1. \A r \in index : r.id \in ids
  BY DEF CompilesNotes
<1>2. \A i \in ids : \E r \in index : r.id = i
  BY DEF CompilesNotes
<1>3. \A r, s \in index : r.id = s.id => r = s
  BY DEF CompilesNotes
<1>4. idOf \in [index -> ids]
  BY <1>1
<1>5. idOf \in Bijection(index, ids)
  BY <1>2, <1>3, <1>4, Fun_IsBij
<1>6. ExistsBijection(index, ids)
  BY <1>5 DEF ExistsBijection
<1> QED  BY <1>6, FS_Bijection DEF CompilesNotes, IsIndex

\* A rebuild fails exactly on an invalid or ambiguous control policy or on too many rules.
LEMMA CompileFailsClosed ==
    ASSUME RuleConstants, Typed(notes)
    PROVE  ControlsFailClosed
<1> DEFINE executable == {p \in Present(notes) : Executable(notes[p])}
<1>1. CompiledTo(Compile(notes), notes, NumPaths)
  BY CompileCompiles
<1>2. \A p \in Present(notes) : p <= NumPaths
  BY DEF Present, Paths, RuleConstants
<1>3. executable = Executables(notes, NumPaths)
  BY <1>2 DEF Executables
<1>4. InvalidControl(notes, NumPaths) <=> \E p \in Present(notes) \ executable : IsControl(notes[p])
  BY <1>2 DEF InvalidControl
<1>5. Cardinality({notes[p].id : p \in executable}) = Cardinality(Compile(notes).rules)
  BY <1>1, <1>3, RulesCountIds DEF CompiledTo
<1> QED  BY <1>1, <1>3, <1>4, <1>5 DEF ControlsFailClosed, CompiledTo, ClashingControl

-----------------------------------------------------------------------------
\* The invariant of the gate: notes are notes, the index is one of distinct rules, and
\* the configuration holds known modes and a threshold.

Config == [autopilot: AutopilotModes, gateMode: GateModes, threshold: Nat]
GateInv == Typed(notes) /\ IsIndex(rules) /\ config \in Config

LEMMA GateInvInit ==
    ASSUME GateConstants, Init
    PROVE  GateInv
<1>1. Typed(notes)
  BY DEF Init, Typed
<1>2. IsIndex(rules)
  <2>1. IsFiniteSet({})
    BY FS_EmptySet
  <2> QED  BY <2>1 DEF Init, IsIndex
<1>3. config \in Config
  BY DEF Init, Config, AutopilotModes, GateModes
<1> QED  BY <1>1, <1>2, <1>3 DEF GateInv

LEMMA CompiledRulesAreAnIndex ==
    ASSUME RuleConstants, NEW stored, Typed(stored)
    PROVE  IsIndex(Compile(stored).rules)
BY CompileCompiles DEF CompiledTo, CompilesNotes

LEMMA GateInvStep ==
    ASSUME GateConstants, GateInv, [Next]_vars
    PROVE  GateInv'
<1>1. RuleConstants /\ NoteShapes \subseteq Note /\ Thresholds \subseteq Nat
  BY DEF GateConstants
<1>2. Typed(notes) /\ IsIndex(rules) /\ config \in Config
  BY DEF GateInv
<1>3. ASSUME NEW p \in Paths, NEW note \in NoteShapes, Apply(p, note) PROVE GateInv'
  <2>1. PICK stored : stored = notes'
    OBVIOUS
  <2>2. Typed(stored)
    BY <1>1, <1>2, <1>3, <2>1 DEF Apply, Typed
  <2>3. IsIndex(Compile(stored).rules)
    BY <1>1, <2>2, CompiledRulesAreAnIndex
  <2>4. rules' = IF Compile(stored).failed THEN rules ELSE Compile(stored).rules
    BY <1>3, <2>1 DEF Apply
  <2>5. PICK index : index = rules'
    OBVIOUS
  <2>6. IsIndex(index)
    BY <1>2, <2>3, <2>4, <2>5
  <2>7. Typed(notes') /\ IsIndex(rules')
    BY <2>1, <2>2, <2>5, <2>6
  <2>8. config' \in Config
    BY <1>2, <1>3 DEF Apply
  <2> QED  BY <2>7, <2>8 DEF GateInv
<1>4. ASSUME NEW p \in Paths, NEW note \in NoteShapes \cup {NoNote}, WriteNote(p, note)
      PROVE  GateInv'
  <2>1. Typed(notes')
    BY <1>1, <1>2, <1>4 DEF WriteNote, Typed
  <2> QED  BY <1>2, <1>4, <2>1 DEF WriteNote, GateInv
<1>5. CASE Rebuild
  <2>1. IsIndex(Compile(notes).rules)
    BY <1>1, <1>2, CompiledRulesAreAnIndex
  <2>2. rules' = Compile(notes).rules /\ notes' = notes /\ config' = config
    BY <1>5 DEF Rebuild
  <2> QED  BY <1>2, <2>1, <2>2 DEF GateInv
<1>6. ASSUME NEW mode \in AutopilotModes, NEW t \in Thresholds, SetAutopilot(mode, t)
      PROVE  GateInv'
  <2>1. config' \in Config
    BY <1>1, <1>2, <1>6 DEF SetAutopilot, Config
  <2> QED  BY <1>2, <1>6, <2>1 DEF SetAutopilot, GateInv
<1>7. ASSUME NEW mode \in GateModes, SetGateMode(mode)
      PROVE  GateInv'
  <2>1. config' \in Config
    BY <1>2, <1>7 DEF SetGateMode, Config
  <2> QED  BY <1>2, <1>7, <2>1 DEF SetGateMode, GateInv
<1>8. CASE UNCHANGED vars
  BY <1>2, <1>8 DEF vars, GateInv
<1> QED  BY <1>3, <1>4, <1>5, <1>6, <1>7, <1>8 DEF Next, Learn

LEMMA GateInvHolds ==
    ASSUME GateConstants
    PROVE  Spec => []GateInv
<1>1. Init => GateInv
  BY GateInvInit
<1>2. GateInv /\ [Next]_vars => GateInv'
  BY GateInvStep
<1> QED  BY <1>1, <1>2, PTL DEF Spec

\* rebuild: a rebuild fails exactly on an invalid control policy, on a control policy that
\* shares its id with another executable note, or on too many rules, whatever the order in
\* which load_notes lists the files and however many there are.
THEOREM RebuildFailsClosed ==
    ASSUME GateConstants
    PROVE  Spec => []ControlsFailClosed
<1>1. GateInv => ControlsFailClosed
  BY CompileFailsClosed DEF GateInv, GateConstants
<1> QED  BY <1>1, GateInvHolds, PTL

-----------------------------------------------------------------------------
\* What Evaluate and Predict hand out.

VerdictFor(v, index, q) ==
    /\ v = Verdict(v.outcome, v.selected, v.confidence)
    /\ v.confidence \in Int
    /\ v.outcome \notin {"proceed", "ask_user"} => v.selected = "none"
    /\ v.outcome = "proceed" =>
          \/ {"hook", "preToolUse"} \subseteq q.flags
          \/ /\ v.selected \in Options(q)
             /\ \E r \in index : InReach(r, q) /\ Fits(v.selected, r)

LEMMA VerdictFields ==
    ASSUME NEW outcome, NEW selected, NEW confidence
    PROVE  LET v == Verdict(outcome, selected, confidence) IN
           /\ v = Verdict(v.outcome, v.selected, v.confidence)
           /\ v.outcome = outcome /\ v.selected = selected /\ v.confidence = confidence
BY DEF Verdict

\* choose_learned_option: the option it takes is offered, and the rule does not reject it.
LEMMA ChosenFits ==
    ASSUME NEW options \in Seq(Texts), NEW rule, Choose(options, rule) # "none"
    PROVE  /\ Fits(Choose(options, rule), rule)
           /\ \E i \in DOMAIN options : Choose(options, rule) = options[i]
<1> DEFINE fitting == {i \in DOMAIN options : Fits(options[i], rule)}
<1>1. Choose(options, rule) = IF fitting = {} THEN "none" ELSE options[Min(fitting)]
  BY Zenon DEF Choose
<1>2. fitting # {}
  BY <1>1
<1>3. fitting \in SUBSET Nat
  <2>1. DOMAIN options \in SUBSET Nat
    BY LenProperties
  <2> QED  BY <2>1
<1>4. Min(fitting) \in fitting
  BY <1>2, <1>3, MinIsSmallest
<1> QED  BY <1>1, <1>2, <1>4

LEMMA ConfidenceIsInt ==
    ASSUME RuleConstants, NEW index, IsIndex(index), NEW q \in Request, NEW res,
           res.rule \in index, res.margin \in Int
    PROVE  Confidence(res, q) \in Int
<1>1. PICK r \in index : r = res.rule
  OBVIOUS
<1>2. /\ Score(r, q) \in Int /\ ScopeExact(r, q) \in Int
      /\ r.base \in Int /\ r.evidence \in Int
  BY NumbersOfRules
<1>3. \A a, b \in Int : AtMost(a, b) \in Int /\ AtLeast(a, b) \in Int
  BY DEF AtMost, AtLeast
<1>4. AtLeast(1, AtMost(4, r.evidence)) \in Int /\ AtMost(20, res.margin) \in Int
  <2>1. 1 \in Int /\ 4 \in Int /\ 20 \in Int
    OBVIOUS
  <2>2. AtMost(4, r.evidence) \in Int /\ AtMost(20, res.margin) \in Int
    BY <1>2, <1>3, <2>1, Zenon
  <2> QED  BY <1>3, <2>1, <2>2, Zenon
<1> DEFINE sum == 4000 + Score(res.rule, q) * 45 + res.rule.base * 8
                  + (IF res.exact THEN 500 ELSE 0)
                  + AtLeast(1, AtMost(4, res.rule.evidence)) * 100
                  + (IF res.rule.priority >= 300 THEN 200 ELSE 0)
                  + ScopeExact(res.rule, q) * 200
                  + AtMost(20, res.margin) * 10
<1>5. sum \in Int
  BY <1>1, <1>2, <1>4
<1>6. Confidence(res, q) = AtMost(9700, sum)
  BY Zenon DEF Confidence
<1> QED  BY <1>3, <1>5, <1>6

LEMMA RuleVerdictIsFor ==
    ASSUME RuleConstants, NEW index, IsIndex(index), NEW q \in Request, NEW res,
           ResolutionOf(index, q, res), res.kind # "NoMatch"
    PROVE  VerdictFor(RuleVerdict(res, q), index, q)
<1> DEFINE selected == Choose(q.options, res.rule)
           confidence == Confidence(res, q)
           v == RuleVerdict(res, q)
<1>1. /\ res.kind \in {"Applicable", "OptionMismatch", "Ambiguous"}
      /\ res.rule \in index /\ InReach(res.rule, q) /\ res.margin \in Int
  BY DEF ResolutionOf
<1>2. confidence \in Int
  BY <1>1, ConfidenceIsInt
<1>3. AtMost(6500, confidence) \in Int
  <2> HIDE DEF confidence
  <2> QED  BY <1>2 DEF AtMost
<1>4. q.options \in Seq(Texts)
  BY DEF Request
<1>5. selected # "none" =>
         /\ selected \in Options(q)
         /\ \E r \in index : InReach(r, q) /\ Fits(selected, r)
  <2> SUFFICES ASSUME selected # "none"
               PROVE  /\ selected \in Options(q)
                      /\ Fits(selected, res.rule)
    BY <1>1
  <2>1. Fits(selected, res.rule) /\ \E i \in DOMAIN q.options : selected = q.options[i]
    BY <1>4, ChosenFits
  <2> QED  BY <2>1 DEF Options
<1>6. \E outcome \in {"proceed", "ask_user"}, c \in Int : \E s :
         v = Verdict(outcome, s, c) /\ (outcome = "proceed" => s = selected /\ s # "none")
  <2>1. CASE res.kind = "Applicable"
    <3>1. v = IF res.rule.chosen \in AskTexts THEN Verdict("ask_user", selected, confidence)
              ELSE IF selected # "none" THEN Verdict("proceed", selected, confidence)
              ELSE Verdict("ask_user", "none", confidence)
      BY <2>1 DEF RuleVerdict
    <3> HIDE DEF v, selected, confidence
    <3> QED  BY <1>2, <3>1
  <2>2. CASE res.kind = "OptionMismatch"
    <3>1. v = Verdict("ask_user", "none", confidence)
      BY <2>2 DEF RuleVerdict
    <3> HIDE DEF v, confidence
    <3> QED  BY <1>2, <3>1
  <2>3. CASE res.kind = "Ambiguous"
    <3>1. v = Verdict("ask_user", "none", AtMost(6500, confidence))
      BY <2>3 DEF RuleVerdict
    <3> HIDE DEF v, confidence
    <3> QED  BY <1>3, <3>1
  <2> QED  BY <1>1, <2>1, <2>2, <2>3
<1> HIDE DEF v, selected
<1>7. PICK outcome \in {"proceed", "ask_user"}, c \in Int : \E s :
         v = Verdict(outcome, s, c) /\ (outcome = "proceed" => s = selected /\ s # "none")
  BY <1>6
<1>8. PICK s : v = Verdict(outcome, s, c) /\ (outcome = "proceed" => s = selected /\ s # "none")
  BY <1>7
<1>9. /\ v = Verdict(v.outcome, v.selected, v.confidence)
      /\ v.outcome = outcome /\ v.selected = s /\ v.confidence = c
  BY <1>8, VerdictFields
<1>10. VerdictFor(v, index, q)
  BY <1>5, <1>8, <1>9 DEF VerdictFor
<1> QED  BY <1>10 DEF v

LEMMA EvaluateIsFor ==
    ASSUME RuleConstants, NEW index, IsIndex(index), NEW q \in Request, NEW res,
           ResolutionOf(index, q, res)
    PROVE  VerdictFor(Evaluate(res, q), index, q)
<1>1. ASSUME NEW outcome, NEW selected, NEW confidence \in Int,
             outcome \notin {"proceed", "ask_user"} => selected = "none",
             outcome = "proceed" => {"hook", "preToolUse"} \subseteq q.flags
      PROVE  VerdictFor(Verdict(outcome, selected, confidence), index, q)
  <2> DEFINE v == Verdict(outcome, selected, confidence)
  <2>1. /\ v = Verdict(v.outcome, v.selected, v.confidence)
        /\ v.outcome = outcome /\ v.selected = selected /\ v.confidence = confidence
    BY VerdictFields
  <2> HIDE DEF v
  <2>2. VerdictFor(v, index, q)
    BY <1>1, <2>1 DEF VerdictFor
  <2> QED  BY <2>2 DEF v
<1>2. /\ VerdictFor(Verdict("needs_more_context", "none", 2000), index, q)
      /\ VerdictFor(Verdict("block", "none", 9900), index, q)
      /\ VerdictFor(Verdict("block", "none", 9600), index, q)
      /\ VerdictFor(Verdict("no_action", "none", 9500), index, q)
      /\ VerdictFor(Verdict("no_action", "none", 8400), index, q)
      /\ VerdictFor(Ask, index, q)
  BY <1>1 DEF Ask
<1>3. {"hook", "preToolUse"} \subseteq q.flags =>
         VerdictFor(Verdict("proceed", "none", 9500), index, q)
  BY <1>1
<1>4. res.kind # "NoMatch" => VerdictFor(RuleVerdict(res, q), index, q)
  BY RuleVerdictIsFor
<1>5. VerdictFor(DefaultVerdict(q), index, q)
  BY <1>2 DEF DefaultVerdict
<1> QED  BY <1>2, <1>3, <1>4, <1>5 DEF Evaluate

\* The threshold turns a proceed into a question and changes nothing else.
LEMMA ThresholdedIsFor ==
    ASSUME NEW index, NEW q, NEW v, VerdictFor(v, index, q), NEW cfg
    PROVE  /\ VerdictFor(Thresholded(v, cfg), index, q)
           /\ Thresholded(v, cfg).outcome = "proceed" =>
                 /\ Thresholded(v, cfg) = v /\ v.outcome = "proceed"
                 /\ ~(v.confidence < cfg.threshold)
<1>1. CASE v.outcome = "proceed" /\ v.confidence < cfg.threshold
  <2>1. Thresholded(v, cfg) = [v EXCEPT !.outcome = "ask_user"]
    BY <1>1 DEF Thresholded
  <2>2. Thresholded(v, cfg) = Verdict("ask_user", v.selected, v.confidence)
    BY <2>1 DEF VerdictFor, Verdict
  <2> DEFINE w == Verdict("ask_user", v.selected, v.confidence)
  <2>3. /\ w = Verdict(w.outcome, w.selected, w.confidence)
        /\ w.outcome = "ask_user" /\ w.confidence = v.confidence
    BY VerdictFields
  <2> HIDE DEF w
  <2>4. VerdictFor(w, index, q)
    BY <2>3 DEF VerdictFor
  <2> QED  BY <2>2, <2>3, <2>4 DEF w
<1>2. CASE ~(v.outcome = "proceed" /\ v.confidence < cfg.threshold)
  <2>1. Thresholded(v, cfg) = v
    BY <1>2 DEF Thresholded
  <2> QED  BY <1>2, <2>1
<1> QED  BY <1>1, <1>2

LEMMA PredictIsFor ==
    ASSUME RuleConstants, NEW index, IsIndex(index), NEW q \in Request, NEW cfg
    PROVE  VerdictFor(Predict(index, q, cfg), index, q)
<1>1. VerdictFor(Evaluate(Resolve(index, q), q), index, q)
  BY ResolveNamesARule, EvaluateIsFor
<1> QED  BY <1>1, ThresholdedIsFor DEF Predict

\* What enforcement hands out: nothing while in shadow, and a proceed only when neither
\* shadow nor a stop is on, unchanged.
LEMMA EnforceKeeps ==
    ASSUME NEW index, NEW q, NEW v, VerdictFor(v, index, q), NEW cfg
    PROVE  /\ Shadow(cfg) => /\ Enforce(v, q, cfg).outcome # "proceed"
                             /\ Enforce(v, q, cfg).selected = "none"
           /\ Enforce(v, q, cfg).outcome = "proceed" =>
                 Enforce(v, q, cfg) = v /\ ~Shadow(cfg) /\ ~Stopped(q, cfg)
           /\ ~Shadow(cfg) /\ ~Stopped(q, cfg) => Enforce(v, q, cfg) = v
<1> DEFINE hidden == [v EXCEPT !.outcome = "ask_user", !.selected = "none"]
           asked == [v EXCEPT !.outcome = "ask_user"]
<1>1. hidden.outcome = "ask_user" /\ hidden.selected = "none" /\ asked.outcome = "ask_user"
  BY DEF VerdictFor, Verdict
<1>2. Enforce(v, q, cfg) =
         IF Shadow(cfg) /\ v.outcome \in {"proceed", "ask_user"} THEN hidden
         ELSE IF Stopped(q, cfg) /\ v.outcome = "proceed" THEN asked ELSE v
  BY Zenon DEF Enforce
<1>3. v.outcome \notin {"proceed", "ask_user"} => v.selected = "none"
  BY DEF VerdictFor
<1> HIDE DEF hidden, asked
<1> QED  BY <1>1, <1>2, <1>3

LEMMA AnswerFields ==
    ASSUME NEW index, NEW q, NEW cfg
    PROVE  LET predicted == Predict(index, q, cfg)
               enforced == Enforce(predicted, q, cfg) IN
           /\ Decide(index, q, cfg) = Answer(predicted, enforced)
           /\ Decide(index, q, cfg).outcome = enforced.outcome
           /\ Decide(index, q, cfg).selected = enforced.selected
           /\ Decide(index, q, cfg).predictedOutcome = predicted.outcome
           /\ Decide(index, q, cfg).predictedSelected = predicted.selected
BY DEF Decide, Answer

LEMMA GateProceedsOnLearned ==
    ASSUME GateConstants, GateInv
    PROVE  ProceedsOnLearnedOption
<1>1. RuleConstants /\ Requests \subseteq Request /\ IsIndex(rules)
  BY DEF GateConstants, GateInv
<1> SUFFICES ASSUME NEW q \in Requests, Decide(rules, q, config).outcome = "proceed"
             PROVE  \/ {"hook", "preToolUse"} \subseteq q.flags
                    \/ /\ Decide(rules, q, config).selected \in Options(q)
                       /\ \E r \in rules : /\ InReach(r, q)
                                           /\ Fits(Decide(rules, q, config).selected, r)
  BY DEF ProceedsOnLearnedOption
<1> DEFINE v == Predict(rules, q, config)
<1>2. VerdictFor(v, rules, q)
  BY <1>1, PredictIsFor
<1>3. Enforce(v, q, config).outcome = "proceed"
      /\ Decide(rules, q, config).selected = Enforce(v, q, config).selected
  BY AnswerFields
<1> HIDE DEF v
<1>4. Enforce(v, q, config) = v /\ v.outcome = "proceed"
  BY <1>2, <1>3, EnforceKeeps
<1> QED  BY <1>2, <1>3, <1>4 DEF VerdictFor

\* choose_learned_option and evaluate_with_context: a gate that proceeds was asked by a host
\* hook about a tool call, or takes an offered option that an active rule within the type and
\* scope of the request has learned and does not reject, for every index and configuration.
THEOREM ProceedsTakeLearnedOptions ==
    ASSUME GateConstants
    PROVE  Spec => []ProceedsOnLearnedOption
<1>1. GateInv => ProceedsOnLearnedOption
  BY GateProceedsOnLearned
<1> QED  BY <1>1, GateInvHolds, PTL

LEMMA GateCautionIsMonotonic ==
    ASSUME GateConstants, GateInv
    PROVE  CautionIsMonotonic
<1>1. /\ RuleConstants /\ Requests \subseteq Request /\ Thresholds \subseteq Nat
      /\ IsIndex(rules) /\ config \in Config
  BY DEF GateConstants, GateInv
<1> SUFFICES ASSUME NEW mode \in AutopilotModes, NEW t \in Thresholds,
                    NoBolder(config, [autopilot |-> mode, gateMode |-> "active",
                                      threshold |-> t]),
                    NEW q \in Requests, Decide(rules, q, config).outcome = "proceed"
             PROVE  Decide(rules, q, [autopilot |-> mode, gateMode |-> "active",
                                      threshold |-> t]) = Decide(rules, q, config)
  BY DEF CautionIsMonotonic
<1> DEFINE bolder == [autopilot |-> mode, gateMode |-> "active", threshold |-> t]
           evaluated == Evaluate(Resolve(rules, q), q)
           v == Predict(rules, q, config)
           w == Predict(rules, q, bolder)
<1>2. bolder.autopilot = mode /\ bolder.gateMode = "active" /\ bolder.threshold = t
  OBVIOUS
<1>3. /\ config.threshold \in Nat /\ config.autopilot \in AutopilotModes
      /\ config.gateMode \in GateModes
  BY <1>1 DEF Config
<1>4. NoBolder(config, bolder)
  OBVIOUS
<1> HIDE DEF bolder
<1>5. v = Thresholded(evaluated, config) /\ w = Thresholded(evaluated, bolder)
  BY DEF Predict
<1>6. VerdictFor(evaluated, rules, q)
  BY <1>1, ResolveNamesARule, EvaluateIsFor
<1>7. /\ Decide(rules, q, config) = Answer(v, Enforce(v, q, config))
      /\ Decide(rules, q, bolder) = Answer(w, Enforce(w, q, bolder))
      /\ Enforce(v, q, config).outcome = "proceed"
  BY AnswerFields
<1> HIDE DEF evaluated, v, w
<1>8. VerdictFor(v, rules, q)
  BY <1>5, <1>6, ThresholdedIsFor
<1>9. Enforce(v, q, config) = v /\ ~Shadow(config) /\ ~Stopped(q, config) /\ v.outcome = "proceed"
  BY <1>7, <1>8, EnforceKeeps
<1>10. v = evaluated /\ evaluated.outcome = "proceed" /\ ~(evaluated.confidence < config.threshold)
  BY <1>5, <1>6, <1>9, ThresholdedIsFor
<1>11. ~(evaluated.confidence < t)
  <2>1. t \in Nat /\ config.threshold >= t /\ evaluated.confidence \in Int
    BY <1>1, <1>2, <1>4, <1>6 DEF NoBolder, VerdictFor
  <2> QED  BY <1>3, <1>10, <2>1
<1>12. w = evaluated
  BY <1>2, <1>5, <1>11 DEF Thresholded
<1>13. config.autopilot \in {"conservative", "balanced"}
  BY <1>3, <1>9 DEF Shadow, Stopped, AutopilotModes
<1>14. mode \in {"conservative", "balanced"}
  <2>1. Autonomy(config.autopilot) \in {1, 2}
    BY <1>13 DEF Autonomy
  <2>2. mode \notin {"conservative", "balanced"} => Autonomy(mode) = 0
    BY DEF Autonomy
  <2>3. Autonomy(config.autopilot) <= Autonomy(mode)
    BY <1>2, <1>4 DEF NoBolder
  <2> QED  BY <2>1, <2>2, <2>3
<1>15. ~Shadow(bolder) /\ ~Stopped(q, bolder)
  BY <1>2, <1>9, <1>14 DEF Shadow, Stopped
<1>16. Enforce(w, q, bolder) = w
  BY <1>6, <1>12, <1>15, EnforceKeeps
<1>17. Decide(rules, q, bolder) = Decide(rules, q, config)
  BY <1>7, <1>9, <1>10, <1>12, <1>16
<1> QED  BY <1>17 DEF bolder

\* evaluate_with_context: under a more cautious configuration (a lower autonomy, a higher
\* threshold, a gate that is not active) the gate proceeds with nothing that it would not
\* proceed with, in the same way, under a bolder one.
THEOREM CautionTakesNothingNew ==
    ASSUME GateConstants
    PROVE  Spec => []CautionIsMonotonic
<1>1. GateInv => CautionIsMonotonic
  BY GateCautionIsMonotonic
<1> QED  BY <1>1, GateInvHolds, PTL

-----------------------------------------------------------------------------
\* What the gate predicts reads everything of a request but who has stopped the process.

Alike(a, b) ==
    /\ a.flags = b.flags /\ a.risk = b.risk /\ a.reversible = b.reversible
    /\ a.situation = b.situation /\ a.type = b.type /\ a.scope = b.scope
    /\ a.options = b.options

LEMMA AlikeRules ==
    ASSUME NEW a, NEW b, Alike(a, b), NEW r
    PROVE  /\ InReach(r, a) <=> InReach(r, b)
           /\ Score(r, a) = Score(r, b)
           /\ ScopeExact(r, a) = ScopeExact(r, b) /\ TypeExact(r, a) = TypeExact(r, b)
           /\ Available(a, r.chosen) <=> Available(b, r.chosen)
           /\ Choosable(r, a) = Choosable(r, b)
           /\ ResolutionKey(r, a) = ResolutionKey(r, b)
<1>1. a.situation = b.situation /\ a.type = b.type /\ a.scope = b.scope /\ a.options = b.options
  BY DEF Alike
<1>2. InReach(r, a) <=> InReach(r, b)
  BY <1>1 DEF InReach
<1>3. Score(r, a) = Score(r, b)
  BY <1>1 DEF Score
<1>4. ScopeExact(r, a) = ScopeExact(r, b) /\ TypeExact(r, a) = TypeExact(r, b)
  BY <1>1 DEF ScopeExact, TypeExact
<1>5. Options(a) = Options(b)
  BY <1>1 DEF Options
<1>6. Available(a, r.chosen) <=> Available(b, r.chosen)
  BY <1>5 DEF Available
<1>7. Choosable(r, a) = Choosable(r, b)
  BY <1>6 DEF Choosable
<1> QED  BY <1>2, <1>3, <1>4, <1>6, <1>7 DEF ResolutionKey

LEMMA AlikeExact ==
    ASSUME NEW index, NEW a, NEW b, Alike(a, b)
    PROVE  ExactCandidates(index, a) = ExactCandidates(index, b)
<1> DEFINE exact(q) == {r \in index : InReach(r, q) /\ r.situation = q.situation}
           offered(q) == {r \in exact(q) : Available(q, r.chosen)}
           rowKey(q) == [r \in exact(q) |->
               <<ScopeExact(r, q), TypeExact(r, q), r.priority, r.path>>]
           choiceKey(q) == [r \in exact(q) |->
               <<ScopeExact(r, q), TypeExact(r, q), -Order[Norm[r.chosen]], r.path>>]
           found(E, O, row, choice) ==
               IF O # {} THEN BestPerChoice(O, row)
               ELSE IF E = {} THEN {}
               ELSE {Best({r \in E : Norm[r.chosen] = Norm[Best(E, choice).chosen]}, row)}
<1>1. \A r : /\ InReach(r, a) <=> InReach(r, b)
             /\ ScopeExact(r, a) = ScopeExact(r, b) /\ TypeExact(r, a) = TypeExact(r, b)
             /\ Available(a, r.chosen) <=> Available(b, r.chosen)
  BY AlikeRules
<1>2. a.situation = b.situation
  BY DEF Alike
<1>3. exact(a) = exact(b)
  BY <1>1, <1>2
<1>4. offered(a) = offered(b)
  BY <1>1, <1>3
<1>5. rowKey(a) = rowKey(b)
  BY <1>1, <1>3
<1>6. choiceKey(a) = choiceKey(b)
  BY <1>1, <1>3
<1>7. ExactCandidates(index, a) = found(exact(a), offered(a), rowKey(a), choiceKey(a))
  BY Zenon DEF ExactCandidates
<1>8. ExactCandidates(index, b) = found(exact(b), offered(b), rowKey(b), choiceKey(b))
  BY Zenon DEF ExactCandidates
<1> HIDE DEF exact, offered, rowKey, choiceKey, found
<1> QED  BY <1>3, <1>4, <1>5, <1>6, <1>7, <1>8

LEMMA AlikeFuzzy ==
    ASSUME NEW index, NEW a, NEW b, Alike(a, b)
    PROVE  FuzzyCandidates(index, a) = FuzzyCandidates(index, b)
<1> DEFINE eligible(q) == {r \in index : InReach(r, q) /\ Score(r, q) >= MinRuleScore}
           rowKey(q) == [r \in eligible(q) |->
               <<Score(r, q), ScopeExact(r, q), TypeExact(r, q), r.priority, r.path>>]
           choiceKey(q) == [r \in eligible(q) |->
               <<Score(r, q), ScopeExact(r, q), TypeExact(r, q), r.priority,
                 -Order[Norm[r.chosen]], r.path>>]
           best(q) == BestPerChoice(eligible(q), rowKey(q))
           offered(q) == {r \in best(q) : Available(q, r.chosen)}
           others(q) == {r \in best(q) \ offered(q) : Score(r, q) >= MinMismatchScore}
<1>1. \A r : /\ InReach(r, a) <=> InReach(r, b)
             /\ Score(r, a) = Score(r, b)
             /\ ScopeExact(r, a) = ScopeExact(r, b) /\ TypeExact(r, a) = TypeExact(r, b)
             /\ Available(a, r.chosen) <=> Available(b, r.chosen)
  BY AlikeRules
<1>2. eligible(a) = eligible(b)
  BY <1>1
<1>3. rowKey(a) = rowKey(b)
  BY <1>1, <1>2
<1>4. choiceKey(a) = choiceKey(b)
  BY <1>1, <1>2
<1>5. best(a) = best(b)
  <2> HIDE DEF eligible, rowKey
  <2> QED  BY <1>2, <1>3
<1> HIDE DEF best
<1>6. offered(a) = offered(b)
  BY <1>1, <1>5
<1>7. others(a) = others(b)
  <2> HIDE DEF offered
  <2> QED  BY <1>1, <1>5, <1>6
<1>8. /\ FuzzyCandidates(index, a) = offered(a) \cup Top(others(a), MaxUnavailable, choiceKey(a))
      /\ FuzzyCandidates(index, b) = offered(b) \cup Top(others(b), MaxUnavailable, choiceKey(b))
  BY Zenon DEF FuzzyCandidates, best
<1> HIDE DEF offered, others, choiceKey
<1> QED  BY <1>4, <1>6, <1>7, <1>8

LEMMA AlikeResolveCandidates ==
    ASSUME NEW S, NEW a, NEW b, Alike(a, b), NEW exact
    PROVE  ResolveCandidates(S, a, exact) = ResolveCandidates(S, b, exact)
<1> DEFINE key(T, q) == [r \in T |-> ResolutionKey(r, q)]
           best(q) == Best(S, key(S, q))
           rivals(q) == {r \in S : Norm[r.chosen] # Norm[best(q).chosen]}
           rival(q) == Best(rivals(q), key(rivals(q), q))
           margin(q) == IF rivals(q) = {} THEN 0 ELSE Score(best(q), q) - Score(rival(q), q)
           resolved(q) ==
               IF S = {} THEN NoMatch
               ELSE IF rivals(q) # {} /\ EquallyRelevant(best(q), rival(q), q)
               THEN Resolution("Ambiguous", best(q), margin(q), exact)
               ELSE IF Available(q, best(q).chosen)
               THEN Resolution("Applicable", best(q), margin(q), exact)
               ELSE IF exact \/ Score(best(q), q) >= MinMismatchScore
               THEN Resolution("OptionMismatch", best(q), margin(q), exact)
               ELSE NoMatch
<1>1. \A T : key(T, a) = key(T, b)
  <2>1. \A r : ResolutionKey(r, a) = ResolutionKey(r, b)
    BY AlikeRules
  <2> QED  BY <2>1
<1> HIDE DEF key
<1>2. best(a) = best(b)
  BY <1>1
<1> HIDE DEF best
<1>3. rivals(a) = rivals(b)
  BY <1>2
<1> HIDE DEF rivals
<1>4. rival(a) = rival(b)
  BY <1>1, <1>3
<1> HIDE DEF rival
<1>5. \A r : Score(r, a) = Score(r, b) /\ (Available(a, r.chosen) <=> Available(b, r.chosen))
  BY AlikeRules
<1>6. margin(a) = margin(b)
  BY <1>2, <1>3, <1>4, <1>5
<1> HIDE DEF margin
<1>7. EquallyRelevant(best(a), rival(a), a) <=> EquallyRelevant(best(b), rival(b), b)
  <2>1. \A r : /\ Score(r, a) = Score(r, b) /\ ScopeExact(r, a) = ScopeExact(r, b)
               /\ TypeExact(r, a) = TypeExact(r, b) /\ Choosable(r, a) = Choosable(r, b)
    BY AlikeRules
  <2> QED  BY <1>2, <1>4, <2>1 DEF EquallyRelevant
<1>8. resolved(a) = resolved(b)
  BY <1>2, <1>3, <1>5, <1>6, <1>7
<1>9. /\ ResolveCandidates(S, a, exact) = resolved(a)
      /\ ResolveCandidates(S, b, exact) = resolved(b)
  BY Zenon DEF ResolveCandidates, key, best, rivals, rival, margin
<1> HIDE DEF resolved
<1> QED  BY <1>8, <1>9

LEMMA AlikeResolve ==
    ASSUME NEW index, NEW a, NEW b, Alike(a, b)
    PROVE  Resolve(index, a) = Resolve(index, b)
<1>1. /\ ExactCandidates(index, a) = ExactCandidates(index, b)
      /\ FuzzyCandidates(index, a) = FuzzyCandidates(index, b)
  BY AlikeExact, AlikeFuzzy
<1>2. \A S, exact : ResolveCandidates(S, a, exact) = ResolveCandidates(S, b, exact)
  BY AlikeResolveCandidates
<1> QED  BY <1>1, <1>2 DEF Resolve

LEMMA AlikeEvaluate ==
    ASSUME NEW res, NEW a, NEW b, Alike(a, b)
    PROVE  Evaluate(res, a) = Evaluate(res, b)
<1>1. a.flags = b.flags /\ a.risk = b.risk /\ a.reversible = b.reversible /\ a.options = b.options
  BY DEF Alike
<1>2. HighRisk(a) <=> HighRisk(b)
  BY <1>1 DEF HighRisk
<1>3. DefaultVerdict(a) = DefaultVerdict(b)
  BY <1>1 DEF DefaultVerdict
<1>4. Confidence(res, a) = Confidence(res, b)
  <2>1. Score(res.rule, a) = Score(res.rule, b) /\ ScopeExact(res.rule, a) = ScopeExact(res.rule, b)
    BY AlikeRules
  <2> QED  BY <2>1 DEF Confidence
<1>5. RuleVerdict(res, a) = RuleVerdict(res, b)
  <2> DEFINE of(options, confidence) ==
                 LET selected == Choose(options, res.rule) IN
                 CASE res.kind = "Applicable" ->
                         IF res.rule.chosen \in AskTexts
                         THEN Verdict("ask_user", selected, confidence)
                         ELSE IF selected # "none" THEN Verdict("proceed", selected, confidence)
                         ELSE Verdict("ask_user", "none", confidence)
                   [] res.kind = "OptionMismatch" -> Verdict("ask_user", "none", confidence)
                   [] res.kind = "Ambiguous" ->
                         Verdict("ask_user", "none", AtMost(6500, confidence))
  <2>1. /\ RuleVerdict(res, a) = of(a.options, Confidence(res, a))
        /\ RuleVerdict(res, b) = of(b.options, Confidence(res, b))
    BY DEF RuleVerdict
  <2> HIDE DEF of
  <2> QED  BY <1>1, <1>4, <2>1
<1> QED  BY <1>1, <1>2, <1>3, <1>5 DEF Evaluate

LEMMA AlikePredict ==
    ASSUME NEW index, NEW a, NEW b, Alike(a, b), NEW c, NEW d, c.threshold = d.threshold
    PROVE  Predict(index, a, c) = Predict(index, b, d)
<1>1. Resolve(index, a) = Resolve(index, b)
  BY AlikeResolve
<1>2. Evaluate(Resolve(index, a), a) = Evaluate(Resolve(index, b), b)
  BY <1>1, AlikeEvaluate
<1>3. \A v : Thresholded(v, c) = Thresholded(v, d)
  BY DEF Thresholded
<1> QED  BY <1>2, <1>3 DEF Predict

LEMMA GateShadowPredicts ==
    ASSUME GateConstants, GateInv
    PROVE  ShadowPredictsEnforcement
<1>1. RuleConstants /\ Requests \subseteq Request /\ IsIndex(rules) /\ config \in Config
  BY DEF GateConstants, GateInv
<1> SUFFICES ASSUME Shadow(config), NEW q \in Requests
             PROVE  LET decided == Decide(rules, q, config)
                        live == [config EXCEPT !.autopilot = "balanced", !.gateMode = "active"]
                        enforced == Decide(rules, [q EXCEPT !.override = FALSE], live) IN
                    /\ decided.outcome # "proceed" /\ decided.selected = "none"
                    /\ decided.predictedOutcome = enforced.outcome
                    /\ decided.predictedSelected = enforced.selected
  BY DEF ShadowPredictsEnforcement
<1> DEFINE live == [config EXCEPT !.autopilot = "balanced", !.gateMode = "active"]
           asked == [q EXCEPT !.override = FALSE]
           v == Predict(rules, q, config)
           w == Predict(rules, asked, live)
<1>2. asked \in Request /\ Alike(q, asked) /\ asked.override = FALSE
  <2>1. q \in Request
    BY <1>1
  <2> QED  BY <2>1 DEF Request, Alike
<1>3. /\ live.autopilot = "balanced" /\ live.gateMode = "active"
      /\ live.threshold = config.threshold
  BY <1>1 DEF Config
<1> HIDE DEF live, asked
<1>4. v = w
  BY <1>2, <1>3, AlikePredict
<1>5. VerdictFor(v, rules, q) /\ VerdictFor(w, rules, asked)
  BY <1>1, <1>2, PredictIsFor
<1>6. /\ Decide(rules, q, config).outcome = Enforce(v, q, config).outcome
      /\ Decide(rules, q, config).selected = Enforce(v, q, config).selected
      /\ Decide(rules, q, config).predictedOutcome = v.outcome
      /\ Decide(rules, q, config).predictedSelected = v.selected
  BY AnswerFields
<1>7. /\ Decide(rules, asked, live).outcome = Enforce(w, asked, live).outcome
      /\ Decide(rules, asked, live).selected = Enforce(w, asked, live).selected
  BY AnswerFields
<1> HIDE DEF v, w
<1>8. Enforce(v, q, config).outcome # "proceed" /\ Enforce(v, q, config).selected = "none"
  BY <1>5, EnforceKeeps
<1>9. ~Shadow(live) /\ ~Stopped(asked, live)
  BY <1>2, <1>3 DEF Shadow, Stopped
<1>10. Enforce(w, asked, live) = w
  BY <1>5, <1>9, EnforceKeeps
<1> QED  BY <1>4, <1>6, <1>7, <1>8, <1>10 DEF live, asked

\* evaluate_with_context: in shadow mode the gate hands out nothing, and what it says it would
\* have done is what the same index does when the gate is enforced with no process stopped.
THEOREM ShadowPredictsAndHandsOutNothing ==
    ASSUME GateConstants
    PROVE  Spec => []ShadowPredictsEnforcement
<1>1. GateInv => ShadowPredictsEnforcement
  BY GateShadowPredicts
<1> QED  BY <1>1, GateInvHolds, PTL

-----------------------------------------------------------------------------
\* The keys compared field by field.

LEMMA BeatsFirst ==
    ASSUME NEW n \in Nat \ {0}, NEW a \in [1..n -> Int], NEW b \in [1..n -> Int]
    PROVE  Beats(a, b) <=> \E i \in 1..n : a[i] > b[i] /\ \A j \in 1..n : j < i => a[j] = b[j]
<1>1. \A i \in 1..n : (\A j \in 1..(i - 1) : a[j] = b[j])
                         <=> (\A j \in 1..n : j < i => a[j] = b[j])
  <2> SUFFICES ASSUME NEW i \in 1..n
               PROVE  (\A j \in 1..(i - 1) : a[j] = b[j])
                         <=> (\A j \in 1..n : j < i => a[j] = b[j])
    OBVIOUS
  <2>1. \A j : j \in 1..(i - 1) <=> j \in 1..n /\ j < i
    OBVIOUS
  <2> QED  BY <2>1
<1>2. DOMAIN a = 1..n
  OBVIOUS
<1> QED  BY <1>1, <1>2 DEF Beats

LEMMA BeatsOfFour ==
    ASSUME NEW a \in [1..4 -> Int], NEW b \in [1..4 -> Int]
    PROVE  Beats(a, b) <=>
              \/ a[1] > b[1]
              \/ a[1] = b[1] /\ a[2] > b[2]
              \/ a[1] = b[1] /\ a[2] = b[2] /\ a[3] > b[3]
              \/ a[1] = b[1] /\ a[2] = b[2] /\ a[3] = b[3] /\ a[4] > b[4]
<1>1. 4 \in Nat \ {0}
  OBVIOUS
<1>2. Beats(a, b) <=> \E i \in 1..4 : a[i] > b[i] /\ \A j \in 1..4 : j < i => a[j] = b[j]
  BY <1>1, BeatsFirst
<1>3. 1..4 = {1, 2, 3, 4}
  OBVIOUS
<1> QED  BY <1>2, <1>3

LEMMA BeatsOfFive ==
    ASSUME NEW a \in [1..5 -> Int], NEW b \in [1..5 -> Int]
    PROVE  Beats(a, b) <=>
              \/ a[1] > b[1]
              \/ a[1] = b[1] /\ a[2] > b[2]
              \/ a[1] = b[1] /\ a[2] = b[2] /\ a[3] > b[3]
              \/ a[1] = b[1] /\ a[2] = b[2] /\ a[3] = b[3] /\ a[4] > b[4]
              \/ a[1] = b[1] /\ a[2] = b[2] /\ a[3] = b[3] /\ a[4] = b[4] /\ a[5] > b[5]
<1>1. 5 \in Nat \ {0}
  OBVIOUS
<1>2. Beats(a, b) <=> \E i \in 1..5 : a[i] > b[i] /\ \A j \in 1..5 : j < i => a[j] = b[j]
  BY <1>1, BeatsFirst
<1>3. 1..5 = {1, 2, 3, 4, 5}
  OBVIOUS
<1> QED  BY <1>2, <1>3

LEMMA BeatsOfSix ==
    ASSUME NEW a \in [1..6 -> Int], NEW b \in [1..6 -> Int]
    PROVE  Beats(a, b) <=>
              \/ a[1] > b[1]
              \/ a[1] = b[1] /\ a[2] > b[2]
              \/ a[1] = b[1] /\ a[2] = b[2] /\ a[3] > b[3]
              \/ a[1] = b[1] /\ a[2] = b[2] /\ a[3] = b[3] /\ a[4] > b[4]
              \/ a[1] = b[1] /\ a[2] = b[2] /\ a[3] = b[3] /\ a[4] = b[4] /\ a[5] > b[5]
              \/ /\ a[1] = b[1] /\ a[2] = b[2] /\ a[3] = b[3] /\ a[4] = b[4] /\ a[5] = b[5]
                 /\ a[6] > b[6]
<1>1. 6 \in Nat \ {0}
  OBVIOUS
<1>2. Beats(a, b) <=> \E i \in 1..6 : a[i] > b[i] /\ \A j \in 1..6 : j < i => a[j] = b[j]
  BY <1>1, BeatsFirst
<1>3. 1..6 = {1, 2, 3, 4, 5, 6}
  OBVIOUS
<1> QED  BY <1>2, <1>3

\* r comes before s: by score, scope and type; then available choices; then by priority;
\* at last by path.
Level(r, s, q) ==
    Score(r, q) = Score(s, q) /\ ScopeExact(r, q) = ScopeExact(s, q)
       /\ TypeExact(r, q) = TypeExact(s, q)
InFront(r, s, q) ==
    \/ Score(r, q) > Score(s, q)
    \/ Score(r, q) = Score(s, q) /\ ScopeExact(r, q) > ScopeExact(s, q)
    \/ /\ Score(r, q) = Score(s, q) /\ ScopeExact(r, q) = ScopeExact(s, q)
       /\ TypeExact(r, q) > TypeExact(s, q)
Ahead(r, s, q) ==
    \/ InFront(r, s, q)
    \/ Level(r, s, q) /\ Choosable(r, q) > Choosable(s, q)
    \/ /\ Level(r, s, q) /\ Choosable(r, q) = Choosable(s, q)
       /\ \/ r.priority > s.priority
          \/ r.priority = s.priority /\ r.path > s.path
NotBehind(r, s, q) == InFront(r, s, q) \/ (Level(r, s, q) /\ r.priority >= s.priority)

LEMMA ResolutionOrder ==
    ASSUME RuleConstants, NEW index, IsIndex(index), NEW q \in Request,
           NEW r \in index, NEW s \in index
    PROVE  Beats(ResolutionKey(r, q), ResolutionKey(s, q)) <=> Ahead(r, s, q)
<1>1. /\ Score(r, q) \in Int /\ ScopeExact(r, q) \in Int /\ TypeExact(r, q) \in Int
      /\ Choosable(r, q) \in Int /\ r.priority \in Int /\ r.path \in Int
      /\ Score(s, q) \in Int /\ ScopeExact(s, q) \in Int /\ TypeExact(s, q) \in Int
      /\ Choosable(s, q) \in Int /\ s.priority \in Int /\ s.path \in Int
  BY NumbersOfRules
<1> DEFINE a == <<Score(r, q), ScopeExact(r, q), TypeExact(r, q),
                 Choosable(r, q), r.priority, r.path>>
           b == <<Score(s, q), ScopeExact(s, q), TypeExact(s, q),
                 Choosable(s, q), s.priority, s.path>>
<1>2. a \in [1..6 -> Int] /\ b \in [1..6 -> Int]
  <2>1. \A u, v, w, x, y, z \in Int : <<u, v, w, x, y, z>> \in [1..6 -> Int]
    BY Tuples
  <2> QED  BY <1>1, <2>1, Zenon
<1>3. /\ a[1] = Score(r, q) /\ a[2] = ScopeExact(r, q) /\ a[3] = TypeExact(r, q)
      /\ a[4] = Choosable(r, q) /\ a[5] = r.priority /\ a[6] = r.path
      /\ b[1] = Score(s, q) /\ b[2] = ScopeExact(s, q) /\ b[3] = TypeExact(s, q)
      /\ b[4] = Choosable(s, q) /\ b[5] = s.priority /\ b[6] = s.path
  OBVIOUS
<1> HIDE DEF a, b
<1>4. Beats(a, b) <=>
         \/ a[1] > b[1]
         \/ a[1] = b[1] /\ a[2] > b[2]
         \/ a[1] = b[1] /\ a[2] = b[2] /\ a[3] > b[3]
         \/ a[1] = b[1] /\ a[2] = b[2] /\ a[3] = b[3] /\ a[4] > b[4]
         \/ a[1] = b[1] /\ a[2] = b[2] /\ a[3] = b[3] /\ a[4] = b[4] /\ a[5] > b[5]
         \/ /\ a[1] = b[1] /\ a[2] = b[2] /\ a[3] = b[3] /\ a[4] = b[4] /\ a[5] = b[5]
            /\ a[6] > b[6]
  BY <1>2, BeatsOfSix
<1>5. Beats(a, b) <=> Ahead(r, s, q)
  BY <1>3, <1>4, Zenon DEF Ahead, InFront, Level
<1> QED  BY <1>5 DEF ResolutionKey, a, b

\* The order of a choice's rows, of the exact and of the fuzzy lookup, is that of resolution.
LEMMA FuzzyRowOrder ==
    ASSUME RuleConstants, NEW index, IsIndex(index), NEW q \in Request,
           NEW r \in index, NEW s \in index, Choosable(r, q) = Choosable(s, q)
    PROVE  Beats(<<Score(r, q), ScopeExact(r, q), TypeExact(r, q), r.priority, r.path>>,
                 <<Score(s, q), ScopeExact(s, q), TypeExact(s, q), s.priority, s.path>>)
              <=> Ahead(r, s, q)
<1>1. /\ Score(r, q) \in Int /\ ScopeExact(r, q) \in Int /\ TypeExact(r, q) \in Int
      /\ Choosable(r, q) \in Int /\ r.priority \in Int /\ r.path \in Int
      /\ Score(s, q) \in Int /\ ScopeExact(s, q) \in Int /\ TypeExact(s, q) \in Int
      /\ s.priority \in Int /\ s.path \in Int
  BY NumbersOfRules
<1>2. ~(Choosable(r, q) > Choosable(s, q))
  BY <1>1
<1> DEFINE a == <<Score(r, q), ScopeExact(r, q), TypeExact(r, q), r.priority, r.path>>
           b == <<Score(s, q), ScopeExact(s, q), TypeExact(s, q), s.priority, s.path>>
<1>3. a \in [1..5 -> Int] /\ b \in [1..5 -> Int]
  <2>1. \A v, w, x, y, z \in Int : <<v, w, x, y, z>> \in [1..5 -> Int]
    BY Tuples
  <2> QED  BY <1>1, <2>1, Zenon
<1>4. /\ a[1] = Score(r, q) /\ a[2] = ScopeExact(r, q) /\ a[3] = TypeExact(r, q)
      /\ a[4] = r.priority /\ a[5] = r.path /\ b[1] = Score(s, q)
      /\ b[2] = ScopeExact(s, q) /\ b[3] = TypeExact(s, q) /\ b[4] = s.priority
      /\ b[5] = s.path
  OBVIOUS
<1> HIDE DEF a, b
<1>5. Beats(a, b) <=>
         \/ a[1] > b[1]
         \/ a[1] = b[1] /\ a[2] > b[2]
         \/ a[1] = b[1] /\ a[2] = b[2] /\ a[3] > b[3]
         \/ a[1] = b[1] /\ a[2] = b[2] /\ a[3] = b[3] /\ a[4] > b[4]
         \/ a[1] = b[1] /\ a[2] = b[2] /\ a[3] = b[3] /\ a[4] = b[4] /\ a[5] > b[5]
  BY <1>3, BeatsOfFive
<1>6. Beats(a, b) <=> Ahead(r, s, q)
  BY <1>2, <1>4, <1>5, Zenon DEF Ahead, InFront, Level
<1> QED  BY <1>6 DEF a, b

LEMMA ExactRowOrder ==
    ASSUME RuleConstants, NEW index, IsIndex(index), NEW q \in Request,
           NEW r \in index, NEW s \in index, Choosable(r, q) = Choosable(s, q),
           Score(r, q) = Score(s, q)
    PROVE  Beats(<<ScopeExact(r, q), TypeExact(r, q), r.priority, r.path>>,
                 <<ScopeExact(s, q), TypeExact(s, q), s.priority, s.path>>)
              <=> Ahead(r, s, q)
<1>1. /\ Score(r, q) \in Int /\ ScopeExact(r, q) \in Int /\ TypeExact(r, q) \in Int
      /\ Choosable(r, q) \in Int /\ r.priority \in Int /\ r.path \in Int
      /\ Score(s, q) \in Int /\ ScopeExact(s, q) \in Int /\ TypeExact(s, q) \in Int
      /\ s.priority \in Int /\ s.path \in Int
  BY NumbersOfRules
<1>2. ~(Choosable(r, q) > Choosable(s, q)) /\ ~(Score(r, q) > Score(s, q))
  BY <1>1
<1> DEFINE a == <<ScopeExact(r, q), TypeExact(r, q), r.priority, r.path>>
           b == <<ScopeExact(s, q), TypeExact(s, q), s.priority, s.path>>
<1>3. a \in [1..4 -> Int] /\ b \in [1..4 -> Int]
  <2>1. \A w, x, y, z \in Int : <<w, x, y, z>> \in [1..4 -> Int]
    BY Tuples
  <2> QED  BY <1>1, <2>1, Zenon
<1>4. /\ a[1] = ScopeExact(r, q) /\ a[2] = TypeExact(r, q) /\ a[3] = r.priority
      /\ a[4] = r.path /\ b[1] = ScopeExact(s, q) /\ b[2] = TypeExact(s, q)
      /\ b[3] = s.priority /\ b[4] = s.path
  OBVIOUS
<1> HIDE DEF a, b
<1>5. Beats(a, b) <=>
         \/ a[1] > b[1]
         \/ a[1] = b[1] /\ a[2] > b[2]
         \/ a[1] = b[1] /\ a[2] = b[2] /\ a[3] > b[3]
         \/ a[1] = b[1] /\ a[2] = b[2] /\ a[3] = b[3] /\ a[4] > b[4]
  BY <1>3, BeatsOfFour
<1>6. Beats(a, b) <=> Ahead(r, s, q)
  BY <1>2, <1>4, <1>5, Zenon DEF Ahead, InFront, Level
<1> QED  BY <1>6 DEF a, b

\* The order of the unavailable choices agrees with it as far as the priority.
LEMMA ChoiceOrder ==
    ASSUME RuleConstants, NEW index, IsIndex(index), NEW q \in Request,
           NEW r \in index, NEW s \in index,
           Beats(<<Score(r, q), ScopeExact(r, q), TypeExact(r, q), r.priority,
                   -Order[Norm[r.chosen]], r.path>>,
                 <<Score(s, q), ScopeExact(s, q), TypeExact(s, q), s.priority,
                   -Order[Norm[s.chosen]], s.path>>)
    PROVE  NotBehind(r, s, q)
<1>1. /\ Score(r, q) \in Int /\ ScopeExact(r, q) \in Int /\ TypeExact(r, q) \in Int
      /\ r.priority \in Int /\ r.path \in Int /\ -Order[Norm[r.chosen]] \in Int
      /\ Score(s, q) \in Int /\ ScopeExact(s, q) \in Int /\ TypeExact(s, q) \in Int
      /\ s.priority \in Int /\ s.path \in Int /\ -Order[Norm[s.chosen]] \in Int
  BY NumbersOfRules
<1>2. \A a, b \in Int : (a > b \/ a = b) => a >= b
  OBVIOUS
<1>3. (r.priority > s.priority \/ r.priority = s.priority) => r.priority >= s.priority
  BY <1>1, <1>2
<1> DEFINE a == <<Score(r, q), ScopeExact(r, q), TypeExact(r, q),
                 r.priority, -Order[Norm[r.chosen]], r.path>>
           b == <<Score(s, q), ScopeExact(s, q), TypeExact(s, q),
                 s.priority, -Order[Norm[s.chosen]], s.path>>
<1>4. a \in [1..6 -> Int] /\ b \in [1..6 -> Int]
  <2>1. \A u, v, w, x, y, z \in Int : <<u, v, w, x, y, z>> \in [1..6 -> Int]
    BY Tuples
  <2> QED  BY <1>1, <2>1, Zenon
<1>5. /\ a[1] = Score(r, q) /\ a[2] = ScopeExact(r, q) /\ a[3] = TypeExact(r, q)
      /\ a[4] = r.priority /\ a[5] = -Order[Norm[r.chosen]] /\ a[6] = r.path
      /\ b[1] = Score(s, q) /\ b[2] = ScopeExact(s, q) /\ b[3] = TypeExact(s, q)
      /\ b[4] = s.priority /\ b[5] = -Order[Norm[s.chosen]] /\ b[6] = s.path
  OBVIOUS
<1> HIDE DEF a, b
<1>6. Beats(a, b) <=>
         \/ a[1] > b[1]
         \/ a[1] = b[1] /\ a[2] > b[2]
         \/ a[1] = b[1] /\ a[2] = b[2] /\ a[3] > b[3]
         \/ a[1] = b[1] /\ a[2] = b[2] /\ a[3] = b[3] /\ a[4] > b[4]
         \/ a[1] = b[1] /\ a[2] = b[2] /\ a[3] = b[3] /\ a[4] = b[4] /\ a[5] > b[5]
         \/ /\ a[1] = b[1] /\ a[2] = b[2] /\ a[3] = b[3] /\ a[4] = b[4] /\ a[5] = b[5]
            /\ a[6] > b[6]
  BY <1>4, BeatsOfSix
<1>7. Beats(a, b)
  BY DEF a, b
<1>8. NotBehind(r, s, q)
  BY <1>3, <1>5, <1>6, <1>7, Zenon DEF NotBehind, InFront, Level
<1> QED  BY <1>8

-----------------------------------------------------------------------------
\* The leader of a set of rows: the one that Best chooses.

LEMMA BeatsIrreflexive ==
    ASSUME NEW n \in Nat, NEW a \in [1..n -> Int]
    PROVE  ~Beats(a, a)
<1>1. \A i \in DOMAIN a : ~(a[i] > a[i])
  OBVIOUS
<1> QED  BY <1>1 DEF Beats

LEMMA BestIsBest ==
    ASSUME NEW D, NEW key, NEW n, Keyed(D, key, n), NEW S \in SUBSET D, S # {}
    PROVE  Best(S, key) \in S /\ IsBest(Best(S, key), S, key)
<1>1. \E r \in S : \A s \in S \ {r} : Beats(key[r], key[s])
  BY BestExists DEF IsBest
<1>2. /\ Best(S, key) \in S
      /\ \A s \in S \ {Best(S, key)} : Beats(key[Best(S, key)], key[s])
  BY <1>1, Zenon DEF Best
<1> QED  BY <1>2, Zenon DEF IsBest

LEMMA BestIsUnique ==
    ASSUME NEW D, NEW key, NEW n, Keyed(D, key, n), NEW S \in SUBSET D,
           NEW x \in S, IsBest(x, S, key)
    PROVE  Best(S, key) = x
<1> DEFINE best == Best(S, key)
<1>1. best \in S /\ IsBest(best, S, key)
  BY BestIsBest
<1> HIDE DEF best
<1>2. SUFFICES ASSUME best # x PROVE FALSE
  BY DEF best
<1>3. Beats(key[x], key[best]) /\ Beats(key[best], key[x])
  BY <1>1, <1>2 DEF IsBest
<1>4. key[x] \in [1..n -> Int] /\ key[best] \in [1..n -> Int] /\ n \in Nat
  BY <1>1 DEF Keyed
<1>5. Beats(key[x], key[x])
  BY <1>3, <1>4, BeatsTransitive
<1> QED  BY <1>4, <1>5, BeatsIrreflexive

Leads(x, S, q) == x \in S /\ \A s \in S \ {x} : Ahead(x, s, q)

\* Best by the key of a resolution is the leader, and there is one.
LEMMA BestLeads ==
    ASSUME RuleConstants, NEW index, IsIndex(index), NEW q \in Request,
           NEW S \in SUBSET index, S # {}
    PROVE  LET best == Best(S, [r \in S |-> ResolutionKey(r, q)]) IN
           Leads(best, S, q) /\ \A x : Leads(x, S, q) => best = x
<1> DEFINE k == [r \in S |-> ResolutionKey(r, q)]
           best == Best(S, k)
<1>1. Keyed(S, k, 6)
  BY ResolutionKeyed
<1>2. \A x \in S : k[x] = ResolutionKey(x, q)
  OBVIOUS
<1> HIDE DEF k
<1>3. \A x \in S, s \in S : Beats(k[x], k[s]) <=> Ahead(x, s, q)
  BY <1>2, ResolutionOrder
<1>4. best \in S /\ IsBest(best, S, k)
  BY <1>1, BestIsBest
<1>5. Leads(best, S, q)
  <2> HIDE DEF best
  <2> QED  BY <1>3, <1>4 DEF Leads, IsBest
<1>6. ASSUME NEW x, Leads(x, S, q) PROVE best = x
  <2>1. x \in S /\ IsBest(x, S, k)
    BY <1>3, <1>6 DEF Leads, IsBest
  <2> QED  BY <1>1, <2>1, BestIsUnique
<1> QED  BY <1>5, <1>6 DEF k

\* What ahead and not behind imply of each other.
LEMMA AheadOfUnavailable ==
    ASSUME RuleConstants, NEW index, IsIndex(index), NEW q \in Request,
           NEW t \in index, NEW u \in index, NEW o \in index,
           ~Available(q, t.chosen), ~Available(q, u.chosen), Available(q, o.chosen),
           NotBehind(t, u, q), Ahead(u, o, q)
    PROVE  Ahead(t, o, q) /\ ~Ahead(o, t, q)
<1>1. /\ Score(t, q) \in Int /\ ScopeExact(t, q) \in Int /\ TypeExact(t, q) \in Int
      /\ Score(u, q) \in Int /\ ScopeExact(u, q) \in Int /\ TypeExact(u, q) \in Int
      /\ Score(o, q) \in Int /\ ScopeExact(o, q) \in Int /\ TypeExact(o, q) \in Int
  BY NumbersOfRules
<1>2. Choosable(u, q) = 0 /\ Choosable(o, q) = 1
  BY DEF Choosable
<1>3. InFront(u, o, q)
  BY <1>2 DEF Ahead
<1>4. InFront(t, u, q) \/ Level(t, u, q)
  BY DEF NotBehind
<1>5. InFront(t, o, q)
  BY <1>1, <1>3, <1>4 DEF InFront, Level
<1>6. ~InFront(o, t, q) /\ ~Level(o, t, q)
  BY <1>1, <1>5 DEF InFront, Level
<1> QED  BY <1>5, <1>6 DEF Ahead

LEMMA NotBehindOrder ==
    ASSUME RuleConstants, NEW index, IsIndex(index), NEW q \in Request,
           NEW t \in index, NEW b \in index, NEW u \in index
    PROVE  /\ NotBehind(u, u, q)
           /\ NotBehind(t, b, q) /\ NotBehind(b, u, q) => NotBehind(t, u, q)
           /\ Ahead(t, u, q) /\ Choosable(t, q) = Choosable(u, q) => NotBehind(t, u, q)
           /\ NotBehind(t, u, q) => Score(t, q) >= Score(u, q)
<1>1. /\ Score(t, q) \in Int /\ ScopeExact(t, q) \in Int /\ TypeExact(t, q) \in Int
      /\ Score(u, q) \in Int /\ ScopeExact(u, q) \in Int /\ TypeExact(u, q) \in Int
      /\ Score(b, q) \in Int /\ ScopeExact(b, q) \in Int /\ TypeExact(b, q) \in Int
      /\ t.priority \in Int /\ u.priority \in Int /\ b.priority \in Int
      /\ Choosable(t, q) \in Int /\ Choosable(u, q) \in Int
  BY NumbersOfRules
<1>2. NotBehind(u, u, q)
  BY <1>1 DEF NotBehind, Level
<1>3. NotBehind(t, b, q) /\ NotBehind(b, u, q) => NotBehind(t, u, q)
  BY <1>1 DEF NotBehind, InFront, Level
<1>4. Ahead(t, u, q) /\ Choosable(t, q) = Choosable(u, q) => NotBehind(t, u, q)
  BY <1>1 DEF NotBehind, Ahead
<1>5. NotBehind(t, u, q) => Score(t, q) >= Score(u, q)
  BY <1>1 DEF NotBehind, InFront, Level
<1> QED  BY <1>2, <1>3, <1>4, <1>5

-----------------------------------------------------------------------------
\* How a set of rows stands, by its leader and the leader of its rivals.

RivalsOf(x, S) == {r \in S : Norm[r.chosen] # Norm[x.chosen]}

LEMMA StandingByLeader ==
    ASSUME RuleConstants, NEW index, IsIndex(index), NEW q \in Request,
           NEW S \in SUBSET index, NEW exact, NEW x, Leads(x, S, q)
    PROVE  LET standing == Standing(ResolveCandidates(S, q, exact)) IN
           /\ ~Available(q, x.chosen) /\ (exact \/ Score(x, q) >= MinMismatchScore)
                 => standing = "ask"
           /\ Available(q, x.chosen) /\ RivalsOf(x, S) = {} => standing = Norm[x.chosen]
           /\ Available(q, x.chosen) =>
                 \A y : Leads(y, RivalsOf(x, S), q) =>
                    standing = IF EquallyRelevant(x, y, q) THEN "ask" ELSE Norm[x.chosen]
<1> DEFINE best == Best(S, [r \in S |-> ResolutionKey(r, q)])
           rivals == {r \in S : Norm[r.chosen] # Norm[best.chosen]}
           rival == Best(rivals, [r \in rivals |-> ResolutionKey(r, q)])
           margin == IF rivals = {} THEN 0 ELSE Score(best, q) - Score(rival, q)
           res == ResolveCandidates(S, q, exact)
<1>1. S # {}
  BY DEF Leads
<1>2. best = x
  BY <1>1, BestLeads
<1>3. rivals = RivalsOf(x, S) /\ rivals \in SUBSET index
  BY <1>2 DEF RivalsOf
<1>4. \A y : Leads(y, rivals, q) => rivals # {} /\ rival = y
  <2> HIDE DEF best
  <2> SUFFICES ASSUME NEW y, Leads(y, rivals, q) PROVE rivals # {} /\ rival = y
    OBVIOUS
  <2>1. rivals # {}
    BY DEF Leads
  <2> HIDE DEF rivals
  <2> QED  BY <1>3, <2>1, BestLeads
<1>5. res = IF rivals # {} /\ EquallyRelevant(best, rival, q)
            THEN Resolution("Ambiguous", best, margin, exact)
            ELSE IF Available(q, best.chosen) THEN Resolution("Applicable", best, margin, exact)
            ELSE IF exact \/ Score(best, q) >= MinMismatchScore
                 THEN Resolution("OptionMismatch", best, margin, exact)
            ELSE NoMatch
  BY <1>1, Zenon DEF ResolveCandidates
<1> HIDE DEF best, rivals, rival, margin, res
<1>6. /\ Standing(Resolution("Ambiguous", best, margin, exact)) = "ask"
      /\ Standing(Resolution("Applicable", best, margin, exact)) = Norm[best.chosen]
      /\ Standing(Resolution("OptionMismatch", best, margin, exact)) = "ask"
  BY DEF Standing, Resolution
<1>7. ~Available(q, x.chosen) /\ (exact \/ Score(x, q) >= MinMismatchScore)
         => Standing(res) = "ask"
  BY <1>2, <1>5, <1>6
<1>8. Available(q, x.chosen) /\ rivals = {} => Standing(res) = Norm[x.chosen]
  BY <1>2, <1>5, <1>6
<1>9. ASSUME Available(q, x.chosen), NEW y, Leads(y, rivals, q)
      PROVE  Standing(res) = IF EquallyRelevant(x, y, q) THEN "ask" ELSE Norm[x.chosen]
  <2>1. rivals # {} /\ rival = y
    BY <1>4, <1>9
  <2> QED  BY <1>2, <1>5, <1>6, <1>9, <2>1
<1> QED  BY <1>3, <1>7, <1>8, <1>9 DEF res

\* Rows that are all unavailable, and too near to be passed over, leave a question.
LEMMA UnavailableAsks ==
    ASSUME RuleConstants, NEW index, IsIndex(index), NEW q \in Request,
           NEW S \in SUBSET index, S # {}, NEW exact,
           \A r \in S : ~Available(q, r.chosen) /\ (exact \/ Score(r, q) >= MinMismatchScore)
    PROVE  Standing(ResolveCandidates(S, q, exact)) = "ask"
<1>1. PICK x : Leads(x, S, q)
  BY BestLeads
<1>2. x \in S
  BY <1>1 DEF Leads
<1> QED  BY <1>1, <1>2, StandingByLeader

\* A part that stands for all: it holds the leading row of every choice that is offered, and,
\* if there is an unavailable row, an unavailable one that is behind none of them.
StandsFor(part, all, q) ==
    /\ part \subseteq all
    /\ \A x \in all :
          /\ Available(q, x.chosen)
          /\ \A r \in all \ {x} : Norm[r.chosen] = Norm[x.chosen] => Ahead(x, r, q)
          => x \in part
    /\ (\E u \in all : ~Available(q, u.chosen)) =>
          \E t \in part : /\ ~Available(q, t.chosen)
                          /\ \A u \in all : ~Available(q, u.chosen) => NotBehind(t, u, q)

LEMMA PartStandsForAll ==
    ASSUME RuleConstants, NEW index, IsIndex(index), NEW q \in Request,
           NEW all \in SUBSET index, NEW part, StandsFor(part, all, q), NEW exact,
           \A u \in all : ~Available(q, u.chosen) =>
                             exact \/ Score(u, q) >= MinMismatchScore
    PROVE  Standing(ResolveCandidates(part, q, exact)) = Standing(ResolveCandidates(all, q, exact))
<1>1. part \in SUBSET all /\ part \in SUBSET index
  BY DEF StandsFor
<1>2. ASSUME NEW r \in all, NEW s \in all, Norm[r.chosen] = Norm[s.chosen]
      PROVE  Available(q, r.chosen) <=> Available(q, s.chosen)
  BY <1>2 DEF Available
\* An unavailable leader is led to by no offered row of the part.
<1>3. ASSUME NEW A \in SUBSET all, NEW u, Leads(u, A, q), ~Available(q, u.chosen),
             NEW B \in SUBSET A, NEW t \in B, ~Available(q, t.chosen), NotBehind(t, u, q),
             NEW z, Leads(z, B, q)
      PROVE  ~Available(q, z.chosen)
  <2>1. SUFFICES ASSUME Available(q, z.chosen) PROVE FALSE
    OBVIOUS
  <2>2. z \in B /\ z # t /\ z # u /\ u \in A
    BY <1>3, <2>1 DEF Leads
  <2>3. Ahead(u, z, q) /\ Ahead(z, t, q)
    BY <1>3, <2>2 DEF Leads
  <2>4. t \in index /\ u \in index /\ z \in index
    BY <1>3, <2>2
  <2> QED  BY <1>3, <2>1, <2>3, <2>4, AheadOfUnavailable
<1>4. CASE all = {}
  BY <1>1, <1>4
<1>5. CASE all # {}
  <2>1. PICK x : Leads(x, all, q)
    BY <1>5, BestLeads
  <2>2. x \in all
    BY <2>1 DEF Leads
  <2>3. CASE ~Available(q, x.chosen)
    <3>1. Standing(ResolveCandidates(all, q, exact)) = "ask"
      <4>1. exact \/ Score(x, q) >= MinMismatchScore
        BY <2>2, <2>3
      <4> QED  BY <2>1, <2>3, <4>1, StandingByLeader
    <3>2. PICK t \in part : ~Available(q, t.chosen) /\ NotBehind(t, x, q)
      BY <2>2, <2>3 DEF StandsFor
    <3>3. PICK z : Leads(z, part, q)
      <4>1. part # {}
        BY <3>2
      <4> QED  BY <1>1, <4>1, BestLeads
    <3>4. ~Available(q, z.chosen) /\ z \in part
      <4>1. all \in SUBSET all
        OBVIOUS
      <4>2. ~Available(q, z.chosen)
        BY <1>1, <1>3, <2>1, <2>3, <3>2, <3>3, <4>1
      <4> QED  BY <3>3, <4>2 DEF Leads
    <3>5. Standing(ResolveCandidates(part, q, exact)) = "ask"
      <4>1. exact \/ Score(z, q) >= MinMismatchScore
        BY <1>1, <3>4
      <4> QED  BY <1>1, <3>3, <3>4, <4>1, StandingByLeader
    <3> QED  BY <3>1, <3>5
  <2>4. CASE Available(q, x.chosen)
    <3>1. x \in part
      BY <2>1, <2>2, <2>4 DEF StandsFor, Leads
    <3>2. Leads(x, part, q)
      BY <1>1, <2>1, <3>1 DEF Leads
    <3> DEFINE rivals == RivalsOf(x, all)
               some == RivalsOf(x, part)
    <3>3. rivals \in SUBSET all /\ rivals \in SUBSET index /\ some \in SUBSET rivals
          /\ some \in SUBSET part
      BY <1>1 DEF RivalsOf
    <3>4. CASE rivals = {}
      <4>1. RivalsOf(x, all) = {} /\ RivalsOf(x, part) = {}
        BY <3>3, <3>4
      <4>2. Standing(ResolveCandidates(all, q, exact)) = Norm[x.chosen]
        BY <2>1, <2>4, <4>1, StandingByLeader
      <4>3. Standing(ResolveCandidates(part, q, exact)) = Norm[x.chosen]
        BY <1>1, <2>4, <3>2, <4>1, StandingByLeader
      <4> QED  BY <4>2, <4>3
    <3>5. CASE rivals # {}
      <4>1. PICK y : Leads(y, rivals, q)
        BY <3>3, <3>5, BestLeads
      <4>2. y \in rivals /\ y \in all
        BY <3>3, <4>1 DEF Leads
      <4>3. Standing(ResolveCandidates(all, q, exact)) =
               IF EquallyRelevant(x, y, q) THEN "ask" ELSE Norm[x.chosen]
        BY <2>1, <2>4, <4>1, StandingByLeader
      <4>4. CASE Available(q, y.chosen)
        <5>1. \A r \in all \ {y} : Norm[r.chosen] = Norm[y.chosen] => r \in rivals
          BY <4>2 DEF RivalsOf
        <5>2. y \in part
          BY <4>1, <4>2, <4>4, <5>1 DEF StandsFor, Leads
        <5>3. y \in some
          BY <4>2, <5>2 DEF RivalsOf
        <5>4. Leads(y, some, q)
          BY <3>3, <4>1, <5>3 DEF Leads
        <5> QED  BY <1>1, <2>4, <3>2, <4>3, <5>4, StandingByLeader
      <4>5. CASE ~Available(q, y.chosen)
        <5>1. PICK t \in part : ~Available(q, t.chosen) /\ NotBehind(t, y, q)
          BY <4>2, <4>5 DEF StandsFor
        <5>2. t \in some
          <6>1. Norm[t.chosen] # Norm[x.chosen]
            BY <1>1, <1>2, <2>2, <2>4, <5>1
          <6> QED  BY <6>1 DEF RivalsOf
        <5>3. PICK z : Leads(z, some, q)
          <6>1. some # {} /\ some \in SUBSET index
            BY <3>3, <5>2
          <6> HIDE DEF some
          <6> QED  BY <6>1, BestLeads
        <5>4. ~Available(q, z.chosen)
          <6> HIDE DEF some, rivals
          <6> QED  BY <1>3, <3>3, <4>1, <4>5, <5>1, <5>2, <5>3
        <5>5. ~EquallyRelevant(x, y, q) /\ ~EquallyRelevant(x, z, q)
          BY <2>4, <4>5, <5>4 DEF EquallyRelevant, Choosable
        <5>6. Standing(ResolveCandidates(part, q, exact)) = Norm[x.chosen]
          BY <1>1, <2>4, <3>2, <5>3, <5>5, StandingByLeader
        <5> QED  BY <4>3, <5>5, <5>6
      <4> QED  BY <4>4, <4>5
    <3> QED  BY <3>4, <3>5
  <2> QED  BY <2>3, <2>4
<1> QED  BY <1>4, <1>5

-----------------------------------------------------------------------------
\* The staged lookups stand for a scan of all rules.

LEMMA BestRows ==
    ASSUME NEW D, NEW key, NEW n, Keyed(D, key, n), NEW S \in SUBSET D, NEW x \in S
    PROVE  /\ (\A r \in S \ {x} : Norm[r.chosen] = Norm[x.chosen] => Beats(key[x], key[r]))
                 => x \in BestPerChoice(S, key)
           /\ \E b \in BestPerChoice(S, key) :
                 /\ b \in S /\ Norm[b.chosen] = Norm[x.chosen]
                 /\ b = x \/ Beats(key[b], key[x])
<1> DEFINE class == {r \in S : Norm[r.chosen] = Norm[x.chosen]}
           b == Best(class, key)
<1>1. x \in class /\ class \in SUBSET D /\ class # {}
  OBVIOUS
<1>2. b \in BestPerChoice(S, key)
  BY DEF BestPerChoice, ChoicesOf
<1>3. b \in class /\ IsBest(b, class, key)
  BY <1>1, BestIsBest
<1>4. ASSUME \A r \in S \ {x} : Norm[r.chosen] = Norm[x.chosen] => Beats(key[x], key[r])
      PROVE  b = x
  <2>1. IsBest(x, class, key)
    BY <1>4 DEF IsBest
  <2> HIDE DEF class
  <2> QED  BY <1>1, <2>1, BestIsUnique
<1> HIDE DEF b
<1>5. b = x \/ Beats(key[b], key[x])
  BY <1>1, <1>3 DEF IsBest
<1> QED  BY <1>2, <1>3, <1>4, <1>5

LEMMA SameChoiceSameOffer ==
    ASSUME NEW q, NEW r, NEW s, Norm[r.chosen] = Norm[s.chosen]
    PROVE  /\ Available(q, r.chosen) <=> Available(q, s.chosen)
           /\ Choosable(r, q) = Choosable(s, q)
<1>1. Available(q, r.chosen) <=> Available(q, s.chosen)
  BY DEF Available
<1> QED  BY <1>1 DEF Choosable

ExactRows(index, q) == {r \in index : InReach(r, q) /\ r.situation = q.situation}
Offered(S, q) == {r \in S : Available(q, r.chosen)}
AllExact(index, q) ==
    IF Offered(ExactRows(index, q), q) # {} THEN Offered(ExactRows(index, q), q)
    ELSE ExactRows(index, q)

LEMMA ExactStands ==
    ASSUME RuleConstants, NEW index, IsIndex(index), NEW q \in Request
    PROVE  /\ ExactCandidates(index, q) = {} <=> ExactRows(index, q) = {}
           /\ ExactRows(index, q) # {} =>
                 Standing(ResolveCandidates(ExactCandidates(index, q), q, TRUE)) =
                    Standing(ResolveCandidates(AllExact(index, q), q, TRUE))
<1> DEFINE exact == ExactRows(index, q)
           offered == Offered(exact, q)
           rowKey == [r \in exact |-> <<ScopeExact(r, q), TypeExact(r, q), r.priority, r.path>>]
           choiceKey == [r \in exact |-> <<ScopeExact(r, q), TypeExact(r, q),
                                          -Order[Norm[r.chosen]], r.path>>]
           choice == Norm[Best(exact, choiceKey).chosen]
           rows == {r \in exact : Norm[r.chosen] = choice}
           found == ExactCandidates(index, q)
<1>1. exact \in SUBSET index /\ offered \in SUBSET exact
  BY DEF ExactRows, Offered
<1>2. Keyed(exact, rowKey, 4) /\ Keyed(exact, choiceKey, 4)
  BY <1>1, ExactRowsKeyed, ExactChoicesKeyed
<1>3. found = IF offered # {} THEN BestPerChoice(offered, rowKey)
              ELSE IF exact = {} THEN {} ELSE {Best(rows, rowKey)}
  BY Zenon DEF ExactCandidates, ExactRows, Offered
<1>4. \A r \in exact : Score(r, q) = 100
  <2> SUFFICES ASSUME NEW r \in exact PROVE Score(r, q) = 100
    OBVIOUS
  <2>1. r.situation = q.situation /\ q.situation \in Situations
    BY DEF ExactRows, Request
  <2>2. Similar[<<q.situation, q.situation>>] = 100
    BY <2>1 DEF RuleConstants
  <2> QED  BY <2>1, <2>2 DEF Score
<1>5. \A r \in exact : rowKey[r] = <<ScopeExact(r, q), TypeExact(r, q), r.priority, r.path>>
  OBVIOUS
<1> HIDE DEF rowKey, choiceKey
<1>6. ASSUME NEW r \in exact, NEW s \in exact, Norm[r.chosen] = Norm[s.chosen]
      PROVE  Beats(rowKey[r], rowKey[s]) <=> Ahead(r, s, q)
  <2>1. Choosable(r, q) = Choosable(s, q) /\ Score(r, q) = Score(s, q)
    BY <1>4, <1>6, SameChoiceSameOffer
  <2>2. r \in index /\ s \in index
    BY <1>1
  <2>3. /\ rowKey[r] = <<ScopeExact(r, q), TypeExact(r, q), r.priority, r.path>>
        /\ rowKey[s] = <<ScopeExact(s, q), TypeExact(s, q), s.priority, s.path>>
    BY <1>5
  <2> QED  BY <2>1, <2>2, <2>3, ExactRowOrder
<1>7. CASE offered # {}
  <2>1. found = BestPerChoice(offered, rowKey)
    BY <1>3, <1>7
  <2>2. found \in SUBSET offered
    BY <1>1, <1>2, <2>1, BestPerChoiceIsPart
  <2>3. found # {}
    <3>1. PICK x \in offered : TRUE
      BY <1>7
    <3>2. \E b \in BestPerChoice(offered, rowKey) : TRUE
      BY <1>1, <1>2, BestRows
    <3> QED  BY <2>1, <3>2
  <2>4. ASSUME NEW x \in offered,
               \A r \in offered \ {x} : Norm[r.chosen] = Norm[x.chosen] => Ahead(x, r, q)
        PROVE  x \in found
    <3>1. \A r \in offered \ {x} :
             Norm[r.chosen] = Norm[x.chosen] => Beats(rowKey[x], rowKey[r])
      BY <1>1, <1>6, <2>4
    <3> HIDE DEF offered, found
    <3> QED  BY <1>1, <1>2, <2>1, <3>1, BestRows
  <2>5. \A u \in offered : Available(q, u.chosen)
    BY DEF Offered
  <2>6. StandsFor(found, offered, q)
    <3> HIDE DEF offered, found
    <3> QED  BY <2>2, <2>4, <2>5 DEF StandsFor
  <2>7. offered \in SUBSET index
    BY <1>1
  <2>8. Standing(ResolveCandidates(found, q, TRUE)) = Standing(ResolveCandidates(offered, q, TRUE))
    <3>1. PICK yes : yes = TRUE
      OBVIOUS
    <3> HIDE DEF offered, found
    <3>2. \A u \in offered : ~Available(q, u.chosen) => yes \/ Score(u, q) >= MinMismatchScore
      BY <2>5
    <3>3. Standing(ResolveCandidates(found, q, yes)) = Standing(ResolveCandidates(offered, q, yes))
      BY <2>6, <2>7, <3>2, PartStandsForAll
    <3> QED  BY <3>1, <3>3
  <2>9. AllExact(index, q) = offered /\ exact # {}
    BY <1>1, <1>7 DEF AllExact
  <2> QED  BY <2>3, <2>8, <2>9
<1>8. CASE offered = {} /\ exact # {}
  <2>1. found = {Best(rows, rowKey)}
    BY <1>3, <1>8
  <2>2. Best(exact, choiceKey) \in exact
    BY <1>2, <1>8, BestIsMember
  <2>3. rows # {} /\ rows \in SUBSET exact
    BY <2>2
  <2>4. Best(rows, rowKey) \in exact
    BY <1>2, <2>3, BestIsMember
  <2>5. \A r \in exact : ~Available(q, r.chosen)
    BY <1>8 DEF Offered
  <2>6. found \in SUBSET exact /\ found # {}
    BY <2>1, <2>4
  <2> HIDE DEF found, exact
  <2>7. Standing(ResolveCandidates(found, q, TRUE)) = "ask"
    BY <1>1, <2>5, <2>6, UnavailableAsks
  <2>8. Standing(ResolveCandidates(exact, q, TRUE)) = "ask"
    BY <1>1, <1>8, <2>5, UnavailableAsks
  <2>9. AllExact(index, q) = exact
    BY <1>8 DEF AllExact, exact
  <2> QED  BY <1>8, <2>6, <2>7, <2>8, <2>9 DEF found, exact
<1>9. CASE exact = {}
  <2>1. offered = {}
    BY <1>9 DEF Offered
  <2> QED  BY <1>3, <1>9, <2>1
<1> QED  BY <1>7, <1>8, <1>9

NearRows(index, q) == {r \in index : InReach(r, q) /\ Score(r, q) >= MinRuleScore}
AllNear(index, q) ==
    {r \in NearRows(index, q) : Available(q, r.chosen) \/ Score(r, q) >= MinMismatchScore}

LEMMA FuzzyStands ==
    ASSUME RuleConstants, NEW index, IsIndex(index), NEW q \in Request
    PROVE  Standing(ResolveCandidates(FuzzyCandidates(index, q), q, FALSE)) =
              Standing(ResolveCandidates(AllNear(index, q), q, FALSE))
<1> DEFINE near == NearRows(index, q)
           all == AllNear(index, q)
           rowKey == [r \in near |->
               <<Score(r, q), ScopeExact(r, q), TypeExact(r, q), r.priority, r.path>>]
           choiceKey == [r \in near |->
               <<Score(r, q), ScopeExact(r, q), TypeExact(r, q), r.priority,
                 -Order[Norm[r.chosen]], r.path>>]
           best == BestPerChoice(near, rowKey)
           offered == {r \in best : Available(q, r.chosen)}
           others == {r \in best \ offered : Score(r, q) >= MinMismatchScore}
           top == Top(others, MaxUnavailable, choiceKey)
           found == FuzzyCandidates(index, q)
<1>1. near \in SUBSET index /\ all \in SUBSET near
  BY DEF NearRows, AllNear
<1>2. Keyed(near, rowKey, 5) /\ Keyed(near, choiceKey, 6)
  BY <1>1, FuzzyRowsKeyed, FuzzyChoicesKeyed
<1>3. found = offered \cup top
  BY Zenon DEF FuzzyCandidates, NearRows
<1>4. \A r \in near : rowKey[r] =
         <<Score(r, q), ScopeExact(r, q), TypeExact(r, q), r.priority, r.path>>
  OBVIOUS
<1>5. \A r \in near : choiceKey[r] =
         <<Score(r, q), ScopeExact(r, q), TypeExact(r, q), r.priority,
           -Order[Norm[r.chosen]], r.path>>
  OBVIOUS
<1> HIDE DEF rowKey, choiceKey
<1>6. ASSUME NEW r \in near, NEW s \in near, Norm[r.chosen] = Norm[s.chosen]
      PROVE  Beats(rowKey[r], rowKey[s]) <=> Ahead(r, s, q)
  <2>1. Choosable(r, q) = Choosable(s, q)
    BY <1>6, SameChoiceSameOffer
  <2>2. r \in index /\ s \in index
    BY <1>1
  <2>3. /\ rowKey[r] = <<Score(r, q), ScopeExact(r, q), TypeExact(r, q), r.priority, r.path>>
        /\ rowKey[s] = <<Score(s, q), ScopeExact(s, q), TypeExact(s, q), s.priority, s.path>>
    BY <1>4
  <2> QED  BY <2>1, <2>2, <2>3, FuzzyRowOrder
<1>7. best \in SUBSET near
  BY <1>2, BestPerChoiceIsPart
<1>8. others \in SUBSET near /\ top \in SUBSET others
  BY <1>7 DEF Top
<1>9. found \in SUBSET all
  <2>1. offered \in SUBSET all
    BY <1>7 DEF AllNear
  <2>2. others \in SUBSET all
    BY <1>7 DEF AllNear
  <2> HIDE DEF offered, others, top, found, all
  <2> QED  BY <1>3, <1>8, <2>1, <2>2
\* The leading row of an offered choice is found.
<1>10. ASSUME NEW x \in all, Available(q, x.chosen),
              \A r \in all \ {x} : Norm[r.chosen] = Norm[x.chosen] => Ahead(x, r, q)
       PROVE  x \in found
  <2>1. x \in near
    BY <1>1
  <2>2. ASSUME NEW r \in near \ {x}, Norm[r.chosen] = Norm[x.chosen]
        PROVE  Beats(rowKey[x], rowKey[r])
    <3>1. Available(q, r.chosen)
      BY <1>10, <2>2, SameChoiceSameOffer
    <3>2. r \in all
      BY <3>1 DEF AllNear
    <3>3. Ahead(x, r, q)
      <4> HIDE DEF all
      <4> QED  BY <1>10, <2>2, <3>2
    <3> QED  BY <1>6, <2>1, <2>2, <3>3
  <2>3. x \in best
    <3> HIDE DEF near
    <3>1. near \in SUBSET near
      OBVIOUS
    <3> QED  BY <1>2, <2>1, <2>2, <3>1, BestRows
  <2>4. x \in offered
    BY <1>10, <2>3
  <2> HIDE DEF offered, found, top
  <2> QED  BY <1>3, <2>4
\* The first of the unavailable choices is kept, and is behind no unavailable row.
<1>11. ASSUME NEW v \in all, ~Available(q, v.chosen)
       PROVE  \E t \in found : /\ ~Available(q, t.chosen)
                               /\ \A u \in all : ~Available(q, u.chosen) => NotBehind(t, u, q)
  <2>1. ASSUME NEW u \in all, ~Available(q, u.chosen)
        PROVE  \E b \in others : NotBehind(b, u, q)
    <3>1. u \in near /\ Score(u, q) >= MinMismatchScore
      BY <2>1 DEF AllNear
    <3>2. PICK b \in best : /\ b \in near /\ Norm[b.chosen] = Norm[u.chosen]
                            /\ b = u \/ Beats(rowKey[b], rowKey[u])
      <4> HIDE DEF near
      <4>1. near \in SUBSET near
        OBVIOUS
      <4> QED  BY <1>2, <3>1, <4>1, BestRows
    <3>3. ~Available(q, b.chosen) /\ Choosable(b, q) = Choosable(u, q)
      BY <2>1, <3>2, SameChoiceSameOffer
    <3>4. b \in index /\ u \in index
      BY <1>1, <3>1, <3>2
    <3>5. NotBehind(b, u, q) /\ Score(b, q) >= Score(u, q)
      <4>1. b = u \/ Ahead(b, u, q)
        BY <1>6, <3>1, <3>2
      <4> QED  BY <3>3, <3>4, <4>1, NotBehindOrder
    <3>6. Score(b, q) >= MinMismatchScore
      <4>1. Score(b, q) \in Int /\ Score(u, q) \in Int
        BY <3>4, NumbersOfRules
      <4> QED  BY <3>1, <3>5, <4>1 DEF MinMismatchScore
    <3>7. b \in others
      BY <3>2, <3>3, <3>6
    <3> QED  BY <3>5, <3>7
  <2>2. others # {}
    BY <1>11, <2>1
  <2> DEFINE t == Best(others, choiceKey)
  <2>3. t \in others /\ IsBest(t, others, choiceKey)
    <3> HIDE DEF others
    <3> QED  BY <1>2, <1>8, <2>2, BestIsBest
  <2> HIDE DEF t
  <2>4. t \in top
    <3>1. {s \in others : Beats(choiceKey[s], choiceKey[t])} = {}
      <4> SUFFICES ASSUME NEW s \in others, Beats(choiceKey[s], choiceKey[t]) PROVE FALSE
        OBVIOUS
      <4>1. s \in near /\ t \in near
        BY <1>8, <2>3
      <4>2. choiceKey[s] \in [1..6 -> Int] /\ choiceKey[t] \in [1..6 -> Int] /\ 6 \in Nat
        BY <1>2, <4>1 DEF Keyed
      <4>3. ~Beats(choiceKey[t], choiceKey[t])
        BY <4>2, BeatsIrreflexive
      <4>4. s # t
        BY <4>3
      <4>5. Beats(choiceKey[t], choiceKey[s])
        BY <2>3, <4>4 DEF IsBest
      <4>6. Beats(choiceKey[t], choiceKey[t])
        BY <4>2, <4>5, BeatsTransitive
      <4> QED  BY <4>3, <4>6
    <3>2. Cardinality({}) = 0 /\ MaxUnavailable \in Nat \ {0}
      BY FS_EmptySet DEF RuleConstants
    <3>3. Cardinality({s \in others : Beats(choiceKey[s], choiceKey[t])}) < MaxUnavailable
      BY <3>1, <3>2
    <3> HIDE DEF others
    <3> QED  BY <2>3, <3>3 DEF Top
  <2>5. ~Available(q, t.chosen) /\ t \in near
    <3>1. t \in best \ offered
      BY <2>3
    <3> QED  BY <1>7, <3>1
  <2>6. ASSUME NEW u \in all, ~Available(q, u.chosen)
        PROVE  NotBehind(t, u, q)
    <3>1. PICK b \in others : NotBehind(b, u, q)
      BY <2>1, <2>6
    <3>2. b \in near /\ u \in near
      BY <1>1, <1>8, <3>1
    <3>3. t \in index /\ b \in index /\ u \in index
      BY <1>1, <2>5, <3>2
    <3>4. NotBehind(t, b, q)
      <4>1. CASE t = b
        BY <3>3, <4>1, NotBehindOrder
      <4>2. CASE t # b
        <5>1. Beats(choiceKey[t], choiceKey[b])
          BY <2>3, <4>2 DEF IsBest
        <5>2. /\ choiceKey[t] =
                    <<Score(t, q), ScopeExact(t, q), TypeExact(t, q), t.priority,
                      -Order[Norm[t.chosen]], t.path>>
              /\ choiceKey[b] =
                    <<Score(b, q), ScopeExact(b, q), TypeExact(b, q), b.priority,
                      -Order[Norm[b.chosen]], b.path>>
          BY <1>5, <2>5, <3>2
        <5> QED  BY <3>3, <5>1, <5>2, ChoiceOrder
      <4> QED  BY <4>1, <4>2
    <3> QED  BY <3>1, <3>3, <3>4, NotBehindOrder
  <2>7. t \in found
    <3> HIDE DEF offered, top, found
    <3> QED  BY <1>3, <2>4
  <2> QED  BY <2>5, <2>6, <2>7
<1>12. StandsFor(found, all, q)
  <2> HIDE DEF found, all
  <2> QED  BY <1>9, <1>10, <1>11 DEF StandsFor
<1>13. all \in SUBSET index
  BY <1>1
<1>14. \A u \in all : ~Available(q, u.chosen) => Score(u, q) >= MinMismatchScore
  BY DEF AllNear
<1>15. PICK no : no = FALSE
  OBVIOUS
<1> HIDE DEF found, all
<1>16. \A u \in all : ~Available(q, u.chosen) => no \/ Score(u, q) >= MinMismatchScore
  BY <1>14
<1>17. Standing(ResolveCandidates(found, q, no)) = Standing(ResolveCandidates(all, q, no))
  BY <1>12, <1>13, <1>16, PartStandsForAll
<1> QED  BY <1>15, <1>17 DEF found, all

LEMMA GateStagedAgrees ==
    ASSUME GateConstants, GateInv
    PROVE  StagedQueryAgrees
<1>1. RuleConstants /\ Requests \subseteq Request /\ IsIndex(rules)
  BY DEF GateConstants, GateInv
<1> SUFFICES ASSUME NEW q \in Requests
             PROVE  Standing(Resolve(rules, q)) =
                       Standing(ResolveCandidates(Relevant(q), q,
                           \E r \in Relevant(q) : r.situation = q.situation))
  BY Zenon DEF StagedQueryAgrees
<1>2. q \in Request
  BY <1>1
<1> DEFINE near == {r \in rules : InReach(r, q) /\ Score(r, q) >= MinRuleScore}
           exact == {r \in near : r.situation = q.situation}
           offered == {r \in exact : Available(q, r.chosen)}
           loose == {r \in near : Available(q, r.chosen) \/ Score(r, q) >= MinMismatchScore}
<1>3. Relevant(q) = IF offered # {} THEN offered ELSE IF exact # {} THEN exact ELSE loose
  BY Zenon DEF Relevant
<1>4. exact = ExactRows(rules, q)
  <2>1. ASSUME NEW r \in rules, r.situation = q.situation PROVE Score(r, q) >= MinRuleScore
    <3>1. q.situation \in Situations
      BY <1>2 DEF Request
    <3>2. Similar[<<q.situation, q.situation>>] = 100
      BY <1>1, <3>1 DEF RuleConstants
    <3> QED  BY <2>1, <3>2 DEF Score, MinRuleScore
  <2> QED  BY <2>1 DEF ExactRows
<1>5. offered = Offered(ExactRows(rules, q), q)
  BY <1>4 DEF Offered
<1>6. loose = AllNear(rules, q)
  BY DEF AllNear, NearRows
<1>7. CASE exact # {}
  <2>1. Relevant(q) = AllExact(rules, q)
    <3> HIDE DEF offered, exact, loose
    <3> QED  BY <1>3, <1>4, <1>5, <1>7 DEF AllExact
  <2>2. \E r \in Relevant(q) : r.situation = q.situation
    <3>1. Relevant(q) # {} /\ Relevant(q) \in SUBSET exact
      BY <1>3, <1>7
    <3> QED  BY <3>1
  <2>3. ExactCandidates(rules, q) # {}
    BY <1>1, <1>2, <1>4, <1>7, ExactStands
  <2>4. Resolve(rules, q) = ResolveCandidates(ExactCandidates(rules, q), q, TRUE)
    BY <2>3 DEF Resolve
  <2>5. Standing(ResolveCandidates(ExactCandidates(rules, q), q, TRUE)) =
           Standing(ResolveCandidates(AllExact(rules, q), q, TRUE))
    BY <1>1, <1>2, <1>4, <1>7, ExactStands
  <2>6. (\E r \in Relevant(q) : r.situation = q.situation) = TRUE
    BY <2>2
  <2> QED  BY <2>1, <2>4, <2>5, <2>6
<1>8. CASE exact = {}
  <2>1. Relevant(q) = AllNear(rules, q)
    <3>1. offered = {}
      BY <1>8
    <3> HIDE DEF offered, exact, loose
    <3> QED  BY <1>3, <1>6, <1>8, <3>1
  <2>2. ~\E r \in Relevant(q) : r.situation = q.situation
    BY <1>6, <1>8, <2>1
  <2>3. ExactCandidates(rules, q) = {}
    BY <1>1, <1>2, <1>4, <1>8, ExactStands
  <2>4. Resolve(rules, q) = ResolveCandidates(FuzzyCandidates(rules, q), q, FALSE)
    BY <2>3 DEF Resolve
  <2>5. Standing(ResolveCandidates(FuzzyCandidates(rules, q), q, FALSE)) =
           Standing(ResolveCandidates(AllNear(rules, q), q, FALSE))
    BY <1>1, <1>2, FuzzyStands
  <2>6. (\E r \in Relevant(q) : r.situation = q.situation) = FALSE
    BY <2>2
  <2> QED  BY <2>1, <2>4, <2>5, <2>6
<1> QED  BY <1>7, <1>8

\* resolve_decision_rule: the keyed lookups, the best row per choice and the bounded number of
\* unavailable choices decide what a scan of every matching rule decides, for every index,
\* every request and every limit.
THEOREM StagedLookupDecidesLikeAScan ==
    ASSUME GateConstants
    PROVE  Spec => []StagedQueryAgrees
<1>1. GateInv => StagedQueryAgrees
  BY GateStagedAgrees
<1> QED  BY <1>1, GateInvHolds, PTL
=============================================================================
