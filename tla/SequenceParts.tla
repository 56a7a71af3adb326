--------------------------- MODULE SequenceParts ---------------------------
(***************************************************************************)
(* What a filter keeps of a sequence, and what a sequence of numbers sums  *)
(* to, with the facts about both that proofs need.  The facts are proved   *)
(* by induction on the length, from the least number principle.            *)
(***************************************************************************)
EXTENDS Integers, Sequences, FiniteSets, FiniteSetTheorems, TLAPS

Before(positions, n) == Cardinality({p \in positions : p < n})
Place(positions, i) == CHOOSE p \in positions : Before(positions, p) = i - 1

(* The elements of seq at some positions, in their order. *)
Kept(seq, positions) == [i \in 1..Cardinality(positions) |-> seq[Place(positions, i)]]

SumOf(values) ==
  LET sum[n \in 0..Len(values)] == IF n = 0 THEN 0 ELSE sum[n - 1] + values[n]
  IN  sum[Len(values)]

(* The sum of the values of a function with a finite domain. *)
SumOver(f) ==
  LET sum[S \in SUBSET DOMAIN f] ==
        IF S = {} THEN 0 ELSE LET x == CHOOSE y \in S : TRUE IN f[x] + sum[S \ {x}]
  IN  sum[DOMAIN f]

-----------------------------------------------------------------------------
(* A set of natural numbers with zero and the successors of its members    *)
(* has them all.                                                           *)
LEMMA SetInduction ==
  ASSUME NEW S \in SUBSET Nat, 0 \in S, \A n \in S : n + 1 \in S
  PROVE  S = Nat
<1> DEFINE T == Nat \ S
           R == {p \in Nat \X Nat : p[1] < p[2]}
<1>1. SUFFICES ASSUME T # {} PROVE FALSE
  OBVIOUS
<1>2. IsWellFoundedOn(R, Nat)
  BY NatLessThanWellFounded DEF OpToRel
<1>3. PICK x \in T : \A y \in T : <<y, x>> \notin R
  <2> T \subseteq Nat
    OBVIOUS
  <2> HIDE DEF R, T
  <2> QED
    BY <1>1, <1>2, WFMin
<1>4. x - 1 \in Nat /\ <<x - 1, x>> \in R
  OBVIOUS
<1>5. x - 1 \in S /\ (x - 1) + 1 = x
  BY <1>3, <1>4
<1> QED
  BY <1>5

(* A set of natural numbers has a least one. *)
LEMMA LeastNumber ==
  ASSUME NEW T \in SUBSET Nat, T # {}
  PROVE  \E m \in T : \A k \in T : m <= k
<1> DEFINE S == {n \in Nat : \A k \in T : n <= k}
<1> SUFFICES ASSUME ~ \E m \in T : \A k \in T : m <= k PROVE FALSE
  OBVIOUS
<1>1. 0 \in S
  OBVIOUS
<1>2. ASSUME NEW n \in S PROVE n + 1 \in S
  <2>1. n \notin T
    OBVIOUS
  <2>2. \A k \in T : k # n /\ k \in Nat /\ n <= k
    BY <2>1
  <2> QED
    BY <2>2
<1>3. S = Nat
  <2>1. S \in SUBSET Nat
    OBVIOUS
  <2> HIDE DEF S
  <2> QED
    BY <1>1, <1>2, <2>1, SetInduction
<1>4. PICK k \in T : TRUE
  OBVIOUS
<1>5. k + 1 \in S
  BY <1>3, <1>4
<1> QED
  BY <1>4, <1>5

(* A set of subsets of a finite set that has the empty one, and with each  *)
(* of its members those with one element more, has them all.               *)
LEMMA SubsetInduction ==
  ASSUME NEW D, IsFiniteSet(D), NEW P \in SUBSET SUBSET D, {} \in P,
         \A T \in P : \A x \in D : T \cup {x} \in P
  PROVE  \A T \in SUBSET D : T \in P
<1> DEFINE S == {n \in Nat : \A T \in SUBSET D : Cardinality(T) = n => T \in P}
<1>0. \A T \in SUBSET D : IsFiniteSet(T) /\ Cardinality(T) \in Nat
  BY FS_Subset, FS_CardinalityType
<1>1. 0 \in S
  BY <1>0, FS_EmptySet
<1>2. ASSUME NEW n \in S PROVE n + 1 \in S
  <2> SUFFICES ASSUME NEW T \in SUBSET D, Cardinality(T) = n + 1 PROVE T \in P
    OBVIOUS
  <2>0. n \in Nat /\ n + 1 # 0 /\ IsFiniteSet(T)
    BY <1>0
  <2>1. T # {}
    BY <2>0, FS_EmptySet
  <2>2. PICK x \in T : TRUE
    BY <2>1
  <2>3. T \ {x} \in SUBSET D /\ Cardinality(T \ {x}) = n
    <3>1. Cardinality(T \ {x}) = Cardinality(T) - 1
      BY <2>0, FS_RemoveElement
    <3> QED
      BY <2>0, <3>1
  <2>4. T \ {x} \in P
    BY <2>3
  <2>5. T = (T \ {x}) \cup {x}
    OBVIOUS
  <2> QED
    BY <2>4, <2>5
<1>3. S = Nat
  <2>1. S \in SUBSET Nat
    OBVIOUS
  <2> HIDE DEF S
  <2> QED
    BY <1>1, <1>2, <2>1, SetInduction
<1> QED
  BY <1>0, <1>3

-----------------------------------------------------------------------------
(* How many positions come before n grows by one where n is one of them.   *)
LEMMA BeforeNext ==
  ASSUME NEW L \in Nat, NEW P \in SUBSET (1..L)
  PROVE  /\ IsFiniteSet(P) /\ Cardinality(P) \in Nat
         /\ \A n \in Nat : Before(P, n) \in Nat
         /\ Before(P, 1) = 0 /\ Before(P, L + 1) = Cardinality(P)
         /\ \A n \in Nat : Before(P, n + 1) = IF n \in P THEN Before(P, n) + 1 ELSE Before(P, n)
<1>0. \A p \in P : p \in Nat /\ 1 <= p /\ p <= L
  OBVIOUS
<1>1. IsFiniteSet(P)
  <2> IsFiniteSet(1..L)
    BY FS_Interval
  <2> QED
    BY FS_Subset
<1>2. ASSUME NEW n \in Nat PROVE IsFiniteSet({p \in P : p < n}) /\ Before(P, n) \in Nat
  BY <1>1, FS_Subset, FS_CardinalityType DEF Before
<1>3. Before(P, 1) = 0
  <2>1. \A p \in P : ~(p < 1)
    BY <1>0
  <2> {p \in P : p < 1} = {}
    BY <2>1, Zenon
  <2> QED
    BY FS_EmptySet DEF Before
<1>4. Before(P, L + 1) = Cardinality(P)
  <2>1. \A p \in P : p < L + 1
    BY <1>0
  <2> {p \in P : p < L + 1} = P
    BY <2>1, Zenon
  <2> QED
    BY DEF Before
<1>5. ASSUME NEW n \in Nat
      PROVE  Before(P, n + 1) = IF n \in P THEN Before(P, n) + 1 ELSE Before(P, n)
  <2>1. CASE n \in P
    <3>0. \A p \in P : p < n + 1 <=> p < n \/ p = n
      BY <1>0
    <3>1. {p \in P : p < n + 1} = {p \in P : p < n} \cup {n}
      BY <2>1, <3>0, Zenon
    <3>2. n \notin {p \in P : p < n}
      OBVIOUS
    <3> QED
      BY <1>2, <2>1, <3>1, <3>2, FS_AddElement DEF Before
  <2>2. CASE n \notin P
    <3>0. \A p \in P : p < n + 1 <=> p < n
      BY <1>0, <2>2
    <3>1. {p \in P : p < n + 1} = {p \in P : p < n}
      BY <3>0, Zenon
    <3> QED
      BY <2>2, <3>1 DEF Before
  <2> QED
    BY <2>1, <2>2
<1> QED
  BY <1>1, <1>2, <1>3, <1>4, <1>5, FS_CardinalityType

(* It never shrinks. *)
LEMMA BeforeRises ==
  ASSUME NEW L \in Nat, NEW P \in SUBSET (1..L), NEW m \in Nat, NEW n \in Nat, m < n
  PROVE  /\ Before(P, m) <= Before(P, n)
         /\ m \in P => Before(P, m) < Before(P, n)
<1>1. Before(P, m + 1) <= Before(P, n)
  <2>1. IsFiniteSet({p \in P : p < n})
    BY BeforeNext, FS_Subset
  <2>2. \A p \in P : p < m + 1 => p < n
    OBVIOUS
  <2>3. {p \in P : p < m + 1} \in SUBSET {p \in P : p < n}
    BY <2>2, Zenon
  <2> QED
    BY <2>1, <2>3, FS_Subset DEF Before
<1>2. Before(P, m + 1) = IF m \in P THEN Before(P, m) + 1 ELSE Before(P, m)
  BY BeforeNext
<1>3. Before(P, m) \in Nat /\ Before(P, n) \in Nat
  BY BeforeNext
<1> QED
  BY <1>1, <1>2, <1>3

(* Each number below the size of P is the rank of a position.              *)
LEMMA RanksTaken ==
  ASSUME NEW L \in Nat, NEW P \in SUBSET (1..L), NEW i \in 1..Cardinality(P)
  PROVE  \E p \in P : Before(P, p) = i - 1
<1> DEFINE S == {n \in Nat : \A k \in 0..Before(P, n + 1) - 1 : \E p \in P : Before(P, p) = k}
<1>1. 0 \in S
  BY BeforeNext
<1>2. ASSUME NEW n \in S PROVE n + 1 \in S
  <2>1. /\ n + 1 \in Nat /\ (n + 1) + 1 \in Nat
        /\ Before(P, n + 1) \in Nat /\ Before(P, (n + 1) + 1) \in Nat
    BY BeforeNext
  <2>2. Before(P, (n + 1) + 1) = IF n + 1 \in P THEN Before(P, n + 1) + 1 ELSE Before(P, n + 1)
    BY <2>1, BeforeNext
  <2>3. SUFFICES ASSUME NEW k \in 0..Before(P, (n + 1) + 1) - 1
                 PROVE  \E p \in P : Before(P, p) = k
    BY <2>1
  <2>4. CASE k = Before(P, n + 1) /\ n + 1 \in P
    BY <2>4
  <2>5. CASE k \in 0..Before(P, n + 1) - 1
    BY <2>5
  <2> QED
    BY <2>1, <2>2, <2>3, <2>4, <2>5
<1>3. S = Nat
  <2> HIDE DEF S
  <2>1. S \in SUBSET Nat
    BY DEF S
  <2> QED
    BY <1>1, <1>2, <2>1, SetInduction
<1>4. L \in S
  BY <1>3
<1>5. i - 1 \in 0..Before(P, L + 1) - 1
  BY BeforeNext
<1> QED
  BY <1>4, <1>5

(* What is kept is the elements at the positions, each once and in order.  *)
LEMMA KeptInOrder ==
  ASSUME NEW S, NEW seq \in Seq(S), NEW P \in SUBSET DOMAIN seq
  PROVE  /\ Kept(seq, P) \in Seq(S)
         /\ Len(Kept(seq, P)) = Cardinality(P) /\ Cardinality(P) \in Nat
         /\ \A i \in 1..Cardinality(P) : Place(P, i) \in P /\ Kept(seq, P)[i] = seq[Place(P, i)]
         /\ \A i, j \in 1..Cardinality(P) : i < j => Place(P, i) < Place(P, j)
         /\ \A p \in P : \E i \in 1..Cardinality(P) : Place(P, i) = p
<1> DEFINE L == Len(seq)
<1>1. L \in Nat /\ P \in SUBSET (1..L)
  OBVIOUS
<1> HIDE DEF L
<1>2. IsFiniteSet(P) /\ Cardinality(P) \in Nat
  BY <1>1, BeforeNext
<1>3. ASSUME NEW i \in 1..Cardinality(P)
      PROVE  Place(P, i) \in P /\ Before(P, Place(P, i)) = i - 1
  BY <1>1, RanksTaken DEF Place
<1>4. /\ Kept(seq, P) \in Seq(S) /\ Len(Kept(seq, P)) = Cardinality(P)
      /\ \A i \in 1..Cardinality(P) : Kept(seq, P)[i] = seq[Place(P, i)]
  BY <1>1, <1>2, <1>3 DEF Kept, L
<1>5. ASSUME NEW i \in 1..Cardinality(P), NEW j \in 1..Cardinality(P), i < j
      PROVE  Place(P, i) < Place(P, j)
  <2>1. Place(P, i) \in Nat /\ Place(P, j) \in Nat
    BY <1>1, <1>3
  <2>2. Place(P, j) < Place(P, i) => Before(P, Place(P, j)) <= Before(P, Place(P, i))
    BY <1>1, <2>1, BeforeRises
  <2> QED
    BY <1>3, <1>5, <2>1, <2>2
<1>6. ASSUME NEW p \in P PROVE \E i \in 1..Cardinality(P) : Place(P, i) = p
  <2>1. p \in Nat /\ p < L + 1 /\ L + 1 \in Nat
    BY <1>1
  <2>2. Before(P, p) \in Nat /\ Before(P, p) < Cardinality(P)
    <3>1. Before(P, p) < Before(P, L + 1)
      BY <1>1, <2>1, BeforeRises
    <3> QED
      BY <1>1, <2>1, <3>1, BeforeNext
  <2> DEFINE i == Before(P, p) + 1
  <2>3. i \in 1..Cardinality(P) /\ i - 1 = Before(P, p)
    BY <1>2, <2>2
  <2>4. Place(P, i) \in P /\ Before(P, Place(P, i)) = Before(P, p)
    BY <1>3, <2>3
  <2>5. Place(P, i) \in Nat
    BY <1>1, <2>4
  <2>6. ~(Place(P, i) < p) /\ ~(p < Place(P, i))
    <3> HIDE DEF i
    <3>1. Place(P, i) < p => Before(P, Place(P, i)) < Before(P, p)
      BY <1>1, <2>1, <2>4, <2>5, BeforeRises
    <3>2. p < Place(P, i) => Before(P, p) < Before(P, Place(P, i))
      BY <1>1, <2>1, <2>4, <2>5, BeforeRises
    <3> QED
      BY <2>2, <2>4, <3>1, <3>2
  <2> QED
    BY <2>1, <2>3, <2>5, <2>6
<1> QED
  BY <1>2, <1>3, <1>4, <1>5, <1>6

-----------------------------------------------------------------------------
(* The sums of the first elements of a sequence of numbers.                *)
Running(values, sum) ==
  /\ sum \in [0..Len(values) -> Int]
  /\ sum[0] = 0
  /\ \A n \in 1..Len(values) : sum[n] = sum[n - 1] + values[n]

LEMMA SumsExist ==
  ASSUME NEW values \in Seq(Int)
  PROVE  \E sum : Running(values, sum) /\ SumOf(values) = sum[Len(values)]
<1> DEFINE Def(f, n) == f = [k \in 0..n |-> IF k = 0 THEN 0 ELSE f[k - 1] + values[k]]
           L == Len(values)
           S == {n \in Nat : n <= L => \E f \in [0..n -> Int] : Def(f, n)}
<1>1. L \in Nat /\ \A n \in 1..L : values[n] \in Int
  OBVIOUS
<1> HIDE DEF L
<1>2. 0 \in S
  <2> DEFINE f == [k \in 0..0 |-> 0]
  <2>1. f \in [0..0 -> Int]
    OBVIOUS
  <2>2. Def(f, 0)
    OBVIOUS
  <2> QED
    BY <2>1, <2>2
<1>3. ASSUME NEW n \in S PROVE n + 1 \in S
  <2>0. n \in Nat /\ (n <= L => \E f \in [0..n -> Int] : Def(f, n))
    OBVIOUS
  <2>1. SUFFICES ASSUME n + 1 <= L PROVE \E f \in [0..n + 1 -> Int] : Def(f, n + 1)
    <3> HIDE DEF Def
    <3> QED
      BY <2>0
  <2>2. n \in Nat /\ n <= L /\ n + 1 \in 1..L
    BY <1>1, <2>0, <2>1
  <2>3. PICK g \in [0..n -> Int] : Def(g, n)
    BY <2>0, <2>2
  <2> DEFINE f == [k \in 0..n + 1 |-> IF k = n + 1 THEN g[n] + values[n + 1] ELSE g[k]]
  <2>4. g[n] \in Int /\ values[n + 1] \in Int
    BY <1>1, <2>2
  <2>5. f \in [0..n + 1 -> Int]
    BY <2>2, <2>4
  <2>6. ASSUME NEW k \in 0..n + 1
        PROVE  f[k] = IF k = 0 THEN 0 ELSE f[k - 1] + values[k]
    <3>1. CASE k = n + 1
      BY <2>2, <3>1
    <3>2. CASE k \in 0..n
      <4>1. g[k] = IF k = 0 THEN 0 ELSE g[k - 1] + values[k]
        BY <2>3, <3>2
      <4>2. f[k] = g[k] /\ k # n + 1
        BY <2>2, <3>2
      <4>3. k # 0 => f[k - 1] = g[k - 1]
        BY <2>2, <3>2
      <4> QED
        BY <4>1, <4>2, <4>3
    <3> QED
      BY <2>2, <3>1, <3>2
  <2>7. Def(f, n + 1)
    BY <2>6
  <2> HIDE DEF f
  <2> QED
    BY <2>5, <2>7
<1>4. S = Nat
  <2>1. S \in SUBSET Nat
    OBVIOUS
  <2> HIDE DEF S
  <2> QED
    BY <1>2, <1>3, <2>1, SetInduction
<1>5. PICK f \in [0..L -> Int] : Def(f, L)
  <2>1. L \in S
    BY <1>1, <1>4
  <2> HIDE DEF Def
  <2> QED
    BY <1>1, <2>1
<1> DEFINE sum == CHOOSE g : Def(g, L)
<1>6. Def(sum, L)
  BY <1>5
<1>7. SumOf(values) = sum[L]
  BY DEF SumOf, L
<1> HIDE DEF sum
<1>8. sum = f
  <2> DEFINE T == {n \in Nat : n <= L => sum[n] = f[n]}
  <2>1. 0 \in T
    BY <1>1, <1>5, <1>6
  <2>2. ASSUME NEW n \in T PROVE n + 1 \in T
    <3> SUFFICES ASSUME n + 1 <= L PROVE sum[n + 1] = f[n + 1]
      OBVIOUS
    <3>1. n + 1 \in 0..L /\ n + 1 # 0 /\ (n + 1) - 1 = n /\ sum[n] = f[n]
      BY <1>1
    <3>2. sum[n + 1] = sum[n] + values[n + 1]
      BY <1>6, <3>1
    <3>3. f[n + 1] = f[n] + values[n + 1]
      BY <1>5, <3>1
    <3> QED
      BY <3>1, <3>2, <3>3
  <2>3. T = Nat
    <3>1. T \in SUBSET Nat
      OBVIOUS
    <3> HIDE DEF T
    <3> QED
      BY <2>1, <2>2, <3>1, SetInduction
  <2>4. ASSUME NEW k \in 0..L PROVE sum[k] = f[k]
    <3>1. k \in Nat /\ k <= L
      BY <1>1
    <3>2. k \in T
      BY <2>3, <3>1
    <3> QED
      BY <3>1, <3>2
  <2>5. sum = [k \in 0..L |-> sum[k]] /\ f = [k \in 0..L |-> f[k]]
    BY <1>5, <1>6
  <2> QED
    BY <2>4, <2>5
<1>9. Running(values, f)
  <2>1. f[0] = 0
    BY <1>1, <1>5
  <2>2. ASSUME NEW n \in 1..L PROVE f[n] = f[n - 1] + values[n]
    BY <1>1, <1>5
  <2> QED
    BY <2>1, <2>2 DEF Running, L
<1> QED
  BY <1>7, <1>8, <1>9 DEF L

(* Sequences that start alike have the same sums as long as they do.       *)
LEMMA SumsAgree ==
  ASSUME NEW v, NEW w, NEW s, NEW t, Running(v, s), Running(w, t), Len(v) \in Nat, Len(w) \in Nat,
         NEW m \in Nat, m <= Len(v), m <= Len(w), \A i \in 1..m : v[i] = w[i]
  PROVE  s[m] = t[m]
<1> DEFINE T == {n \in Nat : n <= m => s[n] = t[n]}
<1>1. 0 \in T
  BY DEF Running
<1>2. ASSUME NEW n \in T PROVE n + 1 \in T
  <2> SUFFICES ASSUME n + 1 <= m PROVE s[n + 1] = t[n + 1]
    OBVIOUS
  <2>1. /\ n + 1 \in 1..Len(v) /\ n + 1 \in 1..Len(w) /\ n + 1 \in 1..m
        /\ (n + 1) - 1 = n /\ s[n] = t[n]
    OBVIOUS
  <2>2. s[n + 1] = s[n] + v[n + 1] /\ t[n + 1] = t[n] + w[n + 1]
    BY <2>1 DEF Running
  <2> QED
    BY <2>1, <2>2
<1>3. T = Nat
  <2>1. T \in SUBSET Nat
    OBVIOUS
  <2> HIDE DEF T
  <2> QED
    BY <1>1, <1>2, <2>1, SetInduction
<1> QED
  BY <1>3

LEMMA SumOfEmpty == SumOf(<<>>) = 0
<1>1. <<>> \in Seq(Int) /\ Len(<<>>) = 0
  OBVIOUS
<1>2. PICK sum : Running(<<>>, sum) /\ SumOf(<<>>) = sum[0]
  BY <1>1, SumsExist
<1> QED
  BY <1>2 DEF Running

(* One number more adds that number to the sum.                            *)
LEMMA SumOfAppend ==
  ASSUME NEW v \in Seq(Int), NEW x \in Int
  PROVE  SumOf(Append(v, x)) = SumOf(v) + x /\ SumOf(v) \in Int
<1> DEFINE w == Append(v, x)
           L == Len(v)
<1>1. w \in Seq(Int) /\ Len(w) = L + 1 /\ L \in Nat /\ w[L + 1] = x /\ \A i \in 1..L : v[i] = w[i]
  OBVIOUS
<1> HIDE DEF w
<1>2. PICK s : Running(v, s) /\ SumOf(v) = s[L]
  BY SumsExist
<1>3. PICK t : Running(w, t) /\ SumOf(w) = t[L + 1]
  BY <1>1, SumsExist
<1>4. s[L] = t[L]
  <2>1. Len(v) \in Nat /\ Len(w) \in Nat /\ L <= Len(v) /\ L <= Len(w)
    BY <1>1
  <2>2. Running(v, s) /\ Running(w, t) /\ L \in Nat
    BY <1>1, <1>2, <1>3
  <2>3. \A i \in 1..L : v[i] = w[i]
    BY <1>1
  <2> HIDE DEF L
  <2> QED
    BY <2>1, <2>2, <2>3, SumsAgree
<1> HIDE DEF L
<1>5. L + 1 \in 1..Len(w) /\ (L + 1) - 1 = L /\ L \in 0..L
  BY <1>1
<1>6. t[L + 1] = t[L] + x
  BY <1>1, <1>3, <1>5 DEF Running
<1>7. s[L] \in Int
  BY <1>2, <1>5 DEF Running, L
<1> QED
  BY <1>2, <1>3, <1>4, <1>6, <1>7 DEF w

-----------------------------------------------------------------------------
(* A sum of natural numbers is one, in whatever order they are added.      *)
LEMMA SumOverIsNat ==
  ASSUME NEW D, IsFiniteSet(D), NEW terms, DOMAIN terms = D, \A x \in D : terms[x] \in Nat
  PROVE  SumOver(terms) \in Nat
<1> DEFINE pick(T) == CHOOSE x \in T : TRUE
           Step(g, T) == IF T = {} THEN 0 ELSE terms[pick(T)] + g[T \ {pick(T)}]
           Small(n) == {T \in SUBSET D : Cardinality(T) <= n}
           Def(g, n) == \A T \in Small(n) : g[T] = Step(g, T)
           S == {n \in Nat : \E g \in [Small(n) -> Nat] : Def(g, n)}
<1>0. \A T \in SUBSET D : IsFiniteSet(T) /\ Cardinality(T) \in Nat
  BY FS_Subset, FS_CardinalityType
<1>1. 0 \in Nat
  OBVIOUS
<1>2. ASSUME NEW T \in SUBSET D, T # {}
      PROVE  /\ pick(T) \in T /\ terms[pick(T)] \in Nat
             /\ T \ {pick(T)} \in SUBSET D
             /\ Cardinality(T \ {pick(T)}) = Cardinality(T) - 1 /\ Cardinality(T) # 0
  <2>1. pick(T) \in T
    BY <1>2
  <2> HIDE DEF pick
  <2>2. IsFiniteSet(T)
    BY <1>0
  <2>3. Cardinality(T \ {pick(T)}) = Cardinality(T) - 1
    BY <2>1, <2>2, FS_RemoveElement
  <2>4. Cardinality(T) # 0
    BY <1>2, <2>2, FS_EmptySet
  <2> QED
    BY <2>1, <2>3, <2>4
<1> HIDE DEF pick
<1>3. 0 \in S
  <2> DEFINE g == [T \in Small(0) |-> 0]
  <2>1. ASSUME NEW T \in Small(0) PROVE T = {}
    <3>1. T \in SUBSET D /\ Cardinality(T) <= 0
      OBVIOUS
    <3> QED
      BY <1>0, <3>1, FS_EmptySet
  <2>2. g \in [Small(0) -> Nat] /\ Def(g, 0)
    BY <1>1, <2>1
  <2> QED
    BY <2>2
<1>4. ASSUME NEW n \in S PROVE n + 1 \in S
  <2>1. n \in Nat /\ \E g \in [Small(n) -> Nat] : Def(g, n)
    OBVIOUS
  <2>2. PICK g \in [Small(n) -> Nat] : Def(g, n)
    BY <2>1
  <2> DEFINE h == [T \in Small(n + 1) |-> Step(g, T)]
  <2>3. ASSUME NEW T \in Small(n + 1), T # {} PROVE T \ {pick(T)} \in Small(n)
    <3>1. T \in SUBSET D /\ Cardinality(T) <= n + 1 /\ Cardinality(T) \in Nat
      BY <1>0
    <3>2. T \ {pick(T)} \in SUBSET D /\ Cardinality(T \ {pick(T)}) = Cardinality(T) - 1
      BY <1>2, <2>3, <3>1
    <3> QED
      BY <2>1, <3>1, <3>2
  <2>4. ASSUME NEW T \in Small(n + 1) PROVE Step(g, T) \in Nat
    <3>1. CASE T = {}
      BY <1>1, <3>1
    <3>2. CASE T # {}
      <4>1. T \ {pick(T)} \in Small(n) /\ terms[pick(T)] \in Nat
        BY <1>2, <2>3, <3>2
      <4>2. g[T \ {pick(T)}] \in Nat
        BY <2>2, <4>1
      <4>3. terms[pick(T)] + g[T \ {pick(T)}] \in Nat
        BY <4>1, <4>2
      <4> QED
        BY <3>2, <4>3
    <3> QED
      BY <3>1, <3>2
  <2>5. ASSUME NEW T \in Small(n) PROVE T \in Small(n + 1) /\ h[T] = g[T]
    <3>1. T \in SUBSET D /\ Cardinality(T) <= n /\ Cardinality(T) \in Nat
      BY <1>0
    <3>2. T \in Small(n + 1)
      BY <2>1, <3>1
    <3>3. g[T] = Step(g, T)
      BY <2>2
    <3> HIDE DEF Step, Small
    <3> QED
      BY <3>2, <3>3
  <2>6. ASSUME NEW T \in Small(n + 1) PROVE h[T] = Step(h, T)
    <3>1. h[T] = Step(g, T)
      OBVIOUS
    <3>2. CASE T = {}
      BY <3>1, <3>2
    <3>3. CASE T # {}
      <4>1. h[T \ {pick(T)}] = g[T \ {pick(T)}]
        BY <2>3, <2>5, <3>3
      <4> HIDE DEF h
      <4> QED
        BY <3>1, <3>3, <4>1
    <3> QED
      BY <3>2, <3>3
  <2>7. h \in [Small(n + 1) -> Nat]
    <3> HIDE DEF Step, Small
    <3> QED
      BY <2>4
  <2> HIDE DEF h, Step
  <2>8. \E w \in [Small(n + 1) -> Nat] : Def(w, n + 1)
    BY <2>6, <2>7
  <2> HIDE DEF Small, Def
  <2> QED
    BY <2>1, <2>8
<1>5. S = Nat
  <2>1. S \in SUBSET Nat
    OBVIOUS
  <2> HIDE DEF S
  <2> QED
    BY <1>3, <1>4, <2>1, SetInduction
<1> DEFINE N == Cardinality(D)
<1>6. N \in Nat /\ Small(N) = SUBSET D
  <2>1. N \in Nat /\ \A T \in SUBSET D : Cardinality(T) <= N
    BY FS_Subset, FS_CardinalityType
  <2> QED
    BY <2>1
<1> DEFINE Whole(g) == g = [T \in SUBSET D |-> Step(g, T)]
           total == CHOOSE g : Whole(g)
<1>7. \E g : Whole(g)
  <2>0. \E g \in [Small(N) -> Nat] : Def(g, N)
    <3>1. N \in S
      <4> HIDE DEF S, N
      <4> QED
        BY <1>5, <1>6
    <3> HIDE DEF Small, Def, N
    <3> QED
      BY <3>1
  <2>1. PICK g \in [Small(N) -> Nat] : Def(g, N)
    BY <2>0
  <2> HIDE DEF N, Step
  <2>2. g \in [SUBSET D -> Nat] /\ \A T \in SUBSET D : g[T] = Step(g, T)
    BY <1>6, <2>1
  <2>3. g = [T \in SUBSET D |-> Step(g, T)]
    BY <2>2
  <2> QED
    BY <2>3
<1>8. Whole(total)
  <2> HIDE DEF Whole
  <2> QED
    BY <1>7
<1>9. SumOver(terms) = total[D]
  BY DEF SumOver, pick
<1> HIDE DEF total
<1> DEFINE R == {n \in Nat : \A T \in SUBSET D : Cardinality(T) = n => total[T] \in Nat}
<1>10. \A T \in SUBSET D : total[T] = Step(total, T)
  <2> HIDE DEF Step
  <2> QED
    BY <1>8
<1>11. 0 \in R
  <2> SUFFICES ASSUME NEW T \in SUBSET D, Cardinality(T) = 0 PROVE total[T] \in Nat
    OBVIOUS
  <2>1. T = {}
    BY <1>0, FS_EmptySet
  <2> QED
    BY <1>1, <1>10, <2>1
<1>12. ASSUME NEW n \in R PROVE n + 1 \in R
  <2> SUFFICES ASSUME NEW T \in SUBSET D, Cardinality(T) = n + 1 PROVE total[T] \in Nat
    OBVIOUS
  <2>1. n \in Nat /\ \A U \in SUBSET D : Cardinality(U) = n => total[U] \in Nat
    OBVIOUS
  <2>2. T # {}
    <3>1. n + 1 # 0
      BY <2>1
    <3> QED
      BY <3>1, FS_EmptySet
  <2>3. /\ terms[pick(T)] \in Nat /\ T \ {pick(T)} \in SUBSET D
        /\ Cardinality(T \ {pick(T)}) = (n + 1) - 1
    BY <1>2, <2>2
  <2>4. total[T \ {pick(T)}] \in Nat
    BY <2>1, <2>3
  <2>5. total[T] = terms[pick(T)] + total[T \ {pick(T)}]
    BY <1>10, <2>2
  <2> QED
    BY <2>3, <2>4, <2>5
<1>13. R = Nat
  <2>1. R \in SUBSET Nat
    OBVIOUS
  <2> HIDE DEF R
  <2> QED
    BY <1>11, <1>12, <2>1, SetInduction
<1>14. total[D] \in Nat
  <2>1. N \in R
    BY <1>6, <1>13
  <2> QED
    BY <2>1
<1> QED
  BY <1>9, <1>14

(* The image of a finite set is finite.                                    *)
LEMMA FiniteImage ==
  ASSUME NEW D, IsFiniteSet(D), NEW G, DOMAIN G = D, G = [x \in D |-> G[x]]
  PROVE  IsFiniteSet({G[x] : x \in D})
<1>1. G \in Surjection(D, {G[x] : x \in D})
  BY DEF Surjection
<1> QED
  BY <1>1, FS_Surjection
=============================================================================
