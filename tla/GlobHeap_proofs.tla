-------------------------- MODULE GlobHeap_proofs --------------------------
(***************************************************************************)
(* Proofs about the global heap (GlobHeapMem.h, GlobHeapPtr.h), for any    *)
(* number of units, any arguments of grow and shrink and any number of     *)
(* calls and commits: a unit's books about its own memory are balanced,    *)
(* after a commit the units know each other's sizes, and the addresses     *)
(* that they compute are right.                                            *)
(*                                                                         *)
(* Argument.  Sums: the folds of the model satisfy the equations of a sum, *)
(* because every finite set has some function with these equations (take   *)
(* a smallest subset that has none).  OwnBooks: shrink drops the last      *)
(* buckets (DroppedIsTail) and leaves as many elements as it should        *)
(* (ShrunkList).  StageInv: the barriers keep the units within one step of *)
(* each other.  KnowsInv: unless something has changed at u since v        *)
(* learned its size (Fresh), v has that size; until v learns it, what it   *)
(* knew is the size of u's attached buckets, or more when u gave some of   *)
(* them up.  RemoteInv: the same of the remote size.  PlacesInv: v knows   *)
(* not only the size but the sums up to every bucket, and the bucket in    *)
(* place b was attached by call b.  RoundsInv: all units make as many      *)
(* attach calls in a commit, so place b of the caller's list and of the    *)
(* owner's name the same call.                                             *)
(***************************************************************************)
EXTENDS GlobHeap, FiniteSetTheorems, SequenceTheorems, TLAPS

\* Every set of finite sets that is not empty has an element that contains no other one.
LEMMA SmallestSubset ==
  ASSUME NEW S, NEW B, B \subseteq SUBSET S, B # {}, IsFiniteSet(S)
  PROVE  \E T \in B : \A U \in B : U \subseteq T => U = T
<1>1. B \subseteq FiniteSubsetsOf(S)
  BY FS_FiniteSubsetsOfFinite
<1>2. IsWellFoundedOn(StrictSubsetOrdering(S), FiniteSubsetsOf(S))
  BY FS_StrictSubsetOrderingWellFounded
<1>3. \E T \in B : \A U \in B : ~ (<<U, T>> \in StrictSubsetOrdering(S))
  BY <1>1, <1>2, WFMin
<1>4. PICK T \in B : \A U \in B : ~ (<<U, T>> \in StrictSubsetOrdering(S))
  BY <1>3
<1>5. \A U \in B : U \subseteq T => U = T
  BY <1>4 DEF StrictSubsetOrdering
<1> QED  BY <1>5

\* Every set of natural numbers that is not empty has a smallest element.
LEMMA SmallestNumber ==
  \A B \in SUBSET Nat : B # {} => \E n \in B : \A k \in B : n <= k
<1> SUFFICES ASSUME NEW B \in SUBSET Nat, B # {} PROVE \E n \in B : \A k \in B : n <= k
  OBVIOUS
<1>1. IsWellFoundedOn(OpToRel(<,Nat), Nat)
  BY NatLessThanWellFounded
<1> DEFINE R == {ss \in Nat \X Nat : ss[1] < ss[2]}
<1>2. R = OpToRel(<,Nat)
  BY DEF OpToRel
<1>3. IsWellFoundedOn(R, Nat)
  BY <1>1, <1>2
<1>4. \E n \in B : \A k \in B : ~ (<<k, n>> \in R)
  <2> HIDE DEF R
  <2> QED BY <1>3, WFMin
<1>5. PICK n \in B : \A k \in B : ~ (<<k, n>> \in R)
  BY <1>4
<1>6. ASSUME NEW k \in B PROVE n <= k
  <2>1. ~ (<<k, n>> \in R)
    BY <1>5
  <2>2. k \in Nat /\ n \in Nat /\ ~ (k < n)
    BY <2>1
  <2> QED  BY <2>2
<1> QED  BY <1>6

\* A set that contains 0 and with a number the next one contains all natural numbers.
LEMMA CountUp ==
  \A S : 0 \in S /\ (\A n \in Nat : n \in S => n + 1 \in S) => \A n \in Nat : n \in S
<1> SUFFICES ASSUME NEW S, 0 \in S, \A n \in Nat : n \in S => n + 1 \in S,
                    NEW m \in Nat, m \notin S
             PROVE  FALSE
  OBVIOUS
<1> DEFINE B == {n \in Nat : n \notin S}
<1>1. PICK n \in B : \A k \in B : n <= k
  BY SmallestNumber
<1>2. n # 0 /\ n - 1 \in Nat /\ n - 1 \notin B
  BY <1>1
<1>3. (n - 1) + 1 \in S
  BY <1>2
<1> QED  BY <1>1, <1>3

----------------------------------------------------------------------------
(* Sums. *)

Total(f, S) == FoldFunctionOnSet(LAMBDA a, b : a + b, 0, f, S)

\* g tells the sum of f over every subset of S.
IsSum(g, f, S) ==
    /\ g \in [SUBSET S -> Int]
    /\ g[{}] = 0
    /\ \A T \in SUBSET S : \A x \in T : g[T] = f[x] + g[T \ {x}]

Ints(f, S) == \A i \in S : f[i] \in Int
HasSum(f, S) == \E g : IsSum(g, f, S)

\* With one more element, there are still sums.
LEMMA SumWithOneMore ==
  ASSUME NEW f, NEW S, NEW x \in S, Ints(f, S), HasSum(f, S \ {x})
  PROVE  HasSum(f, S)
<1>1. PICK g : IsSum(g, f, S \ {x})
  BY DEF HasSum
<1> DEFINE h == [T \in SUBSET S |-> IF x \in T THEN f[x] + g[T \ {x}] ELSE g[T]]
<1>2. \A T \in SUBSET S : T \ {x} \in SUBSET (S \ {x}) /\ g[T \ {x}] \in Int /\ (x \notin T => g[T] \in Int)
  <2> TAKE T \in SUBSET S
  <2>1. T \ {x} \in SUBSET (S \ {x})
    OBVIOUS
  <2>2. x \notin T => T \ {x} = T
    OBVIOUS
  <2> QED  BY <2>1, <2>2, <1>1 DEF IsSum
<1>3. h \in [SUBSET S -> Int]
  <2>1. \A T \in SUBSET S : (IF x \in T THEN f[x] + g[T \ {x}] ELSE g[T]) \in Int
    BY <1>2, f[x] \in Int DEF Ints
  <2> QED  BY <2>1
<1>4. h[{}] = 0
  BY <1>1 DEF IsSum
<1>5. ASSUME NEW T \in SUBSET S, NEW y \in T PROVE h[T] = f[y] + h[T \ {y}]
  <2>1. CASE y = x
    <3>1. x \notin T \ {y} /\ T \ {y} \in SUBSET S /\ T \ {y} = T \ {x}
      BY <2>1
    <3> QED  BY <2>1, <3>1
  <2>2. CASE y # x /\ x \in T
    <3>1. T \ {x} \in SUBSET (S \ {x}) /\ y \in T \ {x} /\ T \ {y} \in SUBSET S /\ x \in T \ {y}
      BY <2>2
    <3>2. (T \ {x}) \ {y} = (T \ {y}) \ {x}
      OBVIOUS
    <3>3. g[T \ {x}] = f[y] + g[(T \ {y}) \ {x}]
      BY <1>1, <3>1, <3>2 DEF IsSum
    <3>4. h[T] = f[x] + g[T \ {x}] /\ h[T \ {y}] = f[x] + g[(T \ {y}) \ {x}]
      BY <2>2, <3>1
    <3>5. g[(T \ {y}) \ {x}] \in Int
      BY <1>2, <3>1
    <3>6. f[y] \in Int /\ f[x] \in Int
      BY DEF Ints
    <3> QED  BY <3>3, <3>4, <3>5, <3>6
  <2>3. CASE x \notin T
    <3>1. T \in SUBSET (S \ {x}) /\ T \ {y} \in SUBSET S /\ x \notin T \ {y}
      BY <2>3
    <3>2. h[T] = g[T] /\ h[T \ {y}] = g[T \ {y}]
      BY <2>3, <3>1
    <3>3. g[T] = f[y] + g[T \ {y}]
      BY <3>1, <1>1 DEF IsSum
    <3> QED  BY <3>2, <3>3
  <2> QED  BY <2>1, <2>2, <2>3
<1>6. IsSum(h, f, S)
  <2> HIDE DEF h
  <2> QED BY <1>3, <1>4, <1>5 DEF IsSum
<1> QED  BY <1>6 DEF HasSum

\* The values of f over a finite set can be added up.
LEMMA FiniteHasSum ==
  ASSUME NEW f, NEW S, IsFiniteSet(S), Ints(f, S)
  PROVE  HasSum(f, S)
<1> SUFFICES ASSUME ~HasSum(f, S) PROVE FALSE
  OBVIOUS
<1> DEFINE B == {T \in SUBSET S : ~HasSum(f, T)}
<1>1. B \subseteq SUBSET S /\ B # {}
  BY S \in B
<1>2. PICK T \in B : \A U \in B : U \subseteq T => U = T
  <2> HIDE DEF B
  <2> QED  BY <1>1, SmallestSubset
<1>3. CASE T = {}
  <2> DEFINE g == [X \in {{}} |-> 0]
  <2>1. SUBSET {} = {{}}
    OBVIOUS
  <2>2. g \in [SUBSET {} -> Int] /\ g[{}] = 0
    BY <2>1
  <2>3. IsSum(g, f, {})
    <3> HIDE DEF g
    <3> QED  BY <2>2, <2>1 DEF IsSum
  <2> QED  BY <1>3, <2>3 DEF HasSum
<1>4. CASE T # {}
  <2>1. PICK x \in T : TRUE
    BY <1>4
  <2>2. T \ {x} \notin B /\ T \ {x} \in SUBSET S
    BY <1>2, <2>1
  <2>3. HasSum(f, T \ {x}) /\ Ints(f, T)
    BY <2>2, <1>1 DEF Ints
  <2>4. HasSum(f, T)
    BY <2>1, <2>3, SumWithOneMore
  <2> QED  BY <2>4
<1> QED  BY <1>3, <1>4

\* The fold is that sum, whatever order it takes the elements in.
LEMMA FoldIsSum ==
  ASSUME NEW f, NEW S, IsFiniteSet(S), NEW g, IsSum(g, f, S)
  PROVE  Total(f, S) = g[S]
<1> DEFINE next(h, T) == IF T = {} THEN 0 ELSE f[CHOOSE x \in T : TRUE] + h[T \ {CHOOSE x \in T : TRUE}]
           iter == CHOOSE h : h = [T \in SUBSET S |-> next(h, T)]
<1>1. Total(f, S) = iter[S]
  BY DEF Total, FoldFunctionOnSet, MapThenFoldSet
<1>2. g = [T \in SUBSET S |-> next(g, T)]
  <2>1. \A T \in SUBSET S : g[T] = next(g, T)
    BY DEF IsSum
  <2>2. g = [T \in SUBSET S |-> g[T]]
    BY DEF IsSum
  <2> QED  BY <2>1, <2>2
<1>3. iter = [T \in SUBSET S |-> next(iter, T)]
  <2> HIDE DEF next
  <2> QED  BY <1>2
<1>4. \A T \in SUBSET S : iter[T] = g[T]
  <2> SUFFICES ASSUME NEW V \in SUBSET S, iter[V] # g[V] PROVE FALSE
    OBVIOUS
  <2> DEFINE B == {T \in SUBSET S : iter[T] # g[T]}
  <2> HIDE DEF iter
  <2>1. PICK T \in B : \A U \in B : U \subseteq T => U = T
    <3>1. B \subseteq SUBSET S /\ B # {}
      OBVIOUS
    <3> HIDE DEF B
    <3> QED  BY <3>1, SmallestSubset
  <2>2. iter[T] = next(iter, T) /\ g[T] = next(g, T)
    BY <1>2, <1>3
  <2>3. T # {}
    BY <2>2
  <2> DEFINE x == CHOOSE x \in T : TRUE
  <2>4. x \in T
    BY <2>3
  <2>5. T \ {x} \in SUBSET S /\ T \ {x} \notin B
    <3> HIDE DEF x
    <3> QED  BY <2>1, <2>4
  <2>6. iter[T \ {x}] = g[T \ {x}]
    BY <2>5
  <2> QED  BY <2>2, <2>3, <2>6
<1> QED  BY <1>1, <1>4

\* A sum without elements is 0; one element can be taken out of a sum; the sum is an integer,
\* and depends on nothing but the values at the elements.
LEMMA TotalEmpty == \A f : Total(f, {}) = 0
<1> TAKE f
<1>1. IsFiniteSet({}) /\ Ints(f, {})
  BY FS_EmptySet DEF Ints
<1>2. PICK g : IsSum(g, f, {})
  BY <1>1, FiniteHasSum DEF HasSum
<1>3. Total(f, {}) = g[{}]
  BY <1>1, <1>2, FoldIsSum
<1> QED  BY <1>2, <1>3 DEF IsSum

\* The sum over a finite set is that of one element and the sum over the others.
LEMMA TotalSplit ==
  ASSUME NEW f, NEW S, IsFiniteSet(S), Ints(f, S)
  PROVE  Total(f, S) \in Int /\ \A x \in S : Total(f, S) = f[x] + Total(f, S \ {x})
<1>1. PICK g : IsSum(g, f, S)
  BY FiniteHasSum DEF HasSum
<1>2. Total(f, S) = g[S] /\ g[S] \in Int
  <2>1. S \in SUBSET S
    OBVIOUS
  <2>2. Total(f, S) = g[S]
    BY <1>1, FoldIsSum
  <2> QED  BY <2>1, <2>2, <1>1 DEF IsSum
<1>3. ASSUME NEW x \in S PROVE Total(f, S) = f[x] + Total(f, S \ {x})
  <2> DEFINE V == S \ {x}
             h == [T \in SUBSET V |-> g[T]]
  <2>1. V \in SUBSET S /\ SUBSET V \subseteq SUBSET S /\ IsFiniteSet(V)
    BY FS_Subset
  <2>2. h \in [SUBSET V -> Int] /\ h[{}] = 0
    BY <2>1, <1>1 DEF IsSum
  <2>3. ASSUME NEW T \in SUBSET V, NEW y \in T PROVE h[T] = f[y] + h[T \ {y}]
    <3>1. T \ {y} \in SUBSET V /\ T \in SUBSET S
      BY <2>1
    <3>2. g[T] = f[y] + g[T \ {y}]
      BY <3>1, <1>1 DEF IsSum
    <3> QED  BY <3>1, <3>2
  <2>4. IsSum(h, f, V) /\ h[V] = g[V]
    <3>1. h[V] = g[V]
      OBVIOUS
    <3> HIDE DEF h
    <3> QED  BY <3>1, <2>2, <2>3 DEF IsSum
  <2>5. Total(f, V) = g[V]
    <3> HIDE DEF h, V
    <3> QED  BY <2>1, <2>4, FoldIsSum
  <2>6. g[S] = f[x] + g[V]
    BY <1>1 DEF IsSum
  <2> QED  BY <2>5, <2>6, <1>2
<1> QED  BY <1>2, <1>3

\* Functions that agree on a finite set have the same sum over it.
LEMMA TotalSame ==
  ASSUME NEW f, NEW h, NEW S, IsFiniteSet(S), Ints(f, S), \A i \in S : h[i] = f[i]
  PROVE  Total(h, S) = Total(f, S)
<1>1. PICK g : IsSum(g, f, S)
  BY FiniteHasSum DEF HasSum
<1>2. IsSum(g, h, S)
  BY <1>1 DEF IsSum
<1> QED  BY <1>1, <1>2, FoldIsSum

----------------------------------------------------------------------------
(* Lists of buckets. *)

Bucket == [size : Nat, seg : Nat]

\* The fields of the buckets in a list.
LEMMA BucketAt ==
  \A s \in Seq(Bucket) : \A j \in 1 .. Len(s) :
     s[j] \in Bucket /\ s[j].size \in Nat /\ s[j].seg \in Nat /\ Sizes(s)[j] = s[j].size
<1> SUFFICES ASSUME NEW s \in Seq(Bucket), NEW j \in 1 .. Len(s)
             PROVE  s[j] \in Bucket /\ s[j].size \in Nat /\ s[j].seg \in Nat /\ Sizes(s)[j] = s[j].size
  OBVIOUS
<1>1. s[j] \in Bucket /\ j \in DOMAIN s
  OBVIOUS
<1>2. s[j].size \in Nat /\ s[j].seg \in Nat
  BY <1>1 DEF Bucket
<1>3. Sizes(s)[j] = s[j].size
  BY <1>1 DEF Sizes
<1> QED  BY <1>1, <1>2, <1>3

\* The elements in the first buckets of a list are a sum.
LEMMA UpToIsTotal == \A s, i : UpTo(s, i) = Total(Sizes(s), 1 .. i)
BY DEF UpTo, Total

\* One more bucket adds its size.
LEMMA UpToNext ==
  \A s \in Seq(Bucket) :
     /\ UpTo(s, 0) = 0
     /\ \A i \in 1 .. Len(s) : UpTo(s, i) = s[i].size + UpTo(s, i - 1)
<1> SUFFICES ASSUME NEW s \in Seq(Bucket)
             PROVE  /\ UpTo(s, 0) = 0
                    /\ \A i \in 1 .. Len(s) : UpTo(s, i) = s[i].size + UpTo(s, i - 1)
  OBVIOUS
<1>1. UpTo(s, 0) = 0
  <2>1. 1 .. 0 = {}
    OBVIOUS
  <2> QED  BY <2>1, UpToIsTotal, TotalEmpty
<1>2. ASSUME NEW i \in 1 .. Len(s) PROVE UpTo(s, i) = s[i].size + UpTo(s, i - 1)
  <2>1. IsFiniteSet(1 .. i)
    BY FS_Interval
  <2>2. \A j \in 1 .. i : Sizes(s)[j] = s[j].size /\ s[j].size \in Int
    BY BucketAt
  <2>3. Ints(Sizes(s), 1 .. i)
    BY <2>2 DEF Ints
  <2>4. (1 .. i) \ {i} = 1 .. (i - 1)
    OBVIOUS
  <2>5. Total(Sizes(s), 1 .. i) = Sizes(s)[i] + Total(Sizes(s), (1 .. i) \ {i})
    <3> DEFINE S == 1 .. i
    <3>1. i \in S
      OBVIOUS
    <3> HIDE DEF S
    <3> QED  BY <2>1, <2>3, <3>1, TotalSplit DEF S
  <2>6. UpTo(s, i) = Total(Sizes(s), 1 .. i) /\ UpTo(s, i - 1) = Total(Sizes(s), 1 .. (i - 1))
    BY UpToIsTotal
  <2>7. Sizes(s)[i] = s[i].size
    BY <2>2
  <2> QED  BY <2>4, <2>5, <2>6, <2>7
<1> QED  BY <1>1, <1>2

\* ... and never negative.
LEMMA UpToNat ==
  \A s \in Seq(Bucket) : \A i \in 0 .. Len(s) : UpTo(s, i) \in Nat
<1> SUFFICES ASSUME NEW s \in Seq(Bucket) PROVE \A i \in 0 .. Len(s) : UpTo(s, i) \in Nat
  OBVIOUS
<1> DEFINE S == {n \in Nat : n <= Len(s) => UpTo(s, n) \in Nat}
<1>1. 0 \in S
  BY UpToNext
<1>2. ASSUME NEW n \in Nat, n \in S PROVE n + 1 \in S
  <2>1. CASE n + 1 <= Len(s)
    <3>1. n + 1 \in 1 .. Len(s) /\ UpTo(s, n) \in Nat
      BY <1>2, <2>1
    <3>2. UpTo(s, n + 1) = s[n + 1].size + UpTo(s, (n + 1) - 1)
      BY <3>1, UpToNext
    <3>3. s[n + 1].size \in Nat
      BY <3>1, BucketAt
    <3> QED  BY <3>1, <3>2, <3>3
  <2> QED  BY <2>1
<1>3. \A n \in Nat : n \in S
  <2> HIDE DEF S
  <2> QED  BY <1>1, <1>2, CountUp
<1> QED  BY <1>3

\* Lists with the same sizes up to a bucket have the same sums up to there.
LEMMA UpToSame ==
  \A s, t \in Seq(Bucket) : \A n \in Nat :
     n <= Len(s) /\ n <= Len(t) /\ (\A j \in 1 .. n : s[j].size = t[j].size)
       => UpTo(s, n) = UpTo(t, n)
<1> SUFFICES ASSUME NEW s \in Seq(Bucket), NEW t \in Seq(Bucket), NEW n \in Nat,
                    n <= Len(s), n <= Len(t), \A j \in 1 .. n : s[j].size = t[j].size
             PROVE  UpTo(s, n) = UpTo(t, n)
  OBVIOUS
<1> DEFINE S == 1 .. n
<1>1. IsFiniteSet(S)
  BY FS_Interval
<1>2. \A j \in S : Sizes(s)[j] = s[j].size /\ Sizes(t)[j] = t[j].size /\ t[j].size \in Int
  BY BucketAt
<1>3. Ints(Sizes(t), S) /\ \A j \in S : Sizes(s)[j] = Sizes(t)[j]
  BY <1>2 DEF Ints
<1>4. Total(Sizes(s), S) = Total(Sizes(t), S)
  <2> HIDE DEF S
  <2> QED  BY <1>1, <1>3, TotalSame
<1> QED  BY <1>4, UpToIsTotal

\* The sums grow along the list.
LEMMA UpToGrows ==
  \A s \in Seq(Bucket) : \A i, j \in 0 .. Len(s) : i <= j => UpTo(s, i) <= UpTo(s, j)
<1> SUFFICES ASSUME NEW s \in Seq(Bucket), NEW i \in 0 .. Len(s)
             PROVE  \A j \in 0 .. Len(s) : i <= j => UpTo(s, i) <= UpTo(s, j)
  OBVIOUS
<1> DEFINE S == {n \in Nat : i <= n /\ n <= Len(s) => UpTo(s, i) <= UpTo(s, n)}
<1>1. 0 \in S
  BY UpToNat
<1>2. ASSUME NEW n \in Nat, n \in S PROVE n + 1 \in S
  <2>1. CASE i <= n /\ n + 1 <= Len(s)
    <3>1. UpTo(s, i) <= UpTo(s, n) /\ n + 1 \in 1 .. Len(s)
      BY <1>2, <2>1
    <3>2. UpTo(s, n + 1) = s[n + 1].size + UpTo(s, (n + 1) - 1)
      BY <3>1, UpToNext
    <3>3. s[n + 1].size \in Nat /\ UpTo(s, n) \in Nat /\ UpTo(s, i) \in Nat
      BY <3>1, UpToNat, BucketAt
    <3> QED  BY <3>1, <3>2, <3>3
  <2>2. CASE i = n + 1
    <3> SUFFICES ASSUME n + 1 <= Len(s) PROVE UpTo(s, i) <= UpTo(s, n + 1)
      OBVIOUS
    <3>1. UpTo(s, i) \in Nat
      BY UpToNat
    <3> QED  BY <2>2, <3>1
  <2>3. CASE ~(i <= n + 1 /\ n + 1 <= Len(s))
    BY <2>3
  <2> QED  BY <2>1, <2>2, <2>3
<1>3. \A n \in Nat : n \in S
  <2> HIDE DEF S
  <2> QED  BY <1>1, <1>2, CountUp
<1> QED  BY <1>3

\* The sums over a tail of the list are differences.
LEMMA UpToTail ==
  \A s \in Seq(Bucket) : \A m \in 1 .. Len(s) + 1 : \A n \in Nat :
     n <= Len(s) - m + 1 => UpTo(SubSeq(s, m, Len(s)), n) = UpTo(s, (m - 1) + n) - UpTo(s, m - 1)
<1> SUFFICES ASSUME NEW s \in Seq(Bucket), NEW m \in 1 .. Len(s) + 1
             PROVE  \A n \in Nat : n <= (Len(s) - m) + 1
                      => UpTo(SubSeq(s, m, Len(s)), n) = UpTo(s, (m - 1) + n) - UpTo(s, m - 1)
  OBVIOUS
<1> DEFINE t == SubSeq(s, m, Len(s))
           S == {n \in Nat : n <= (Len(s) - m) + 1
                              => UpTo(t, n) = UpTo(s, (m - 1) + n) - UpTo(s, m - 1)}
<1>1. /\ t \in Seq(Bucket) /\ Len(t) = (Len(s) - m) + 1
      /\ \A i \in 1 .. Len(t) : t[i] = s[(m - 1) + i]
  OBVIOUS
<1>2. 0 \in S
  <2> HIDE DEF t
  <2>1. UpTo(t, 0) = 0 /\ UpTo(s, m - 1) \in Nat
    BY <1>1, UpToNext, UpToNat
  <2>2. (m - 1) + 0 = m - 1
    OBVIOUS
  <2> QED  BY <2>1, <2>2
<1>3. ASSUME NEW n \in Nat, n \in S PROVE n + 1 \in S
  <2> HIDE DEF t
  <2>1. CASE n + 1 <= (Len(s) - m) + 1
    <3>1. n + 1 \in 1 .. Len(t) /\ ((m - 1) + n) + 1 \in 1 .. Len(s)
          /\ UpTo(t, n) = UpTo(s, (m - 1) + n) - UpTo(s, m - 1)
      BY <1>1, <1>3, <2>1
    <3>2. UpTo(t, n + 1) = t[n + 1].size + UpTo(t, (n + 1) - 1)
      BY <1>1, <3>1, UpToNext
    <3>3. UpTo(s, ((m - 1) + n) + 1) = s[((m - 1) + n) + 1].size + UpTo(s, (((m - 1) + n) + 1) - 1)
      BY <3>1, UpToNext
    <3>4. t[n + 1] = s[((m - 1) + n) + 1] /\ t[n + 1].size \in Nat
      BY <1>1, <3>1, BucketAt
    <3>5. UpTo(s, (m - 1) + n) \in Nat /\ UpTo(s, m - 1) \in Nat
      BY <3>1, UpToNat
    <3>6. (n + 1) - 1 = n /\ (((m - 1) + n) + 1) - 1 = (m - 1) + n /\ ((m - 1) + n) + 1 = (m - 1) + (n + 1)
      OBVIOUS
    <3>7. UpTo(t, n + 1) = t[n + 1].size + UpTo(t, n)
      BY <3>2, <3>6
    <3>8. UpTo(s, (m - 1) + (n + 1)) = t[n + 1].size + UpTo(s, (m - 1) + n)
      BY <3>3, <3>4, <3>6
    <3> QED  BY <3>1, <3>4, <3>5, <3>7, <3>8
  <2> QED  BY <2>1
<1>4. \A n \in Nat : n \in S
  <2> HIDE DEF S
  <2> QED  BY <1>2, <1>3, CountUp
<1> QED  BY <1>4

----------------------------------------------------------------------------
(* Shrinking a list of buckets. *)

\* Of a list that is shrunk to left elements, k buckets stay.
KeptAre(s, left, k) ==
    /\ k \in 0 .. Len(s)
    /\ Dropped(s, left) = (k + 1) .. Len(s)
    /\ left <= UpTo(s, k)
    /\ \A i \in 0 .. (k - 1) : UpTo(s, i) <= left
    /\ k > 0 /\ UpTo(s, k) > left => UpTo(s, k - 1) < left

\* The buckets that shrink drops are the last ones.
LEMMA DroppedIsTail ==
  \A s \in Seq(Bucket) : \A left \in Nat :
     left <= UpTo(s, Len(s)) => \E k \in 0 .. Len(s) : KeptAre(s, left, k)
<1> SUFFICES ASSUME NEW s \in Seq(Bucket), NEW left \in Nat, left <= UpTo(s, Len(s))
             PROVE  \E k \in 0 .. Len(s) : KeptAre(s, left, k)
  OBVIOUS
<1> DEFINE gone == Dropped(s, left)
<1>0. /\ \A i \in 0 .. Len(s) : UpTo(s, i) \in Nat
      /\ \A i, j \in 0 .. Len(s) : i <= j => UpTo(s, i) <= UpTo(s, j)
  BY UpToNat, UpToGrows
<1>1. \A i : i \in gone <=> i \in 1 .. Len(s) /\ UpTo(s, i - 1) >= left /\ UpTo(s, i) > left
  BY DEF Dropped
<1>2. \A i, j \in 1 .. Len(s) : i \in gone /\ i <= j => j \in gone
  <2> TAKE i \in 1 .. Len(s), j \in 1 .. Len(s)
  <2>1. i - 1 \in 0 .. Len(s) /\ j - 1 \in 0 .. Len(s) /\ i \in 0 .. Len(s) /\ j \in 0 .. Len(s)
    OBVIOUS
  <2>2. i <= j => UpTo(s, i - 1) <= UpTo(s, j - 1) /\ UpTo(s, i) <= UpTo(s, j)
    <3>1. i <= j => i - 1 <= j - 1
      OBVIOUS
    <3>2. i - 1 <= j - 1 => UpTo(s, i - 1) <= UpTo(s, j - 1)
      BY <2>1, UpToGrows
    <3>3. i <= j => UpTo(s, i) <= UpTo(s, j)
      BY <2>1, UpToGrows
    <3> QED  BY <3>1, <3>2, <3>3
  <2>3. UpTo(s, i - 1) \in Nat /\ UpTo(s, j - 1) \in Nat /\ UpTo(s, i) \in Nat /\ UpTo(s, j) \in Nat
    BY <1>0, <2>1
  <2> HIDE DEF gone
  <2> QED  BY <1>1, <2>2, <2>3
<1>3. \E k \in 0 .. Len(s) : gone = (k + 1) .. Len(s)
  <2>1. CASE gone = {}
    <3>1. (Len(s) + 1) .. Len(s) = {} /\ Len(s) \in 0 .. Len(s)
      OBVIOUS
    <3> QED  BY <2>1, <3>1
  <2>2. CASE gone # {}
    <3>1. gone \in SUBSET Nat
      BY <1>1
    <3>2. PICK n \in gone : \A i \in gone : n <= i
      <4> HIDE DEF gone
      <4> QED  BY <2>2, <3>1, SmallestNumber
    <3>3. n - 1 \in 0 .. Len(s) /\ n \in 1 .. Len(s)
      BY <1>1, <3>2
    <3>4. gone = ((n - 1) + 1) .. Len(s)
      <4> HIDE DEF gone
      <4>1. ASSUME NEW i \in gone PROVE i \in ((n - 1) + 1) .. Len(s)
        BY <1>1, <3>2, <3>3
      <4>2. ASSUME NEW i \in ((n - 1) + 1) .. Len(s) PROVE i \in gone
        <5>1. i \in 1 .. Len(s) /\ n <= i
          BY <3>3
        <5> QED  BY <5>1, <1>2, <3>2, <3>3
      <4> QED  BY <4>1, <4>2
    <3> QED  BY <3>3, <3>4
  <2> QED  BY <2>1, <2>2
<1>4. PICK k \in 0 .. Len(s) : gone = (k + 1) .. Len(s)
  BY <1>3
<1>5. left <= UpTo(s, k)
  <2>1. CASE k = Len(s)
    BY <2>1
  <2>2. CASE k < Len(s)
    <3>1. k + 1 \in gone
      BY <1>4, <2>2
    <3>2. (k + 1) - 1 = k
      OBVIOUS
    <3> HIDE DEF gone
    <3> QED  BY <1>0, <1>1, <3>1, <3>2
  <2> QED  BY <2>1, <2>2
<1>6. ASSUME NEW i \in 0 .. (k - 1) PROVE UpTo(s, i) <= left
  <2> SUFFICES ASSUME UpTo(s, i) > left PROVE FALSE
    BY <1>0
  <2>1. i + 1 \in 1 .. Len(s) /\ i \in 0 .. Len(s) /\ i + 1 \in 0 .. Len(s) /\ (i + 1) - 1 = i
    OBVIOUS
  <2>2. UpTo(s, i) <= UpTo(s, i + 1) /\ UpTo(s, i) \in Nat /\ UpTo(s, i + 1) \in Nat
    BY <1>0, <2>1
  <2> HIDE DEF gone
  <2>3. i + 1 \in gone
    <3>1. UpTo(s, (i + 1) - 1) >= left /\ UpTo(s, i + 1) > left
      BY <2>1, <2>2
    <3> QED  BY <1>1, <2>1, <3>1
  <2> QED  BY <1>4, <2>3
<1>7. k > 0 /\ UpTo(s, k) > left => UpTo(s, k - 1) < left
  <2> HIDE DEF gone
  <2>1. k \notin gone /\ (k > 0 => k \in 1 .. Len(s) /\ k - 1 \in 0 .. Len(s))
    BY <1>4
  <2> SUFFICES ASSUME k > 0, UpTo(s, k) > left PROVE UpTo(s, k - 1) < left
    OBVIOUS
  <2>2. k \in 1 .. Len(s) /\ k - 1 \in 0 .. Len(s)
    BY <2>1
  <2>3. ~(UpTo(s, k - 1) >= left)
    BY <1>1, <2>1, <2>2
  <2>4. UpTo(s, k - 1) \in Nat
    BY <1>0, <2>2
  <2> QED  BY <2>3, <2>4
<1> QED  BY <1>4, <1>5, <1>6, <1>7 DEF KeptAre

Shrunk(s, left, len) ==
    [i \in 1 .. len |-> [s[i] EXCEPT !.size = IF UpTo(s, i) > left THEN left - UpTo(s, i - 1) ELSE @]]

\* They hold left elements, and only the last one may be smaller than before.
LEMMA ShrunkList ==
  \A s \in Seq(Bucket) : \A left \in Nat : \A k \in 0 .. Len(s) :
     KeptAre(s, left, k) =>
        /\ Shrunk(s, left, k) \in Seq(Bucket) /\ Len(Shrunk(s, left, k)) = k
        /\ \A i \in 1 .. k : Shrunk(s, left, k)[i].seg = s[i].seg
        /\ \A i \in 0 .. (k - 1) : UpTo(Shrunk(s, left, k), i) = UpTo(s, i)
        /\ UpTo(Shrunk(s, left, k), k) = left
<1> SUFFICES ASSUME NEW s \in Seq(Bucket), NEW left \in Nat, NEW k \in 0 .. Len(s), KeptAre(s, left, k)
             PROVE  /\ Shrunk(s, left, k) \in Seq(Bucket) /\ Len(Shrunk(s, left, k)) = k
                    /\ \A i \in 1 .. k : Shrunk(s, left, k)[i].seg = s[i].seg
                    /\ \A i \in 0 .. (k - 1) : UpTo(Shrunk(s, left, k), i) = UpTo(s, i)
                    /\ UpTo(Shrunk(s, left, k), k) = left
  OBVIOUS
<1> DEFINE t == Shrunk(s, left, k)
<1>0. \A i \in 0 .. Len(s) : UpTo(s, i) \in Nat
  BY UpToNat
<1>1. ASSUME NEW i \in 1 .. k
      PROVE  /\ t[i] \in Bucket /\ t[i].seg = s[i].seg
             /\ t[i].size = IF UpTo(s, i) > left THEN left - UpTo(s, i - 1) ELSE s[i].size
  <2>1. s[i] \in Bucket /\ s[i].size \in Nat
    BY BucketAt
  <2>2. t[i] = [s[i] EXCEPT !.size = IF UpTo(s, i) > left THEN left - UpTo(s, i - 1) ELSE @]
    BY DEF Shrunk
  <2>3. UpTo(s, i) > left => left - UpTo(s, i - 1) \in Nat
    <3>1. UpTo(s, i - 1) \in Nat /\ UpTo(s, i) \in Nat
      BY <1>0
    <3>2. UpTo(s, i) > left => i = k
      <4>1. CASE i \in 0 .. (k - 1)
        BY <4>1, <3>1 DEF KeptAre
      <4>2. CASE i = k
        BY <4>2
      <4> QED  BY <4>1, <4>2
    <3> QED  BY <3>1, <3>2 DEF KeptAre
  <2>4. (IF UpTo(s, i) > left THEN left - UpTo(s, i - 1) ELSE s[i].size) \in Nat
    BY <2>1, <2>3
  <2> HIDE DEF t
  <2> QED  BY <2>1, <2>2, <2>4 DEF Bucket
<1>2. t \in Seq(Bucket) /\ Len(t) = k
  <2>1. t = [i \in 1 .. k |-> t[i]]
    BY DEF Shrunk
  <2> HIDE DEF t
  <2>2. \A i \in 1 .. k : t[i] \in Bucket
    BY <1>1
  <2>3. k \in Nat
    OBVIOUS
  <2> QED  BY <2>1, <2>2, <2>3
<1>3. ASSUME NEW i \in 0 .. (k - 1) PROVE UpTo(t, i) = UpTo(s, i)
  <2> HIDE DEF t
  <2>1. \A j \in 1 .. i : t[j].size = s[j].size
    <3> TAKE j \in 1 .. i
    <3>1. j \in 1 .. k /\ j \in 0 .. (k - 1) /\ j \in 0 .. Len(s)
      OBVIOUS
    <3>2. ~(UpTo(s, j) > left)
      BY <3>1, <1>0 DEF KeptAre
    <3> QED  BY <1>1, <3>1, <3>2
  <2>2. i \in Nat /\ i <= Len(t) /\ i <= Len(s)
    BY <1>2
  <2> QED  BY <2>1, <2>2, <1>2, UpToSame
<1>4. UpTo(t, k) = left
  <2> HIDE DEF t
  <2>1. CASE k = 0
    <3>1. UpTo(t, 0) = 0 /\ UpTo(s, 0) = 0
      BY <1>2, UpToNext
    <3> QED  BY <2>1, <3>1 DEF KeptAre
  <2>2. CASE k > 0
    <3>1. k \in 1 .. Len(t) /\ k \in 1 .. Len(s) /\ k - 1 \in 0 .. (k - 1)
      BY <1>2, <2>2
    <3>2. UpTo(t, k) = t[k].size + UpTo(t, k - 1) /\ UpTo(s, k) = s[k].size + UpTo(s, k - 1)
      BY <1>2, <3>1, UpToNext
    <3>3. UpTo(t, k - 1) = UpTo(s, k - 1)
      BY <1>3, <3>1
    <3>4. t[k].size = IF UpTo(s, k) > left THEN left - UpTo(s, k - 1) ELSE s[k].size
      BY <1>1, <3>1
    <3>5. UpTo(s, k - 1) \in Nat /\ UpTo(s, k) \in Nat /\ s[k].size \in Nat /\ left <= UpTo(s, k)
      BY <1>0, <3>1, BucketAt DEF KeptAre
    <3> QED  BY <3>2, <3>3, <3>4, <3>5
  <2> QED  BY <2>1, <2>2
<1> QED  BY <1>1, <1>2, <1>3, <1>4

----------------------------------------------------------------------------
(* The operators of a commit. *)

\* A finite set of numbers of buckets has a largest one.
LEMMA LargestOfUnits ==
  \A f \in [Unit -> Nat] :
     /\ Max({f[v] : v \in Unit}) \in Nat
     /\ \A v \in Unit : f[v] <= Max({f[w] : w \in Unit})
<1> SUFFICES ASSUME NEW f \in [Unit -> Nat]
             PROVE  /\ Max({f[v] : v \in Unit}) \in Nat
                    /\ \A v \in Unit : f[v] <= Max({f[w] : w \in Unit})
  OBVIOUS
<1> USE NUnitsAssumption DEF Unit
<1> DEFINE S == {n \in Nat : \E b \in Nat : \A v \in Unit : v < n => f[v] <= b}
           B == {b \in Nat : \A v \in Unit : f[v] <= b}
           V == {f[v] : v \in Unit}
<1>1. 0 \in S
  OBVIOUS
<1>2. ASSUME NEW n \in Nat, n \in S PROVE n + 1 \in S
  <2> SUFFICES \E b \in Nat : \A v \in Unit : v < n + 1 => f[v] <= b
    OBVIOUS
  <2>1. PICK b \in Nat : \A v \in Unit : v < n => f[v] <= b
    BY <1>2
  <2>2. CASE n \in Unit
    <3> DEFINE c == IF f[n] <= b THEN b ELSE f[n]
    <3>1. c \in Nat
      BY <2>2
    <3>2. \A v \in Unit : v < n + 1 => f[v] <= c
      <4> TAKE v \in Unit
      <4>1. v < n + 1 => v < n \/ v = n
        OBVIOUS
      <4>2. f[v] \in Nat /\ f[n] \in Nat
        BY <2>2
      <4> QED  BY <4>1, <4>2, <2>1
    <3> HIDE DEF c
    <3> QED  BY <3>1, <3>2
  <2>3. CASE n \notin Unit
    <3>1. \A v \in Unit : v < n + 1 => v < n
      BY <2>3
    <3> QED  BY <2>1, <3>1
  <2> QED  BY <2>2, <2>3
<1>3. NUnits \in S
  <2> HIDE DEF S
  <2> QED  BY <1>1, <1>2, CountUp
<1>4. B # {} /\ B \in SUBSET Nat
  <2>1. PICK b \in Nat : \A v \in Unit : v < NUnits => f[v] <= b
    BY <1>3
  <2>2. \A v \in Unit : v < NUnits
    OBVIOUS
  <2> QED  BY <2>1, <2>2
<1>5. PICK m \in B : \A b \in B : m <= b
  <2> HIDE DEF B
  <2> QED  BY <1>4, SmallestNumber
<1>6. m \in V
  <2> SUFFICES ASSUME m \notin V PROVE FALSE
    OBVIOUS
  <2>1. \A v \in Unit : f[v] \in Nat /\ f[v] <= m /\ f[v] # m
    BY <1>5
  <2>2. 0 \in Unit
    OBVIOUS
  <2>3. m - 1 \in B
    BY <2>1, <2>2, <1>5
  <2> QED  BY <2>3, <1>5
<1>7. m \in V /\ \A y \in V : m >= y
  BY <1>5, <1>6
<1>8. Max(V) \in V /\ \A y \in V : Max(V) >= y
  <2> HIDE DEF V
  <2> QED  BY <1>7 DEF Max
<1>9. \A v \in Unit : f[v] \in V /\ f[v] \in Nat
  OBVIOUS
<1>10. V \subseteq Nat
  OBVIOUS
<1> QED  BY <1>8, <1>9, <1>10

Latest(sums) == sums[Len(sums)]

\* The cumulative sizes of a unit with its new buckets: one entry for each, the last is the
\* unit's size when it only grew, or only shrank.
LEMMA CumulAfterIs ==
  \A old \in Seq(Int) \ {<<>>} : \A new \in Seq(Bucket) : \A size \in Nat :
     /\ CumulAfter(old, new, size) \in Seq(Int)
     /\ Len(CumulAfter(old, new, size)) = Len(old) + Len(new)
     /\ new # <<>> /\ size = Latest(old) + UpTo(new, Len(new)) =>
          /\ \A i \in 1 .. Len(old) : CumulAfter(old, new, size)[i] = old[i]
          /\ \A i \in 1 .. Len(new) : CumulAfter(old, new, size)[Len(old) + i] = UpTo(new, i) + Latest(old)
     /\ new = <<>> /\ size <= Latest(old) =>
          /\ \A i \in 1 .. (Len(old) - 1) : CumulAfter(old, new, size)[i] = old[i]
          /\ CumulAfter(old, new, size)[Len(old)] = size
<1> SUFFICES ASSUME NEW old \in Seq(Int) \ {<<>>}, NEW new \in Seq(Bucket), NEW size \in Nat
             PROVE  /\ CumulAfter(old, new, size) \in Seq(Int)
                    /\ Len(CumulAfter(old, new, size)) = Len(old) + Len(new)
                    /\ new # <<>> /\ size = Latest(old) + UpTo(new, Len(new)) =>
                         /\ \A i \in 1 .. Len(old) : CumulAfter(old, new, size)[i] = old[i]
                         /\ \A i \in 1 .. Len(new) :
                              CumulAfter(old, new, size)[Len(old) + i] = UpTo(new, i) + Latest(old)
                    /\ new = <<>> /\ size <= Latest(old) =>
                         /\ \A i \in 1 .. (Len(old) - 1) : CumulAfter(old, new, size)[i] = old[i]
                         /\ CumulAfter(old, new, size)[Len(old)] = size
  OBVIOUS
<1> DEFINE was == Latest(old)
           sums == [i \in DOMAIN new |-> UpTo(new, i) + was]
           all == IF Len(new) = 1 THEN Append(old, size) ELSE old \o sums
           r == IF size < was /\ all # <<>> THEN [all EXCEPT ![Len(all)] = @ + size - was] ELSE all
<1>0. old \in Seq(Int) /\ old # <<>> /\ Len(old) \in Nat /\ Len(old) > 0 /\ Len(new) \in Nat
  OBVIOUS
<1>1. was \in Int
  BY <1>0 DEF Latest
<1>2. CumulAfter(old, new, size) = r
  BY <1>0 DEF CumulAfter, Latest, Last
<1>3. sums \in Seq(Int) /\ Len(sums) = Len(new) /\ \A i \in 1 .. Len(new) : sums[i] = UpTo(new, i) + was
  <2>1. \A i \in 1 .. Len(new) : UpTo(new, i) \in Nat
    BY UpToNat
  <2>2. DOMAIN new = 1 .. Len(new)
    OBVIOUS
  <2> HIDE DEF was
  <2> QED  BY <1>0, <1>1, <2>1, <2>2
<1>4. /\ all \in Seq(Int) /\ Len(all) = Len(old) + Len(new)
      /\ \A i \in 1 .. Len(old) : all[i] = old[i]
  <2> HIDE DEF sums
  <2>1. CASE Len(new) = 1
    <3>1. size \in Int /\ all = Append(old, size)
      BY <2>1
    <3> HIDE DEF all
    <3>2. all \in Seq(Int) /\ Len(all) = Len(old) + 1
      BY <1>0, <3>1
    <3>3. \A i \in 1 .. Len(old) : all[i] = old[i]
      BY <1>0, <3>1
    <3> QED  BY <2>1, <3>2, <3>3
  <2>2. CASE Len(new) # 1
    <3>1. all = old \o sums
      BY <2>2
    <3>2. /\ old \o sums \in Seq(Int) /\ Len(old \o sums) = Len(old) + Len(sums)
          /\ \A i \in 1 .. Len(old) + Len(sums) :
               (old \o sums)[i] = IF i <= Len(old) THEN old[i] ELSE sums[i - Len(old)]
      BY <1>0, <1>3, ConcatProperties
    <3> HIDE DEF all
    <3>3. \A i \in 1 .. Len(old) : all[i] = old[i]
      <4> TAKE i \in 1 .. Len(old)
      <4>1. i \in 1 .. Len(old) + Len(sums) /\ i <= Len(old)
        BY <1>0, <1>3
      <4> QED  BY <3>1, <3>2, <4>1
    <3> QED  BY <1>3, <3>1, <3>2, <3>3
  <2> QED  BY <2>1, <2>2
<1>5. size = was + UpTo(new, Len(new)) => \A i \in 1 .. Len(new) : all[Len(old) + i] = UpTo(new, i) + was
  <2> HIDE DEF was
  <2>1. CASE Len(new) = 1
    <3>1. all[Len(old) + 1] = size
      BY <1>0, <2>1
    <3>2. UpTo(new, 1) \in Nat
      <4>1. 1 \in 0 .. Len(new)
        BY <2>1
      <4> QED  BY <4>1, UpToNat
    <3> HIDE DEF all
    <3> QED  BY <2>1, <3>1, <3>2, <1>1
  <2>2. CASE Len(new) # 1
    <3> HIDE DEF sums
    <3> QED  BY <1>0, <1>3, <2>2
  <2> QED  BY <2>1, <2>2
<1>6. r \in Seq(Int) /\ Len(r) = Len(all)
  <2> HIDE DEF all, was
  <2>1. all # <<>> => Len(all) \in 1 .. Len(all)
    BY <1>4
  <2> QED  BY <1>1, <1>4, <2>1
<1>7. ASSUME new # <<>>, size = was + UpTo(new, Len(new)) PROVE r = all
  <2>1. UpTo(new, Len(new)) \in Nat
    BY <1>0, UpToNat
  <2> HIDE DEF all, was
  <2> QED  BY <1>1, <1>7, <2>1
<1>8. ASSUME new = <<>>, size <= was
      PROVE  (\A i \in 1 .. (Len(old) - 1) : r[i] = old[i]) /\ r[Len(old)] = size
  <2>1. Len(all) = Len(old) /\ all[Len(old)] = was /\ all # <<>>
    <3> HIDE DEF all
    <3> QED  BY <1>0, <1>4, <1>8 DEF Latest
  <2> HIDE DEF all, was
  <2>2. size < was => r[Len(old)] = (was + size) - was
    BY <1>0, <1>4, <2>1
  <2>3. r[Len(old)] = size
    BY <1>1, <1>8, <2>1, <2>2
  <2>4. \A i \in 1 .. (Len(old) - 1) : r[i] = old[i]
    BY <1>0, <1>4, <2>1
  <2> QED  BY <2>3, <2>4
<1> HIDE DEF r, all, was
<1>9. new # <<>> /\ size = was + UpTo(new, Len(new)) =>
        /\ \A i \in 1 .. Len(old) : r[i] = old[i]
        /\ \A i \in 1 .. Len(new) : r[Len(old) + i] = UpTo(new, i) + was
  BY <1>4, <1>5, <1>7
<1>10. Len(r) = Len(old) + Len(new)
  BY <1>4, <1>6
<1> QED  BY <1>2, <1>6, <1>8, <1>9, <1>10 DEF was

----------------------------------------------------------------------------
(* The inductive invariant. *)

\* The counters are numbers and the lists are lists.
HeapTypeOK ==
    /\ buckets \in [Unit -> Seq(Bucket)]
    /\ attach_first \in [Unit -> Nat]
    /\ local_size \in [Unit -> Nat]
    /\ cumul \in [Unit -> [Unit -> Seq(Int) \ {<<>>}]]
    /\ num_attach \in [Unit -> Nat]
    /\ remote_size \in [Unit -> Int]
    /\ max_attach \in [Unit -> Nat]
    /\ attached \in [Unit -> Nat]
    /\ stage \in [Unit -> Nat]
    /\ regs \in [Unit -> Nat]
    /\ ops \in [Unit -> [epoch : Nat, all : Nat, shrunk : BOOLEAN]]
    /\ past \in [mixed : SUBSET Unit, uneven : BOOLEAN]

\* A unit about itself.
OwnBooks(u) ==
    /\ attach_first[u] \in 1 .. Len(buckets[u]) + 1
    /\ num_attach[u] = (Len(buckets[u]) - attach_first[u]) + 1
    /\ \A i \in 1 .. Len(buckets[u]) : buckets[u][i].seg = 0 <=> i >= attach_first[u]
    /\ local_size[u] = UpTo(buckets[u], Len(buckets[u]))
    /\ Len(cumul[u][u]) > num_attach[u]
    /\ Latest(cumul[u][u]) = local_size[u]
    /\ Running(u) /\ ops[u].epoch = 0 => num_attach[u] = 0

BooksInv == \A u \in Unit : OwnBooks(u)

\* The stage that all units have reached when one of them is in stage s.
Reached(s) == IF s % 4 = 1 THEN s - 2 ELSE s - 1

StageInv == \A v, u \in Unit : stage[u] >= Reached(stage[v])

\* The commits whose sizes a unit in stage s has learned, and those a unit has completed.
Learned(s) == (s + 1) \div 4
Completed(s) == s \div 4

\* Nothing has changed at u since v learned its size.
Fresh(v, u) ==
    /\ stage[u] <= 4 * Learned(stage[v])
    /\ stage[u] = 4 * Learned(stage[v]) => ops[u].epoch = 0

AttachedSize(u) == UpTo(buckets[u], attach_first[u] - 1)

\* What v knows about the size of another unit, and before it learns it what the unit's
\* attached buckets have to do with what it knew.
Knows(v, u) ==
    /\ Fresh(v, u) => Latest(cumul[v][u]) = local_size[u]
    /\ Learned(stage[v]) = Completed(stage[u]) =>
         /\ AttachedSize(u) <= Latest(cumul[v][u])
         /\ ~ops[u].shrunk => AttachedSize(u) = Latest(cumul[v][u])

KnowsInv ==
    /\ \A v, u \in Unit : v # u /\ u \notin past.mixed => Knows(v, u)
    /\ \A u \in Unit \ past.mixed : ~Running(u) /\ ops[u].shrunk => num_attach[u] = 0

\* The sizes of the other units add up to the remote size.
RemoteInv ==
    \A v \in Unit :
        (\A u \in Unit \ {v} : Fresh(v, u)) => remote_size[v] = Total(local_size, Unit \ {v})

\* sums are the cumulative sizes of the first n buckets of s.
Tells(sums, s, n) == \A i \in 1 .. n : sums[i] = UpTo(s, i)

OwnPlaces(u) ==
    /\ attach_first[u] = regs[u] + 1
    /\ \A i \in 1 .. regs[u] : buckets[u][i].seg = i
    /\ Len(cumul[u][u]) = Len(buckets[u])
    /\ Tells(cumul[u][u], buckets[u], Len(buckets[u]))

KnowsPlaces(v, u) ==
    /\ Fresh(v, u) => /\ Len(cumul[v][u]) = Len(buckets[u])
                      /\ Tells(cumul[v][u], buckets[u], Len(buckets[u]))
    /\ Learned(stage[v]) = Completed(stage[u]) =>
         /\ Len(cumul[v][u]) = attach_first[u] - 1
         /\ Tells(cumul[v][u], buckets[u], attach_first[u] - 2)

PlacesInv ==
    ~past.uneven =>
        /\ \A u \in Unit : OwnPlaces(u)
        /\ past.mixed = {} => \A v, u \in Unit : v # u => KnowsPlaces(v, u)

\* The attach calls before the commit a unit is in.
Base(u) == IF stage[u] % 4 = 3 THEN regs[u] - attached[u] ELSE regs[u]

Gathered(u) == stage[u] % 4 \in {2, 3}

\* All units make as many attach calls in a commit.
RoundsInv ==
    /\ \A u \in Unit :
         /\ stage[u] % 4 = 2 => num_attach[u] <= max_attach[u]
         /\ stage[u] % 4 = 3 => num_attach[u] + attached[u] <= max_attach[u]
    /\ \A u, v \in Unit :
         /\ Completed(stage[u]) = Completed(stage[v]) =>
              /\ Base(u) = Base(v)
              /\ Gathered(u) /\ Gathered(v) => max_attach[u] = max_attach[v]
              /\ Gathered(u) /\ stage[v] % 4 = 1 =>
                   max_attach[u] = Max({num_attach[w] : w \in Unit})
         /\ Completed(stage[v]) = Completed(stage[u]) + 1 /\ stage[u] % 4 = 3 =>
              Base(v) = Base(u) + max_attach[u]

HeapInv == HeapTypeOK /\ BooksInv /\ StageInv /\ KnowsInv /\ RemoteInv /\ PlacesInv /\ RoundsInv

----------------------------------------------------------------------------
(* What the step of shrink does. *)

\* The cumulative sizes without the buckets dropped, the last one cut.
Cut(sums, kept, left) == [i \in 1 .. kept |-> IF i = kept THEN left ELSE sums[i]]

\* The buckets that are to be attached among those dropped.
DroppedHere(u, k) ==
    IF attach_first[u] > k + 1 THEN num_attach[u] ELSE Len(buckets[u]) - k

\* u keeps k buckets, with left elements.
ShrinksTo(u, left, k) ==
    /\ Running(u)
    /\ left \in Nat /\ left < local_size[u]
    /\ k \in 0 .. Len(buckets[u])
    /\ KeptAre(buckets[u], left, k)
    /\ local_size' = [local_size EXCEPT ![u] = left]
    /\ buckets' = [buckets EXCEPT ![u] = Shrunk(buckets[u], left, k)]
    /\ attach_first' = [attach_first EXCEPT ![u] = FirstAfter(attach_first[u], k)]
    /\ num_attach' = [num_attach EXCEPT ![u] = num_attach[u] - DroppedHere(u, k)]
    /\ cumul' = [cumul EXCEPT ![u] = [cumul[u] EXCEPT ![u] =
           Cut(cumul[u][u], Len(cumul[u][u]) - DroppedHere(u, k), left)]]
    /\ Called(u, \E i \in DOMAIN buckets[u] : buckets[u][i].seg # 0 /\ UpTo(buckets[u], i) > left)
    /\ past' = [past EXCEPT !.uneven = @ \/ attach_first[u] > k + 1]
    /\ UNCHANGED <<remote_size, max_attach, attached, stage, regs>>

\* How many numbers there are from a to b.
LEMMA IntervalSize == \A a, b \in Int : Cardinality(a .. b) = IF a <= b THEN (b - a) + 1 ELSE 0
<1> TAKE a \in Int, b \in Int
<1>1. Cardinality(a .. b) = IF a > b THEN 0 ELSE b - a + 1
  BY FS_Interval
<1> QED  BY <1>1

\* The step of shrink, with the buckets that it drops known to be the last ones.
LEMMA ShrinkEffect ==
  ASSUME HeapTypeOK, BooksInv, NEW u \in Unit, NEW n \in GrowSizes, shrink(u, n)
  PROVE  \E k \in 0 .. Len(buckets[u]) : ShrinksTo(u, local_size[u] - n, k)
<1> DEFINE s == buckets[u]
           left == local_size[u] - n
           gone == Dropped(s, left)
           here == {i \in gone : s[i].seg = 0}
           first == attach_first[u]
<1>1. /\ s \in Seq(Bucket) /\ Len(s) \in Nat /\ n \in Nat \ {0} /\ local_size[u] \in Nat
      /\ OwnBooks(u) /\ n <= local_size[u] /\ Running(u)
  BY GrowAssumption DEF HeapTypeOK, BooksInv, shrink, MayCall
<1>2. left \in Nat /\ left < local_size[u] /\ left <= UpTo(s, Len(s))
  BY <1>1 DEF OwnBooks
<1>3. PICK k \in 0 .. Len(s) : KeptAre(s, left, k)
  <2> HIDE DEF s, left
  <2> QED  BY <1>1, <1>2, DroppedIsTail
<1>4. gone = (k + 1) .. Len(s)
  BY <1>3 DEF KeptAre
<1>5. /\ first \in 1 .. Len(s) + 1 /\ num_attach[u] = (Len(s) - first) + 1
      /\ \A i \in 1 .. Len(s) : s[i].seg = 0 <=> i >= first
  BY <1>1 DEF OwnBooks
<1>6. here = IF first > k + 1 THEN first .. Len(s) ELSE (k + 1) .. Len(s)
  <2> HIDE DEF s, first, gone
  <2>1. CASE first > k + 1
    <3>1. \A i : i \in here <=> i \in first .. Len(s)
      BY <1>1, <1>4, <1>5, <2>1
    <3> QED  BY <2>1, <3>1
  <2>2. CASE first <= k + 1
    <3>1. \A i : i \in here <=> i \in (k + 1) .. Len(s)
      BY <1>1, <1>4, <1>5, <2>2
    <3> QED  BY <1>1, <1>5, <2>2, <3>1
  <2> QED  BY <1>1, <1>5, <2>1, <2>2
<1>7. Cardinality(gone) = Len(s) - k
  <2>1. Cardinality((k + 1) .. Len(s)) = IF k + 1 <= Len(s) THEN (Len(s) - (k + 1)) + 1 ELSE 0
    <3> DEFINE a == k + 1
               b == Len(s)
    <3>1. a \in Int /\ b \in Int
      BY <1>1
    <3> HIDE DEF a, b
    <3>2. Cardinality(a .. b) = IF a <= b THEN (b - a) + 1 ELSE 0
      BY <3>1, IntervalSize
    <3> QED  BY <3>2 DEF a, b
  <2> QED  BY <1>1, <1>4, <2>1
<1>8. Cardinality(here) = DroppedHere(u, k)
  <2>1. CASE first > k + 1
    <3>1. Cardinality(first .. Len(s)) = IF first <= Len(s) THEN (Len(s) - first) + 1 ELSE 0
      <4> DEFINE b == Len(s)
      <4>1. first \in Int /\ b \in Int
        BY <1>1, <1>5
      <4> HIDE DEF first, b
      <4>2. Cardinality(first .. b) = IF first <= b THEN (b - first) + 1 ELSE 0
        BY <4>1, IntervalSize
      <4> QED  BY <4>2 DEF b
    <3>2. here = first .. Len(s)
      BY <1>6, <2>1
    <3> HIDE DEF here
    <3> QED  BY <1>1, <1>5, <2>1, <3>1, <3>2 DEF DroppedHere
  <2>2. CASE first <= k + 1
    <3>1. here = gone
      <4> HIDE DEF here, gone
      <4> QED  BY <1>1, <1>4, <1>5, <1>6, <2>2
    <3> HIDE DEF here, gone
    <3> QED  BY <1>1, <1>5, <1>7, <2>2, <3>1 DEF DroppedHere
  <2> QED  BY <1>1, <1>5, <2>1, <2>2
<1>9. gone # here <=> first > k + 1
  <2>1. CASE first > k + 1
    <3>1. k + 1 \in gone /\ k + 1 \notin here
      <4> HIDE DEF gone, here
      <4> QED  BY <1>1, <1>4, <1>5, <1>6, <2>1
    <3> HIDE DEF gone, here
    <3> QED  BY <2>1, <3>1
  <2>2. CASE first <= k + 1
    <3> HIDE DEF gone, here
    <3> QED  BY <1>1, <1>4, <1>5, <1>6, <2>2
  <2> QED  BY <1>1, <1>5, <2>1, <2>2
<1>10. Len(s) - Cardinality(gone) = k
  <2> HIDE DEF gone
  <2> QED  BY <1>1, <1>7
<1>11. shrink(u, n) => ShrinksTo(u, left, k)
  <2> SUFFICES ASSUME shrink(u, n) PROVE ShrinksTo(u, left, k)
    OBVIOUS
  <2>1. local_size' = [local_size EXCEPT ![u] = left] /\ Running(u)
        /\ UNCHANGED <<remote_size, max_attach, attached, stage, regs>>
    BY DEF shrink, MayCall
  <2>2. buckets' = [buckets EXCEPT ![u] = Shrunk(s, left, k)]
    BY <1>10, Zenon DEF shrink, Shrunk
  <2>3. attach_first' = [attach_first EXCEPT ![u] = FirstAfter(first, k)]
    BY <1>10, Zenon DEF shrink
  <2>4. num_attach' = [num_attach EXCEPT ![u] = num_attach[u] - DroppedHere(u, k)]
    BY <1>8, Zenon DEF shrink
  <2>5. cumul' = [cumul EXCEPT ![u] = [cumul[u] EXCEPT ![u] =
                   Cut(cumul[u][u], Len(cumul[u][u]) - DroppedHere(u, k), left)]]
    <3> DEFINE new == Cut(cumul[u][u], Len(cumul[u][u]) - DroppedHere(u, k), left)
    <3>1. cumul' = [cumul EXCEPT ![u][u] = LET kept == Len(@) - Cardinality(here)
                                              IN [i \in 1 .. kept |-> IF i = kept THEN left ELSE @[i]]]
      BY Zenon DEF shrink
    <3> QED  BY <1>8, <3>1 DEF Cut
  <2>6. Called(u, \E i \in DOMAIN s : s[i].seg # 0 /\ UpTo(s, i) > left)
    BY Zenon DEF shrink
  <2>7. past' = [past EXCEPT !.uneven = @ \/ first > k + 1]
    <3>1. past' = [past EXCEPT !.uneven = @ \/ gone # here]
      BY Zenon DEF shrink
    <3>2. (gone # here) = (first > k + 1)
      <4> HIDE DEF gone, here, first
      <4> QED BY <1>9
    <3> HIDE DEF gone, here, first
    <3>3. (past.uneven \/ gone # here) = (past.uneven \/ first > k + 1)
      BY <1>9, Zenon
    <3> QED  BY <3>1, <3>3, Zenon
  <2> QED  BY <1>2, <1>3, <2>1, <2>2, <2>3, <2>4, <2>5, <2>6, <2>7, Zenon DEF ShrinksTo
<1> QED  BY <1>11

----------------------------------------------------------------------------
(* A unit's books about itself. *)

\* The buckets that a unit has not attached.
LEMMA UnattachedIs ==
  ASSUME HeapTypeOK, NEW u \in Unit, OwnBooks(u)
  PROVE  /\ Unattached(u) \in Seq(Bucket)
         /\ Len(Unattached(u)) = num_attach[u]
         /\ Unattached(u) = SubSeq(buckets[u], attach_first[u], Len(buckets[u]))
<1>1. buckets[u] \in Seq(Bucket) /\ attach_first[u] \in 1 .. Len(buckets[u]) + 1
      /\ num_attach[u] = (Len(buckets[u]) - attach_first[u]) + 1
  BY DEF HeapTypeOK, OwnBooks
<1> QED  BY <1>1 DEF Unattached

\* The books of a unit stay balanced when nothing of them changes.
LEMMA OwnBooksKept ==
  ASSUME NEW w \in Unit, OwnBooks(w),
         buckets'[w] = buckets[w], attach_first'[w] = attach_first[w], num_attach'[w] = num_attach[w],
         local_size'[w] = local_size[w], cumul'[w][w] = cumul[w][w],
         Running(w)' /\ ops'[w].epoch = 0 => num_attach[w] = 0
  PROVE  OwnBooks(w)'
BY DEF OwnBooks

\* A new bucket at the end of the list of a unit.
LEMMA Appended ==
  \A s \in Seq(Bucket) : \A b \in Bucket :
     /\ Append(s, b) \in Seq(Bucket) /\ Len(Append(s, b)) = Len(s) + 1
     /\ \A i \in 1 .. Len(s) : Append(s, b)[i] = s[i]
     /\ Append(s, b)[Len(s) + 1] = b
     /\ \A i \in 0 .. Len(s) : UpTo(Append(s, b), i) = UpTo(s, i)
     /\ UpTo(Append(s, b), Len(s) + 1) = UpTo(s, Len(s)) + b.size
<1> SUFFICES ASSUME NEW s \in Seq(Bucket), NEW b \in Bucket
             PROVE  /\ Append(s, b) \in Seq(Bucket) /\ Len(Append(s, b)) = Len(s) + 1
                    /\ \A i \in 1 .. Len(s) : Append(s, b)[i] = s[i]
                    /\ Append(s, b)[Len(s) + 1] = b
                    /\ \A i \in 0 .. Len(s) : UpTo(Append(s, b), i) = UpTo(s, i)
                    /\ UpTo(Append(s, b), Len(s) + 1) = UpTo(s, Len(s)) + b.size
  OBVIOUS
<1> DEFINE t == Append(s, b)
<1>1. /\ t \in Seq(Bucket) /\ Len(t) = Len(s) + 1
      /\ \A i \in 1 .. Len(s) : t[i] = s[i]
      /\ t[Len(s) + 1] = b
  OBVIOUS
<1> HIDE DEF t
<1>2. ASSUME NEW i \in 0 .. Len(s) PROVE UpTo(t, i) = UpTo(s, i)
  <2>1. \A j \in 1 .. i : t[j].size = s[j].size
    BY <1>1
  <2>2. i \in Nat /\ i <= Len(t) /\ i <= Len(s)
    BY <1>1
  <2> QED  BY <1>1, <2>1, <2>2, UpToSame
<1>3. UpTo(t, Len(s) + 1) = UpTo(s, Len(s)) + b.size
  <2>1. Len(s) + 1 \in 1 .. Len(t) /\ (Len(s) + 1) - 1 = Len(s) /\ Len(s) \in 0 .. Len(s)
    BY <1>1
  <2>2. UpTo(t, Len(s) + 1) = t[Len(s) + 1].size + UpTo(t, (Len(s) + 1) - 1)
    BY <1>1, <2>1, UpToNext
  <2>3. UpTo(t, Len(s)) = UpTo(s, Len(s)) /\ UpTo(s, Len(s)) \in Nat
    BY <1>2, <2>1, UpToNat
  <2>4. b.size \in Nat
    BY DEF Bucket
  <2> QED  BY <1>1, <2>1, <2>2, <2>3, <2>4
<1> QED  BY <1>1, <1>2, <1>3 DEF t

\* The bucket at the end of the attached ones gets a segment; no size changes.
LEMMA Attached ==
  \A s \in Seq(Bucket) : \A j \in 1 .. Len(s) : \A r \in Nat :
     /\ [s EXCEPT ![j].seg = r] \in Seq(Bucket) /\ Len([s EXCEPT ![j].seg = r]) = Len(s)
     /\ \A i \in 1 .. Len(s) :
          /\ [s EXCEPT ![j].seg = r][i].seg = IF i = j THEN r ELSE s[i].seg
          /\ [s EXCEPT ![j].seg = r][i].size = s[i].size
     /\ \A i \in 0 .. Len(s) : UpTo([s EXCEPT ![j].seg = r], i) = UpTo(s, i)
<1> SUFFICES ASSUME NEW s \in Seq(Bucket), NEW j \in 1 .. Len(s), NEW r \in Nat
             PROVE  /\ [s EXCEPT ![j].seg = r] \in Seq(Bucket) /\ Len([s EXCEPT ![j].seg = r]) = Len(s)
                    /\ \A i \in 1 .. Len(s) :
                         /\ [s EXCEPT ![j].seg = r][i].seg = IF i = j THEN r ELSE s[i].seg
                         /\ [s EXCEPT ![j].seg = r][i].size = s[i].size
                    /\ \A i \in 0 .. Len(s) : UpTo([s EXCEPT ![j].seg = r], i) = UpTo(s, i)
  OBVIOUS
<1> DEFINE b == [s[j] EXCEPT !.seg = r]
           t == [s EXCEPT ![j].seg = r]
<1>1. s[j] \in Bucket /\ \A i \in 1 .. Len(s) : s[i] \in Bucket
  BY BucketAt
<1>2. b \in Bucket /\ b.seg = r /\ b.size = s[j].size
  BY <1>1 DEF Bucket
<1>3. t = [s EXCEPT ![j] = b]
  OBVIOUS
<1> HIDE DEF t, b
<1>4. t \in Seq(Bucket) /\ Len(t) = Len(s) /\ \A i \in 1 .. Len(s) : t[i] = IF i = j THEN b ELSE s[i]
  BY <1>2, <1>3
<1>5. \A i \in 1 .. Len(s) : t[i].seg = (IF i = j THEN r ELSE s[i].seg) /\ t[i].size = s[i].size
  BY <1>2, <1>4
<1>6. ASSUME NEW i \in 0 .. Len(s) PROVE UpTo(t, i) = UpTo(s, i)
  <2>1. (\A k \in 1 .. i : t[k].size = s[k].size) /\ i \in Nat /\ i <= Len(t) /\ i <= Len(s)
    BY <1>4, <1>5
  <2> QED  BY <1>4, <2>1, UpToSame
<1> QED  BY <1>4, <1>5, <1>6 DEF t

----------------------------------------------------------------------------
(* A step changes nothing of the other units. *)

StepOf(u) ==
    \/ \E n \in GrowSizes : grow(u, n) \/ shrink(u, n)
    \/ commit_detach(u)
    \/ InCommit(u)

OthersKept(u) ==
    \A w \in Unit \ {u} :
        /\ buckets'[w] = buckets[w] /\ attach_first'[w] = attach_first[w] /\ num_attach'[w] = num_attach[w]
        /\ local_size'[w] = local_size[w] /\ cumul'[w] = cumul[w] /\ remote_size'[w] = remote_size[w]
        /\ stage'[w] = stage[w] /\ regs'[w] = regs[w] /\ ops'[w] = ops[w]
        /\ max_attach'[w] = max_attach[w] /\ attached'[w] = attached[w]

\* A unit changes its own memory, books and stage, and nobody else's.
LEMMA OthersAreKept == ASSUME HeapTypeOK, NEW u \in Unit, StepOf(u) PROVE OthersKept(u)
<1> USE DEF HeapTypeOK, memory, vars
<1>1. ASSUME NEW n \in GrowSizes, grow(u, n) PROVE OthersKept(u)
  BY <1>1 DEF grow, Called, OthersKept
<1>2. ASSUME NEW n \in GrowSizes, shrink(u, n) PROVE OthersKept(u)
  <2>1. \A w \in Unit \ {u} :
          /\ buckets'[w] = buckets[w] /\ attach_first'[w] = attach_first[w]
          /\ num_attach'[w] = num_attach[w] /\ local_size'[w] = local_size[w] /\ cumul'[w] = cumul[w]
    BY <1>2 DEF shrink
  <2>2. \A w \in Unit \ {u} : ops'[w] = ops[w]
    BY <1>2 DEF shrink, Called
  <2>3. UNCHANGED <<remote_size, max_attach, attached, stage, regs>>
    BY <1>2 DEF shrink
  <2> QED  BY <2>1, <2>2, <2>3 DEF OthersKept
<1>3. CASE commit_detach(u)
  BY <1>3 DEF commit_detach, OthersKept
<1>4. CASE gather_min_max(u)
  BY <1>4 DEF gather_min_max, OthersKept
<1>5. CASE update_remote_size(u)
  BY <1>5 DEF update_remote_size, OthersKept
<1>6. CASE attach(u)
  BY <1>6 DEF attach, Registers, OthersKept
<1>7. CASE attach_null(u)
  BY <1>7 DEF attach_null, Registers, OthersKept
<1>8. CASE commit_returns(u)
  BY <1>8 DEF commit_returns, OthersKept
<1> QED  BY <1>1, <1>2, <1>3, <1>4, <1>5, <1>6, <1>7, <1>8 DEF StepOf, InCommit

----------------------------------------------------------------------------
(* What every action does to the unit that takes it. *)

\* The lists and counters of the unit stay lists and counters.
OwnTypes(u) ==
    /\ buckets'[u] \in Seq(Bucket) /\ attach_first'[u] \in Nat /\ num_attach'[u] \in Nat
    /\ local_size'[u] \in Nat /\ remote_size'[u] \in Int
    /\ \A w \in Unit : cumul'[u][w] \in Seq(Int) \ {<<>>}
    /\ max_attach'[u] \in Nat /\ attached'[u] \in Nat /\ stage'[u] \in Nat /\ regs'[u] \in Nat
    /\ ops'[u] \in [epoch : Nat, all : Nat, shrunk : BOOLEAN]

\* What a unit knows of the sizes is never empty.
LEMMA CumulType == ASSUME HeapTypeOK PROVE \A v, u \in Unit : cumul[v][u] \in Seq(Int) \ {<<>>}
<1>1. cumul \in [Unit -> [Unit -> Seq(Int) \ {<<>>}]]
  BY DEF HeapTypeOK
<1> QED  BY <1>1

\* grow and shrink leave a list of unattached buckets at the end of the list.
LEMMA GrowStep ==
  ASSUME HeapTypeOK, NEW u \in Unit, OwnBooks(u), NEW n \in GrowSizes, grow(u, n)
  PROVE  OwnTypes(u) /\ OwnBooks(u)'
<1> DEFINE s == buckets[u]
           b == [size |-> n, seg |-> 0]
           c == cumul[u][u]
           t == Append(s, b)
           d == Append(c, local_size[u] + n)
<1>1. /\ s \in Seq(Bucket) /\ n \in Nat \ {0} /\ local_size[u] \in Nat /\ b \in Bucket /\ Len(s) \in Nat
      /\ c \in Seq(Int) /\ Len(c) \in Nat
  BY GrowAssumption DEF HeapTypeOK, Bucket
<1>2. /\ buckets'[u] = t
      /\ attach_first'[u] = attach_first[u]
      /\ num_attach'[u] = num_attach[u] + 1
      /\ local_size'[u] = local_size[u] + n
      /\ cumul'[u][u] = d
      /\ \A w \in Unit \ {u} : cumul'[u][w] = cumul[u][w]
      /\ ops'[u] = [epoch |-> ops[u].epoch + 1, all |-> ops[u].all + 1, shrunk |-> ops[u].shrunk \/ FALSE]
  BY DEF grow, Called, HeapTypeOK
<1>3. /\ t \in Seq(Bucket) /\ Len(t) = Len(s) + 1
      /\ \A i \in 1 .. Len(s) : t[i] = s[i]
      /\ t[Len(s) + 1] = b
      /\ UpTo(t, Len(s) + 1) = UpTo(s, Len(s)) + b.size
  <2> HIDE DEF s, b
  <2> QED  BY <1>1, Appended
<1>4. d \in Seq(Int) \ {<<>>} /\ Len(d) = Len(c) + 1 /\ d[Len(d)] = local_size[u] + n
  <2>1. local_size[u] + n \in Int
    BY <1>1
  <2> HIDE DEF c
  <2>2. d \in Seq(Int) /\ Len(d) = Len(c) + 1 /\ d[Len(c) + 1] = local_size[u] + n
    BY <1>1, <2>1
  <2> HIDE DEF d
  <2> QED  BY <1>1, <2>2
<1> HIDE DEF d, t, b
<1>5. ops[u].epoch \in Nat /\ ops[u].all \in Nat /\ ops[u].shrunk \in BOOLEAN /\ attach_first[u] \in Nat
      /\ num_attach[u] \in Nat
  BY DEF HeapTypeOK
<1>6. ops'[u] \in [epoch : Nat, all : Nat, shrunk : BOOLEAN] /\ ops'[u].epoch = ops[u].epoch + 1
  BY <1>2, <1>5
<1>7. OwnTypes(u)
  <2>1. remote_size'[u] \in Int /\ max_attach'[u] \in Nat /\ attached'[u] \in Nat /\ stage'[u] \in Nat
        /\ regs'[u] \in Nat
    BY DEF grow, HeapTypeOK
  <2>2. \A w \in Unit : cumul'[u][w] \in Seq(Int) \ {<<>>}
    BY <1>2, <1>4, CumulType
  <2>3. attach_first'[u] \in Nat /\ num_attach'[u] \in Nat /\ local_size'[u] \in Nat
    BY <1>1, <1>2, <1>5
  <2> QED  BY <1>2, <1>3, <1>6, <2>1, <2>2, <2>3 DEF OwnTypes
<1>8. OwnBooks(u)'
  <2> HIDE DEF s, c
  <2>1. /\ attach_first[u] \in 1 .. Len(s) + 1
        /\ num_attach[u] = (Len(s) - attach_first[u]) + 1
        /\ \A i \in 1 .. Len(s) : s[i].seg = 0 <=> i >= attach_first[u]
        /\ local_size[u] = UpTo(s, Len(s))
        /\ Len(c) > num_attach[u]
    BY DEF OwnBooks, s, c
  <2>2. t[Len(s) + 1].seg = 0 /\ b.size = n
    BY <1>3 DEF b
  <2>3. attach_first'[u] \in 1 .. Len(t) + 1 /\ num_attach'[u] = (Len(t) - attach_first'[u]) + 1
    BY <1>1, <1>2, <1>3, <2>1
  <2>4. \A i \in 1 .. Len(t) : t[i].seg = 0 <=> i >= attach_first'[u]
    <3> TAKE i \in 1 .. Len(t)
    <3>1. CASE i \in 1 .. Len(s)
      BY <3>1, <1>2, <1>3, <2>1
    <3>2. CASE i = Len(s) + 1
      BY <3>2, <1>1, <1>2, <2>1, <2>2
    <3> QED  BY <3>1, <3>2, <1>1, <1>3
  <2>5. local_size'[u] = UpTo(t, Len(t))
    BY <1>2, <1>3, <2>1, <2>2
  <2>6. Len(d) > num_attach'[u] /\ d[Len(d)] = local_size'[u]
    BY <1>1, <1>2, <1>4, <1>5, <2>1
  <2>7. ops'[u].epoch # 0
    BY <1>5, <1>6
  <2> QED  BY <1>2, <2>3, <2>4, <2>5, <2>6, <2>7 DEF OwnBooks, Latest
<1> QED  BY <1>7, <1>8

\* shrink keeps the types and the books of the unit.
LEMMA ShrinkStep ==
  ASSUME HeapTypeOK, NEW u \in Unit, OwnBooks(u), NEW left, NEW k, ShrinksTo(u, left, k)
  PROVE  OwnTypes(u) /\ OwnBooks(u)'
<1> DEFINE s == buckets[u]
           first == attach_first[u]
           c == cumul[u][u]
           drop == DroppedHere(u, k)
           t == Shrunk(s, left, k)
           kept == Len(c) - drop
           d == Cut(c, kept, left)
           shrunk == \E i \in DOMAIN buckets[u] : buckets[u][i].seg # 0 /\ UpTo(buckets[u], i) > left
<1>1. /\ s \in Seq(Bucket) /\ local_size[u] \in Nat /\ Len(s) \in Nat /\ c \in Seq(Int) /\ Len(c) \in Nat
      /\ first \in Nat /\ num_attach[u] \in Nat
  BY DEF HeapTypeOK
<1>2. left \in Nat /\ left < local_size[u] /\ k \in 0 .. Len(s) /\ KeptAre(s, left, k)
  BY DEF ShrinksTo
<1>3. /\ buckets'[u] = t
      /\ attach_first'[u] = FirstAfter(first, k)
      /\ num_attach'[u] = num_attach[u] - drop
      /\ local_size'[u] = left
      /\ cumul'[u][u] = d
      /\ \A w \in Unit \ {u} : cumul'[u][w] = cumul[u][w]
  <2> HIDE DEF t, drop, d
  <2> QED BY DEF ShrinksTo, HeapTypeOK, t, drop, d
<1>4. ops'[u] \in [epoch : Nat, all : Nat, shrunk : BOOLEAN] /\ ops'[u].epoch # 0
  <2>1. ops' = [ops EXCEPT ![u] = [epoch |-> @.epoch + 1, all |-> @.all + 1, shrunk |-> @.shrunk \/ shrunk]]
    BY Zenon DEF ShrinksTo, Called
  <2>2. ops[u].epoch \in Nat /\ ops[u].all \in Nat /\ ops[u].shrunk \in BOOLEAN /\ shrunk \in BOOLEAN
    BY DEF HeapTypeOK
  <2> HIDE DEF shrunk
  <2>3. ops'[u] = [epoch |-> ops[u].epoch + 1, all |-> ops[u].all + 1, shrunk |-> ops[u].shrunk \/ shrunk]
    BY <2>1 DEF HeapTypeOK
  <2>4. (ops[u].shrunk \/ shrunk) \in BOOLEAN
    BY <2>2
  <2> QED  BY <2>2, <2>3, <2>4
<1>5. /\ t \in Seq(Bucket) /\ Len(t) = k
      /\ \A i \in 1 .. k : t[i].seg = s[i].seg
      /\ UpTo(t, k) = left
  <2> HIDE DEF s
  <2> QED  BY <1>1, <1>2, ShrunkList
<1>6. /\ first \in 1 .. Len(s) + 1
      /\ num_attach[u] = (Len(s) - first) + 1
      /\ \A i \in 1 .. Len(s) : s[i].seg = 0 <=> i >= first
      /\ Len(c) > num_attach[u]
  BY DEF OwnBooks
<1>7. /\ first > k + 1 => FirstAfter(first, k) = k + 1 /\ drop = num_attach[u]
      /\ ~(first > k + 1) => FirstAfter(first, k) = first /\ drop = Len(s) - k
  BY DEF FirstAfter, DroppedHere
<1> HIDE DEF s, first, c, drop, t
<1>8. drop \in Nat /\ drop <= num_attach[u] /\ kept \in Nat /\ kept > num_attach[u] - drop
  <2>1. drop \in Nat /\ drop <= num_attach[u]
    <3>1. CASE first > k + 1
      BY <1>1, <1>7, <3>1
    <3>2. CASE ~(first > k + 1)
      BY <1>1, <1>2, <1>6, <1>7, <3>2
    <3> QED  BY <3>1, <3>2
  <2> QED  BY <1>1, <1>6, <2>1
<1> HIDE DEF kept
<1>9. d \in Seq(Int) \ {<<>>} /\ Len(d) = kept /\ d[kept] = left
  <2>1. kept \in Nat \ {0} /\ kept <= Len(c)
    BY <1>1, <1>8 DEF kept
  <2>2. \A i \in 1 .. kept : (IF i = kept THEN left ELSE c[i]) \in Int
    BY <1>1, <1>2, <2>1
  <2>3. d = [i \in 1 .. kept |-> IF i = kept THEN left ELSE c[i]]
    BY DEF Cut
  <2> HIDE DEF d
  <2> QED  BY <2>1, <2>2, <2>3
<1> HIDE DEF d
<1>10. OwnTypes(u)
  <2>1. remote_size'[u] \in Int /\ max_attach'[u] \in Nat /\ attached'[u] \in Nat /\ stage'[u] \in Nat
        /\ regs'[u] \in Nat
    BY DEF ShrinksTo, HeapTypeOK
  <2>2. \A w \in Unit : cumul'[u][w] \in Seq(Int) \ {<<>>}
    BY <1>3, <1>9, CumulType
  <2>3. attach_first'[u] \in Nat /\ num_attach'[u] \in Nat /\ local_size'[u] \in Nat
    <3>1. FirstAfter(first, k) \in Nat
      BY <1>1, <1>2, <1>7
    <3>2. num_attach[u] - drop \in Nat
      BY <1>1, <1>8
    <3> QED  BY <1>2, <1>3, <3>1, <3>2
  <2> QED  BY <1>3, <1>4, <1>5, <2>1, <2>2, <2>3 DEF OwnTypes
<1>11. OwnBooks(u)'
  <2>1. attach_first'[u] \in 1 .. Len(t) + 1 /\ num_attach'[u] = (Len(t) - attach_first'[u]) + 1
    <3> DEFINE f == FirstAfter(first, k)
    <3>1. f \in 1 .. k + 1 /\ num_attach[u] - drop = (k - f) + 1
      <4>1. CASE first > k + 1
        <5>1. f = k + 1 /\ num_attach[u] - drop = 0
          BY <1>1, <1>7, <4>1
        <5> HIDE DEF f
        <5> QED  BY <1>2, <5>1
      <4>2. CASE ~(first > k + 1)
        <5>1. f = first /\ drop = Len(s) - k
          BY <1>7, <4>2
        <5> HIDE DEF f
        <5> QED  BY <1>1, <1>2, <1>6, <4>2, <5>1
      <4> QED  BY <4>1, <4>2
    <3> HIDE DEF f
    <3>2. attach_first'[u] = f /\ num_attach'[u] = num_attach[u] - drop /\ Len(t) = k
      BY <1>3, <1>5 DEF f
    <3> QED  BY <3>1, <3>2
  <2>2. \A i \in 1 .. Len(t) : t[i].seg = 0 <=> i >= attach_first'[u]
    <3> TAKE i \in 1 .. Len(t)
    <3>1. i \in 1 .. k /\ i \in 1 .. Len(s)
      BY <1>1, <1>2, <1>5
    <3>2. t[i].seg = 0 <=> i >= first
      BY <3>1, <1>5, <1>6
    <3>3. first > k + 1 => ~(i >= first) /\ ~(i >= k + 1)
      BY <3>1, <1>1, <1>2
    <3> QED  BY <3>2, <3>3, <1>3, <1>7
  <2>3. local_size'[u] = UpTo(t, Len(t))
    BY <1>3, <1>5
  <2>4. Len(d) > num_attach'[u] /\ d[Len(d)] = local_size'[u]
    BY <1>3, <1>8, <1>9
  <2> QED  BY <1>3, <1>4, <2>1, <2>2, <2>3, <2>4 DEF OwnBooks, Latest
<1> QED  BY <1>10, <1>11

\* attach moves the border between the attached and the unattached buckets by one.
LEMMA AttachStep ==
  ASSUME HeapTypeOK, NEW u \in Unit, OwnBooks(u), attach(u)
  PROVE  OwnTypes(u) /\ OwnBooks(u)'
<1> DEFINE s == buckets[u]
           first == attach_first[u]
           r == regs[u] + 1
           t == [s EXCEPT ![first].seg = r]
<1>1. /\ s \in Seq(Bucket) /\ Len(s) \in Nat /\ first \in Nat /\ num_attach[u] \in Nat
      /\ r \in Nat /\ r # 0 /\ attached[u] \in Nat
  BY DEF HeapTypeOK
<1>2. /\ buckets' = [buckets EXCEPT ![u] = t]
      /\ attach_first'[u] = first + 1
      /\ num_attach'[u] = num_attach[u] - 1
      /\ local_size' = local_size /\ cumul' = cumul /\ stage' = stage /\ ops' = ops
      /\ remote_size' = remote_size /\ max_attach' = max_attach
      /\ first <= Len(s) /\ ~Running(u)
      /\ regs'[u] = regs[u] + 1 /\ attached'[u] = attached[u] + 1
  BY DEF attach, Registers, HeapTypeOK, MayAttach, Running
<1>3. /\ first \in 1 .. Len(s) + 1
      /\ num_attach[u] = (Len(s) - first) + 1
      /\ \A i \in 1 .. Len(s) : s[i].seg = 0 <=> i >= first
      /\ local_size[u] = UpTo(s, Len(s))
      /\ Len(cumul[u][u]) > num_attach[u]
      /\ Latest(cumul[u][u]) = local_size[u]
  BY DEF OwnBooks
<1>4. buckets'[u] = t
  <2> HIDE DEF t
  <2> QED  BY <1>2 DEF HeapTypeOK
<1> HIDE DEF s, first, r
<1>5. /\ t \in Seq(Bucket) /\ Len(t) = Len(s)
      /\ \A i \in 1 .. Len(s) : t[i].seg = IF i = first THEN r ELSE s[i].seg
      /\ UpTo(t, Len(s)) = UpTo(s, Len(s))
  <2>1. first \in 1 .. Len(s) /\ Len(s) \in 0 .. Len(s)
    BY <1>1, <1>2, <1>3
  <2> QED  BY <1>1, <2>1, Attached
<1> HIDE DEF t
<1>6. OwnTypes(u)
  <2>1. attach_first'[u] \in Nat /\ num_attach'[u] \in Nat
    <3>1. num_attach[u] = (Len(s) - first) + 1 /\ first <= Len(s)
      BY <1>2, <1>3
    <3>2. num_attach[u] - 1 \in Nat /\ first + 1 \in Nat
      BY <3>1, <1>1
    <3> QED  BY <3>2, <1>2
  <2>2. attached'[u] \in Nat /\ regs'[u] \in Nat
    <3>1. regs[u] \in Nat /\ attached[u] \in Nat
      BY DEF HeapTypeOK
    <3> QED  BY <3>1, <1>2
  <2>3. \A w \in Unit : cumul'[u][w] \in Seq(Int) \ {<<>>}
    BY <1>2, CumulType
  <2>4. /\ local_size'[u] \in Nat /\ remote_size'[u] \in Int /\ max_attach'[u] \in Nat /\ stage'[u] \in Nat
        /\ ops'[u] \in [epoch : Nat, all : Nat, shrunk : BOOLEAN]
    BY <1>2 DEF HeapTypeOK
  <2> QED  BY <1>4, <1>5, <2>1, <2>2, <2>3, <2>4 DEF OwnTypes
<1>7. OwnBooks(u)'
  <2>1. attach_first'[u] \in 1 .. Len(t) + 1 /\ num_attach'[u] = (Len(t) - attach_first'[u]) + 1
    BY <1>1, <1>2, <1>3, <1>5
  <2>2. \A i \in 1 .. Len(t) : t[i].seg = 0 <=> i >= attach_first'[u]
    <3> TAKE i \in 1 .. Len(t)
    <3>1. CASE i = first
      BY <3>1, <1>1, <1>2, <1>5
    <3>2. CASE i # first
      <4>1. i \in 1 .. Len(s) /\ t[i].seg = s[i].seg
        BY <3>2, <1>5
      <4> QED  BY <4>1, <3>2, <1>1, <1>2, <1>3
    <3> QED  BY <3>1, <3>2
  <2>3. Len(cumul[u][u]) > num_attach'[u] /\ Latest(cumul[u][u]) = local_size[u]
    <3> DEFINE c == cumul[u][u]
    <3>1. Len(c) \in Nat /\ Len(c) > num_attach[u] /\ num_attach'[u] = num_attach[u] - 1
      BY <1>2, <1>3, CumulType
    <3> HIDE DEF c
    <3>2. Len(c) > num_attach'[u]
      BY <3>1, <1>1
    <3> QED  BY <3>2, <1>3 DEF c
  <2>4. ~Running(u)'
    BY <1>2 DEF Running
  <2> QED  BY <1>2, <1>3, <1>4, <1>5, <2>1, <2>2, <2>3, <2>4 DEF OwnBooks
<1> QED  BY <1>6, <1>7

\* An empty bucket comes attached.
LEMMA AttachNullStep ==
  ASSUME HeapTypeOK, NEW u \in Unit, OwnBooks(u), attach_null(u)
  PROVE  OwnTypes(u) /\ OwnBooks(u)'
<1> DEFINE s == buckets[u]
           first == attach_first[u]
           b == [size |-> 0, seg |-> regs[u] + 1]
           t == Append(s, b)
<1>1. /\ s \in Seq(Bucket) /\ Len(s) \in Nat /\ first \in Nat /\ num_attach[u] \in Nat
      /\ attached[u] \in Nat /\ b \in Bucket /\ b.seg # 0 /\ b.size = 0
  BY DEF HeapTypeOK, Bucket
<1>2. /\ buckets' = [buckets EXCEPT ![u] = t]
      /\ attach_first'[u] = first + 1
      /\ num_attach' = num_attach
      /\ local_size' = local_size /\ cumul' = cumul /\ stage' = stage /\ ops' = ops
      /\ remote_size' = remote_size /\ max_attach' = max_attach
      /\ first > Len(s) /\ ~Running(u)
      /\ regs'[u] = regs[u] + 1 /\ attached'[u] = attached[u] + 1
  BY DEF attach_null, Registers, HeapTypeOK, MayAttach, Running, AttachedOwn
<1>3. /\ first \in 1 .. Len(s) + 1
      /\ num_attach[u] = (Len(s) - first) + 1
      /\ \A i \in 1 .. Len(s) : s[i].seg = 0 <=> i >= first
      /\ local_size[u] = UpTo(s, Len(s))
      /\ Len(cumul[u][u]) > num_attach[u]
      /\ Latest(cumul[u][u]) = local_size[u]
  BY DEF OwnBooks
<1>4. buckets'[u] = t
  <2> HIDE DEF t
  <2> QED  BY <1>2 DEF HeapTypeOK
<1> HIDE DEF s, first, b
<1>5. /\ t \in Seq(Bucket) /\ Len(t) = Len(s) + 1
      /\ \A i \in 1 .. Len(s) : t[i] = s[i]
      /\ t[Len(s) + 1] = b
      /\ UpTo(t, Len(s) + 1) = UpTo(s, Len(s)) + b.size
  BY <1>1, Appended
<1> HIDE DEF t
<1>6. OwnTypes(u)
  <2>1. attach_first'[u] \in Nat
    BY <1>1, <1>2
  <2>2. attached'[u] \in Nat /\ regs'[u] \in Nat
    <3>1. regs[u] \in Nat /\ attached[u] \in Nat
      BY DEF HeapTypeOK
    <3> QED  BY <3>1, <1>2
  <2>3. \A w \in Unit : cumul'[u][w] \in Seq(Int) \ {<<>>}
    BY <1>2, CumulType
  <2>4. /\ local_size'[u] \in Nat /\ remote_size'[u] \in Int /\ max_attach'[u] \in Nat /\ stage'[u] \in Nat
        /\ num_attach'[u] \in Nat /\ ops'[u] \in [epoch : Nat, all : Nat, shrunk : BOOLEAN]
    BY <1>2 DEF HeapTypeOK
  <2> QED  BY <1>4, <1>5, <2>1, <2>2, <2>3, <2>4 DEF OwnTypes
<1>7. OwnBooks(u)'
  <2>1. attach_first'[u] \in 1 .. Len(t) + 1 /\ num_attach'[u] = (Len(t) - attach_first'[u]) + 1
    BY <1>1, <1>2, <1>3, <1>5
  <2>2. \A i \in 1 .. Len(t) : t[i].seg = 0 <=> i >= attach_first'[u]
    <3> TAKE i \in 1 .. Len(t)
    <3>1. CASE i = Len(s) + 1
      BY <3>1, <1>1, <1>2, <1>3, <1>5
    <3>2. CASE i # Len(s) + 1
      <4>1. i \in 1 .. Len(s) /\ t[i] = s[i]
        BY <3>2, <1>1, <1>5
      <4> QED  BY <4>1, <1>1, <1>2, <1>3
    <3> QED  BY <3>1, <3>2
  <2>3. local_size[u] = UpTo(t, Len(t))
    <3>1. UpTo(s, Len(s)) \in Nat
      BY <1>1, UpToNat
    <3>2. UpTo(t, Len(t)) = UpTo(s, Len(s)) + b.size
      BY <1>5
    <3> QED  BY <1>1, <1>3, <3>1, <3>2
  <2>4. ~Running(u)'
    BY <1>2 DEF Running
  <2> QED  BY <1>2, <1>3, <1>4, <2>1, <2>2, <2>3, <2>4 DEF OwnBooks
<1> QED  BY <1>6, <1>7

\* The sum over all units is an integer, and is made of a unit's part and that of the others.
LEMMA SumOfUnits ==
  \A f \in [Unit -> Int] : \A v \in Unit :
     /\ Sum(f) \in Int /\ Total(f, Unit \ {v}) \in Int
     /\ Sum(f) = f[v] + Total(f, Unit \ {v})
<1> SUFFICES ASSUME NEW f \in [Unit -> Int], NEW v \in Unit
             PROVE  /\ Sum(f) \in Int /\ Total(f, Unit \ {v}) \in Int
                    /\ Sum(f) = f[v] + Total(f, Unit \ {v})
  OBVIOUS
<1>1. IsFiniteSet(Unit)
  BY FS_Interval, NUnitsAssumption DEF Unit
<1>2. Sum(f) = Total(f, Unit)
  BY DEF Sum, Total, FoldFunction
<1>3. Ints(f, Unit) /\ Ints(f, Unit \ {v})
  BY DEF Ints
<1> DEFINE V == Unit \ {v}
<1>4. IsFiniteSet(V) /\ Ints(f, V)
  BY <1>1, <1>3, FS_Subset
<1>5. Total(f, Unit) \in Int /\ Total(f, Unit) = f[v] + Total(f, Unit \ {v})
  BY <1>1, <1>3, TotalSplit
<1>6. Total(f, V) \in Int
  <2> HIDE DEF V
  <2> QED  BY <1>4, TotalSplit
<1> QED  BY <1>2, <1>5, <1>6

\* A unit's stage counts the commits it has completed and the step it is in; the sizes of a
\* commit are known from its last step on.
LEMMA StageCases ==
  \A s \in Nat :
     /\ Completed(s) \in Nat /\ Learned(s) \in Nat
     /\ s = 4 * Completed(s) + (s % 4)
     /\ s % 4 \in {0, 1, 2, 3}
     /\ s % 4 # 3 => Learned(s) = Completed(s)
     /\ s % 4 = 3 => Learned(s) = Completed(s) + 1
     /\ s % 4 # 3 => (s + 1) % 4 = (s % 4) + 1 /\ Completed(s + 1) = Completed(s)
     /\ s % 4 = 3 => (s + 1) % 4 = 0 /\ Completed(s + 1) = Completed(s) + 1
BY DEF Completed, Learned

\* The steps of a commit that leave a unit's buckets alone.
LEMMA CommitStep ==
  ASSUME HeapTypeOK, BooksInv, NEW u \in Unit,
         commit_detach(u) \/ gather_min_max(u) \/ update_remote_size(u) \/ commit_returns(u)
  PROVE  OwnTypes(u) /\ OwnBooks(u)'
<1>1. /\ buckets[u] \in Seq(Bucket) /\ attach_first[u] \in Nat /\ num_attach[u] \in Nat
      /\ local_size[u] \in Nat /\ remote_size[u] \in Int
      /\ \A w \in Unit : cumul[u][w] \in Seq(Int) \ {<<>>}
      /\ max_attach[u] \in Nat /\ attached[u] \in Nat /\ stage[u] \in Nat /\ regs[u] \in Nat
      /\ ops[u] \in [epoch : Nat, all : Nat, shrunk : BOOLEAN]
      /\ OwnBooks(u)
  BY CumulType DEF HeapTypeOK, BooksInv
<1>2. /\ buckets' = buckets /\ attach_first' = attach_first /\ num_attach' = num_attach
      /\ local_size' = local_size /\ regs' = regs
      /\ stage'[u] = stage[u] + 1
  <2>1. CASE commit_detach(u) \/ gather_min_max(u)
    BY <2>1 DEF commit_detach, gather_min_max, memory, HeapTypeOK
  <2>2. CASE update_remote_size(u) \/ commit_returns(u)
    BY <2>2 DEF update_remote_size, commit_returns, memory, HeapTypeOK
  <2> QED  BY <2>1, <2>2
<1>3. stage'[u] \in Nat
  <2>1. stage[u] \in Nat
    BY DEF HeapTypeOK
  <2> QED  BY <1>2, <2>1
<1>4. CASE commit_detach(u)
  <2>1. /\ cumul' = cumul /\ ops' = ops /\ remote_size' = remote_size /\ max_attach' = max_attach
        /\ attached' = attached /\ Running(u)
    BY <1>4 DEF commit_detach
  <2>2. ~Running(u)'
    <3> DEFINE st == stage[u]
    <3>1. st \in Nat /\ st % 4 # 3
      BY <1>1, <2>1 DEF Running
    <3> HIDE DEF st
    <3>2. (st + 1) % 4 # 0
      BY <3>1, StageCases
    <3> QED  BY <3>2, <1>2 DEF Running, st
  <2>3. OwnBooks(u)'
    BY <1>1, <1>2, <2>1, <2>2, OwnBooksKept
  <2> QED  BY <1>1, <1>2, <1>3, <2>1, <2>3 DEF OwnTypes
<1>5. CASE gather_min_max(u)
  <2>1. /\ cumul' = cumul /\ ops' = ops /\ remote_size' = remote_size
        /\ max_attach'[u] = Max({num_attach[v] : v \in Unit})
        /\ attached' = attached /\ stage[u] % 4 = 1
    BY <1>5 DEF gather_min_max, HeapTypeOK, memory
  <2>2. ~Running(u)'
    <3> DEFINE st == stage[u]
    <3>1. st \in Nat /\ st % 4 # 3
      BY <1>1, <2>1 DEF Running
    <3> HIDE DEF st
    <3>2. (st + 1) % 4 # 0
      BY <3>1, StageCases
    <3> QED  BY <3>2, <1>2 DEF Running, st
  <2>3. OwnBooks(u)'
    BY <1>1, <1>2, <2>1, <2>2, OwnBooksKept
  <2>4. max_attach'[u] \in Nat
    <3>1. num_attach \in [Unit -> Nat]
      BY DEF HeapTypeOK
    <3> QED  BY <3>1, <2>1, LargestOfUnits
  <2> QED  BY <1>1, <1>2, <1>3, <2>1, <2>3, <2>4 DEF OwnTypes
<1>6. CASE update_remote_size(u)
  <2>1. /\ remote_size'[u] = Sum([local_size EXCEPT ![u] = 0])
        /\ cumul'[u] = [v \in Unit |->
             IF v = u THEN cumul[u][v] ELSE CumulAfter(cumul[u][v], Unattached(v), local_size[v])]
        /\ ops' = ops /\ max_attach' = max_attach
        /\ attached'[u] = 0 /\ stage[u] % 4 = 2
    BY <1>6 DEF update_remote_size, HeapTypeOK
  <2>2. ~Running(u)'
    <3> DEFINE st == stage[u]
    <3>1. st \in Nat /\ st % 4 # 3
      BY <1>1, <2>1 DEF Running
    <3> HIDE DEF st
    <3>2. (st + 1) % 4 # 0
      BY <3>1, StageCases
    <3> QED  BY <3>2, <1>2 DEF Running, st
  <2>3. cumul'[u][u] = cumul[u][u]
    BY <2>1
  <2>4. OwnBooks(u)'
    BY <1>1, <1>2, <2>1, <2>2, <2>3, OwnBooksKept
  <2>5. ASSUME NEW w \in Unit PROVE cumul'[u][w] \in Seq(Int) \ {<<>>}
    <3>1. CASE w = u
      BY <3>1, <2>3, <1>1
    <3>2. CASE w # u
      <4> DEFINE old == cumul[u][w]
                 new == Unattached(w)
                 all == CumulAfter(old, new, local_size[w])
      <4>1. cumul'[u][w] = all
        BY <2>1, <3>2
      <4>2. OwnBooks(w) /\ local_size[w] \in Nat /\ old \in Seq(Int) \ {<<>>}
        BY <1>1 DEF BooksInv, HeapTypeOK
      <4>3. new \in Seq(Bucket)
        BY <4>2, UnattachedIs
      <4> HIDE DEF old, new
      <4>4. all \in Seq(Int) /\ Len(all) = Len(old) + Len(new)
        BY <4>2, <4>3, CumulAfterIs
      <4> HIDE DEF all
      <4>5. Len(old) \in Nat /\ Len(old) > 0 /\ Len(new) \in Nat
        BY <4>2, <4>3
      <4>6. all # <<>>
        BY <4>4, <4>5
      <4> QED  BY <4>1, <4>4, <4>6
    <3> QED  BY <3>1, <3>2
  <2>6. remote_size'[u] \in Int
    <3> DEFINE f == [local_size EXCEPT ![u] = 0]
    <3>1. f \in [Unit -> Int]
      BY DEF HeapTypeOK
    <3> HIDE DEF f
    <3>2. Sum(f) \in Int
      BY <3>1, SumOfUnits
    <3> QED  BY <2>1, <3>2 DEF f
  <2> QED  BY <1>1, <1>2, <1>3, <2>1, <2>4, <2>5, <2>6 DEF OwnTypes
<1>7. CASE commit_returns(u)
  <2>1. /\ cumul' = cumul /\ remote_size' = remote_size /\ max_attach' = max_attach
        /\ attached' = attached /\ attach_first[u] > Len(buckets[u])
        /\ ops' = [ops EXCEPT ![u].epoch = 0, ![u].shrunk = FALSE]
    BY <1>7 DEF commit_returns, memory, AttachedAll, AttachedOwn
  <2>2. num_attach[u] = 0
    BY <1>1, <2>1 DEF OwnBooks
  <2>3. OwnBooks(u)'
    BY <1>1, <1>2, <2>1, <2>2, OwnBooksKept
  <2>4. ops'[u] \in [epoch : Nat, all : Nat, shrunk : BOOLEAN]
    BY <1>1, <2>1 DEF HeapTypeOK
  <2> QED  BY <1>1, <1>2, <1>3, <2>1, <2>3, <2>4 DEF OwnTypes
<1> QED  BY <1>4, <1>5, <1>6, <1>7

----------------------------------------------------------------------------
(* Types and books are kept by every step. *)

\* f has a value for every unit and for nothing else.
OfUnits(f) == f = [w \in Unit |-> f[w]]

AreOfUnits ==
    /\ OfUnits(buckets) /\ OfUnits(attach_first) /\ OfUnits(local_size) /\ OfUnits(cumul)
    /\ OfUnits(num_attach) /\ OfUnits(remote_size) /\ OfUnits(max_attach) /\ OfUnits(attached)
    /\ OfUnits(stage) /\ OfUnits(regs) /\ OfUnits(ops)
    /\ \A v \in Unit : OfUnits(cumul[v])

\* The variables are functions on the units.
LEMMA TypesOfUnits == HeapTypeOK => AreOfUnits
<1> SUFFICES ASSUME HeapTypeOK PROVE AreOfUnits
  OBVIOUS
<1>1. OfUnits(buckets) /\ OfUnits(attach_first) /\ OfUnits(local_size) /\ OfUnits(cumul)
  BY DEF HeapTypeOK, OfUnits
<1>2. OfUnits(num_attach) /\ OfUnits(remote_size) /\ OfUnits(max_attach) /\ OfUnits(attached)
  BY DEF HeapTypeOK, OfUnits
<1>3. OfUnits(stage) /\ OfUnits(regs) /\ OfUnits(ops)
  BY DEF HeapTypeOK, OfUnits
<1>4. \A v \in Unit : OfUnits(cumul[v])
  BY DEF HeapTypeOK, OfUnits
<1> QED  BY <1>1, <1>2, <1>3, <1>4 DEF AreOfUnits

\* Writing one unit's value leaves a value for every unit.
LEMMA OfUnitsExcept == \A f, u, x : OfUnits(f) => OfUnits([f EXCEPT ![u] = x])
BY DEF OfUnits

\* ... also of what a unit knows.
LEMMA CumulExcept ==
  ASSUME AreOfUnits, NEW u \in Unit, NEW g, OfUnits(g), cumul' = [cumul EXCEPT ![u] = g]
  PROVE  OfUnits(cumul)' /\ \A v \in Unit : OfUnits(cumul[v])'
<1>1. OfUnits(cumul) /\ \A v \in Unit : OfUnits(cumul[v])
  BY DEF AreOfUnits
<1>2. OfUnits(cumul')
  BY <1>1, OfUnitsExcept
<1>3. \A v \in Unit : cumul'[v] = IF v = u THEN g ELSE cumul[v]
  BY <1>1 DEF OfUnits
<1>4. \A v \in Unit : OfUnits(cumul'[v])
  BY <1>1, <1>3, Zenon
<1> QED  BY <1>2, <1>4 DEF OfUnits

\* Every step leaves the variables functions on the units.
LEMMA OfUnitsStep == ASSUME AreOfUnits, NEW u \in Unit, StepOf(u) PROVE AreOfUnits'
<1> USE OfUnitsExcept DEF AreOfUnits
<1>1. ASSUME NEW n \in GrowSizes, grow(u, n) PROVE AreOfUnits'
  <2> DEFINE g == [cumul[u] EXCEPT ![u] = Append(@, local_size[u] + n)]
  <2>1. cumul' = [cumul EXCEPT ![u] = g]
    BY <1>1 DEF grow
  <2>2. OfUnits(g)
    <3> HIDE DEF AreOfUnits
    <3>1. OfUnits(cumul[u])
      BY DEF AreOfUnits
    <3> QED  BY <3>1
  <2>3. OfUnits(cumul)' /\ \A v \in Unit : OfUnits(cumul[v])'
    <3> HIDE DEF g, AreOfUnits
    <3> QED  BY <2>1, <2>2, CumulExcept
  <2>4. /\ OfUnits(buckets)' /\ OfUnits(attach_first)' /\ OfUnits(local_size)' /\ OfUnits(num_attach)'
        /\ OfUnits(ops)'
    BY <1>1 DEF grow, Called
  <2>5. UNCHANGED <<remote_size, max_attach, attached, stage, regs>>
    BY <1>1 DEF grow
  <2>6. /\ OfUnits(remote_size)' /\ OfUnits(max_attach)' /\ OfUnits(attached)' /\ OfUnits(stage)'
        /\ OfUnits(regs)'
    BY <2>5
  <2> QED  BY <2>3, <2>4, <2>6
<1>2. ASSUME NEW n \in GrowSizes, shrink(u, n) PROVE AreOfUnits'
  <2> DEFINE s == buckets[u]
             here == {i \in Dropped(s, local_size[u] - n) : s[i].seg = 0}
             g == [cumul[u] EXCEPT ![u] = LET kept == Len(@) - Cardinality(here)
                      IN [i \in 1 .. kept |-> IF i = kept THEN local_size[u] - n ELSE @[i]]]
  <2>1. cumul' = [cumul EXCEPT ![u] = g]
    BY <1>2 DEF shrink
  <2>2. OfUnits(g)
    <3> HIDE DEF AreOfUnits
    <3>1. OfUnits(cumul[u])
      BY DEF AreOfUnits
    <3> HIDE DEF here
    <3> QED  BY <3>1
  <2>3. OfUnits(cumul)' /\ \A v \in Unit : OfUnits(cumul[v])'
    <3> HIDE DEF g, AreOfUnits
    <3> QED  BY <2>1, <2>2, CumulExcept
  <2>4. /\ OfUnits(buckets)' /\ OfUnits(attach_first)' /\ OfUnits(local_size)' /\ OfUnits(num_attach)'
        /\ OfUnits(ops)'
    BY <1>2 DEF shrink, Called
  <2>5. UNCHANGED <<remote_size, max_attach, attached, stage, regs>>
    BY <1>2 DEF shrink
  <2>6. /\ OfUnits(remote_size)' /\ OfUnits(max_attach)' /\ OfUnits(attached)' /\ OfUnits(stage)'
        /\ OfUnits(regs)'
    BY <2>5
  <2> QED  BY <2>3, <2>4, <2>6
<1>3. CASE commit_detach(u)
  BY <1>3 DEF commit_detach
<1>4. CASE gather_min_max(u)
  BY <1>4 DEF gather_min_max, memory
<1>5. CASE update_remote_size(u)
  <2> DEFINE g == [v \in Unit |-> IF v = u THEN cumul[u][v]
                                  ELSE CumulAfter(cumul[u][v], Unattached(v), local_size[v])]
  <2>1. cumul' = [cumul EXCEPT ![u] = g]
    BY <1>5 DEF update_remote_size
  <2>2. OfUnits(g)
    BY DEF OfUnits
  <2>3. OfUnits(cumul)' /\ \A v \in Unit : OfUnits(cumul[v])'
    <3> HIDE DEF g, AreOfUnits
    <3> QED  BY <2>1, <2>2, CumulExcept
  <2>4. OfUnits(remote_size)' /\ OfUnits(attached)' /\ OfUnits(stage)'
    BY <1>5 DEF update_remote_size
  <2>5. UNCHANGED <<buckets, attach_first, local_size, num_attach, detach, max_attach, regs, ops, past>>
    BY <1>5 DEF update_remote_size
  <2>6. /\ OfUnits(buckets)' /\ OfUnits(attach_first)' /\ OfUnits(local_size)' /\ OfUnits(num_attach)'
        /\ OfUnits(ops)' /\ OfUnits(max_attach)' /\ OfUnits(regs)'
    BY <2>5
  <2> QED  BY <2>3, <2>4, <2>6
<1>6. CASE attach(u)
  BY <1>6 DEF attach, Registers
<1>7. CASE attach_null(u)
  BY <1>7 DEF attach_null, Registers
<1>8. CASE commit_returns(u)
  BY <1>8 DEF commit_returns, memory
<1> QED  BY <1>1, <1>2, <1>3, <1>4, <1>5, <1>6, <1>7, <1>8 DEF StepOf, InCommit

\* Every action keeps the unit's types and books.
LEMMA OwnStep ==
  ASSUME HeapTypeOK, BooksInv, NEW u \in Unit, StepOf(u)
  PROVE  OwnTypes(u) /\ OwnBooks(u)'
<1>0. OwnBooks(u)
  BY DEF BooksInv
<1>1. ASSUME NEW n \in GrowSizes, grow(u, n) PROVE OwnTypes(u) /\ OwnBooks(u)'
  BY <1>0, <1>1, GrowStep
<1>2. ASSUME NEW n \in GrowSizes, shrink(u, n) PROVE OwnTypes(u) /\ OwnBooks(u)'
  <2>1. PICK k \in 0 .. Len(buckets[u]) : ShrinksTo(u, local_size[u] - n, k)
    BY <1>2, ShrinkEffect
  <2> QED  BY <1>0, <2>1, ShrinkStep
<1>3. CASE commit_detach(u) \/ gather_min_max(u) \/ update_remote_size(u) \/ commit_returns(u)
  BY <1>3, CommitStep
<1>4. CASE attach(u)
  BY <1>0, <1>4, AttachStep
<1>5. CASE attach_null(u)
  BY <1>0, <1>5, AttachNullStep
<1> QED  BY <1>1, <1>2, <1>3, <1>4, <1>5 DEF StepOf, InCommit

\* Every step keeps the types.
LEMMA HeapTypeStep ==
  ASSUME HeapTypeOK, BooksInv, NEW u \in Unit, StepOf(u)
  PROVE  HeapTypeOK'
<1>1. OwnTypes(u) /\ OthersKept(u) /\ AreOfUnits'
  BY OwnStep, OthersAreKept, TypesOfUnits, OfUnitsStep
<1>2. ASSUME NEW w \in Unit
      PROVE  /\ buckets'[w] \in Seq(Bucket) /\ attach_first'[w] \in Nat /\ num_attach'[w] \in Nat
             /\ local_size'[w] \in Nat /\ remote_size'[w] \in Int
             /\ \A x \in Unit : cumul'[w][x] \in Seq(Int) \ {<<>>}
             /\ max_attach'[w] \in Nat /\ attached'[w] \in Nat /\ stage'[w] \in Nat /\ regs'[w] \in Nat
             /\ ops'[w] \in [epoch : Nat, all : Nat, shrunk : BOOLEAN]
  <2>1. CASE w = u
    BY <1>1, <2>1, Zenon DEF OwnTypes
  <2>2. CASE w # u
    <3>1. /\ buckets[w] \in Seq(Bucket) /\ attach_first[w] \in Nat /\ num_attach[w] \in Nat
          /\ local_size[w] \in Nat /\ remote_size[w] \in Int
          /\ \A x \in Unit : cumul[w][x] \in Seq(Int) \ {<<>>}
          /\ max_attach[w] \in Nat /\ attached[w] \in Nat /\ stage[w] \in Nat /\ regs[w] \in Nat
          /\ ops[w] \in [epoch : Nat, all : Nat, shrunk : BOOLEAN]
      BY CumulType DEF HeapTypeOK
    <3>2. /\ buckets'[w] = buckets[w] /\ attach_first'[w] = attach_first[w] /\ num_attach'[w] = num_attach[w]
          /\ local_size'[w] = local_size[w] /\ cumul'[w] = cumul[w] /\ remote_size'[w] = remote_size[w]
          /\ stage'[w] = stage[w] /\ regs'[w] = regs[w] /\ ops'[w] = ops[w]
          /\ max_attach'[w] = max_attach[w] /\ attached'[w] = attached[w]
      BY <1>1, <2>2 DEF OthersKept
    <3> QED  BY <3>1, <3>2
  <2> QED  BY <2>1, <2>2
<1>3. buckets' \in [Unit -> Seq(Bucket)] /\ attach_first' \in [Unit -> Nat] /\ num_attach' \in [Unit -> Nat]
  BY <1>1, <1>2 DEF AreOfUnits, OfUnits
<1>4. local_size' \in [Unit -> Nat] /\ remote_size' \in [Unit -> Int] /\ max_attach' \in [Unit -> Nat]
  BY <1>1, <1>2 DEF AreOfUnits, OfUnits
<1>5. attached' \in [Unit -> Nat] /\ stage' \in [Unit -> Nat] /\ regs' \in [Unit -> Nat]
  BY <1>1, <1>2 DEF AreOfUnits, OfUnits
<1>6. ops' \in [Unit -> [epoch : Nat, all : Nat, shrunk : BOOLEAN]]
  BY <1>1, <1>2 DEF AreOfUnits, OfUnits
<1>7. cumul' \in [Unit -> [Unit -> Seq(Int) \ {<<>>}]]
  <2>1. \A w \in Unit : cumul'[w] \in [Unit -> Seq(Int) \ {<<>>}]
    BY <1>1, <1>2 DEF AreOfUnits, OfUnits
  <2> QED  BY <1>1, <2>1 DEF AreOfUnits, OfUnits
<1>8. past' \in [mixed : SUBSET Unit, uneven : BOOLEAN]
  <2>1. past \in [mixed : SUBSET Unit, uneven : BOOLEAN]
    BY DEF HeapTypeOK
  <2>2. ASSUME NEW n \in GrowSizes, shrink(u, n) PROVE past' \in [mixed : SUBSET Unit, uneven : BOOLEAN]
    <3>1. PICK k \in 0 .. Len(buckets[u]) : ShrinksTo(u, local_size[u] - n, k)
      BY <2>2, ShrinkEffect
    <3> DEFINE more == attach_first[u] > k + 1
    <3>2. past' = [past EXCEPT !.uneven = @ \/ more]
      BY <3>1, Zenon DEF ShrinksTo
    <3>3. (past.uneven \/ more) \in BOOLEAN
      OBVIOUS
    <3> HIDE DEF more
    <3> QED  BY <2>1, <3>2, <3>3
  <2>3. CASE commit_detach(u)
    BY <2>1, <2>3 DEF commit_detach
  <2>4. CASE attach_null(u)
    BY <2>1, <2>4 DEF attach_null
  <2>5. CASE UNCHANGED past
    BY <2>1, <2>5
  <2>6. gather_min_max(u) \/ update_remote_size(u) \/ attach(u) \/ commit_returns(u)
          \/ (\E n \in GrowSizes : grow(u, n)) => UNCHANGED past
    BY DEF gather_min_max, update_remote_size, attach, commit_returns, grow
  <2> QED  BY <2>2, <2>3, <2>4, <2>5, <2>6, Zenon DEF StepOf, InCommit
<1> QED  BY <1>3, <1>4, <1>5, <1>6, <1>7, <1>8 DEF HeapTypeOK

\* Every step keeps the books of all units balanced.
LEMMA BooksStep ==
  ASSUME HeapTypeOK, BooksInv, NEW u \in Unit, StepOf(u)
  PROVE  BooksInv'
<1>1. OwnBooks(u)' /\ OthersKept(u)
  BY OwnStep, OthersAreKept
<1>2. ASSUME NEW w \in Unit, w # u PROVE OwnBooks(w)'
  <2>1. OwnBooks(w)
    BY DEF BooksInv
  <2>2. /\ buckets'[w] = buckets[w] /\ attach_first'[w] = attach_first[w] /\ num_attach'[w] = num_attach[w]
        /\ local_size'[w] = local_size[w] /\ cumul'[w][w] = cumul[w][w] /\ stage'[w] = stage[w]
        /\ ops'[w] = ops[w]
    BY <1>1, <1>2 DEF OthersKept
  <2>3. Running(w)' /\ ops'[w].epoch = 0 => num_attach[w] = 0
    BY <2>1, <2>2 DEF OwnBooks, Running
  <2> QED  BY <2>1, <2>2, <2>3, OwnBooksKept
<1> QED  BY <1>1, <1>2 DEF BooksInv

\* The constructor leaves one attached bucket.
LEMMA BooksInit == Init => HeapTypeOK /\ BooksInv
<1> SUFFICES ASSUME Init PROVE HeapTypeOK /\ BooksInv
  OBVIOUS
<1> DEFINE b == [size |-> InitSize, seg |-> 1]
<1>1. b \in Bucket /\ InitSize \in Nat
  BY InitSizeAssumption DEF Bucket
<1>2. <<b>> \in Seq(Bucket) /\ Len(<<b>>) = 1 /\ <<b>>[1] = b
  BY <1>1
<1>3. <<InitSize>> \in Seq(Int) \ {<<>>} /\ Len(<<InitSize>>) = 1 /\ <<InitSize>>[1] = InitSize
  BY <1>1
<1>4. UpTo(<<b>>, 1) = InitSize
  <2> DEFINE s == <<b>>
  <2>1. s \in Seq(Bucket) /\ 1 \in 1 .. Len(s) /\ s[1].size = InitSize /\ 1 - 1 = 0
    BY <1>2
  <2> HIDE DEF s
  <2>2. UpTo(s, 1) = s[1].size + UpTo(s, 1 - 1) /\ UpTo(s, 0) = 0
    BY <2>1, UpToNext
  <2>3. UpTo(s, 1) = InitSize
    BY <1>1, <2>1, <2>2
  <2> QED  BY <2>3 DEF s
<1>5. HeapTypeOK
  <2>1. (NUnits - 1) * InitSize \in Int
    BY NUnitsAssumption, InitSizeAssumption
  <2> DEFINE m == (NUnits - 1) * InitSize
  <2>2. m \in Int
    BY <2>1
  <2> HIDE DEF m, b
  <2>3. remote_size \in [Unit -> Int]
    BY <2>2 DEF Init, m
  <2>4. buckets \in [Unit -> Seq(Bucket)] /\ attach_first \in [Unit -> Nat] /\ num_attach \in [Unit -> Nat]
    BY <1>2 DEF Init, b
  <2>5. cumul \in [Unit -> [Unit -> Seq(Int) \ {<<>>}]] /\ local_size \in [Unit -> Nat]
    BY <1>1, <1>3 DEF Init
  <2>6. /\ max_attach \in [Unit -> Nat] /\ attached \in [Unit -> Nat] /\ stage \in [Unit -> Nat]
        /\ regs \in [Unit -> Nat]
    BY DEF Init
  <2>7. /\ ops \in [Unit -> [epoch : Nat, all : Nat, shrunk : BOOLEAN]]
        /\ past \in [mixed : SUBSET Unit, uneven : BOOLEAN]
    BY DEF Init
  <2> QED  BY <2>3, <2>4, <2>5, <2>6, <2>7 DEF HeapTypeOK
<1>6. ASSUME NEW u \in Unit PROVE OwnBooks(u)
  <2>1. /\ buckets[u] = <<b>> /\ attach_first[u] = 2 /\ num_attach[u] = 0
        /\ local_size[u] = InitSize /\ cumul[u][u] = <<InitSize>>
    BY DEF Init
  <2> DEFINE s == <<b>>
             c == <<InitSize>>
  <2>2. Len(s) = 1 /\ s[1].seg = 1 /\ UpTo(s, 1) = InitSize /\ Len(c) = 1 /\ c[1] = InitSize
    BY <1>2, <1>3, <1>4
  <2> HIDE DEF s, c
  <2>3. \A i \in 1 .. Len(s) : s[i].seg = 0 <=> i >= 2
    BY <2>2
  <2>4. buckets[u] = s /\ cumul[u][u] = c
    BY <2>1 DEF s, c
  <2> HIDE DEF b
  <2> QED  BY <2>1, <2>2, <2>3, <2>4 DEF OwnBooks, Latest
<1> QED  BY <1>5, <1>6 DEF BooksInv

\* The books of a unit agree with the list of its buckets.
LEMMA BalancedBooks == HeapTypeOK /\ BooksInv => BooksAreBalanced
<1> SUFFICES ASSUME HeapTypeOK, BooksInv, NEW u \in Unit
             PROVE  /\ local_size[u] = UpTo(buckets[u], Len(buckets[u]))
                    /\ cumul[u][u] # <<>> => Last(cumul[u][u]) = local_size[u]
                    /\ \A i \in DOMAIN buckets[u] : buckets[u][i].seg = 0 <=> i >= attach_first[u]
                    /\ num_attach[u] = Len(Unattached(u))
  BY DEF BooksAreBalanced
<1>1. OwnBooks(u)
  BY DEF BooksInv
<1>2. num_attach[u] = Len(Unattached(u))
  BY <1>1, UnattachedIs
<1>3. Last(cumul[u][u]) = local_size[u]
  BY <1>1 DEF OwnBooks, Latest, Last
<1>4. DOMAIN buckets[u] = 1 .. Len(buckets[u])
  BY DEF HeapTypeOK
<1> QED  BY <1>1, <1>2, <1>3, <1>4 DEF OwnBooks

----------------------------------------------------------------------------
(* How far apart the units can be. *)

\* A step of a commit but the first begins when all units have come to it.
LEMMA StageMoves ==
  ASSUME HeapTypeOK, NEW u \in Unit, StepOf(u)
  PROVE  \/ stage' = stage
         \/ stage'[u] = stage[u] + 1 /\ stage[u] % 4 = 0
         \/ stage'[u] = stage[u] + 1 /\ stage[u] % 4 \in {1, 2, 3} /\ Passes(u)
<1> USE DEF HeapTypeOK
<1>1. ASSUME NEW n \in GrowSizes, grow(u, n) \/ shrink(u, n) PROVE stage' = stage
  BY <1>1 DEF grow, shrink
<1>2. CASE commit_detach(u)
  BY <1>2 DEF commit_detach, Running
<1>3. CASE gather_min_max(u)
  BY <1>3 DEF gather_min_max
<1>4. CASE update_remote_size(u)
  BY <1>4 DEF update_remote_size
<1>5. CASE attach(u) \/ attach_null(u)
  BY <1>5 DEF attach, attach_null
<1>6. CASE commit_returns(u)
  BY <1>6 DEF commit_returns, MayAttach
<1> QED  BY <1>1, <1>2, <1>3, <1>4, <1>5, <1>6 DEF StepOf, InCommit

\* Every step keeps the units near to each other: the barriers of commit hold them.
LEMMA StageStep ==
  ASSUME HeapTypeOK, StageInv, NEW u \in Unit, StepOf(u)
  PROVE  StageInv'
<1> SUFFICES ASSUME NEW v \in Unit, NEW w \in Unit PROVE stage'[w] >= Reached(stage'[v])
  BY DEF StageInv
<1> DEFINE a == stage[v]
           b == stage[w]
           s == stage[u]
<1>1. a \in Nat /\ b \in Nat /\ s \in Nat /\ b >= Reached(a)
  BY DEF HeapTypeOK, StageInv
<1>2. (v # u => stage'[v] = a) /\ (w # u => stage'[w] = b)
  BY OthersAreKept DEF OthersKept
<1>3. CASE stage' = stage
  BY <1>1, <1>3
<1>4. CASE stage'[u] = s + 1 /\ s % 4 = 0
  <2>1. Reached(s + 1) = Reached(s) /\ Reached(s) <= s /\ Reached(s) \in Int
    <3> HIDE DEF s
    <3> QED  BY <1>1, <1>4 DEF Reached
  <2>2. Reached(a) \in Int
    BY <1>1 DEF Reached
  <2>3. Reached(stage'[v]) = Reached(a)
    BY <1>2, <1>4, <2>1
  <2>4. stage'[w] >= b /\ stage'[w] \in Nat
    BY <1>1, <1>2, <1>4
  <2> HIDE DEF a, b, s
  <2> QED  BY <1>1, <2>2, <2>3, <2>4
<1>5. CASE stage'[u] = s + 1 /\ s % 4 \in {1, 2, 3} /\ Passes(u)
  <2>1. Reached(s + 1) = s
    <3>1. (s + 1) % 4 # 1
      <4> HIDE DEF s
      <4>1. s \in Nat /\ s % 4 # 0
        BY <1>1, <1>5
      <4> QED  BY <4>1
    <3> HIDE DEF s
    <3> QED  BY <1>1, <3>1 DEF Reached
  <2>2. b >= s
    BY <1>5 DEF Passes
  <2>3. stage'[w] >= b /\ stage'[w] \in Nat
    BY <1>1, <1>2, <1>5
  <2>4. CASE v = u
    <3>1. Reached(stage'[v]) = s
      BY <1>5, <2>1, <2>4
    <3> HIDE DEF a, b, s
    <3> QED  BY <1>1, <2>2, <2>3, <3>1
  <2>5. CASE v # u
    <3>1. Reached(stage'[v]) = Reached(a) /\ Reached(a) \in Int
      BY <1>1, <1>2, <2>5 DEF Reached
    <3> HIDE DEF a, b, s
    <3> QED  BY <1>1, <2>3, <3>1
  <2> QED  BY <2>4, <2>5
<1> QED  BY <1>3, <1>4, <1>5, StageMoves

\* Nobody is a commit ahead of a unit, but for units that are past its barriers.
LEMMA StagesNear ==
  ASSUME HeapTypeOK, StageInv, NEW v \in Unit, NEW w \in Unit
  PROVE  /\ stage[w] >= 4 * Learned(stage[v]) - 2
         /\ stage[v] % 4 \in {2, 3} /\ stage[w] >= stage[v] => stage[w] <= 4 * Completed(stage[v]) + 5
         /\ stage[v] % 4 = 2 => stage[w] <= stage[v] + 1
<1> DEFINE a == stage[v]
           b == stage[w]
<1>1. a \in Nat /\ b \in Nat /\ b >= Reached(a) /\ a >= Reached(b)
  BY DEF HeapTypeOK, StageInv
<1> HIDE DEF a, b
<1>2. b >= 4 * Learned(a) - 2
  BY <1>1 DEF Reached, Learned
<1>3. a % 4 \in {2, 3} /\ b >= a => b <= 4 * Completed(a) + 5
  BY <1>1 DEF Reached, Completed
<1>4. a % 4 = 2 => b <= a + 1
  BY <1>1 DEF Reached
<1> QED  BY <1>2, <1>3, <1>4 DEF a, b

----------------------------------------------------------------------------
(* What the units know of each other's sizes. *)

\* What no step of the unit itself can do.
LEMMA StepFrame ==
  ASSUME HeapTypeOK, NEW u \in Unit, StepOf(u)
  PROVE  /\ \A w \in Unit \ {u} : ~update_remote_size(u) => cumul'[u][w] = cumul[u][w]
         /\ past.mixed \subseteq past'.mixed
         /\ past.uneven => past'.uneven
<1> DEFINE Frame == /\ \A w \in Unit \ {u} : ~update_remote_size(u) => cumul'[u][w] = cumul[u][w]
                    /\ past.mixed \subseteq past'.mixed
                    /\ past.uneven => past'.uneven
<1>0. past \in [mixed : SUBSET Unit, uneven : BOOLEAN]
  BY DEF HeapTypeOK
<1>1. ASSUME NEW n \in GrowSizes, grow(u, n)
      PROVE  Frame
  BY <1>1 DEF grow, HeapTypeOK
<1>2. ASSUME NEW n \in GrowSizes, shrink(u, n)
      PROVE  Frame
  <2>1. \A w \in Unit \ {u} : cumul'[u][w] = cumul[u][w]
    BY <1>2 DEF shrink, HeapTypeOK
  <2>2. \E more \in BOOLEAN : past' = [past EXCEPT !.uneven = @ \/ more]
    <3> DEFINE gone == Dropped(buckets[u], local_size[u] - n)
               more == gone # {i \in gone : buckets[u][i].seg = 0}
    <3>1. past' = [past EXCEPT !.uneven = @ \/ more] /\ more \in BOOLEAN
      BY <1>2, Zenon DEF shrink
    <3> HIDE DEF more
    <3> QED  BY <3>1
  <2> QED  BY <1>0, <2>1, <2>2
<1>3. ASSUME commit_detach(u) PROVE Frame
  BY <1>0, <1>3 DEF commit_detach
<1>4. ASSUME gather_min_max(u) PROVE Frame
  BY <1>0, <1>4 DEF gather_min_max, memory
<1>5. ASSUME update_remote_size(u) PROVE Frame
  BY <1>0, <1>5 DEF update_remote_size
<1>6. ASSUME attach(u) PROVE Frame
  BY <1>0, <1>6 DEF attach
<1>7. ASSUME attach_null(u) PROVE Frame
  BY <1>0, <1>7 DEF attach_null
<1>8. ASSUME commit_returns(u) PROVE Frame
  BY <1>0, <1>8 DEF commit_returns, memory
<1> HIDE DEF Frame
<1>9. Frame
  BY <1>1, <1>2, <1>3, <1>4, <1>5, <1>6, <1>7, <1>8 DEF StepOf, InCommit
<1> QED  BY <1>9 DEF Frame

\* What v knows of w stays true when nothing about it changes.
LEMMA KnowsKept ==
  ASSUME NEW v \in Unit, NEW w \in Unit, Knows(v, w),
         Fresh(v, w)' => Fresh(v, w),
         Learned(stage'[v]) = Learned(stage[v]), Completed(stage'[w]) = Completed(stage[w]),
         cumul'[v][w] = cumul[v][w],
         local_size'[w] = local_size[w] \/ ~Fresh(v, w)', AttachedSize(w)' = AttachedSize(w),
         ops'[w].shrunk = ops[w].shrunk
  PROVE  Knows(v, w)'
BY DEF Knows

\* Stages are numbers, and so are the commits learned and completed.
LEMMA StageTypes ==
  ASSUME HeapTypeOK
  PROVE  \A w \in Unit : stage[w] \in Nat /\ Learned(stage[w]) \in Nat /\ Completed(stage[w]) \in Nat
<1>1. \A w \in Unit : stage[w] \in Nat
  BY DEF HeapTypeOK
<1> QED  BY <1>1, StageCases

\* A running unit is fresh for nobody once it has changed its memory.
LEMMA RunningNotFresh ==
  ASSUME HeapTypeOK, StageInv, NEW v \in Unit, NEW w \in Unit, Running(w)
  PROVE  ~(stage[w] < 4 * Learned(stage[v]))
<1> DEFINE l == Learned(stage[v])
           b == stage[w]
<1>1. l \in Nat /\ b \in Nat
  BY StageTypes
<1>2. b >= 4 * l - 2
  BY StagesNear
<1>3. b % 4 = 0
  BY DEF Running
<1> HIDE DEF l, b
<1>4. ~(b < 4 * l)
  BY <1>1, <1>2, <1>3
<1> QED  BY <1>4 DEF l, b

\* ... nor when it begins the next commit.
LEMMA ChangedNotFresh ==
  ASSUME HeapTypeOK, StageInv, NEW v \in Unit, NEW w \in Unit, Running(w),
         stage'[v] = stage[v],
         (stage'[w] = stage[w] /\ ops'[w].epoch # 0) \/ stage'[w] = stage[w] + 1
  PROVE  ~Fresh(v, w)'
<1> DEFINE l == Learned(stage[v])
           b == stage[w]
<1>1. l \in Nat /\ b \in Nat /\ ~(b < 4 * l)
  BY StageTypes, RunningNotFresh
<1>2. Fresh(v, w)' => stage'[w] <= 4 * l /\ (stage'[w] = 4 * l => ops'[w].epoch = 0)
  BY DEF Fresh
<1> HIDE DEF l
<1> QED  BY <1>1, <1>2

\* A unit learns the sizes of a commit in update_remote_size and nowhere else.
LEMMA LearnsByUpdate ==
  ASSUME HeapTypeOK, NEW u \in Unit, StepOf(u), ~update_remote_size(u)
  PROVE  Learned(stage'[u]) = Learned(stage[u])
<1> DEFINE s == stage[u]
<1>1. s \in Nat
  BY DEF HeapTypeOK
<1>2. stage'[u] = s \/ (stage'[u] = s + 1 /\ s % 4 # 2)
  <2> USE <1>1 DEF HeapTypeOK
  <2>1. ASSUME NEW n \in GrowSizes, grow(u, n) \/ shrink(u, n) PROVE stage' = stage
    BY <2>1 DEF grow, shrink
  <2>2. CASE commit_detach(u)
    BY <2>2 DEF commit_detach, Running
  <2>3. CASE gather_min_max(u)
    BY <2>3 DEF gather_min_max
  <2>4. CASE attach(u) \/ attach_null(u)
    BY <2>4 DEF attach, attach_null
  <2>5. CASE commit_returns(u)
    BY <2>5 DEF commit_returns, MayAttach
  <2> QED  BY <2>1, <2>2, <2>3, <2>4, <2>5 DEF StepOf, InCommit
<1> HIDE DEF s
<1>3. s % 4 # 2 => (s + 1) \div 4 = ((s + 1) + 1) \div 4
  BY <1>1
<1> QED  BY <1>2, <1>3 DEF Learned, s

\* What is known of a unit that takes no step.
LEMMA KnowsOther ==
  ASSUME HeapTypeOK, NEW u \in Unit, StepOf(u), ~update_remote_size(u),
         NEW v \in Unit, NEW w \in Unit, v # w, w # u, Knows(v, w)
  PROVE  Knows(v, w)'
<1>1. OthersKept(u)
  BY OthersAreKept
<1>2. /\ buckets'[w] = buckets[w] /\ attach_first'[w] = attach_first[w] /\ stage'[w] = stage[w]
      /\ local_size'[w] = local_size[w] /\ ops'[w] = ops[w]
  BY <1>1 DEF OthersKept
<1>3. cumul'[v][w] = cumul[v][w]
  BY <1>1, StepFrame DEF OthersKept
<1>4. Learned(stage'[v]) = Learned(stage[v])
  BY <1>1, LearnsByUpdate DEF OthersKept
<1>5. Fresh(v, w)' = Fresh(v, w)
  BY <1>2, <1>4 DEF Fresh
<1>6. AttachedSize(w)' = AttachedSize(w)
  BY <1>2 DEF AttachedSize
<1> QED  BY <1>2, <1>3, <1>4, <1>5, <1>6, KnowsKept

\* When v learns the sizes of a commit, w is inside this commit.
LEMMA HeardOf ==
  ASSUME HeapTypeOK, StageInv, NEW v \in Unit, NEW w \in Unit, update_remote_size(v), v # w
  PROVE  /\ Learned(stage[v]) = Completed(stage[w]) /\ ~Running(w)
         /\ Learned(stage'[v]) # Completed(stage'[w])
<1> DEFINE a == stage[v]
           b == stage[w]
<1>1. stage'[v] = a + 1 /\ stage'[w] = b /\ a % 4 = 2 /\ b >= a
  BY DEF update_remote_size, HeapTypeOK, Passes
<1>2. a \in Nat /\ b \in Nat /\ b <= a + 1
  BY <1>1, StagesNear DEF HeapTypeOK
<1> HIDE DEF a, b
<1>3. (a + 1) \div 4 = b \div 4 /\ b % 4 \in {2, 3} /\ ((a + 1) + 1) \div 4 = (b \div 4) + 1
      /\ b \div 4 \in Nat
  BY <1>1, <1>2
<1>4. b % 4 # 0 /\ ((a + 1) + 1) \div 4 # b \div 4
  BY <1>3
<1> QED  BY <1>1, <1>3, <1>4 DEF Learned, Completed, Running, a, b

\* The new buckets of a unit hold what its attached ones do not.
LEMMA NewBuckets ==
  ASSUME HeapTypeOK, NEW w \in Unit, OwnBooks(w)
  PROVE  /\ Unattached(w) \in Seq(Bucket) /\ Len(Unattached(w)) \in Nat
         /\ Len(Unattached(w)) = num_attach[w]
         /\ Len(Unattached(w)) = (Len(buckets[w]) - attach_first[w]) + 1
         /\ attach_first[w] \in 1 .. Len(buckets[w]) + 1
         /\ local_size[w] = UpTo(buckets[w], Len(buckets[w]))
         /\ AttachedSize(w) = UpTo(buckets[w], attach_first[w] - 1)
         /\ UpTo(buckets[w], attach_first[w] - 1) \in Nat
         /\ UpTo(Unattached(w), Len(Unattached(w))) = local_size[w] - UpTo(buckets[w], attach_first[w] - 1)
         /\ \A j \in 1 .. Len(Unattached(w)) :
              UpTo(Unattached(w), j) =
                UpTo(buckets[w], (attach_first[w] - 1) + j) - UpTo(buckets[w], attach_first[w] - 1)
<1> DEFINE s == buckets[w]
           first == attach_first[w]
           new == Unattached(w)
<1>1. /\ s \in Seq(Bucket) /\ Len(s) \in Nat /\ new \in Seq(Bucket) /\ Len(new) = num_attach[w]
      /\ num_attach[w] = (Len(s) - first) + 1
      /\ first \in 1 .. Len(s) + 1 /\ local_size[w] = UpTo(s, Len(s))
      /\ new = SubSeq(s, first, Len(s))
  <2>1. s \in Seq(Bucket) /\ Len(s) \in Nat
    BY DEF HeapTypeOK
  <2> QED  BY <2>1, UnattachedIs DEF OwnBooks
<1> HIDE DEF s, first, new
<1>2. Len(new) \in Nat /\ Len(new) <= (Len(s) - first) + 1 /\ (first - 1) + Len(new) = Len(s)
      /\ first - 1 \in 0 .. Len(s)
  BY <1>1
<1>3. \A j \in Nat : j <= Len(new) => UpTo(new, j) = UpTo(s, (first - 1) + j) - UpTo(s, first - 1)
  BY <1>1, <1>2, UpToTail
<1>4. UpTo(s, first - 1) \in Nat
  BY <1>1, <1>2, UpToNat
<1>5. UpTo(new, Len(new)) = local_size[w] - UpTo(s, first - 1)
  BY <1>1, <1>2, <1>3
<1>6. \A j \in 1 .. Len(new) : UpTo(new, j) = UpTo(s, (first - 1) + j) - UpTo(s, first - 1)
  BY <1>2, <1>3
<1>7. Len(new) = (Len(s) - first) + 1
  BY <1>1
<1>8. AttachedSize(w) = UpTo(s, first - 1)
  BY DEF AttachedSize, s, first
<1> QED  BY <1>1, <1>2, <1>4, <1>5, <1>6, <1>7, <1>8 DEF s, first, new

\* A unit that learns the size of another one adds what it hears of to what it knew.
LEMMA KnowsUpdate ==
  ASSUME HeapTypeOK, BooksInv, StageInv, NEW v \in Unit, NEW w \in Unit, update_remote_size(v), v # w,
         Knows(v, w), ~Running(w) /\ ops[w].shrunk => num_attach[w] = 0
  PROVE  Knows(v, w)'
<1> DEFINE old == cumul[v][w]
           new == Unattached(w)
           size == local_size[w]
           all == CumulAfter(old, new, size)
<1>1. cumul'[v][w] = all /\ local_size' = local_size
  BY DEF update_remote_size, HeapTypeOK
<1>2. old \in Seq(Int) \ {<<>>} /\ size \in Nat
  BY CumulType DEF HeapTypeOK
<1>3. OwnBooks(w)
  BY DEF BooksInv
<1>4. /\ Learned(stage[v]) = Completed(stage[w]) /\ ~Running(w)
      /\ Learned(stage'[v]) # Completed(stage'[w])
  BY HeardOf
<1>5. /\ AttachedSize(w) <= Latest(old)
      /\ ~ops[w].shrunk => AttachedSize(w) = Latest(old)
  BY <1>4 DEF Knows
<1>6. new \in Seq(Bucket) /\ Len(new) = num_attach[w] /\ Len(new) \in Nat
  BY <1>3, NewBuckets
<1>7. AttachedSize(w) = UpTo(buckets[w], attach_first[w] - 1) /\ AttachedSize(w) \in Nat
  BY <1>3, NewBuckets
<1>8. UpTo(new, Len(new)) = size - AttachedSize(w)
  BY <1>3, <1>7, NewBuckets
<1>9. Latest(old) \in Int
  BY <1>2 DEF Latest
<1>10. Latest(all) = size
  <2> HIDE DEF old, new, size
  <2>0. old \in Seq(Int) \ {<<>>} /\ new \in Seq(Bucket) /\ size \in Nat
    BY <1>2, <1>6
  <2>1. /\ Len(all) = Len(old) + Len(new)
        /\ new # <<>> /\ size = Latest(old) + UpTo(new, Len(new)) =>
             \A i \in 1 .. Len(new) : all[Len(old) + i] = UpTo(new, i) + Latest(old)
        /\ new = <<>> /\ size <= Latest(old) => all[Len(old)] = size
    <3>1. Len(all) = Len(old) + Len(new)
      BY <2>0, CumulAfterIs
    <3>2. new # <<>> /\ size = Latest(old) + UpTo(new, Len(new)) =>
            \A i \in 1 .. Len(new) : all[Len(old) + i] = UpTo(new, i) + Latest(old)
      BY <2>0, CumulAfterIs
    <3>3. new = <<>> /\ size <= Latest(old) => all[Len(old)] = size
      BY <2>0, CumulAfterIs
    <3> QED  BY <3>1, <3>2, <3>3
  <2> HIDE DEF all
  <2>2. CASE new = <<>>
    <3>1. Len(new) = 0
      BY <2>2
    <3>2. UpTo(new, 0) = 0
      BY <1>6, UpToNext
    <3>3. size = AttachedSize(w)
      BY <1>2, <1>7, <1>8, <3>1, <3>2
    <3>4. all[Len(old)] = size
      BY <1>5, <2>1, <2>2, <3>3
    <3>5. Len(all) = Len(old)
      BY <1>2, <2>1, <3>1
    <3> QED  BY <3>4, <3>5 DEF Latest
  <2>3. CASE new # <<>>
    <3>1. Len(new) \in 1 .. Len(new)
      BY <1>6, <2>3
    <3>2. ~ops[w].shrunk
      BY <1>4, <1>6, <3>1
    <3>3. size = Latest(old) + UpTo(new, Len(new))
      BY <1>2, <1>5, <1>7, <1>8, <1>9, <3>2
    <3>4. all[Len(old) + Len(new)] = UpTo(new, Len(new)) + Latest(old)
      BY <2>1, <2>3, <3>1, <3>3
    <3>5. UpTo(new, Len(new)) \in Int
      BY <1>2, <1>7, <1>8
    <3> QED  BY <1>9, <2>1, <3>3, <3>4, <3>5 DEF Latest
  <2> QED  BY <2>2, <2>3
<1>11. Latest(cumul'[v][w]) = local_size'[w]
  BY <1>1, <1>10
<1> QED  BY <1>4, <1>11 DEF Knows

\* What shrink leaves of the attached buckets.
LEMMA ShrinkAttached ==
  ASSUME HeapTypeOK, BooksInv, NEW u \in Unit, NEW left, NEW k, ShrinksTo(u, left, k)
  PROVE  /\ AttachedSize(u)' \in Int /\ AttachedSize(u) \in Int
         /\ AttachedSize(u)' <= AttachedSize(u)
         /\ ~ops'[u].shrunk => AttachedSize(u)' = AttachedSize(u) /\ ~ops[u].shrunk
<1> DEFINE s == buckets[u]
           first == attach_first[u]
           t == Shrunk(s, left, k)
           shrunk == \E i \in DOMAIN buckets[u] : buckets[u][i].seg # 0 /\ UpTo(buckets[u], i) > left
<1>1. /\ s \in Seq(Bucket) /\ Len(s) \in Nat /\ left \in Nat /\ k \in 0 .. Len(s) /\ KeptAre(s, left, k)
      /\ first \in 1 .. Len(s) + 1
      /\ \A i \in 1 .. Len(s) : s[i].seg = 0 <=> i >= first
  <2>1. OwnBooks(u)
    BY DEF BooksInv
  <2>2. first \in 1 .. Len(s) + 1 /\ \A i \in 1 .. Len(s) : s[i].seg = 0 <=> i >= first
    BY <2>1 DEF OwnBooks
  <2>3. s \in Seq(Bucket) /\ Len(s) \in Nat
    BY DEF HeapTypeOK
  <2> HIDE DEF s, first
  <2> QED  BY <2>2, <2>3 DEF ShrinksTo, s
<1>2. buckets'[u] = t /\ attach_first'[u] = FirstAfter(first, k)
  <2> HIDE DEF t
  <2> QED  BY DEF ShrinksTo, HeapTypeOK, t
<1>3. ~ops'[u].shrunk => ~shrunk /\ ~ops[u].shrunk
  <2>1. ops' = [ops EXCEPT ![u] = [epoch |-> @.epoch + 1, all |-> @.all + 1, shrunk |-> @.shrunk \/ shrunk]]
    BY Zenon DEF ShrinksTo, Called
  <2>2. ops \in [Unit -> [epoch : Nat, all : Nat, shrunk : BOOLEAN]]
    BY DEF HeapTypeOK
  <2> HIDE DEF shrunk
  <2> QED  BY <2>1, <2>2
<1>4. DOMAIN s = 1 .. Len(s)
  BY <1>1
<1>5. shrunk <=> \E i \in 1 .. Len(s) : s[i].seg # 0 /\ UpTo(s, i) > left
  BY <1>4
<1> HIDE DEF shrunk
<1>6. AttachedSize(u) = UpTo(s, first - 1) /\ AttachedSize(u)' = UpTo(t, FirstAfter(first, k) - 1)
  BY <1>2 DEF AttachedSize
<1> HIDE DEF s, first, t
<1>7. /\ \A i \in 0 .. (k - 1) : UpTo(t, i) = UpTo(s, i)
      /\ UpTo(t, k) = left
  <2>1. \A i \in 0 .. (k - 1) : UpTo(Shrunk(s, left, k), i) = UpTo(s, i)
    BY <1>1, ShrunkList
  <2>2. UpTo(Shrunk(s, left, k), k) = left
    BY <1>1, ShrunkList
  <2> QED  BY <2>1, <2>2 DEF t
<1>8. first - 1 \in 0 .. Len(s) /\ UpTo(s, first - 1) \in Nat /\ UpTo(s, k) \in Nat
  <2>1. first - 1 \in 0 .. Len(s)
    BY <1>1
  <2> QED  BY <1>1, <2>1, UpToNat
<1>9. CASE first - 1 < k
  <2>1. FirstAfter(first, k) = first /\ first - 1 \in 0 .. (k - 1)
    BY <1>1, <1>8, <1>9 DEF FirstAfter
  <2>2. AttachedSize(u)' = AttachedSize(u)
    BY <1>6, <1>7, <2>1
  <2> QED  BY <1>3, <1>6, <1>8, <2>2
<1>10. CASE first - 1 >= k
  <2>1. FirstAfter(first, k) = k + 1 /\ (k + 1) - 1 = k
    BY <1>1, <1>8, <1>10 DEF FirstAfter
  <2>2. AttachedSize(u)' = left
    BY <1>6, <1>7, <2>1
  <2>3. UpTo(s, k) <= UpTo(s, first - 1) /\ left <= UpTo(s, k)
    BY <1>1, <1>8, <1>10, UpToGrows DEF KeptAre
  <2>4. left <= UpTo(s, first - 1)
    BY <1>1, <1>8, <2>3
  <2>5. ~shrunk => UpTo(s, first - 1) <= left
    <3>1. CASE first = 1
      <4>1. UpTo(s, 0) = 0 /\ first - 1 = 0
        BY <1>1, <3>1, UpToNext
      <4> QED  BY <1>1, <4>1
    <3>2. CASE first # 1
      <4>1. first - 1 \in 1 .. Len(s) /\ ~(first - 1 >= first)
        BY <1>1, <3>2
      <4>2. s[first - 1].seg # 0
        BY <1>1, <4>1
      <4>3. ~shrunk => ~(UpTo(s, first - 1) > left)
        BY <1>5, <4>1, <4>2
      <4> QED  BY <1>1, <1>8, <4>3
    <3> QED  BY <3>1, <3>2
  <2>6. ~shrunk => left = UpTo(s, first - 1)
    BY <1>1, <1>8, <2>4, <2>5
  <2> QED  BY <1>1, <1>3, <1>6, <1>8, <2>2, <2>4, <2>6
<1> QED  BY <1>1, <1>8, <1>9, <1>10

\* When a unit attaches its buckets everybody has learned what they are.
LEMMA LearnedBefore ==
  ASSUME HeapTypeOK, NEW u \in Unit, stage[u] % 4 = 3, Passes(u), NEW v \in Unit
  PROVE  /\ Learned(stage[v]) # Completed(stage[u])
         /\ stage[u] < 4 * Learned(stage[v])
<1> DEFINE a == stage[v]
           s == stage[u]
<1>1. a \in Nat /\ a >= s /\ s \in Nat /\ s % 4 = 3
  BY StageTypes DEF Passes
<1> HIDE DEF s, a
<1>2. (a + 1) \div 4 # s \div 4 /\ s < 4 * ((a + 1) \div 4)
  BY <1>1
<1> QED  BY <1>2 DEF Learned, Completed, s, a

\* What is known of a unit that takes a step.
LEMMA KnowsOwner ==
  ASSUME HeapTypeOK, BooksInv, StageInv, NEW u \in Unit, StepOf(u), ~update_remote_size(u),
         NEW v \in Unit, v # u, Knows(v, u)
  PROVE  Knows(v, u)'
<1> DEFINE l == Learned(stage[v])
           s == stage[u]
<1>1. /\ stage'[v] = stage[v] /\ cumul'[v] = cumul[v] /\ Learned(stage'[v]) = l
      /\ l \in Nat /\ s \in Nat /\ s >= 4 * l - 2
  BY OthersAreKept, StageTypes, StagesNear DEF OthersKept
<1>2. OwnBooks(u) /\ buckets[u] \in Seq(Bucket) /\ Len(buckets[u]) \in Nat
      /\ attach_first[u] \in 1 .. Len(buckets[u]) + 1
  <2>1. OwnBooks(u) /\ buckets[u] \in Seq(Bucket) /\ Len(buckets[u]) \in Nat
    BY DEF BooksInv, HeapTypeOK
  <2> QED  BY <2>1 DEF OwnBooks
<1>3. ASSUME NEW n \in GrowSizes, grow(u, n) PROVE Knows(v, u)'
  <2> DEFINE b == [size |-> n, seg |-> 0]
  <2>1. /\ buckets'[u] = Append(buckets[u], b)
        /\ attach_first'[u] = attach_first[u] /\ stage' = stage /\ Running(u)
        /\ ops'[u] = [epoch |-> ops[u].epoch + 1, all |-> ops[u].all + 1, shrunk |-> ops[u].shrunk \/ FALSE]
    BY <1>3 DEF grow, MayCall, Called, HeapTypeOK
  <2>2. ops[u].epoch \in Nat /\ ops[u].shrunk \in BOOLEAN
    BY DEF HeapTypeOK
  <2>3. ops'[u].epoch # 0 /\ ops'[u].shrunk = ops[u].shrunk
    BY <2>1, <2>2
  <2>4. ~Fresh(v, u)'
    BY <1>1, <2>1, <2>3, ChangedNotFresh
  <2>5. AttachedSize(u)' = AttachedSize(u)
    <3>1. b \in Bucket /\ attach_first[u] - 1 \in 0 .. Len(buckets[u])
      BY <1>2, GrowAssumption DEF Bucket
    <3> HIDE DEF b
    <3>2. UpTo(Append(buckets[u], b), attach_first[u] - 1) = UpTo(buckets[u], attach_first[u] - 1)
      BY <1>2, <3>1, Appended
    <3> QED  BY <2>1, <3>2 DEF AttachedSize
  <2>6. Completed(stage'[u]) = Completed(s) /\ cumul'[v][u] = cumul[v][u]
    BY <1>1, <2>1
  <2> QED  BY <1>1, <2>3, <2>4, <2>5, <2>6, KnowsKept
<1>4. ASSUME NEW n \in GrowSizes, shrink(u, n) PROVE Knows(v, u)'
  <2>1. PICK k \in 0 .. Len(buckets[u]) : ShrinksTo(u, local_size[u] - n, k)
    BY <1>4, ShrinkEffect
  <2> DEFINE left == local_size[u] - n
             shrunk == \E i \in DOMAIN buckets[u] : buckets[u][i].seg # 0 /\ UpTo(buckets[u], i) > left
  <2>2. stage' = stage /\ Running(u)
    BY <2>1 DEF ShrinksTo
  <2>3. ops'[u].epoch # 0
    <3>1. ops' = [ops EXCEPT ![u] = [epoch |-> @.epoch + 1, all |-> @.all + 1, shrunk |-> @.shrunk \/ shrunk]]
      BY <2>1, Zenon DEF ShrinksTo, Called
    <3>2. ops \in [Unit -> [epoch : Nat, all : Nat, shrunk : BOOLEAN]]
      BY DEF HeapTypeOK
    <3> HIDE DEF shrunk
    <3> QED  BY <3>1, <3>2
  <2>4. ~Fresh(v, u)'
    BY <1>1, <2>2, <2>3, ChangedNotFresh
  <2>5. /\ AttachedSize(u)' \in Int /\ AttachedSize(u) \in Int /\ AttachedSize(u)' <= AttachedSize(u)
        /\ ~ops'[u].shrunk => AttachedSize(u)' = AttachedSize(u) /\ ~ops[u].shrunk
    BY <2>1, ShrinkAttached
  <2>6. Completed(stage'[u]) = Completed(s) /\ cumul'[v][u] = cumul[v][u]
    BY <1>1, <2>2
  <2>7. Latest(cumul[v][u]) \in Int
    BY CumulType DEF Latest
  <2>8. Learned(stage'[v]) = Completed(stage'[u]) =>
          /\ AttachedSize(u) <= Latest(cumul[v][u])
          /\ ~ops[u].shrunk => AttachedSize(u) = Latest(cumul[v][u])
    BY <1>1, <2>6 DEF Knows
  <2>9. Learned(stage'[v]) = Completed(stage'[u]) =>
          /\ AttachedSize(u)' <= Latest(cumul[v][u])
          /\ ~ops'[u].shrunk => AttachedSize(u)' = Latest(cumul[v][u])
    BY <2>5, <2>7, <2>8
  <2> QED  BY <2>4, <2>6, <2>9 DEF Knows
<1>5. CASE commit_detach(u)
  <2>1. /\ stage'[u] = s + 1 /\ Running(u) /\ cumul' = cumul /\ ops' = ops
        /\ buckets' = buckets /\ attach_first' = attach_first /\ local_size' = local_size
    BY <1>5 DEF commit_detach, HeapTypeOK
  <2>2. ~Fresh(v, u)'
    BY <1>1, <2>1, ChangedNotFresh
  <2>3. Completed(stage'[u]) = Completed(s)
    <3>1. s % 4 # 3
      BY <2>1 DEF Running
    <3> HIDE DEF s
    <3> QED  BY <1>1, <2>1, <3>1, StageCases
  <2>4. AttachedSize(u)' = AttachedSize(u)
    BY <2>1 DEF AttachedSize
  <2> QED  BY <1>1, <2>1, <2>2, <2>3, <2>4, KnowsKept
<1>6. CASE gather_min_max(u)
  <2>1. /\ stage'[u] = s + 1 /\ s % 4 = 1 /\ cumul' = cumul /\ ops' = ops
        /\ buckets' = buckets /\ attach_first' = attach_first /\ local_size' = local_size
    BY <1>6 DEF gather_min_max, HeapTypeOK, memory
  <2>2. Completed(stage'[u]) = Completed(s) /\ s # 4 * l /\ s + 1 # 4 * l
    <3> HIDE DEF s, l
    <3>1. s % 4 = 1 /\ s \in Nat /\ l \in Nat
      BY <1>1, <2>1
    <3>2. s # 4 * l /\ s + 1 # 4 * l
      BY <3>1
    <3> QED  BY <2>1, <3>1, <3>2, StageCases
  <2>3. Fresh(v, u)' => Fresh(v, u)
    <3> HIDE DEF s, l
    <3>1. s + 1 <= 4 * l => s <= 4 * l
      BY <1>1
    <3> QED  BY <1>1, <2>1, <2>2, <3>1 DEF Fresh, s, l
  <2>4. AttachedSize(u)' = AttachedSize(u)
    BY <2>1 DEF AttachedSize
  <2> QED  BY <1>1, <2>1, <2>2, <2>3, <2>4, KnowsKept
<1>7. CASE attach(u) \/ attach_null(u)
  <2>1. /\ s % 4 = 3 /\ Passes(u) /\ stage' = stage /\ ops' = ops /\ local_size' = local_size
        /\ cumul' = cumul
    BY <1>7 DEF attach, attach_null, MayAttach
  <2>2. Learned(stage'[v]) # Completed(stage'[u])
    BY <2>1, LearnedBefore
  <2>3. Fresh(v, u)' = Fresh(v, u)
    BY <2>1 DEF Fresh
  <2> QED  BY <2>1, <2>2, <2>3 DEF Knows
<1>8. CASE commit_returns(u)
  <2>1. /\ s % 4 = 3 /\ Passes(u) /\ stage'[u] = s + 1 /\ ops'[u].epoch = 0
        /\ buckets' = buckets /\ attach_first' = attach_first /\ local_size' = local_size
        /\ cumul' = cumul /\ attach_first[u] > Len(buckets[u])
    BY <1>8 DEF commit_returns, MayAttach, memory, AttachedAll, AttachedOwn, HeapTypeOK
  <2>2. s < 4 * l
    BY <2>1, LearnedBefore
  <2>3. Fresh(v, u)
    <3>1. stage[u] <= 4 * l /\ stage[u] # 4 * l
      BY <1>1, <2>2
    <3> QED  BY <3>1 DEF Fresh
  <2>4. Latest(cumul[v][u]) = local_size[u]
    BY <2>3 DEF Knows
  <2>5. AttachedSize(u) = local_size[u] /\ local_size[u] \in Int
    <3>1. attach_first[u] - 1 = Len(buckets[u])
      BY <1>2, <2>1
    <3> QED  BY <1>2, <3>1 DEF AttachedSize, OwnBooks, HeapTypeOK
  <2>6. AttachedSize(u)' = AttachedSize(u)
    BY <2>1 DEF AttachedSize
  <2>7. AttachedSize(u)' = Latest(cumul'[v][u]) /\ Latest(cumul'[v][u]) = local_size'[u]
    BY <2>1, <2>4, <2>5, <2>6
  <2> QED  BY <2>1, <2>5, <2>7 DEF Knows
<1> QED  BY <1>3, <1>4, <1>5, <1>6, <1>7, <1>8 DEF StepOf, InCommit

\* A step of a unit that leaves it fresh for another one has not changed its size.
LEMMA FreshStep ==
  ASSUME HeapTypeOK, BooksInv, StageInv, NEW u \in Unit, StepOf(u), NEW v \in Unit, v # u
  PROVE  Fresh(v, u)' => Fresh(v, u) /\ local_size'[u] = local_size[u]
<1> DEFINE l == Learned(stage[v])
           s == stage[u]
<1>1. /\ stage'[v] = stage[v] /\ l \in Nat /\ s \in Nat
  BY OthersAreKept, StageTypes DEF OthersKept
<1>2. ops[u].epoch \in Nat /\ ops \in [Unit -> [epoch : Nat, all : Nat, shrunk : BOOLEAN]]
  BY DEF HeapTypeOK
<1>3. ASSUME NEW x, Called(u, x) PROVE ops'[u].epoch # 0
  BY <1>2, <1>3 DEF Called
<1>4. ASSUME NEW n \in GrowSizes, grow(u, n) \/ shrink(u, n) PROVE ~Fresh(v, u)'
  <2>1. stage' = stage /\ Running(u) /\ \E x : Called(u, x)
    BY <1>4 DEF grow, shrink, MayCall
  <2>2. ops'[u].epoch # 0
    BY <2>1, <1>3
  <2> QED  BY <1>1, <2>1, <2>2, ChangedNotFresh
<1>5. CASE commit_detach(u)
  <2>1. stage'[u] = s + 1 /\ Running(u)
    BY <1>5 DEF commit_detach, HeapTypeOK
  <2> QED  BY <1>1, <2>1, ChangedNotFresh
<1>6. CASE gather_min_max(u) \/ update_remote_size(u)
  <2>1. stage'[u] = s + 1 /\ s % 4 \in {1, 2} /\ local_size' = local_size
    BY <1>6 DEF gather_min_max, update_remote_size, memory, HeapTypeOK
  <2>2. Fresh(v, u)' => stage'[u] <= 4 * l
    BY <1>1 DEF Fresh
  <2>3. s + 1 <= 4 * l => s <= 4 * l /\ s # 4 * l
    <3> HIDE DEF s, l
    <3> QED  BY <1>1, <2>1
  <2> QED  BY <2>1, <2>2, <2>3 DEF Fresh
<1>7. CASE attach(u) \/ attach_null(u)
  <2>1. stage' = stage /\ ops' = ops /\ local_size' = local_size
    BY <1>7 DEF attach, attach_null
  <2> QED  BY <2>1 DEF Fresh
<1>8. CASE commit_returns(u)
  <2>1. stage'[u] = s + 1 /\ local_size' = local_size
    BY <1>8 DEF commit_returns, memory, HeapTypeOK
  <2>2. Fresh(v, u)' => stage'[u] <= 4 * l
    BY <1>1 DEF Fresh
  <2>3. s + 1 <= 4 * l => s <= 4 * l /\ s # 4 * l
    <3> HIDE DEF s, l
    <3> QED  BY <1>1
  <2> QED  BY <2>1, <2>2, <2>3 DEF Fresh
<1> QED  BY <1>4, <1>5, <1>6, <1>7, <1>8 DEF StepOf, InCommit

\* Nothing that others know of a unit gets fresh by a unit that learns the sizes.
LEMMA FreshAtUpdate ==
  ASSUME HeapTypeOK, BooksInv, StageInv, NEW u \in Unit, StepOf(u), update_remote_size(u),
         NEW v \in Unit, v # u, NEW w \in Unit, v # w
  PROVE  /\ Fresh(v, w)' => Fresh(v, w)
         /\ Completed(stage'[w]) = Completed(stage[w])
<1>1. stage'[v] = stage[v] /\ ops' = ops
  BY DEF update_remote_size, HeapTypeOK
<1>2. CASE w = u
  <2> DEFINE s == stage[u]
  <2>1. s \in Nat /\ s % 4 = 2 /\ stage'[u] = s + 1
    BY DEF update_remote_size, HeapTypeOK
  <2> HIDE DEF s
  <2>2. Completed(s + 1) = Completed(s)
    BY <2>1, StageCases
  <2>3. Fresh(v, u)' => Fresh(v, u)
    BY FreshStep
  <2> QED  BY <1>2, <2>1, <2>2, <2>3 DEF s
<1>3. CASE w # u
  <2>1. stage'[w] = stage[w]
    BY <1>3, OthersAreKept DEF OthersKept
  <2> QED  BY <1>1, <2>1 DEF Fresh
<1> QED  BY <1>2, <1>3

\* What every unit knows of the sizes of the others stays true.
LEMMA KnowsStep ==
  ASSUME HeapTypeOK, BooksInv, StageInv, KnowsInv, NEW u \in Unit, StepOf(u)
  PROVE  KnowsInv'
<1>1. ASSUME NEW v \in Unit, NEW w \in Unit, v # w, w \notin past'.mixed PROVE Knows(v, w)'
  <2>1. w \notin past.mixed
    BY <1>1, StepFrame
  <2>2. Knows(v, w) /\ (~Running(w) /\ ops[w].shrunk => num_attach[w] = 0)
    BY <1>1, <2>1 DEF KnowsInv
  <2>3. CASE ~update_remote_size(u) /\ w # u
    BY <1>1, <2>2, <2>3, KnowsOther
  <2>4. CASE ~update_remote_size(u) /\ w = u
    BY <1>1, <2>2, <2>4, KnowsOwner
  <2>5. CASE update_remote_size(u) /\ v = u
    BY <1>1, <2>2, <2>5, KnowsUpdate
  <2>6. CASE update_remote_size(u) /\ v # u
    <3>1. /\ cumul'[v][w] = cumul[v][w] /\ stage'[v] = stage[v] /\ local_size' = local_size
          /\ buckets' = buckets /\ attach_first' = attach_first /\ ops' = ops
      BY <2>6 DEF update_remote_size, HeapTypeOK
    <3>2. (Fresh(v, w)' => Fresh(v, w)) /\ Completed(stage'[w]) = Completed(stage[w])
      BY <1>1, <2>6, FreshAtUpdate
    <3>3. AttachedSize(w)' = AttachedSize(w)
      BY <3>1 DEF AttachedSize
    <3> QED  BY <2>2, <3>1, <3>2, <3>3, KnowsKept
  <2> QED  BY <2>3, <2>4, <2>5, <2>6
<1>2. ASSUME NEW w \in Unit \ past'.mixed, ~Running(w)', ops'[w].shrunk PROVE num_attach'[w] = 0
  <2>1. w \notin past.mixed /\ w \in Unit
    BY <1>2, StepFrame
  <2>2. ~Running(w) /\ ops[w].shrunk => num_attach[w] = 0
    BY <2>1 DEF KnowsInv
  <2>3. CASE w # u
    <3>1. stage'[w] = stage[w] /\ ops'[w] = ops[w] /\ num_attach'[w] = num_attach[w]
      BY <2>3, OthersAreKept DEF OthersKept
    <3> QED  BY <1>2, <2>2, <3>1 DEF Running
  <2>4. CASE w = u
    <3>1. ASSUME NEW n \in GrowSizes, grow(u, n) \/ shrink(u, n) PROVE FALSE
      BY <1>2, <2>4, <3>1 DEF grow, shrink, MayCall, Running
    <3>2. CASE commit_detach(u)
      <4>1. ops' = ops /\ num_attach' = num_attach /\ num_attach[u] \in Nat
        BY <3>2 DEF commit_detach, HeapTypeOK
      <4>2. ~(num_attach[u] > 0)
        <5> SUFFICES ASSUME num_attach[u] > 0 PROVE FALSE
          OBVIOUS
        <5>1. ops[u].shrunk
          BY <1>2, <2>4, <4>1
        <5>2. past' = [past EXCEPT !.mixed = @ \cup {u}]
          BY <3>2, <5>1 DEF commit_detach
        <5>3. u \in past'.mixed
          BY <5>2 DEF HeapTypeOK
        <5> QED  BY <5>3, <1>2, <2>4
      <4> QED  BY <2>4, <4>1, <4>2
    <3>3. CASE gather_min_max(u) \/ update_remote_size(u)
      <4>1. ops' = ops /\ num_attach' = num_attach
        BY <3>3 DEF gather_min_max, update_remote_size, memory
      <4>2. stage[u] % 4 = 1 \/ stage[u] % 4 = 2
        BY <3>3 DEF gather_min_max, update_remote_size
      <4>3. ~Running(u)
        BY <4>2 DEF Running
      <4> QED  BY <1>2, <2>2, <2>4, <4>1, <4>3
    <3>4. CASE attach(u)
      <4>1. ops' = ops /\ ~Running(u) /\ attach_first[u] <= Len(buckets[u])
        BY <3>4 DEF attach, MayAttach, Running, HeapTypeOK
      <4>2. num_attach[u] = 0
        BY <1>2, <2>2, <2>4, <4>1
      <4>3. num_attach[u] = (Len(buckets[u]) - attach_first[u]) + 1 /\ attach_first[u] \in Nat
            /\ Len(buckets[u]) \in Nat
        BY DEF BooksInv, OwnBooks, HeapTypeOK
      <4> QED  BY <4>1, <4>2, <4>3
    <3>5. CASE attach_null(u)
      <4>1. ops' = ops /\ num_attach' = num_attach /\ ~Running(u)
        BY <3>5 DEF attach_null, MayAttach, Running, HeapTypeOK
      <4> QED  BY <1>2, <2>2, <2>4, <4>1
    <3>6. CASE commit_returns(u)
      <4>1. ops'[u].shrunk = FALSE
        BY <3>6 DEF commit_returns, HeapTypeOK
      <4> QED  BY <1>2, <2>4, <4>1
    <3> QED  BY <3>1, <3>2, <3>3, <3>4, <3>5, <3>6, Zenon DEF StepOf, InCommit
  <2> QED  BY <2>3, <2>4
<1> QED  BY <1>1, <1>2 DEF KnowsInv

\* The other units' sizes add up to what a unit knows to be remote.
LEMMA RemoteStep ==
  ASSUME HeapTypeOK, BooksInv, StageInv, RemoteInv, NEW u \in Unit, StepOf(u)
  PROVE  RemoteInv'
<1> SUFFICES ASSUME NEW v \in Unit, \A w \in Unit \ {v} : Fresh(v, w)'
             PROVE  remote_size'[v] = Total(local_size', Unit \ {v})
  BY DEF RemoteInv
<1> DEFINE V == Unit \ {v}
<1>0. IsFiniteSet(V) /\ Ints(local_size, V) /\ local_size \in [Unit -> Nat]
  <2>1. IsFiniteSet(Unit)
    BY FS_Interval, NUnitsAssumption DEF Unit
  <2>2. IsFiniteSet(V)
    BY <2>1, FS_Subset
  <2>3. local_size \in [Unit -> Nat]
    BY DEF HeapTypeOK
  <2>4. \A i \in V : local_size[i] \in Int
    BY <2>3
  <2> QED  BY <2>2, <2>3, <2>4 DEF Ints
<1>1. CASE update_remote_size(u) /\ v = u
  <2> DEFINE f == [local_size EXCEPT ![u] = 0]
  <2>1. local_size' = local_size /\ remote_size'[v] = Sum(f)
    BY <1>1 DEF update_remote_size, HeapTypeOK
  <2>2. f \in [Unit -> Int] /\ f[v] = 0 /\ \A i \in V : f[i] = local_size[i]
    BY <1>0, <1>1
  <2> HIDE DEF f
  <2>3. Sum(f) = f[v] + Total(f, Unit \ {v}) /\ Total(f, Unit \ {v}) \in Int
    BY <2>2, SumOfUnits
  <2>4. Total(f, V) = Total(local_size, V)
    <3> HIDE DEF V
    <3> QED  BY <1>0, <2>2, TotalSame
  <2> QED  BY <2>1, <2>2, <2>3, <2>4
<1>2. CASE ~(update_remote_size(u) /\ v = u)
  <2>1. remote_size'[v] = remote_size[v]
    <3>1. CASE v # u
      BY <3>1, OthersAreKept DEF OthersKept
    <3>2. CASE ~update_remote_size(u)
      <4>1. ASSUME NEW n \in GrowSizes, grow(u, n) \/ shrink(u, n) PROVE remote_size'[v] = remote_size[v]
        BY <4>1 DEF grow, shrink
      <4>2. CASE commit_detach(u) \/ gather_min_max(u)
        BY <4>2 DEF commit_detach, gather_min_max
      <4>3. CASE attach(u) \/ attach_null(u) \/ commit_returns(u)
        BY <4>3 DEF attach, attach_null, commit_returns
      <4> QED  BY <3>2, <4>1, <4>2, <4>3 DEF StepOf, InCommit
    <3> QED  BY <1>2, <3>1, <3>2
  <2>2. ASSUME NEW w \in Unit, w # v PROVE Fresh(v, w) /\ local_size'[w] = local_size[w]
    <3>1. Fresh(v, w)'
      BY <2>2
    <3>2. CASE w = u
      BY <2>2, <3>1, <3>2, FreshStep
    <3>3. CASE w # u
      <4>1. /\ stage'[w] = stage[w] /\ ops'[w] = ops[w] /\ local_size'[w] = local_size[w]
        BY <3>3, OthersAreKept DEF OthersKept
      <4>2. Learned(stage'[v]) = Learned(stage[v])
        <5>1. CASE v # u
          BY <5>1, OthersAreKept DEF OthersKept
        <5>2. CASE v = u
          BY <1>2, <5>2, LearnsByUpdate
        <5> QED  BY <5>1, <5>2
      <4> QED  BY <3>1, <4>1, <4>2 DEF Fresh
    <3> QED  BY <3>2, <3>3
  <2>3. remote_size[v] = Total(local_size, V)
    BY <2>2 DEF RemoteInv
  <2>4. \A i \in V : local_size'[i] = local_size[i]
    BY <2>2
  <2>5. Total(local_size', V) = Total(local_size, V)
    <3> HIDE DEF V
    <3> QED  BY <1>0, <2>4, TotalSame
  <2> QED  BY <2>1, <2>3, <2>5
<1> QED  BY <1>1, <1>2

\* In the beginning everybody knows everything.
LEMMA ConstantTotal ==
  \A c \in Nat : \A f \in [Unit -> Nat] : \A v \in Unit :
     (\A w \in Unit : f[w] = c) => Total(f, Unit \ {v}) = (NUnits - 1) * c
<1> SUFFICES ASSUME NEW c \in Nat, NEW f \in [Unit -> Nat], NEW v \in Unit, \A w \in Unit : f[w] = c
             PROVE  Total(f, Unit \ {v}) = (NUnits - 1) * c
  OBVIOUS
<1> DEFINE First(n) == 0 .. (n - 1)
           S == {n \in Nat : n <= NUnits => Total(f, First(n)) = n * c}
<1>0. NUnits \in Nat \ {0} /\ Unit = First(NUnits)
  BY NUnitsAssumption DEF Unit
<1>1. 0 \in S
  <2>1. First(0) = {}
    OBVIOUS
  <2> QED  BY <2>1, TotalEmpty
<1>2. ASSUME NEW n \in Nat, n \in S PROVE n + 1 \in S
  <2> SUFFICES ASSUME n + 1 <= NUnits PROVE Total(f, First(n + 1)) = (n + 1) * c
    OBVIOUS
  <2>1. Total(f, First(n)) = n * c
    BY <1>0, <1>2
  <2> DEFINE T == First(n + 1)
  <2>2. T \subseteq Unit /\ n \in T /\ T \ {n} = First(n)
    BY <1>0
  <2>3. IsFiniteSet(T) /\ Ints(f, T) /\ f[n] = c
    <3>1. IsFiniteSet(T)
      BY FS_Interval
    <3>2. \A i \in T : f[i] \in Int
      BY <2>2
    <3> HIDE DEF T
    <3> QED  BY <2>2, <3>1, <3>2 DEF Ints
  <2>4. Total(f, T) = f[n] + Total(f, T \ {n})
    <3> HIDE DEF T
    <3> QED  BY <2>2, <2>3, TotalSplit
  <2>5. Total(f, T) = c + n * c
    <3> HIDE DEF T, First
    <3> QED  BY <2>1, <2>2, <2>3, <2>4
  <2>6. (n + 1) * c = c + n * c
    OBVIOUS
  <2> HIDE DEF T
  <2> QED  BY <2>5, <2>6 DEF T
<1>3. NUnits \in S
  <2> HIDE DEF S
  <2> QED  BY <1>0, <1>1, <1>2, CountUp
<1>4. Sum(f) = NUnits * c
  <2>1. Sum(f) = Total(f, Unit)
    BY DEF Sum, Total, FoldFunction
  <2>2. Total(f, First(NUnits)) = NUnits * c
    BY <1>0, <1>3
  <2> HIDE DEF First
  <2> QED  BY <1>0, <2>1, <2>2
<1>5. f \in [Unit -> Int] /\ f[v] = c
  OBVIOUS
<1>6. Sum(f) = f[v] + Total(f, Unit \ {v}) /\ Total(f, Unit \ {v}) \in Int
  BY <1>5, SumOfUnits
<1>7. NUnits * c = c + (NUnits - 1) * c /\ (NUnits - 1) * c \in Int
  BY <1>0
<1> QED  BY <1>4, <1>5, <1>6, <1>7

----------------------------------------------------------------------------
(* The initial state, and what follows for the sizes. *)

\* In the beginning everybody knows the size that all units have.
LEMMA SizesInit == Init => StageInv /\ KnowsInv /\ RemoteInv
<1> SUFFICES ASSUME Init PROVE StageInv /\ KnowsInv /\ RemoteInv
  OBVIOUS
<1>1. /\ \A u \in Unit : /\ stage[u] = 0 /\ ops[u].epoch = 0 /\ ops[u].shrunk = FALSE
                         /\ local_size[u] = InitSize /\ num_attach[u] = 0
                         /\ remote_size[u] = (NUnits - 1) * InitSize
                         /\ attach_first[u] = 2
      /\ \A v, u \in Unit : cumul[v][u] = <<InitSize>>
      /\ InitSize \in Nat
  BY InitSizeAssumption DEF Init
<1>2. HeapTypeOK /\ BooksInv
  BY BooksInit
<1>3. StageInv
  BY <1>1 DEF StageInv, Reached
<1>4. Latest(<<InitSize>>) = InitSize
  BY <1>1 DEF Latest
<1>5. ASSUME NEW v \in Unit, NEW u \in Unit PROVE Knows(v, u)
  <2>1. Latest(cumul[v][u]) = local_size[u]
    BY <1>1, <1>4
  <2>2. AttachedSize(u) = local_size[u] /\ local_size[u] \in Int
    <3>1. OwnBooks(u) /\ buckets[u] \in Seq(Bucket) /\ Len(buckets[u]) \in Nat
      BY <1>2 DEF BooksInv, HeapTypeOK
    <3>2. num_attach[u] = (Len(buckets[u]) - attach_first[u]) + 1 /\ local_size[u] = UpTo(buckets[u], Len(buckets[u]))
      BY <3>1 DEF OwnBooks
    <3>3. attach_first[u] - 1 = Len(buckets[u])
      BY <1>1, <3>1, <3>2
    <3> QED  BY <1>1, <3>2, <3>3 DEF AttachedSize
  <2> QED  BY <2>1, <2>2 DEF Knows
<1>6. KnowsInv
  BY <1>1, <1>5 DEF KnowsInv
<1>7. RemoteInv
  <2>1. local_size \in [Unit -> Nat]
    BY <1>2 DEF HeapTypeOK
  <2> QED  BY <1>1, <2>1, ConstantTotal DEF RemoteInv
<1> QED  BY <1>3, <1>6, <1>7

\* A unit that has settled with another one is fresh for it.
LEMMA SettledIsFresh ==
  ASSUME HeapTypeOK, NEW v \in Unit, NEW u \in Unit, Settled(v, u)
  PROVE  Fresh(v, u) /\ stage[u] = 4 * Learned(stage[v]) /\ ops[u].epoch = 0 /\ Running(u)
<1> DEFINE s == stage[v]
<1>1. s \in Nat /\ s % 4 = 0 /\ stage[u] = s /\ ops[u].epoch = 0
  BY DEF Settled, Running, HeapTypeOK
<1>2. Running(u)
  BY DEF Settled
<1> HIDE DEF s
<1>3. s = 4 * Learned(s)
  BY <1>1 DEF Learned
<1> QED  BY <1>1, <1>2, <1>3 DEF Fresh, s

\* What a unit knows of those it has settled with is what SizesAgree asks for.
LEMMA AgreedSizes == HeapTypeOK /\ BooksInv /\ KnowsInv /\ RemoteInv => SizesAgree
<1> SUFFICES ASSUME HeapTypeOK, BooksInv, KnowsInv, RemoteInv, NEW v \in Unit
             PROVE  /\ (\A u \in Unit : Settled(v, u)) => remote_size[v] + local_size[v] = Sum(local_size)
                    /\ \A u \in Unit \ past.mixed :
                         Settled(v, u) => local_size[u] = (IF cumul[v][u] = <<>> THEN 0 ELSE Last(cumul[v][u]))
  BY DEF SizesAgree
<1>1. ASSUME \A u \in Unit : Settled(v, u) PROVE remote_size[v] + local_size[v] = Sum(local_size)
  <2>1. remote_size[v] = Total(local_size, Unit \ {v})
    BY <1>1, SettledIsFresh DEF RemoteInv
  <2>2. local_size \in [Unit -> Int] /\ local_size[v] \in Int
    BY DEF HeapTypeOK
  <2>3. Sum(local_size) = local_size[v] + Total(local_size, Unit \ {v}) /\ Total(local_size, Unit \ {v}) \in Int
    BY <2>2, SumOfUnits
  <2> QED  BY <2>1, <2>2, <2>3
<1>2. ASSUME NEW u \in Unit \ past.mixed, Settled(v, u)
      PROVE  local_size[u] = (IF cumul[v][u] = <<>> THEN 0 ELSE Last(cumul[v][u]))
  <2>1. cumul[v][u] # <<>>
    BY CumulType
  <2>2. Latest(cumul[v][u]) = local_size[u]
    <3>1. CASE v = u
      BY <3>1 DEF BooksInv, OwnBooks
    <3>2. CASE v # u
      <4>1. Knows(v, u) /\ Fresh(v, u)
        BY <1>2, <3>2, SettledIsFresh DEF KnowsInv
      <4> QED  BY <4>1 DEF Knows
    <3> QED  BY <3>1, <3>2
  <2> QED  BY <2>1, <2>2 DEF Latest, Last
<1> QED  BY <1>1, <1>2

----------------------------------------------------------------------------
(* All units make the same collective calls. *)

\* While a unit can change its number of new buckets, nobody has gathered these numbers
\* in a commit that somebody else is still to gather them in.
LEMMA NobodyGathers ==
  ASSUME HeapTypeOK, StageInv, NEW u \in Unit,
         Running(u) \/ (stage[u] % 4 = 3 /\ Passes(u)),
         NEW x \in Unit, NEW y \in Unit, Completed(stage[x]) = Completed(stage[y])
  PROVE  ~(Gathered(x) /\ stage[y] % 4 = 1)
<1> DEFINE a == stage[x]
           b == stage[y]
           s == stage[u]
<1>1. a \in Nat /\ b \in Nat /\ s \in Nat
  BY StageTypes
<1>2. s >= Reached(a) /\ b >= Reached(s) /\ a \div 4 = b \div 4 /\ (s % 4 = 0 \/ s % 4 = 3)
      /\ (s % 4 = 0 \/ b >= s)
  BY DEF StageInv, Completed, Running, Passes
<1> HIDE DEF a, b, s
<1>3. (a % 4 = 2 \/ a % 4 = 3) /\ b % 4 = 1 => FALSE
  <2> SUFFICES ASSUME a % 4 = 2 \/ a % 4 = 3, b % 4 = 1 PROVE FALSE
    OBVIOUS
  <2>1. a > b /\ a <= b + 2
    BY <1>1, <1>2
  <2>2. s >= a - 1
    BY <1>1, <1>2 DEF Reached
  <2>3. s % 4 = 0 => s - 1 <= b
    BY <1>1, <1>2 DEF Reached
  <2>4. s % 4 = 3 => s - 1 <= b
    BY <1>1, <1>2 DEF Reached
  <2> QED  BY <1>1, <1>2, <2>1, <2>2, <2>3, <2>4
<1> QED  BY <1>3 DEF Gathered, a, b

\* What RoundsInv says of one unit, and of two.
OwnRounds(u) ==
    /\ stage[u] % 4 = 2 => num_attach[u] <= max_attach[u]
    /\ stage[u] % 4 = 3 => num_attach[u] + attached[u] <= max_attach[u]

PairRounds(u, v) ==
    /\ Completed(stage[u]) = Completed(stage[v]) =>
         /\ Base(u) = Base(v)
         /\ Gathered(u) /\ Gathered(v) => max_attach[u] = max_attach[v]
         /\ Gathered(u) /\ stage[v] % 4 = 1 => max_attach[u] = Max({num_attach[w] : w \in Unit})
    /\ Completed(stage[v]) = Completed(stage[u]) + 1 /\ stage[u] % 4 = 3 =>
         Base(v) = Base(u) + max_attach[u]

\* RoundsInv in two parts.
LEMMA RoundsAre == RoundsInv <=> (\A u \in Unit : OwnRounds(u)) /\ \A u, v \in Unit : PairRounds(u, v)
BY DEF RoundsInv, OwnRounds, PairRounds

\* Calls of grow, shrink, attach and the null attach leave the rounds as they are.
LEMMA RoundsKept ==
  ASSUME HeapTypeOK, StageInv, RoundsInv, NEW u \in Unit,
         Running(u) \/ (stage[u] % 4 = 3 /\ Passes(u)),
         stage' = stage, max_attach' = max_attach, OwnRounds(u)',
         \A w \in Unit \ {u} : num_attach'[w] = num_attach[w] /\ attached'[w] = attached[w],
         \A w \in Unit : Base(w)' = Base(w)
  PROVE  RoundsInv'
<1>1. \A w \in Unit : OwnRounds(w)'
  <2> SUFFICES ASSUME NEW w \in Unit, w # u PROVE OwnRounds(w)'
    OBVIOUS
  <2>1. OwnRounds(w)
    BY RoundsAre
  <2> QED  BY <2>1 DEF OwnRounds
<1>2. ASSUME NEW x \in Unit, NEW y \in Unit PROVE PairRounds(x, y)'
  <2>1. PairRounds(x, y)
    BY RoundsAre
  <2>2. Completed(stage[x]) = Completed(stage[y]) => ~(Gathered(x) /\ stage[y] % 4 = 1)
    BY NobodyGathers
  <2>3. Gathered(x)' = Gathered(x) /\ Gathered(y)' = Gathered(y)
    BY DEF Gathered
  <2> QED  BY <2>1, <2>2, <2>3 DEF PairRounds
<1>3. (\A w \in Unit : OwnRounds(w)') /\ \A x, y \in Unit : PairRounds(x, y)'
  BY <1>1, <1>2
<1> QED  BY <1>3, RoundsAre DEF RoundsInv, OwnRounds, PairRounds

\* ... and so do the first steps of a commit, which count the buckets.
LEMMA RoundsCommit ==
  ASSUME HeapTypeOK, StageInv, RoundsInv, NEW u \in Unit,
         commit_detach(u) \/ gather_min_max(u) \/ update_remote_size(u)
  PROVE  RoundsInv'
<1> DEFINE s == stage[u]
           most == Max({num_attach[w] : w \in Unit})
<1>0. s \in Nat /\ regs[u] \in Int /\ num_attach \in [Unit -> Nat]
  BY DEF HeapTypeOK
<1>1. /\ num_attach' = num_attach /\ regs' = regs
      /\ stage'[u] = s + 1 /\ s % 4 \in {0, 1, 2}
      /\ s % 4 = 1 => max_attach'[u] = most
      /\ s % 4 # 1 => max_attach'[u] = max_attach[u]
      /\ s % 4 = 2 => attached'[u] = 0
      /\ s % 4 # 0 => Passes(u)
  <2>1. stage \in [Unit -> Nat] /\ max_attach \in [Unit -> Nat] /\ attached \in [Unit -> Nat]
    BY DEF HeapTypeOK
  <2> HIDE DEF most
  <2>2. CASE commit_detach(u)
    <3>1. /\ num_attach' = num_attach /\ regs' = regs /\ max_attach' = max_attach
          /\ stage'[u] = s + 1 /\ s % 4 = 0
      BY <2>1, <2>2 DEF commit_detach, Running
    <3> QED  BY <3>1
  <2>3. CASE gather_min_max(u)
    <3>1. /\ num_attach' = num_attach /\ regs' = regs /\ max_attach'[u] = most
          /\ stage'[u] = s + 1 /\ s % 4 = 1 /\ Passes(u)
      BY <2>1, <2>3 DEF gather_min_max, memory, most
    <3> QED  BY <3>1
  <2>4. CASE update_remote_size(u)
    <3>1. /\ num_attach' = num_attach /\ regs' = regs /\ max_attach' = max_attach
          /\ stage'[u] = s + 1 /\ s % 4 = 2 /\ attached'[u] = 0 /\ Passes(u)
      BY <2>1, <2>4 DEF update_remote_size
    <3> QED  BY <3>1
  <2> QED  BY <2>2, <2>3, <2>4
<1>2. \A w \in Unit \ {u} : /\ stage'[w] = stage[w] /\ max_attach'[w] = max_attach[w]
                             /\ attached'[w] = attached[w] /\ regs'[w] = regs[w]
  BY OthersAreKept DEF OthersKept, StepOf, InCommit
<1>3. s % 4 # 3 /\ (s + 1) % 4 = (s % 4) + 1 /\ Completed(s + 1) = Completed(s)
  <2> HIDE DEF s
  <2>1. s % 4 # 3
    BY <1>1
  <2> QED  BY <1>0, <2>1, StageCases
<1>4. \A w \in Unit : Completed(stage'[w]) = Completed(stage[w])
  BY <1>1, <1>2, <1>3
<1>5. \A w \in Unit : Base(w)' = Base(w)
  <2>1. \A w \in Unit \ {u} : Base(w)' = Base(w)
    BY <1>2 DEF Base
  <2>2. Base(u)' = Base(u)
    <3>1. CASE s % 4 = 2
      <4>1. Base(u)' = regs[u] - 0
        BY <1>1, <1>3, <3>1 DEF Base
      <4> QED  BY <1>0, <1>3, <4>1 DEF Base
    <3>2. CASE s % 4 # 2
      <4>1. stage'[u] % 4 # 3
        BY <1>1, <1>3, <3>2
      <4> QED  BY <1>1, <1>3, <4>1 DEF Base
    <3> QED  BY <3>1, <3>2
  <2> QED  BY <2>1, <2>2
<1>6. \A w \in Unit : num_attach[w] <= most /\ num_attach[w] \in Nat
  BY <1>0, LargestOfUnits
<1> HIDE DEF most
<1>7. \A w \in Unit : OwnRounds(w)'
  <2>1. ASSUME NEW w \in Unit, w # u PROVE OwnRounds(w)'
    <3>1. OwnRounds(w)
      BY RoundsAre
    <3> QED  BY <1>1, <1>2, <2>1, <3>1 DEF OwnRounds
  <2>2. OwnRounds(u)'
    <3>1. OwnRounds(u)
      BY RoundsAre
    <3>2. CASE s % 4 = 0
      <4>1. stage'[u] % 4 = 1
        BY <1>1, <1>3, <3>2
      <4> QED  BY <4>1 DEF OwnRounds
    <3>3. CASE s % 4 = 1
      <4>1. stage'[u] % 4 = 2
        BY <1>1, <1>3, <3>3
      <4> QED  BY <1>1, <1>6, <3>3, <4>1 DEF OwnRounds
    <3>4. CASE s % 4 = 2
      <4>1. stage'[u] % 4 = 3
        BY <1>1, <1>3, <3>4
      <4>2. num_attach[u] <= max_attach[u] /\ num_attach[u] + 0 = num_attach[u]
        BY <1>6, <3>1, <3>4 DEF OwnRounds
      <4> QED  BY <1>1, <3>4, <4>1, <4>2 DEF OwnRounds
    <3> QED  BY <1>1, <3>2, <3>3, <3>4
  <2> QED  BY <2>1, <2>2
<1>8. ASSUME NEW x \in Unit, NEW y \in Unit PROVE PairRounds(x, y)'
  <2>1. PairRounds(x, y) /\ PairRounds(y, x) /\ PairRounds(u, y) /\ PairRounds(y, u) /\ PairRounds(x, u)
    BY RoundsAre
  <2>2. /\ Base(x)' = Base(x) /\ Base(y)' = Base(y)
        /\ Completed(stage'[x]) = Completed(stage[x]) /\ Completed(stage'[y]) = Completed(stage[y])
    BY <1>4, <1>5
  <2>3. CASE s % 4 = 0
    <3>1. Running(u) /\ stage'[u] % 4 = 1 /\ max_attach'[u] = max_attach[u]
      BY <1>1, <1>3, <2>3 DEF Running
    <3>2. \A w \in Unit : max_attach'[w] = max_attach[w]
      BY <1>2, <3>1
    <3>3. \A w \in Unit : (Gathered(w)' <=> Gathered(w)) /\ (stage'[w] % 4 = 3 <=> stage[w] % 4 = 3)
      <4>1. \A w \in Unit \ {u} : (Gathered(w)' <=> Gathered(w)) /\ (stage'[w] % 4 = 3 <=> stage[w] % 4 = 3)
        BY <1>2 DEF Gathered
      <4>2. ~Gathered(u) /\ ~Gathered(u)' /\ stage[u] % 4 # 3 /\ stage'[u] % 4 # 3
        BY <2>3, <3>1 DEF Gathered
      <4> QED  BY <4>1, <4>2
    <3>4. Completed(stage[x]) = Completed(stage[y]) => ~(Gathered(x) /\ stage'[y] % 4 = 1)
      <4>1. CASE y # u
        <5>1. Completed(stage[x]) = Completed(stage[y]) => ~(Gathered(x) /\ stage[y] % 4 = 1)
          BY <3>1, NobodyGathers
        <5> QED  BY <1>2, <4>1, <5>1
      <4>2. CASE y = u
        <5> DEFINE a == stage[x]
        <5>1. a \in Nat /\ s >= Reached(a)
          BY StageTypes DEF StageInv
        <5> HIDE DEF a, s
        <5>2. a \div 4 = s \div 4 => ~(a % 4 = 2 \/ a % 4 = 3)
          BY <1>0, <2>3, <5>1 DEF Reached
        <5> QED  BY <4>2, <5>2 DEF Completed, Gathered, a, s
      <4> QED  BY <4>1, <4>2
    <3> QED  BY <2>1, <2>2, <3>2, <3>3, <3>4 DEF PairRounds
  <2>4. CASE s % 4 = 1
    <3>1. stage'[u] % 4 = 2 /\ max_attach'[u] = most /\ ~Gathered(u)
      BY <1>1, <1>3, <2>4 DEF Gathered
    <3>2. Completed(stage[x]) = Completed(stage[u]) /\ Gathered(x) => max_attach[x] = most
      BY <2>1, <2>4 DEF PairRounds, most
    <3>3. Completed(stage[y]) = Completed(stage[u]) /\ Gathered(y) => max_attach[y] = most
      BY <2>1, <2>4 DEF PairRounds, most
    <3>4. \A w \in Unit \ {u} : Gathered(w)' = Gathered(w)
      BY <1>2 DEF Gathered
    <3>5. Completed(stage[x]) = Completed(stage[y]) =>
            /\ Base(x) = Base(y)
            /\ Gathered(x)' /\ Gathered(y)' => max_attach'[x] = max_attach'[y]
            /\ Gathered(x)' /\ stage'[y] % 4 = 1 => max_attach'[x] = most
      <4>1. Completed(stage[x]) = Completed(stage[y]) => Base(x) = Base(y)
        BY <2>1 DEF PairRounds
      <4>2. CASE x = u /\ y = u
        BY <3>1, <4>1, <4>2
      <4>3. CASE x = u /\ y # u
        BY <1>2, <3>1, <3>3, <3>4, <4>1, <4>3
      <4>4. CASE x # u /\ y = u
        BY <1>2, <3>1, <3>2, <3>4, <4>1, <4>4
      <4>5. CASE x # u /\ y # u
        BY <1>2, <2>1, <3>4, <4>5 DEF PairRounds, most
      <4> QED  BY <4>2, <4>3, <4>4, <4>5
    <3>6. Completed(stage[y]) = Completed(stage[x]) + 1 /\ stage'[x] % 4 = 3 =>
            Base(y) = Base(x) + max_attach'[x]
      <4>1. CASE x = u
        BY <3>1, <4>1
      <4>2. CASE x # u
        BY <1>2, <2>1, <4>2 DEF PairRounds
      <4> QED  BY <4>1, <4>2
    <3>7. Max({num_attach'[w] : w \in Unit}) = most
      BY <1>1 DEF most
    <3> QED  BY <2>2, <3>5, <3>6, <3>7 DEF PairRounds
  <2>5. CASE s % 4 = 2
    <3>1. stage'[u] % 4 = 3 /\ Gathered(u) /\ Gathered(u)' /\ max_attach'[u] = max_attach[u] /\ Passes(u)
      BY <1>1, <1>3, <2>5 DEF Gathered
    <3>2. \A w \in Unit : Gathered(w)' = Gathered(w) /\ max_attach'[w] = max_attach[w]
      BY <1>2, <3>1 DEF Gathered
    <3>3. stage'[y] % 4 = 1 => stage[y] % 4 = 1
      BY <1>2, <3>1
    <3>4. Completed(stage[y]) = Completed(stage[x]) + 1 /\ stage'[x] % 4 = 3 =>
            Base(y) = Base(x) + max_attach[x]
      <4>1. CASE x = u
        <5> DEFINE b == stage[y]
        <5>1. b \in Nat /\ s >= Reached(b)
          BY StageTypes DEF StageInv
        <5> HIDE DEF b, s
        <5>2. b \div 4 # (s \div 4) + 1
          BY <1>0, <2>5, <5>1 DEF Reached
        <5> QED  BY <4>1, <5>2 DEF Completed, b, s
      <4>2. CASE x # u
        BY <1>2, <2>1, <4>2 DEF PairRounds
      <4> QED  BY <4>1, <4>2
    <3> QED  BY <1>1, <2>1, <2>2, <3>2, <3>3, <3>4 DEF PairRounds
  <2> QED  BY <1>1, <2>3, <2>4, <2>5
<1> QED  BY <1>7, <1>8 DEF RoundsInv, OwnRounds, PairRounds

\* Every step keeps the numbers of attach calls of the units equal.
LEMMA RoundsStep ==
  ASSUME HeapTypeOK, BooksInv, StageInv, RoundsInv, NEW u \in Unit, StepOf(u)
  PROVE  RoundsInv'
<1> DEFINE s == stage[u]
<1>0. /\ s \in Nat /\ regs[u] \in Nat /\ attached[u] \in Nat /\ num_attach[u] \in Nat /\ max_attach[u] \in Nat
      /\ OwnRounds(u) /\ OwnBooks(u) /\ OthersKept(u)
  BY RoundsAre, OthersAreKept DEF HeapTypeOK, BooksInv
<1>1. \A w \in Unit \ {u} : Base(w)' = Base(w)
  BY <1>0 DEF Base, OthersKept
<1>2. ASSUME NEW n \in GrowSizes, grow(u, n) \/ shrink(u, n) PROVE RoundsInv'
  <2>1. stage' = stage /\ max_attach' = max_attach /\ Running(u) /\ regs' = regs /\ attached' = attached
    BY <1>2 DEF grow, shrink, MayCall
  <2>2. OwnRounds(u)' /\ Base(u)' = Base(u)
    BY <2>1 DEF OwnRounds, Base, Running
  <2> QED  BY <1>0, <1>1, <2>1, <2>2, RoundsKept DEF OthersKept
<1>3. CASE commit_detach(u) \/ gather_min_max(u) \/ update_remote_size(u)
  BY <1>3, RoundsCommit
<1>4. CASE attach(u)
  <2>1. /\ stage' = stage /\ max_attach' = max_attach /\ s % 4 = 3 /\ Passes(u)
        /\ regs'[u] = regs[u] + 1 /\ attached'[u] = attached[u] + 1 /\ num_attach'[u] = num_attach[u] - 1
    BY <1>4 DEF attach, MayAttach, Registers, HeapTypeOK
  <2>2. Base(u)' = Base(u)
    <3>1. (regs[u] + 1) - (attached[u] + 1) = regs[u] - attached[u]
      BY <1>0
    <3> QED  BY <2>1, <3>1 DEF Base
  <2>3. OwnRounds(u)'
    <3>1. (num_attach[u] - 1) + (attached[u] + 1) = num_attach[u] + attached[u]
      BY <1>0
    <3> QED  BY <1>0, <2>1, <3>1 DEF OwnRounds
  <2> QED  BY <1>0, <1>1, <2>1, <2>2, <2>3, RoundsKept DEF OthersKept
<1>5. CASE attach_null(u)
  <2>1. /\ stage' = stage /\ max_attach' = max_attach /\ s % 4 = 3 /\ Passes(u)
        /\ regs'[u] = regs[u] + 1 /\ attached'[u] = attached[u] + 1 /\ num_attach' = num_attach
        /\ attach_first[u] > Len(buckets[u]) /\ ~(attached[u] >= max_attach[u])
    BY <1>5 DEF attach_null, MayAttach, Registers, HeapTypeOK, AttachedAll, AttachedOwn
  <2>2. Base(u)' = Base(u)
    <3>1. (regs[u] + 1) - (attached[u] + 1) = regs[u] - attached[u]
      BY <1>0
    <3> QED  BY <2>1, <3>1 DEF Base
  <2>3. OwnRounds(u)'
    <3>1. num_attach[u] = 0
      <4>1. num_attach[u] = (Len(buckets[u]) - attach_first[u]) + 1 /\ attach_first[u] \in 1 .. Len(buckets[u]) + 1
            /\ Len(buckets[u]) \in Nat
        BY <1>0 DEF OwnBooks, HeapTypeOK
      <4> QED  BY <2>1, <4>1
    <3>2. 0 + (attached[u] + 1) <= max_attach[u]
      BY <1>0, <2>1
    <3> QED  BY <2>1, <3>1, <3>2 DEF OwnRounds
  <2> QED  BY <1>0, <1>1, <2>1, <2>2, <2>3, RoundsKept DEF OthersKept
<1>6. CASE commit_returns(u)
  <2>1. /\ stage'[u] = s + 1 /\ s % 4 = 3 /\ max_attach' = max_attach /\ regs' = regs
        /\ num_attach' = num_attach /\ attached' = attached /\ attached[u] >= max_attach[u]
    BY <1>6 DEF commit_returns, MayAttach, memory, AttachedAll, HeapTypeOK
  <2>2. (s + 1) % 4 = 0 /\ Completed(s + 1) = Completed(s) + 1 /\ Completed(s) \in Nat
    <3> HIDE DEF s
    <3> QED  BY <1>0, <2>1, StageCases
  <2>3. attached[u] = max_attach[u]
    BY <1>0, <2>1 DEF OwnRounds
  <2>4. Base(u) = regs[u] - max_attach[u] /\ Base(u)' = regs[u] /\ Base(u)' = Base(u) + max_attach[u]
    <3>1. Base(u) = regs[u] - max_attach[u]
      BY <2>1, <2>3 DEF Base
    <3>2. Base(u)' = regs[u]
      BY <2>1, <2>2 DEF Base
    <3> QED  BY <1>0, <3>1, <3>2
  <2>5. /\ \A w \in Unit \ {u} : /\ Base(w)' = Base(w) /\ stage'[w] = stage[w]
                                 /\ (Gathered(w)' <=> Gathered(w))
        /\ ~Gathered(u)' /\ Gathered(u)
    BY <1>0, <1>1, <2>1, <2>2 DEF OthersKept, Gathered
  <2>6. \A w \in Unit : OwnRounds(w)'
    <3>1. ASSUME NEW w \in Unit PROVE OwnRounds(w)'
      <4>1. OwnRounds(w)
        BY RoundsAre
      <4>2. CASE w = u
        BY <2>1, <2>2, <4>2 DEF OwnRounds
      <4>3. CASE w # u
        BY <2>1, <2>5, <4>1, <4>3 DEF OwnRounds
      <4> QED  BY <4>2, <4>3
    <3> QED  BY <3>1
  <2>7. ASSUME NEW x \in Unit, NEW y \in Unit PROVE PairRounds(x, y)'
    <3>1. PairRounds(x, y) /\ PairRounds(u, x) /\ PairRounds(u, y)
      BY RoundsAre
    <3>2. \A w \in Unit : Completed(stage[w]) \in Nat
      BY StageTypes
    <3>3. CASE x = u /\ y = u
      <4>1. Completed(stage'[u]) \in Nat
        BY <2>1, <2>2
      <4> QED  BY <2>5, <3>3, <4>1 DEF PairRounds
    <3>4. CASE x # u /\ y # u
      BY <2>1, <2>5, <3>1, <3>4 DEF PairRounds
    <3>5. CASE x = u /\ y # u
      <4>1. Completed(stage'[u]) = Completed(stage[y]) => Base(u)' = Base(y)
        BY <2>1, <2>2, <2>4, <3>1 DEF PairRounds
      <4> QED  BY <2>1, <2>2, <2>5, <3>5, <4>1 DEF PairRounds
    <3>6. CASE x # u /\ y = u
      <4>1. Completed(stage'[u]) = Completed(stage[x]) => Base(u)' = Base(x)
        BY <2>1, <2>2, <2>4, <3>1 DEF PairRounds
      <4>2. Completed(stage'[u]) = Completed(stage[x]) + 1 /\ stage[x] % 4 = 3 =>
              Base(u)' = Base(x) + max_attach[x]
        <5> SUFFICES ASSUME Completed(stage'[u]) = Completed(stage[x]) + 1, stage[x] % 4 = 3
                     PROVE  Base(u)' = Base(x) + max_attach[x]
          OBVIOUS
        <5>1. Completed(stage[u]) = Completed(stage[x])
          BY <2>1, <2>2, <3>2
        <5>2. Gathered(x)
          BY DEF Gathered
        <5>3. Base(u) = Base(x) /\ max_attach[u] = max_attach[x]
          BY <2>5, <3>1, <5>1, <5>2 DEF PairRounds
        <5> QED  BY <2>4, <5>3
      <4>3. stage'[u] % 4 # 1
        BY <2>1, <2>2
      <4> QED  BY <2>1, <2>5, <3>6, <4>1, <4>2, <4>3 DEF PairRounds
    <3> QED  BY <3>3, <3>4, <3>5, <3>6
  <2> QED  BY <2>6, <2>7 DEF RoundsInv, OwnRounds, PairRounds
<1> QED  BY <1>2, <1>3, <1>4, <1>5, <1>6 DEF StepOf, InCommit

----------------------------------------------------------------------------
(* Where the buckets are, as long as all units attach equally many. *)

\* What shrink leaves when it drops no attached bucket.
LEMMA ShrinkEven ==
  ASSUME HeapTypeOK, BooksInv, NEW u \in Unit, NEW left, NEW k, ShrinksTo(u, left, k), ~past'.uneven
  PROVE  /\ buckets[u] \in Seq(Bucket) /\ left \in Nat /\ k \in 0 .. Len(buckets[u])
         /\ ~(attach_first[u] > k + 1)
         /\ attach_first'[u] = attach_first[u]
         /\ buckets'[u] = Shrunk(buckets[u], left, k)
         /\ Len(buckets'[u]) = k
         /\ \A i \in 1 .. k : buckets'[u][i].seg = buckets[u][i].seg
         /\ \A i \in 0 .. (k - 1) : UpTo(buckets'[u], i) = UpTo(buckets[u], i)
         /\ UpTo(buckets'[u], k) = left
         /\ cumul'[u][u] = Cut(cumul[u][u], Len(cumul[u][u]) - (Len(buckets[u]) - k), left)
<1> DEFINE s == buckets[u]
           t == Shrunk(s, left, k)
<1>1. s \in Seq(Bucket) /\ left \in Nat /\ k \in 0 .. Len(s) /\ KeptAre(s, left, k)
      /\ attach_first \in [Unit -> Nat]
  BY DEF HeapTypeOK, ShrinksTo
<1>2. ~(attach_first[u] > k + 1)
  <2> DEFINE more == attach_first[u] > k + 1
  <2>1. past' = [past EXCEPT !.uneven = @ \/ more] /\ past \in [mixed : SUBSET Unit, uneven : BOOLEAN]
    BY Zenon DEF ShrinksTo, HeapTypeOK
  <2> HIDE DEF more
  <2>2. ~more
    BY <2>1
  <2> QED  BY <2>2 DEF more
<1>3. buckets'[u] = t
  <2> HIDE DEF t
  <2> QED  BY DEF ShrinksTo, HeapTypeOK, t
<1>4. attach_first'[u] = attach_first[u]
  <2>1. attach_first' = [attach_first EXCEPT ![u] = FirstAfter(attach_first[u], k)]
    BY Zenon DEF ShrinksTo
  <2> QED  BY <1>1, <1>2, <2>1 DEF FirstAfter
<1>5. cumul'[u][u] = Cut(cumul[u][u], Len(cumul[u][u]) - (Len(buckets[u]) - k), left)
  <2> DEFINE d == Cut(cumul[u][u], Len(cumul[u][u]) - DroppedHere(u, k), left)
  <2>1. cumul' = [cumul EXCEPT ![u] = [cumul[u] EXCEPT ![u] = d]]
    BY Zenon DEF ShrinksTo
  <2>2. DroppedHere(u, k) = Len(buckets[u]) - k
    BY <1>2 DEF DroppedHere
  <2>3. cumul'[u][u] = d
    <3> HIDE DEF d
    <3> QED  BY <2>1 DEF HeapTypeOK
  <2> QED  BY <2>2, <2>3
<1> HIDE DEF s, t
<1>6. /\ Len(t) = k
      /\ \A i \in 1 .. k : t[i].seg = s[i].seg
      /\ \A i \in 0 .. (k - 1) : UpTo(t, i) = UpTo(s, i)
      /\ UpTo(t, k) = left
  BY <1>1, ShrunkList DEF t
<1> QED  BY <1>1, <1>2, <1>3, <1>4, <1>5, <1>6 DEF s, t

\* A unit that detaches no whole bucket and attaches no empty one keeps its segments in order.
LEMMA OwnPlacesStep ==
  ASSUME HeapTypeOK, BooksInv, NEW u \in Unit, StepOf(u), ~past'.uneven, OwnPlaces(u)
  PROVE  OwnPlaces(u)'
<1> DEFINE s == buckets[u]
           c == cumul[u][u]
           first == attach_first[u]
<1>1. /\ s \in Seq(Bucket) /\ Len(s) \in Nat /\ c \in Seq(Int) /\ regs[u] \in Nat
      /\ local_size[u] \in Nat /\ OwnBooks(u)
  BY CumulType DEF HeapTypeOK, BooksInv
<1>2. /\ first = regs[u] + 1 /\ (\A i \in 1 .. regs[u] : s[i].seg = i)
      /\ Len(c) = Len(s) /\ \A i \in 1 .. Len(s) : c[i] = UpTo(s, i)
  BY DEF OwnPlaces, Tells
<1>3. first \in 1 .. Len(s) + 1 /\ local_size[u] = UpTo(s, Len(s)) /\ regs[u] <= Len(s)
  <2>1. first \in 1 .. Len(s) + 1 /\ local_size[u] = UpTo(s, Len(s))
    BY <1>1 DEF OwnBooks
  <2> HIDE DEF s, first
  <2> QED  BY <1>1, <1>2, <2>1
<1>4. ASSUME NEW n \in GrowSizes, grow(u, n) PROVE OwnPlaces(u)'
  <2> DEFINE b == [size |-> n, seg |-> 0]
             t == Append(s, b)
             m == local_size[u] + n
             d == Append(c, m)
  <2>1. /\ buckets'[u] = t /\ cumul'[u][u] = d /\ attach_first' = attach_first /\ regs' = regs
    BY <1>4 DEF grow, HeapTypeOK
  <2>2. b \in Bucket /\ b.size = n /\ m \in Nat /\ n \in Nat
    BY <1>1, GrowAssumption DEF Bucket
  <2>3. Len(d) = Len(c) + 1 /\ (\A i \in 1 .. Len(c) : d[i] = c[i]) /\ d[Len(c) + 1] = m
    <3> HIDE DEF c, m
    <3> QED  BY <1>1, <2>2
  <2> HIDE DEF s, b, c
  <2>4. /\ Len(t) = Len(s) + 1 /\ \A i \in 1 .. Len(s) : t[i] = s[i]
        /\ \A i \in 0 .. Len(s) : UpTo(t, i) = UpTo(s, i)
        /\ UpTo(t, Len(s) + 1) = UpTo(s, Len(s)) + b.size
    BY <1>1, <2>2, Appended
  <2> HIDE DEF t, d, first
  <2>5. \A i \in 1 .. regs[u] : t[i].seg = i
    BY <1>1, <1>2, <1>3, <2>4
  <2>6. \A i \in 1 .. Len(t) : d[i] = UpTo(t, i)
    <3> TAKE i \in 1 .. Len(t)
    <3>1. CASE i \in 1 .. Len(s)
      BY <1>2, <2>3, <2>4, <3>1
    <3>2. CASE i = Len(s) + 1
      <4>1. d[i] = m /\ UpTo(t, i) = UpTo(s, Len(s)) + n
        BY <1>2, <2>2, <2>3, <2>4, <3>2
      <4> QED  BY <1>3, <4>1
    <3> QED  BY <1>1, <2>4, <3>1, <3>2
  <2>7. attach_first'[u] = regs'[u] + 1 /\ Len(d) = Len(t)
    BY <1>2, <2>1, <2>3, <2>4 DEF first
  <2> QED  BY <2>1, <2>5, <2>6, <2>7 DEF OwnPlaces, Tells
<1>5. ASSUME NEW n \in GrowSizes, shrink(u, n) PROVE OwnPlaces(u)'
  <2> DEFINE left == local_size[u] - n
             t == buckets'[u]
             d == cumul'[u][u]
  <2>1. PICK k \in 0 .. Len(s) : ShrinksTo(u, left, k)
    BY <1>5, ShrinkEffect
  <2> HIDE DEF left
  <2>2. /\ left \in Nat
        /\ ~(first > k + 1)
        /\ attach_first'[u] = first
        /\ Len(t) = k
        /\ \A i \in 1 .. k : t[i].seg = s[i].seg
        /\ \A i \in 0 .. (k - 1) : UpTo(t, i) = UpTo(s, i)
        /\ UpTo(t, k) = left
        /\ d = Cut(c, Len(c) - (Len(s) - k), left)
    <3>1. /\ left \in Nat
          /\ ~(attach_first[u] > k + 1)
          /\ attach_first'[u] = attach_first[u]
      BY <2>1, ShrinkEven
    <3>2. Len(buckets'[u]) = k
      BY <2>1, ShrinkEven
    <3>3. \A i \in 1 .. k : buckets'[u][i].seg = buckets[u][i].seg
      BY <2>1, ShrinkEven
    <3>4. \A i \in 0 .. (k - 1) : UpTo(buckets'[u], i) = UpTo(buckets[u], i)
      BY <2>1, ShrinkEven
    <3>5. UpTo(buckets'[u], k) = left
      BY <2>1, ShrinkEven
    <3>6. cumul'[u][u] = Cut(cumul[u][u], Len(cumul[u][u]) - (Len(buckets[u]) - k), left)
      BY <2>1, ShrinkEven
    <3> QED  BY <3>1, <3>2, <3>3, <3>4, <3>5, <3>6
  <2>3. regs' = regs
    BY <2>1, Zenon DEF ShrinksTo
  <2> HIDE DEF s, c, first, t, left
  <2>4. Len(c) - (Len(s) - k) = k
    BY <1>1, <1>2
  <2>5. d = [i \in 1 .. k |-> IF i = k THEN left ELSE c[i]]
    BY <2>2, <2>4 DEF Cut
  <2> HIDE DEF d
  <2>6. Len(d) = k
    BY <2>5
  <2>7. \A i \in 1 .. k : d[i] = UpTo(t, i)
    <3> TAKE i \in 1 .. k
    <3>1. CASE i = k
      BY <2>2, <2>5, <3>1
    <3>2. CASE i # k
      <4>1. i \in 0 .. (k - 1) /\ i \in 1 .. Len(s)
        BY <1>1, <3>2
      <4> QED  BY <1>2, <2>2, <2>5, <3>2, <4>1
    <3> QED  BY <3>1, <3>2
  <2>8. \A i \in 1 .. regs[u] : t[i].seg = i
    <3> TAKE i \in 1 .. regs[u]
    <3>1. i \in 1 .. k
      BY <1>1, <1>2, <2>2
    <3> QED  BY <1>2, <2>2, <3>1
  <2> QED  BY <1>2, <2>2, <2>3, <2>6, <2>7, <2>8 DEF OwnPlaces, Tells, t, d
<1>6. CASE commit_detach(u) \/ gather_min_max(u) \/ update_remote_size(u) \/ commit_returns(u)
  <2>1. /\ buckets' = buckets /\ attach_first' = attach_first /\ regs' = regs
    BY <1>6 DEF commit_detach, gather_min_max, update_remote_size, commit_returns, memory
  <2>2. cumul'[u][u] = cumul[u][u]
    BY <1>6 DEF commit_detach, gather_min_max, update_remote_size, commit_returns, memory, HeapTypeOK
  <2> QED  BY <2>1, <2>2 DEF OwnPlaces
<1>7. CASE attach(u)
  <2> DEFINE r == regs[u] + 1
             t == [s EXCEPT ![first].seg = r]
  <2>1. /\ buckets' = [buckets EXCEPT ![u] = t] /\ attach_first'[u] = first + 1 /\ regs'[u] = r
        /\ cumul' = cumul /\ first <= Len(s)
    BY <1>7 DEF attach, Registers, HeapTypeOK
  <2>2. buckets'[u] = t
    <3> HIDE DEF t
    <3> QED  BY <2>1 DEF HeapTypeOK
  <2> HIDE DEF s, c, first
  <2>3. /\ Len(t) = Len(s)
        /\ \A i \in 1 .. Len(s) : t[i].seg = IF i = first THEN r ELSE s[i].seg
        /\ \A i \in 0 .. Len(s) : UpTo(t, i) = UpTo(s, i)
    <3>1. first \in 1 .. Len(s) /\ r \in Nat
      BY <1>1, <1>3, <2>1
    <3>2. Len(t) = Len(s)
      BY <1>1, <3>1, Attached
    <3>3. \A i \in 1 .. Len(s) : t[i].seg = IF i = first THEN r ELSE s[i].seg
      BY <1>1, <3>1, Attached
    <3>4. \A i \in 0 .. Len(s) : UpTo(t, i) = UpTo(s, i)
      BY <1>1, <3>1, Attached, SMTT(20)
    <3> QED  BY <3>2, <3>3, <3>4
  <2> HIDE DEF t
  <2>4. \A i \in 1 .. r : t[i].seg = i
    <3> TAKE i \in 1 .. r
    <3>1. i \in 1 .. Len(s)
      BY <1>1, <1>2, <2>1
    <3>2. i # r => i \in 1 .. regs[u] /\ i # first
      BY <1>1, <1>2
    <3>3. i = r => i = first
      BY <1>2
    <3> QED  BY <1>2, <2>3, <3>1, <3>2, <3>3
  <2>5. \A i \in 1 .. Len(t) : c[i] = UpTo(t, i)
    BY <1>2, <2>3
  <2> QED  BY <1>2, <2>1, <2>2, <2>3, <2>4, <2>5 DEF OwnPlaces, Tells, c
<1>8. CASE attach_null(u)
  <2>1. past' = [past EXCEPT !.uneven = TRUE]
    BY <1>8 DEF attach_null
  <2>2. past'.uneven
    BY <2>1 DEF HeapTypeOK
  <2> QED  BY <2>2
<1> QED  BY <1>4, <1>5, <1>6, <1>7, <1>8 DEF StepOf, InCommit

\* What v knows of the places at w stays true when nothing about them changes.
LEMMA PlacesKept ==
  ASSUME NEW v \in Unit, NEW w \in Unit, KnowsPlaces(v, w),
         Fresh(v, w)' => Fresh(v, w),
         Learned(stage'[v]) = Learned(stage[v]), Completed(stage'[w]) = Completed(stage[w]),
         cumul'[v][w] = cumul[v][w], buckets'[w] = buckets[w], attach_first'[w] = attach_first[w]
  PROVE  KnowsPlaces(v, w)'
BY DEF KnowsPlaces

\* What is known of the places at a unit that takes no step.
LEMMA PlacesOther ==
  ASSUME HeapTypeOK, NEW u \in Unit, StepOf(u), ~update_remote_size(u),
         NEW v \in Unit, NEW w \in Unit, v # w, w # u, KnowsPlaces(v, w)
  PROVE  KnowsPlaces(v, w)'
<1>1. OthersKept(u)
  BY OthersAreKept
<1>2. /\ buckets'[w] = buckets[w] /\ attach_first'[w] = attach_first[w] /\ stage'[w] = stage[w]
      /\ ops'[w] = ops[w]
  BY <1>1 DEF OthersKept
<1>3. cumul'[v][w] = cumul[v][w]
  BY <1>1, StepFrame DEF OthersKept
<1>4. Learned(stage'[v]) = Learned(stage[v])
  BY <1>1, LearnsByUpdate DEF OthersKept
<1>5. Fresh(v, w)' => Fresh(v, w)
  BY <1>2, <1>4 DEF Fresh
<1> QED  BY <1>2, <1>3, <1>4, <1>5, PlacesKept

\* A unit that learns of the new buckets of another one knows all of its places.
LEMMA PlacesUpdate ==
  ASSUME HeapTypeOK, BooksInv, StageInv, NEW v \in Unit, NEW w \in Unit, update_remote_size(v), v # w,
         Knows(v, w), ~Running(w) /\ ops[w].shrunk => num_attach[w] = 0, KnowsPlaces(v, w)
  PROVE  KnowsPlaces(v, w)'
<1> DEFINE old == cumul[v][w]
           new == Unattached(w)
           size == local_size[w]
           all == CumulAfter(old, new, size)
           s == buckets[w]
           first == attach_first[w]
<1>1. cumul'[v][w] = all /\ buckets' = buckets
  BY DEF update_remote_size, HeapTypeOK
<1>2. /\ old \in Seq(Int) \ {<<>>} /\ old \in Seq(Int) /\ Len(old) \in Nat /\ size \in Nat
      /\ s \in Seq(Bucket) /\ Len(s) \in Nat
  <2>1. old \in Seq(Int) \ {<<>>}
    BY CumulType
  <2>2. old \in Seq(Int) /\ Len(old) \in Nat
    <3> HIDE DEF old
    <3> QED  BY <2>1
  <2> QED  BY <2>1, <2>2 DEF HeapTypeOK
<1>3. /\ Learned(stage[v]) = Completed(stage[w]) /\ ~Running(w)
      /\ Learned(stage'[v]) # Completed(stage'[w])
  BY HeardOf
<1>4. /\ new \in Seq(Bucket) /\ Len(new) \in Nat /\ Len(new) = num_attach[w]
      /\ Len(new) = (Len(s) - first) + 1
      /\ first \in 1 .. Len(s) + 1 /\ size = UpTo(s, Len(s))
      /\ AttachedSize(w) = UpTo(s, first - 1) /\ UpTo(s, first - 1) \in Nat
      /\ UpTo(new, Len(new)) = size - UpTo(s, first - 1)
      /\ \A j \in 1 .. Len(new) : UpTo(new, j) = UpTo(s, (first - 1) + j) - UpTo(s, first - 1)
  <2>1. OwnBooks(w)
    BY DEF BooksInv
  <2> QED  BY <2>1, NewBuckets, Zenon
<1>5. /\ UpTo(s, first - 1) <= Latest(old)
      /\ ~ops[w].shrunk => UpTo(s, first - 1) = Latest(old)
  BY <1>3, <1>4 DEF Knows
<1>6. Len(old) = first - 1 /\ \A i \in 1 .. (first - 2) : old[i] = UpTo(s, i)
  BY <1>3 DEF KnowsPlaces, Tells
<1>7. /\ Len(all) = Len(old) + Len(new)
      /\ new # <<>> /\ size = Latest(old) + UpTo(new, Len(new)) =>
           /\ \A i \in 1 .. Len(old) : all[i] = old[i]
           /\ \A i \in 1 .. Len(new) : all[Len(old) + i] = UpTo(new, i) + Latest(old)
      /\ new = <<>> /\ size <= Latest(old) =>
           /\ \A i \in 1 .. (Len(old) - 1) : all[i] = old[i]
           /\ all[Len(old)] = size
  <2> HIDE DEF old, new, size
  <2>1. old \in Seq(Int) \ {<<>>} /\ new \in Seq(Bucket) /\ size \in Nat
    BY <1>2, <1>4
  <2>2. Len(all) = Len(old) + Len(new)
    BY <2>1, CumulAfterIs
  <2>3. new # <<>> /\ size = Latest(old) + UpTo(new, Len(new)) => \A i \in 1 .. Len(old) : all[i] = old[i]
    BY <2>1, CumulAfterIs
  <2>4. new # <<>> /\ size = Latest(old) + UpTo(new, Len(new)) =>
          \A i \in 1 .. Len(new) : all[Len(old) + i] = UpTo(new, i) + Latest(old)
    BY <2>1, CumulAfterIs
  <2>5. new = <<>> /\ size <= Latest(old) => \A i \in 1 .. (Len(old) - 1) : all[i] = old[i]
    BY <2>1, CumulAfterIs
  <2>6. new = <<>> /\ size <= Latest(old) => all[Len(old)] = size
    BY <2>1, CumulAfterIs
  <2> QED  BY <2>2, <2>3, <2>4, <2>5, <2>6
<1> HIDE DEF s, first, old, new, size, all
<1>8. Latest(old) = old[first - 1] /\ first \in Int /\ Len(s) \in Nat
  BY <1>2, <1>4, <1>6 DEF Latest
<1>9. ASSUME NEW i \in 1 .. Len(s) PROVE all[i] = UpTo(s, i)
  <2>1. CASE new = <<>>
    <3>1. Len(new) = 0
      BY <2>1
    <3>2. first - 1 = Len(s) /\ size = UpTo(s, first - 1)
      <4>1. (Len(s) - first) + 1 = 0
        BY <1>4, <3>1
      <4>2. first - 1 = Len(s)
        BY <1>8, <4>1
      <4> QED  BY <1>4, <4>2
    <3>3. all[Len(s)] = size /\ \A j \in 1 .. (Len(s) - 1) : all[j] = old[j]
      BY <1>5, <1>6, <1>7, <2>1, <3>2
    <3>4. i # Len(s) => i \in 1 .. (Len(s) - 1) /\ i \in 1 .. (first - 2)
      <4>1. first - 1 = Len(s)
        BY <3>2
      <4> QED  BY <1>8, <4>1
    <3> QED  BY <1>4, <1>6, <3>3, <3>4
  <2>2. CASE new # <<>>
    <3>1. Len(new) # 0
      BY <1>4, <2>2
    <3>2. UpTo(s, first - 1) = Latest(old)
      BY <1>3, <1>4, <1>5, <3>1
    <3>3. size = Latest(old) + UpTo(new, Len(new))
      BY <1>2, <1>4, <3>2
    <3>4. /\ \A j \in 1 .. Len(old) : all[j] = old[j]
          /\ \A j \in 1 .. Len(new) : all[Len(old) + j] = UpTo(new, j) + Latest(old)
      BY <1>7, <2>2, <3>3
    <3>5. CASE i < first - 1
      <4>1. i \in 1 .. Len(old) /\ i \in 1 .. (first - 2)
        BY <1>2, <1>4, <1>6, <3>5
      <4> QED  BY <1>6, <3>4, <4>1
    <3>6. CASE i = first - 1
      <4>1. i \in 1 .. Len(old)
        BY <1>2, <1>6, <3>6
      <4> QED  BY <1>8, <3>2, <3>4, <3>6, <4>1
    <3>7. CASE i > first - 1
      <4> DEFINE j == i - (first - 1)
      <4>1. j \in 1 .. Len(new) /\ Len(old) + j = i /\ (first - 1) + j = i
        <5>1. Len(new) = (Len(s) - first) + 1 /\ Len(old) = first - 1
          BY <1>4, <1>6
        <5> QED  BY <1>8, <3>7, <5>1
      <4> HIDE DEF j
      <4>2. all[i] = UpTo(new, j) + Latest(old) /\ UpTo(new, j) = UpTo(s, i) - UpTo(s, first - 1)
        BY <1>4, <3>4, <4>1
      <4>3. UpTo(s, i) \in Nat
        BY <1>2, UpToNat
      <4> QED  BY <1>4, <3>2, <4>2, <4>3
    <3> QED  BY <1>8, <3>5, <3>6, <3>7
  <2> QED  BY <2>1, <2>2
<1>10. Len(all) = Len(s)
  BY <1>2, <1>4, <1>6, <1>7
<1>11. Len(cumul'[v][w]) = Len(buckets'[w]) /\ Tells(cumul'[v][w], buckets'[w], Len(buckets'[w]))
  BY <1>1, <1>9, <1>10 DEF Tells, s
<1> QED  BY <1>3, <1>11 DEF KnowsPlaces

\* What is known of the places at a unit that takes a step.
LEMMA PlacesOwner ==
  ASSUME HeapTypeOK, BooksInv, StageInv, NEW u \in Unit, StepOf(u), ~update_remote_size(u), ~past'.uneven,
         NEW v \in Unit, v # u, KnowsPlaces(v, u)
  PROVE  KnowsPlaces(v, u)'
<1> DEFINE l == Learned(stage[v])
           s == buckets[u]
           first == attach_first[u]
           old == cumul[v][u]
<1>1. /\ stage'[v] = stage[v] /\ cumul'[v] = cumul[v] /\ Learned(stage'[v]) = l /\ stage[u] \in Nat
      /\ l \in Nat
  BY OthersAreKept, StageTypes DEF OthersKept
<1>2. s \in Seq(Bucket) /\ Len(s) \in Nat /\ first \in 1 .. Len(s) + 1
  <2>1. OwnBooks(u) /\ s \in Seq(Bucket) /\ Len(s) \in Nat
    BY DEF BooksInv, HeapTypeOK
  <2> QED  BY <2>1 DEF OwnBooks
<1>3. Fresh(v, u)' => Fresh(v, u)
  BY FreshStep
<1>4. l = Completed(stage[u]) => Len(old) = first - 1 /\ \A i \in 1 .. (first - 2) : old[i] = UpTo(s, i)
  BY DEF KnowsPlaces, Tells
<1>5. ASSUME NEW n \in GrowSizes, grow(u, n) PROVE KnowsPlaces(v, u)'
  <2> DEFINE b == [size |-> n, seg |-> 0]
  <2>1. /\ buckets'[u] = Append(s, b) /\ attach_first'[u] = first /\ stage' = stage /\ Running(u)
        /\ ops'[u].epoch = ops[u].epoch + 1
    BY <1>5 DEF grow, MayCall, Called, HeapTypeOK
  <2>2. ops'[u].epoch # 0
    <3>1. ops[u].epoch \in Nat
      BY DEF HeapTypeOK
    <3> QED  BY <2>1, <3>1
  <2>3. ~Fresh(v, u)'
    BY <1>1, <2>1, <2>2, ChangedNotFresh
  <2>4. b \in Bucket
    BY <1>5, GrowAssumption DEF Bucket
  <2> HIDE DEF b, s, first, old
  <2>5. \A i \in 0 .. Len(s) : UpTo(Append(s, b), i) = UpTo(s, i)
    BY <1>2, <2>4, Appended
  <2>6. \A i \in 1 .. (first - 2) : i \in 0 .. Len(s)
    BY <1>2
  <2>7. l = Completed(stage'[u]) =>
          Len(old) = first - 1 /\ \A i \in 1 .. (first - 2) : old[i] = UpTo(buckets'[u], i)
    BY <1>4, <2>1, <2>5, <2>6
  <2> QED  BY <1>1, <2>1, <2>3, <2>7 DEF KnowsPlaces, Tells, old
<1>6. ASSUME NEW n \in GrowSizes, shrink(u, n) PROVE KnowsPlaces(v, u)'
  <2> DEFINE left == local_size[u] - n
             t == buckets'[u]
  <2>1. PICK k \in 0 .. Len(s) : ShrinksTo(u, left, k)
    BY <1>6, ShrinkEffect
  <2>2. Running(u) /\ stage' = stage /\ ops'[u].epoch # 0
    <3>1. Running(u) /\ stage' = stage /\ \E x : Called(u, x)
      BY <1>6 DEF shrink, MayCall
    <3>2. ops \in [Unit -> [epoch : Nat, all : Nat, shrunk : BOOLEAN]]
      BY DEF HeapTypeOK
    <3> QED  BY <3>1, <3>2 DEF Called
  <2>3. ~Fresh(v, u)'
    BY <1>1, <2>2, ChangedNotFresh
  <2> HIDE DEF left
  <2>4. ~(attach_first[u] > k + 1) /\ attach_first'[u] = attach_first[u]
    BY <2>1, ShrinkEven
  <2>5. \A i \in 0 .. (k - 1) : UpTo(buckets'[u], i) = UpTo(buckets[u], i)
    BY <2>1, ShrinkEven
  <2> HIDE DEF s, first, t, old
  <2>6. \A i \in 1 .. (first - 2) : i \in 0 .. (k - 1)
    BY <1>2, <2>4 DEF first
  <2>7. l = Completed(stage'[u]) =>
          Len(old) = first - 1 /\ \A i \in 1 .. (first - 2) : old[i] = UpTo(buckets'[u], i)
    BY <1>4, <2>2, <2>5, <2>6 DEF s
  <2> QED  BY <1>1, <2>3, <2>4, <2>7 DEF KnowsPlaces, Tells, old, first
<1>7. CASE commit_detach(u) \/ gather_min_max(u)
  <2>1. /\ stage'[u] = stage[u] + 1 /\ (stage[u] % 4 = 0 \/ stage[u] % 4 = 1)
        /\ cumul' = cumul /\ buckets' = buckets /\ attach_first' = attach_first
    BY <1>7 DEF commit_detach, gather_min_max, Running, HeapTypeOK, memory
  <2>2. Completed(stage'[u]) = Completed(stage[u])
    <3> DEFINE a == stage[u]
    <3>1. a \in Nat /\ a % 4 # 3
      BY <1>1, <2>1
    <3> HIDE DEF a
    <3>2. Completed(a + 1) = Completed(a)
      BY <3>1, StageCases
    <3> QED  BY <2>1, <3>2 DEF a
  <2> QED  BY <1>1, <1>3, <2>1, <2>2, PlacesKept
<1>8. CASE attach(u)
  <2> DEFINE r == regs[u] + 1
             t == [s EXCEPT ![first].seg = r]
  <2>1. /\ stage[u] % 4 = 3 /\ Passes(u) /\ stage' = stage /\ cumul' = cumul
        /\ buckets' = [buckets EXCEPT ![u] = t] /\ first <= Len(s)
    BY <1>8 DEF attach, MayAttach, Registers, HeapTypeOK
  <2>2. buckets'[u] = t
    <3> HIDE DEF t
    <3> QED  BY <2>1 DEF HeapTypeOK
  <2>3. Learned(stage'[v]) # Completed(stage'[u])
    BY <2>1, LearnedBefore
  <2>4. r \in Nat
    <3>1. regs[u] \in Nat
      BY DEF HeapTypeOK
    <3> QED  BY <3>1
  <2> HIDE DEF s, first, r
  <2>5. first \in 1 .. Len(s)
    BY <1>2, <2>1
  <2>6. Len(t) = Len(s) /\ \A i \in 0 .. Len(s) : UpTo(t, i) = UpTo(s, i)
    BY <1>2, <2>4, <2>5, Attached
  <2> HIDE DEF t
  <2>7. \A i \in 1 .. Len(s) : i \in 0 .. Len(s)
    BY <1>2
  <2>8. Fresh(v, u) => Len(old) = Len(s) /\ \A i \in 1 .. Len(s) : old[i] = UpTo(s, i)
    BY DEF KnowsPlaces, Tells, s
  <2>9. Fresh(v, u)' => Len(old) = Len(t) /\ \A i \in 1 .. Len(t) : old[i] = UpTo(t, i)
    BY <1>3, <2>6, <2>7, <2>8
  <2> QED  BY <2>1, <2>2, <2>3, <2>9 DEF KnowsPlaces, Tells
<1>9. CASE attach_null(u)
  <2>1. past' = [past EXCEPT !.uneven = TRUE]
    BY <1>9 DEF attach_null
  <2>2. past'.uneven
    BY <2>1 DEF HeapTypeOK
  <2> QED  BY <2>2
<1>10. CASE commit_returns(u)
  <2>1. /\ stage[u] % 4 = 3 /\ Passes(u) /\ first > Len(s)
        /\ buckets' = buckets /\ attach_first' = attach_first /\ cumul' = cumul
    BY <1>10 DEF commit_returns, MayAttach, memory, AttachedAll, AttachedOwn
  <2>2. stage[u] < 4 * l
    BY <2>1, LearnedBefore
  <2>3. Fresh(v, u)
    <3>1. stage[u] <= 4 * l /\ stage[u] # 4 * l
      <4> HIDE DEF l
      <4> QED  BY <1>1, <2>2
    <3> QED  BY <3>1 DEF Fresh
  <2>4. Len(old) = Len(s) /\ \A i \in 1 .. Len(s) : old[i] = UpTo(s, i)
    BY <2>3 DEF KnowsPlaces, Tells
  <2> HIDE DEF s, first, old
  <2>5. first - 1 = Len(s) /\ \A i \in 1 .. (first - 2) : i \in 1 .. Len(s)
    BY <1>2, <2>1
  <2>6. Len(old) = first - 1 /\ \A i \in 1 .. (first - 2) : old[i] = UpTo(s, i)
    BY <2>4, <2>5
  <2> QED  BY <2>1, <2>4, <2>6 DEF KnowsPlaces, Tells, s, first, old
<1> QED  BY <1>5, <1>6, <1>7, <1>8, <1>9, <1>10 DEF StepOf, InCommit

\* As long as the units attach equally many buckets they know each other's places.
LEMMA PlacesStep ==
  ASSUME HeapTypeOK, BooksInv, StageInv, KnowsInv, PlacesInv, NEW u \in Unit, StepOf(u)
  PROVE  PlacesInv'
<1> SUFFICES ASSUME ~past'.uneven
             PROVE  /\ \A w \in Unit : OwnPlaces(w)'
                    /\ past'.mixed = {} => \A v, w \in Unit : v # w => KnowsPlaces(v, w)'
  BY DEF PlacesInv
<1>1. ~past.uneven /\ past.mixed \subseteq past'.mixed
  BY StepFrame
<1>2. OthersKept(u)
  BY OthersAreKept
<1>3. ASSUME NEW w \in Unit PROVE OwnPlaces(w)'
  <2>1. OwnPlaces(w)
    BY <1>1 DEF PlacesInv
  <2>2. CASE w = u
    BY <2>1, <2>2, OwnPlacesStep
  <2>3. CASE w # u
    <3>1. /\ buckets'[w] = buckets[w] /\ attach_first'[w] = attach_first[w]
          /\ regs'[w] = regs[w] /\ cumul'[w] = cumul[w]
      BY <1>2, <2>3 DEF OthersKept
    <3> QED  BY <2>1, <3>1 DEF OwnPlaces
  <2> QED  BY <2>2, <2>3
<1>4. ASSUME past'.mixed = {}, NEW v \in Unit, NEW w \in Unit, v # w PROVE KnowsPlaces(v, w)'
  <2>1. past.mixed = {}
    BY <1>1, <1>4
  <2>2. KnowsPlaces(v, w)
    BY <1>1, <1>4, <2>1 DEF PlacesInv
  <2>3. Knows(v, w) /\ (~Running(w) /\ ops[w].shrunk => num_attach[w] = 0)
    BY <1>4, <2>1 DEF KnowsInv
  <2>4. CASE ~update_remote_size(u) /\ w # u
    BY <1>4, <2>2, <2>4, PlacesOther
  <2>5. CASE ~update_remote_size(u) /\ w = u
    BY <1>4, <2>2, <2>5, PlacesOwner
  <2>6. CASE update_remote_size(u) /\ v = u
    BY <1>4, <2>2, <2>3, <2>6, PlacesUpdate
  <2>7. CASE update_remote_size(u) /\ v # u
    <3>1. /\ cumul'[v][w] = cumul[v][w] /\ stage'[v] = stage[v]
          /\ buckets' = buckets /\ attach_first' = attach_first
      BY <2>7 DEF update_remote_size, HeapTypeOK
    <3>2. (Fresh(v, w)' => Fresh(v, w)) /\ Completed(stage'[w]) = Completed(stage[w])
      BY <1>4, <2>7, FreshAtUpdate
    <3> QED  BY <2>2, <3>1, <3>2, PlacesKept
  <2> QED  BY <2>4, <2>5, <2>6, <2>7
<1> QED  BY <1>3, <1>4

\* In the beginning everybody has one attached bucket and knows the others' one.
LEMMA PlacesInit == Init => PlacesInv /\ RoundsInv
<1> SUFFICES ASSUME Init PROVE PlacesInv /\ RoundsInv
  OBVIOUS
<1> DEFINE s == <<[size |-> InitSize, seg |-> 1]>>
           c == <<InitSize>>
<1>1. \A u \in Unit : /\ buckets[u] = s /\ attach_first[u] = 2 /\ regs[u] = 1 /\ stage[u] = 0
                      /\ local_size[u] = InitSize /\ \A v \in Unit : cumul[v][u] = c
  BY DEF Init
<1>2. Len(s) = 1 /\ s[1].seg = 1 /\ Len(c) = 1 /\ c[1] = InitSize
  OBVIOUS
<1> HIDE DEF s, c
<1>3. Tells(c, s, 0) /\ (c[1] = UpTo(s, 1) => Tells(c, s, 1))
  BY DEF Tells
<1>4. ASSUME NEW u \in Unit PROVE c[1] = UpTo(s, 1)
  <2>1. OwnBooks(u)
    BY BooksInit DEF BooksInv
  <2>2. local_size[u] = UpTo(buckets[u], Len(buckets[u]))
    BY <2>1 DEF OwnBooks
  <2> QED  BY <1>1, <1>2, <2>2
<1>5. ASSUME NEW v \in Unit, NEW u \in Unit
      PROVE  Len(cumul[v][u]) = Len(buckets[u]) /\ Tells(cumul[v][u], buckets[u], Len(buckets[u]))
  <2>1. Tells(c, s, Len(s))
    BY <1>2, <1>3, <1>4
  <2> QED  BY <1>1, <1>2, <2>1
<1>6. ASSUME NEW u \in Unit PROVE OwnPlaces(u)
  <2>1. attach_first[u] = regs[u] + 1
    BY <1>1
  <2>2. \A i \in 1 .. 1 : s[i].seg = i
    BY <1>2
  <2>3. \A i \in 1 .. regs[u] : buckets[u][i].seg = i
    BY <1>1, <2>2
  <2> QED  BY <1>5, <2>1, <2>3 DEF OwnPlaces
<1>7. ASSUME NEW v \in Unit, NEW u \in Unit PROVE KnowsPlaces(v, u)
  <2>1. Len(cumul[v][u]) = attach_first[u] - 1 /\ attach_first[u] - 2 = 0
    <3>1. Len(cumul[v][u]) = 1 /\ attach_first[u] = 2
      BY <1>1, <1>2
    <3> QED  BY <3>1
  <2>2. Tells(cumul[v][u], buckets[u], attach_first[u] - 2)
    BY <1>1, <1>3, <2>1
  <2> QED  BY <1>5, <2>1, <2>2 DEF KnowsPlaces
<1>8. PlacesInv
  BY <1>6, <1>7 DEF PlacesInv
<1>9. \A u \in Unit : stage[u] % 4 = 0 /\ Base(u) = 1 /\ ~Gathered(u)
  BY <1>1 DEF Base, Gathered
<1>10. RoundsInv
  <2>1. \A u \in Unit : OwnRounds(u)
    BY <1>9 DEF OwnRounds
  <2>2. \A u, v \in Unit : PairRounds(u, v)
    BY <1>9 DEF PairRounds
  <2> QED  BY <2>1, <2>2, RoundsAre
<1> QED  BY <1>8, <1>10

\* An element is in one bucket, and in none before it.
LEMMA OneBucket ==
  \A s \in Seq(Bucket) : \A i \in Nat : i < UpTo(s, Len(s)) =>
     \E b \in 1 .. Len(s) :
        /\ UpTo(s, b - 1) <= i
        /\ \A j \in 1 .. Len(s) : i < UpTo(s, j) <=> j >= b
<1> SUFFICES ASSUME NEW s \in Seq(Bucket), NEW i \in Nat, i < UpTo(s, Len(s))
             PROVE  \E b \in 1 .. Len(s) :
                       /\ UpTo(s, b - 1) <= i
                       /\ \A j \in 1 .. Len(s) : i < UpTo(s, j) <=> j >= b
  OBVIOUS
<1> DEFINE S == {n \in Nat : n <= Len(s) /\ i < UpTo(s, n)}
<1>1. Len(s) \in S /\ Len(s) \in Nat
  OBVIOUS
<1>2. PICK b \in S : \A n \in S : b <= n
  <2>1. S # {} /\ S \subseteq Nat
    BY <1>1
  <2> HIDE DEF S
  <2> QED  BY <2>1, SmallestNumber
<1>3. b \in 0 .. Len(s) /\ i < UpTo(s, b)
  BY <1>1
<1>4. b # 0
  <2>1. UpTo(s, 0) = 0
    BY UpToNext
  <2> QED  BY <1>3, <2>1
<1>5. b \in 1 .. Len(s) /\ b - 1 \in 0 .. Len(s)
  BY <1>1, <1>3, <1>4
<1>6. UpTo(s, b - 1) \in Nat
  BY <1>5, UpToNat
<1>7. ~(i < UpTo(s, b - 1))
  <2>1. b - 1 \in S => b <= b - 1
    BY <1>2
  <2>2. b - 1 \in Nat /\ b - 1 <= Len(s) /\ ~(b <= b - 1)
    BY <1>1, <1>5
  <2> QED  BY <2>1, <2>2
<1>8. ASSUME NEW j \in 1 .. Len(s) PROVE i < UpTo(s, j) <=> j >= b
  <2>1. j \in 0 .. Len(s) /\ UpTo(s, j) \in Nat /\ UpTo(s, b) \in Nat
    BY <1>3, UpToNat
  <2>2. CASE j >= b
    <3>1. UpTo(s, b) <= UpTo(s, j)
      BY <1>3, <2>1, <2>2, UpToGrows
    <3> QED  BY <1>3, <2>1, <2>2, <3>1
  <2>3. CASE ~(j >= b)
    <3>1. ~(b <= j) /\ j \in Nat /\ j <= Len(s)
      BY <1>1, <1>3, <2>3
    <3>2. j \notin S
      BY <1>2, <3>1
    <3> QED  BY <2>3, <3>1, <3>2
  <2> QED  BY <2>2, <2>3
<1>9. UpTo(s, b - 1) <= i
  BY <1>6, <1>7
<1> QED  BY <1>5, <1>8, <1>9

\* The bucket that a unit finds an element of another one in, from what it knows, and the
\* one that the owner finds it in are the one bucket that holds it.
LEMMA SamePosition ==
  ASSUME HeapTypeOK, NEW u \in Unit, NEW sums \in Seq(Int), Len(sums) = Len(buckets[u]),
         Tells(sums, buckets[u], Len(buckets[u])),
         NEW i \in Nat, i < UpTo(buckets[u], Len(buckets[u]))
  PROVE  \E b \in 1 .. Len(buckets[u]) :
            /\ Position(sums, i) = [bucket |-> b, phase |-> i - UpTo(buckets[u], b - 1)]
            /\ LocalPosition(u, i) =
                 [unit |-> u, phase |-> i - UpTo(buckets[u], b - 1), seg |-> buckets[u][b].seg]
<1> DEFINE s == buckets[u]
<1>1. s \in Seq(Bucket) /\ Len(s) \in Nat /\ DOMAIN s = 1 .. Len(s) /\ DOMAIN sums = 1 .. Len(s)
  BY DEF HeapTypeOK
<1>2. \A j \in 1 .. Len(s) : sums[j] = UpTo(s, j)
  BY DEF Tells
<1>3. UpTo(s, 0) = 0 /\ \A j \in 0 .. Len(s) : UpTo(s, j) \in Nat
  BY <1>1, UpToNext, UpToNat
<1>4. PICK b \in 1 .. Len(s) :
        /\ UpTo(s, b - 1) <= i
        /\ \A j \in 1 .. Len(s) : i < UpTo(s, j) <=> j >= b
  <2> HIDE DEF s
  <2> QED  BY <1>1, OneBucket DEF s
<1> DEFINE P(j) == i < sums[j] /\ \A k \in 1 .. (j - 1) : ~(i < sums[k])
           Q(j) == i >= UpTo(s, j - 1) /\ i < UpTo(s, j)
           x == CHOOSE j \in DOMAIN sums : P(j)
           y == CHOOSE j \in DOMAIN s : Q(j)
           phase == i - (IF x = 1 THEN 0 ELSE sums[x - 1])
<1>5. Position(sums, i) = [bucket |-> x, phase |-> phase]
  BY DEF Position
<1>6. LocalPosition(u, i) = [unit |-> u, phase |-> i - UpTo(s, y - 1), seg |-> s[y].seg]
  BY DEF LocalPosition
<1> HIDE DEF s
<1>7. x = b
  <2>1. b \in DOMAIN sums /\ P(b)
    <3>1. \A k \in 1 .. (b - 1) : k \in 1 .. Len(s) /\ ~(k >= b)
      BY <1>1
    <3>2. i < sums[b] /\ \A k \in 1 .. (b - 1) : ~(i < sums[k])
      BY <1>1, <1>2, <1>4, <3>1
    <3> QED  BY <1>1, <3>2
  <2>2. ASSUME NEW j \in DOMAIN sums, P(j) PROVE j = b
    <3>1. j \in 1 .. Len(s) /\ j >= b
      BY <1>1, <1>2, <1>4, <2>2
    <3>2. b \in 1 .. (j - 1) => ~(i < sums[b])
      BY <2>2
    <3>3. i < sums[b]
      BY <2>1
    <3> QED  BY <1>1, <3>1, <3>2, <3>3
  <2> HIDE DEF P
  <2>3. x \in DOMAIN sums /\ P(x)
    BY <2>1, Zenon
  <2> QED  BY <2>2, <2>3
<1>8. y = b
  <2>1. b \in DOMAIN s /\ Q(b)
    BY <1>1, <1>3, <1>4
  <2>2. ASSUME NEW j \in DOMAIN s, Q(j) PROVE j = b
    <3>1. j \in 1 .. Len(s) /\ j >= b
      BY <1>1, <1>4, <2>2
    <3>2. CASE j = 1
      BY <1>1, <3>1, <3>2
    <3>3. CASE j # 1
      <4>1. j - 1 \in 1 .. Len(s) /\ j - 1 \in 0 .. Len(s)
        BY <1>1, <3>1, <3>3
      <4>2. ~(i < UpTo(s, j - 1))
        BY <1>3, <2>2, <4>1
      <4>3. ~(j - 1 >= b)
        BY <1>4, <4>1, <4>2
      <4> QED  BY <1>1, <3>1, <4>3
    <3> QED  BY <3>2, <3>3
  <2> HIDE DEF Q
  <2>3. y \in DOMAIN s /\ Q(y)
    BY <2>1, Zenon
  <2> QED  BY <2>2, <2>3
<1>9. phase = i - UpTo(s, b - 1)
  <2>1. CASE b = 1
    BY <1>3, <1>7, <2>1
  <2>2. CASE b # 1
    <3>1. b - 1 \in 1 .. Len(s)
      BY <1>1, <2>2
    <3>2. sums[b - 1] = UpTo(s, b - 1)
      BY <1>2, <3>1
    <3> QED  BY <1>7, <2>2, <3>2
  <2> QED  BY <2>1, <2>2
<1> HIDE DEF x, y, phase
<1> QED  BY <1>5, <1>6, <1>7, <1>8, <1>9 DEF s

\* From what is known of the places follows that the addresses are right.
LEMMA ResolvedAddresses == HeapTypeOK /\ BooksInv /\ PlacesInv /\ RoundsInv => AddressesResolve
<1> SUFFICES ASSUME HeapTypeOK, BooksInv, PlacesInv, RoundsInv, ~past.uneven, past.mixed = {},
                    NEW v \in Unit, NEW u \in Unit, Settled(v, u), NEW i \in 0 .. (local_size[u] - 1)
             PROVE  dart_gptr_at(v, u, Position(cumul[v][u], i)) = LocalPosition(u, i)
  BY DEF AddressesResolve
<1> DEFINE s == buckets[u]
           sums == cumul[v][u]
<1>1. /\ s \in Seq(Bucket) /\ Len(s) \in Nat /\ local_size[u] \in Nat
      /\ regs[u] \in Nat /\ regs[v] \in Nat /\ Len(buckets[v]) \in Nat
  <2>1. s \in Seq(Bucket) /\ buckets[v] \in Seq(Bucket)
    BY DEF HeapTypeOK
  <2>2. local_size[u] \in Nat /\ regs[u] \in Nat /\ regs[v] \in Nat
    BY DEF HeapTypeOK
  <2> HIDE DEF s
  <2> QED  BY <2>1, <2>2
<1>2. OwnPlaces(u) /\ OwnPlaces(v) /\ OwnBooks(u) /\ OwnBooks(v)
  BY DEF PlacesInv, BooksInv
<1>3. Len(sums) = Len(s) /\ Tells(sums, s, Len(s))
  <2>1. CASE v = u
    BY <1>2, <2>1 DEF OwnPlaces
  <2>2. CASE v # u
    <3>1. KnowsPlaces(v, u) /\ Fresh(v, u)
      BY <2>2, SettledIsFresh DEF PlacesInv
    <3> QED  BY <3>1 DEF KnowsPlaces
  <2> QED  BY <2>1, <2>2
<1>4. Len(s) = regs[u] /\ \A b \in 1 .. regs[u] : s[b].seg = b
  <2>1. num_attach[u] = 0 /\ num_attach[u] = (Len(s) - attach_first[u]) + 1
    <3>1. Running(u) /\ ops[u].epoch = 0
      BY DEF Settled
    <3> QED  BY <1>2, <3>1 DEF OwnBooks
  <2>2. attach_first[u] = regs[u] + 1 /\ \A b \in 1 .. regs[u] : s[b].seg = b
    BY <1>2 DEF OwnPlaces
  <2> HIDE DEF s
  <2> QED  BY <1>1, <2>1, <2>2
<1>5. regs[v] = regs[u]
  <2>1. stage[v] = stage[u] /\ stage[v] % 4 = 0
    BY DEF Settled, Running
  <2>2. Base(u) = Base(v)
    BY <2>1, RoundsAre DEF PairRounds
  <2> QED  BY <2>1, <2>2 DEF Base
<1>6. regs[v] <= Len(buckets[v]) /\ \A b \in 1 .. regs[v] : buckets[v][b].seg = b
  <2>1. attach_first[v] \in 1 .. Len(buckets[v]) + 1
    BY <1>2 DEF OwnBooks
  <2>2. attach_first[v] = regs[v] + 1 /\ \A b \in 1 .. regs[v] : buckets[v][b].seg = b
    BY <1>2 DEF OwnPlaces
  <2>3. regs[v] + 1 <= Len(buckets[v]) + 1
    BY <1>1, <2>1, <2>2
  <2>4. regs[v] <= Len(buckets[v])
    BY <1>1, <2>3
  <2> QED  BY <2>2, <2>4
<1>7. i \in Nat /\ i < UpTo(s, Len(s)) /\ sums \in Seq(Int)
  <2>1. local_size[u] = UpTo(s, Len(s))
    BY <1>2 DEF OwnBooks
  <2>2. sums \in Seq(Int) \ {<<>>}
    BY CumulType
  <2> HIDE DEF s, sums
  <2> QED  BY <1>1, <2>1, <2>2
<1>8. PICK b \in 1 .. Len(s) :
        /\ Position(sums, i) = [bucket |-> b, phase |-> i - UpTo(s, b - 1)]
        /\ LocalPosition(u, i) = [unit |-> u, phase |-> i - UpTo(s, b - 1), seg |-> s[b].seg]
  <2> HIDE DEF sums
  <2> QED  BY <1>3, <1>7, SamePosition
<1>9. b \in DOMAIN buckets[v] /\ buckets[v][b].seg = b /\ s[b].seg = b
  <2> HIDE DEF s
  <2>1. b \in 1 .. Len(buckets[v]) /\ b \in 1 .. regs[v] /\ b \in 1 .. regs[u]
    BY <1>1, <1>4, <1>5, <1>6
  <2> QED  BY <1>1, <1>4, <1>6, <2>1
<1> HIDE DEF s, sums
<1>10. dart_gptr_at(v, u, Position(sums, i)) = LocalPosition(u, i)
  BY <1>8, <1>9 DEF dart_gptr_at
<1> QED  BY <1>10 DEF sums

----------------------------------------------------------------------------
(* The theorems. *)

\* Every step keeps the inductive invariant.
LEMMA HeapInvStep == HeapInv /\ [Next]_vars => HeapInv'
<1> SUFFICES ASSUME HeapInv, [Next]_vars PROVE HeapInv'
  OBVIOUS
<1>1. CASE Next
  <2>1. PICK u \in Unit : StepOf(u)
    BY <1>1 DEF Next, StepOf
  <2>2. HeapTypeOK /\ BooksInv /\ StageInv /\ KnowsInv /\ RemoteInv /\ PlacesInv /\ RoundsInv
    BY DEF HeapInv
  <2>3. HeapTypeOK' /\ BooksInv' /\ StageInv'
    BY <2>1, <2>2, HeapTypeStep, BooksStep, StageStep
  <2>4. KnowsInv' /\ RemoteInv'
    BY <2>1, <2>2, KnowsStep, RemoteStep
  <2>5. PlacesInv' /\ RoundsInv'
    BY <2>1, <2>2, PlacesStep, RoundsStep
  <2> QED  BY <2>3, <2>4, <2>5 DEF HeapInv
<1>2. CASE UNCHANGED vars
  <2> USE <1>2 DEF vars, memory, HeapInv
  <2>1. HeapTypeOK' /\ BooksInv' /\ StageInv'
    BY DEF HeapTypeOK, BooksInv, OwnBooks, Running, StageInv
  <2>2. KnowsInv' /\ RemoteInv'
    BY DEF KnowsInv, Knows, Fresh, AttachedSize, Running, RemoteInv
  <2>3. PlacesInv'
    BY DEF PlacesInv, OwnPlaces, KnowsPlaces, Fresh
  <2>4. RoundsInv'
    <3>1. UNCHANGED <<num_attach, max_attach, attached, stage, regs>>
      BY DEF vars, memory
    <3>2. \A u \in Unit : Base(u)' = Base(u) /\ (Gathered(u)' <=> Gathered(u))
      BY <3>1 DEF Base, Gathered
    <3>3. RoundsInv
      BY DEF HeapInv
    <3>4. \A u \in Unit : OwnRounds(u)'
      BY <3>1, <3>3, RoundsAre DEF OwnRounds
    <3>5. \A u, v \in Unit : PairRounds(u, v)'
      BY <3>1, <3>2, <3>3, RoundsAre DEF PairRounds
    <3> QED  BY <3>4, <3>5 DEF RoundsInv, OwnRounds, PairRounds
  <2> QED  BY <2>1, <2>2, <2>3, <2>4
<1> QED  BY <1>1, <1>2

\* The inductive invariant holds of every behaviour.
LEMMA HeapInvHolds == Spec => []HeapInv
<1>1. Init => HeapInv
  BY BooksInit, SizesInit, PlacesInit DEF HeapInv
<1> QED  BY <1>1, HeapInvStep, PTL DEF Spec

\* The counters of the heap are numbers and its lists are lists: nothing that a unit takes
\* away from a size, a list or a number of buckets to attach was not there.
THEOREM HeapTypesHold == Spec => []HeapTypeOK
<1>1. HeapInv => HeapTypeOK
  BY DEF HeapInv
<1> QED  BY <1>1, HeapInvHolds, PTL

\* The books of every unit about its own memory are balanced at every moment, for any
\* mix of calls of grow and shrink and any number of units (GlobHeapMem.h).
THEOREM BooksStayBalanced == Spec => []BooksAreBalanced
<1>1. HeapInv => BooksAreBalanced
  BY BalancedBooks DEF HeapInv
<1> QED  BY <1>1, HeapInvHolds, PTL

\* After a commit everybody knows the size of the heap, and the size of every unit that did
\* not mix giving up attached memory with adding buckets (update_remote_size).
THEOREM SizesAlwaysAgree == Spec => []SizesAgree
<1>1. HeapInv => SizesAgree
  BY AgreedSizes DEF HeapInv
<1> QED  BY <1>1, HeapInvHolds, PTL

\* The address that a unit computes for an element of another unit after a commit is where
\* the owner keeps it, as long as the units attach equally many buckets in every commit
\* and detach no whole one (dart_gptr_at of GlobHeapMem.h and GlobHeapPtr).
THEOREM AddressesAlwaysResolve == Spec => []AddressesResolve
<1>1. HeapInv => AddressesResolve
  BY ResolvedAddresses DEF HeapInv
<1> QED  BY <1>1, HeapInvHolds, PTL

=============================================================================
