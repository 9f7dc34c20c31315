---------------------------- MODULE ListSortProofs ----------------------------
(***************************************************************************)
(* Three programs of src/common that work on data: qsort sorts, for every  *)
(* set of keys, array and threshold, and its stack never holds more parts  *)
(* than the array's length can be halved; the linked lists are sequences;  *)
(* and the allocator on top of them keeps what is in its blocks.           *)
(*                                                                         *)
(* The loops over the array and along the links are recursive functions of *)
(* the model.  What they compute is proved by induction on sets of         *)
(* integers: from UpTo, in place of an induction theorem that takes a      *)
(* predicate.                                                              *)
(***************************************************************************)
EXTENDS QuickSort, LinkedList, ManagedMemory, FunctionTheorems, FiniteSetTheorems,
        SequenceTheorems, WellFoundedInduction, TLAPS

(***************************************************************************)
(* Induction, and loops.                                                   *)
(***************************************************************************)
(* What holds at lo, and with each number at the next, holds up to hi. *)
LEMMA UpTo ==
    ASSUME NEW lo \in Int, NEW hi \in Int, NEW T,
           lo \in T, \A i \in lo .. hi - 1 : i \in T => i + 1 \in T
    PROVE  \A i \in lo .. hi : i \in T
<1> DEFINE less == OpToRel(<, Nat)
           missing == {k \in Nat : lo + k <= hi /\ lo + k \notin T}
<1>1. IsWellFoundedOn(less, Nat)
  BY NatLessThanWellFounded
<1>2. ASSUME missing # {} PROVE FALSE
  <2>1. PICK k \in missing : \A j \in missing : <<j, k>> \notin less
    <3> HIDE DEF less
    <3>1. missing \subseteq Nat
      OBVIOUS
    <3> HIDE DEF missing
    <3> QED
      BY <1>1, <1>2, <3>1, WFMin
  <2>2. k \in Nat /\ lo + k <= hi /\ lo + k \notin T /\ k # 0
    OBVIOUS
  <2>3. k \in Nat \ {0}
    BY <2>2
  <2>4. PICK j \in Nat : k = j + 1
    <3>1. k - 1 \in Nat /\ k = (k - 1) + 1
      BY <2>3
    <3> QED
      BY <3>1
  <2>5. <<j, k>> \in less
    BY <2>4 DEF OpToRel
  <2>6. j \notin missing
    BY <2>1, <2>5
  <2>7. lo + j \in Int /\ lo + j <= hi - 1 /\ lo <= lo + j /\ (lo + j) + 1 = lo + k
    BY <2>2, <2>4
  <2>8. lo + j \in T
    BY <2>6, <2>7
  <2>9. lo + j \in lo .. hi - 1
    BY <2>7
  <2>10. (lo + j) + 1 \in T
    BY <2>8, <2>9
  <2> QED
    BY <2>2, <2>7, <2>10
<1>3. SUFFICES ASSUME NEW i \in lo .. hi, i \notin T PROVE FALSE
  OBVIOUS
<1>4. i - lo \in Nat /\ lo + (i - lo) = i
  OBVIOUS
<1>5. i - lo \in missing
  BY <1>3, <1>4
<1> QED
  BY <1>2, <1>5

(* A set of integers with a lower bound has a least element. *)
LEMMA LeastOf ==
    ASSUME NEW lo \in Int, NEW hi \in Int, NEW T, T \subseteq lo .. hi, T # {}
    PROVE  \E t \in T : \A s \in T : t <= s
<1> DEFINE Above == {i \in lo .. hi + 1 : \A s \in T : i <= s}
<1>1. SUFFICES ASSUME \A t \in T : \E s \in T : s < t PROVE FALSE
  BY SMT
<1> PICK any \in T : TRUE
  OBVIOUS
<1>2. lo \in Above
  BY any \in lo .. hi
<1>3. \A i \in lo .. (hi + 1) - 1 : i \in Above => i + 1 \in Above
  <2> SUFFICES ASSUME NEW i \in lo .. hi, i \in Above PROVE i + 1 \in Above
    BY SMT
  <2>1. i \notin T
    BY <1>1
  <2> QED
    BY <2>1
<1>4. \A i \in lo .. hi + 1 : i \in Above
  <2> HIDE DEF Above
  <2> QED
    BY <1>2, <1>3, hi + 1 \in Int, UpTo
<1>5. hi + 1 \in Above
  BY <1>4, any \in lo .. hi
<1> QED
  BY <1>5, any \in lo .. hi

(* A loop from lo to hi that begins with b and goes on by F has a value at each turn. *)
Body(F, lo, hi, S) == F \in [lo .. hi -> [S -> S]]

Run(f, b, F, lo, hi, S) ==
    /\ f \in [lo .. hi -> S]
    /\ f[lo] = b
    /\ \A k \in lo + 1 .. hi : f[k] = F[k][f[k - 1]]

LEMMA LoopRuns ==
    ASSUME NEW lo \in Int, NEW hi \in Int, lo <= hi, NEW S, NEW b \in S,
           NEW F, Body(F, lo, hi, S)
    PROVE  \E f \in [lo .. hi -> S] : Run(f, b, F, lo, hi, S)
<1> USE DEF Body
<1> DEFINE Runs(f, i) == f[lo] = b /\ \A k \in lo + 1 .. i : f[k] = F[k][f[k - 1]]
           T == {i \in lo .. hi : \E f \in [lo .. i -> S] : Runs(f, i)}
<1>1. lo \in T
  <2>1. [k \in lo .. lo |-> b] \in [lo .. lo -> S] /\ Runs([k \in lo .. lo |-> b], lo)
    OBVIOUS
  <2>2. \E f \in [lo .. lo -> S] : Runs(f, lo)
    BY <2>1
  <2>3. lo \in lo .. hi
    OBVIOUS
  <2> HIDE DEF Runs
  <2> QED
    BY <2>2, <2>3
<1>2. \A i \in lo .. hi - 1 : i \in T => i + 1 \in T
  <2> SUFFICES ASSUME NEW i \in lo .. hi - 1, i \in T PROVE i + 1 \in T
    OBVIOUS
  <2>1. PICK f \in [lo .. i -> S] : Runs(f, i)
    OBVIOUS
  <2> DEFINE g == [k \in lo .. i + 1 |-> IF k = i + 1 THEN F[k][f[i]] ELSE f[k]]
  <2>2. f[i] \in S /\ i + 1 \in lo .. hi /\ F[i + 1][f[i]] \in S
    OBVIOUS
  <2>3. g \in [lo .. i + 1 -> S]
    <3> SUFFICES ASSUME NEW k \in lo .. i + 1 PROVE g[k] \in S
      OBVIOUS
    <3>1. CASE k = i + 1
      BY <2>2, <3>1
    <3>2. CASE k # i + 1
      <4>1. k \in lo .. i
        BY <3>2
      <4> QED
        BY <4>1, <3>2
    <3> QED
      BY <3>1, <3>2
  <2>4. g[lo] = b
    BY <2>1
  <2>5. ASSUME NEW k \in lo + 1 .. i + 1 PROVE g[k] = F[k][g[k - 1]]
    <3>1. CASE k = i + 1
      <4>1. k - 1 = i /\ i \in lo .. i + 1 /\ i # i + 1 /\ k \in lo .. i + 1
        BY <3>1
      <4>2. g[k] = F[k][f[i]] /\ g[i] = f[i]
        BY <3>1, <4>1
      <4> QED
        BY <4>1, <4>2
    <3>2. CASE k # i + 1
      <4>1. k \in lo + 1 .. i /\ k - 1 \in lo .. i
        BY <3>2
      <4>2. g[k] = f[k] /\ g[k - 1] = f[k - 1]
        BY <4>1
      <4> QED
        BY <2>1, <4>1, <4>2
    <3> QED
      BY <3>1, <3>2
  <2>6. \E h \in [lo .. i + 1 -> S] : Runs(h, i + 1)
    BY <2>3, <2>4, <2>5
  <2> HIDE DEF Runs
  <2> QED
    BY <2>2, <2>6
<1>3. hi \in T
  <2> HIDE DEF T
  <2>1. \A i \in lo .. hi : i \in T
    BY <1>1, <1>2, UpTo
  <2> QED
    BY <2>1
<1>4. \E f \in [lo .. hi -> S] : Runs(f, hi)
  <2> HIDE DEF Runs
  <2> QED
    BY <1>3
<1> QED
  BY <1>4 DEF Run

(***************************************************************************)
(* Rearranging a part of the array.                                        *)
(***************************************************************************)
(* b has the items of a, those outside lo .. hi where they are. *)
Shuffled(a, b, lo, hi) ==
    \E f \in Bijection(DOMAIN a, DOMAIN a) :
        /\ b = [k \in DOMAIN a |-> a[f[k]]]
        /\ \A k \in DOMAIN a : /\ k \in lo .. hi => f[k] \in lo .. hi
                               /\ k \notin lo .. hi => f[k] = k

LEMMA ShuffledNot ==
    ASSUME NEW n \in Nat, NEW a \in [1 .. n -> Key], NEW lo \in Int, NEW hi \in Int
    PROVE  Shuffled(a, a, lo, hi)
<1> DEFINE f == [k \in 1 .. n |-> k]
<1>1. f \in Bijection(1 .. n, 1 .. n)
  BY Fun_IsBij
<1>2. a = [k \in DOMAIN a |-> a[f[k]]] /\ DOMAIN a = 1 .. n
  OBVIOUS
<1>3. \A k \in DOMAIN a : /\ k \in lo .. hi => f[k] \in lo .. hi
                          /\ k \notin lo .. hi => f[k] = k
  OBVIOUS
<1> HIDE DEF f
<1> QED
  BY <1>1, <1>2, <1>3 DEF Shuffled

LEMMA ShuffledTwice ==
    ASSUME NEW n \in Nat, NEW a \in [1 .. n -> Key], NEW b, NEW c,
           NEW lo \in Int, NEW hi \in Int, Shuffled(a, b, lo, hi), Shuffled(b, c, lo, hi)
    PROVE  Shuffled(a, c, lo, hi)
<1>1. PICK f \in Bijection(1 .. n, 1 .. n) :
        /\ b = [k \in 1 .. n |-> a[f[k]]]
        /\ \A k \in 1 .. n : /\ k \in lo .. hi => f[k] \in lo .. hi
                             /\ k \notin lo .. hi => f[k] = k
  BY DEF Shuffled
<1>2. PICK g \in Bijection(1 .. n, 1 .. n) :
        /\ c = [k \in 1 .. n |-> b[g[k]]]
        /\ \A k \in 1 .. n : /\ k \in lo .. hi => g[k] \in lo .. hi
                             /\ k \notin lo .. hi => g[k] = k
  BY <1>1 DEF Shuffled
<1> DEFINE h == [k \in 1 .. n |-> f[g[k]]]
<1>3. h \in Bijection(1 .. n, 1 .. n)
  BY Fun_BijTransitive
<1>4. f \in [1 .. n -> 1 .. n] /\ g \in [1 .. n -> 1 .. n]
  BY Fun_BijectionProperties
<1>5. c = [k \in 1 .. n |-> a[h[k]]]
  BY <1>1, <1>2, <1>4
<1>6. \A k \in 1 .. n : /\ k \in lo .. hi => h[k] \in lo .. hi
                        /\ k \notin lo .. hi => h[k] = k
  BY <1>1, <1>2, <1>4
<1>7. DOMAIN a = 1 .. n
  OBVIOUS
<1> HIDE DEF h
<1> QED
  BY <1>3, <1>5, <1>6, <1>7 DEF Shuffled

LEMMA ShuffledWithin ==
    ASSUME NEW n \in Nat, NEW a \in [1 .. n -> Key], NEW b,
           NEW lo \in Int, NEW hi \in Int, NEW i \in Int, NEW j \in Int,
           lo <= i, j <= hi, Shuffled(a, b, i, j)
    PROVE  Shuffled(a, b, lo, hi)
<1>1. PICK f \in Bijection(1 .. n, 1 .. n) :
        /\ b = [k \in 1 .. n |-> a[f[k]]]
        /\ \A k \in 1 .. n : /\ k \in i .. j => f[k] \in i .. j
                             /\ k \notin i .. j => f[k] = k
  BY DEF Shuffled
<1>2. \A k \in 1 .. n : /\ k \in lo .. hi => f[k] \in lo .. hi
                        /\ k \notin lo .. hi => f[k] = k
  BY <1>1
<1>3. DOMAIN a = 1 .. n
  OBVIOUS
<1> QED
  BY <1>1, <1>2, <1>3 DEF Shuffled

(* Each item of b in lo .. hi is one of those of a there. *)
From(a, b, n, lo, hi) ==
    /\ b \in [1 .. n -> Key]
    /\ \A k \in (1 .. n) \ (lo .. hi) : b[k] = a[k]
    /\ \A k \in (1 .. n) \cap (lo .. hi) :
         \E i \in (1 .. n) \cap (lo .. hi) : b[k] = a[i]

LEMMA ShuffledFrom ==
    ASSUME NEW n \in Nat, NEW a \in [1 .. n -> Key], NEW b,
           NEW lo \in Int, NEW hi \in Int, Shuffled(a, b, lo, hi)
    PROVE  From(a, b, n, lo, hi)
<1>1. PICK f \in Bijection(1 .. n, 1 .. n) :
        /\ b = [k \in 1 .. n |-> a[f[k]]]
        /\ \A k \in 1 .. n : /\ k \in lo .. hi => f[k] \in lo .. hi
                             /\ k \notin lo .. hi => f[k] = k
  BY DEF Shuffled
<1>2. f \in [1 .. n -> 1 .. n]
  BY Fun_BijectionProperties
<1> QED
  BY <1>1, <1>2 DEF From

(* There are as many items of a key as before. *)
Having(a, x) == {i \in DOMAIN a : a[i] = x}

LEMMA ShuffledSame ==
    ASSUME NEW n \in Nat, NEW a \in [1 .. n -> Key], NEW b,
           NEW lo \in Int, NEW hi \in Int, Shuffled(a, b, lo, hi), NEW x \in Key
    PROVE  Cardinality(Having(b, x)) = Cardinality(Having(a, x))
<1> USE DEF Having
<1>1. PICK f \in Bijection(1 .. n, 1 .. n) : b = [k \in 1 .. n |-> a[f[k]]]
  BY DEF Shuffled
<1>2. /\ f \in [1 .. n -> 1 .. n]
      /\ \A i, j \in 1 .. n : f[i] = f[j] => i = j
      /\ \A t \in 1 .. n : \E s \in 1 .. n : f[s] = t
  <2> DEFINE S == 1 .. n
  <2>1. f \in Bijection(S, S)
    OBVIOUS
  <2> HIDE DEF S
  <2>2. /\ f \in [S -> S]
        /\ \A i, j \in S : f[i] = f[j] => i = j
        /\ \A t \in S : \E s \in S : f[s] = t
    BY <2>1, Fun_BijectionProperties
  <2> QED
    BY <2>2 DEF S
<1> DEFINE A == {i \in 1 .. n : a[i] = x}
           B == {i \in 1 .. n : b[i] = x}
           g == [i \in B |-> f[i]]
<1>3. g \in Bijection(B, A)
  <2>1. g \in [B -> A]
    BY <1>1, <1>2
  <2>2. \A i, j \in B : g[i] = g[j] => i = j
    BY <1>2
  <2>3. \A t \in A : \E s \in B : g[s] = t
    BY <1>1, <1>2
  <2> HIDE DEF g, A, B
  <2> QED
    BY <2>1, <2>2, <2>3, Fun_IsBij
<1>4. IsFiniteSet(B)
  <2>1. IsFiniteSet(1 .. n) /\ B \subseteq 1 .. n
    BY FS_Interval
  <2> QED
    BY <2>1, FS_Subset
<1>5. Cardinality(A) = Cardinality(B)
  <2> HIDE DEF g, A, B
  <2>1. ExistsBijection(B, A)
    BY <1>3 DEF ExistsBijection
  <2> QED
    BY <1>4, <2>1, FS_Bijection
<1>6. DOMAIN a = 1 .. n /\ DOMAIN b = 1 .. n
  BY <1>1
<1> QED
  BY <1>5, <1>6

LEMMA ShuffledBySwap ==
    ASSUME NEW n \in Nat, NEW a \in [1 .. n -> Key], NEW lo \in Int, NEW hi \in Int,
           NEW i \in 1 .. n, NEW j \in 1 .. n, i \in lo .. hi, j \in lo .. hi
    PROVE  /\ Shuffled(a, Swap(a, i, j), lo, hi)
           /\ \A k \in 1 .. n : Swap(a, i, j)[k] = IF k = j THEN a[i]
                                                   ELSE IF k = i THEN a[j] ELSE a[k]
<1> DEFINE f == [k \in 1 .. n |-> IF k = j THEN i ELSE IF k = i THEN j ELSE k]
<1>1. f \in Bijection(1 .. n, 1 .. n)
  <2>1. f \in [1 .. n -> 1 .. n]
    OBVIOUS
  <2>2. \A k \in 1 .. n : f[f[k]] = k
    OBVIOUS
  <2> HIDE DEF f
  <2>3. \A k, m \in 1 .. n : f[k] = f[m] => k = m
    BY <2>2
  <2>4. \A k \in 1 .. n : \E m \in 1 .. n : f[m] = k
    BY <2>1, <2>2
  <2> QED
    BY <2>1, <2>3, <2>4, Fun_IsBij
<1>2. \A k \in 1 .. n : Swap(a, i, j)[k] = IF k = j THEN a[i]
                                           ELSE IF k = i THEN a[j] ELSE a[k]
  BY DEF Swap
<1>3. Swap(a, i, j) = [k \in 1 .. n |-> a[f[k]]]
  <2>1. Swap(a, i, j) = [k \in 1 .. n |-> Swap(a, i, j)[k]]
    BY DEF Swap
  <2>2. \A k \in 1 .. n : Swap(a, i, j)[k] = a[f[k]]
    BY <1>2
  <2> QED
    BY <2>1, <2>2
<1>4. \A k \in 1 .. n : /\ k \in lo .. hi => f[k] \in lo .. hi
                        /\ k \notin lo .. hi => f[k] = k
  OBVIOUS
<1>5. DOMAIN a = 1 .. n
  OBVIOUS
<1> HIDE DEF f
<1> QED
  BY <1>1, <1>2, <1>3, <1>4, <1>5 DEF Shuffled

(***************************************************************************)
(* Partition.                                                              *)
(***************************************************************************)
(* The loop of Partition, over the array with the pivot at its right end. *)
Turn(i, s, right) ==
    IF s.a[right] > s.a[i - 1]
    THEN [a |-> Swap(s.a, i - 1, s.store), store |-> s.store + 1] ELSE s

LEMMA SwapKeeps ==
    ASSUME NEW n \in Nat, NEW a \in [1 .. n -> Key], NEW i \in 1 .. n, NEW j \in 1 .. n
    PROVE  Swap(a, i, j) \in [1 .. n -> Key]
BY DEF Swap

Turns(f, a, left, right) ==
    /\ f[left] = [a |-> Swap(a, left + (right - left) \div 2, right), store |-> left]
    /\ \A i \in left + 1 .. right : f[i - 1].store < i /\ f[i] = Turn(i, f[i - 1], right)
    /\ f[right].store <= right
    /\ Partition(a, left, right) = [f[right] EXCEPT !.a = Swap(@, right, f[right].store)]

LEMMA PartitionLoop ==
    ASSUME NEW n \in Nat, NEW a \in [1 .. n -> Key],
           NEW left \in 1 .. n, NEW right \in left .. n
    PROVE  \E f \in [left .. right -> [a : [1 .. n -> Key], store : left .. right]] :
             Turns(f, a, left, right)
<1> DEFINE pivoted == Swap(a, left + (right - left) \div 2, right)
           b == [a |-> pivoted, store |-> left]
           S == [a : [1 .. n -> Key], store : left .. right]
           F == [i \in left .. right |->
                   [s \in S |-> IF i # left /\ s.store < i THEN Turn(i, s, right) ELSE s]]
           seen[i \in left .. right] ==
            IF i = left THEN [a |-> pivoted, store |-> left]
            ELSE LET s == seen[i - 1] IN
                 IF s.a[right] > s.a[i - 1]
                 THEN [a |-> Swap(s.a, i - 1, s.store), store |-> s.store + 1]
                 ELSE s
<1>0. /\ left \in Int /\ right \in Int /\ left <= right
      /\ left \in left .. right /\ right \in left .. right
  OBVIOUS
<1>1. Partition(a, left, right) = [seen[right] EXCEPT !.a = Swap(@, right, seen[right].store)]
  BY DEF Partition
<1>2. b \in S
  <2>1. left + (right - left) \div 2 \in 1 .. n
    OBVIOUS
  <2>2. pivoted \in [1 .. n -> Key]
    BY <2>1, SwapKeeps
  <2> QED
    BY <2>2
<1>3. F \in [left .. right -> [S -> S]]
  <2> SUFFICES ASSUME NEW i \in left .. right, NEW s \in S, i # left, s.store < i
               PROVE  Turn(i, s, right) \in S
    OBVIOUS
  <2>1. i - 1 \in 1 .. n /\ s.store \in 1 .. n /\ s.a \in [1 .. n -> Key]
    OBVIOUS
  <2>2. Swap(s.a, i - 1, s.store) \in [1 .. n -> Key] /\ s.store + 1 \in left .. right
    BY <2>1, SwapKeeps
  <2> QED
    BY <2>2 DEF Turn
<1>4. PICK f \in [left .. right -> S] : Run(f, b, F, left, right, S)
  <2>1. Body(F, left, right, S)
    BY <1>3 DEF Body
  <2> HIDE DEF b, F, S
  <2> QED
    BY <1>0, <1>2, <2>1, LoopRuns
<1>5. f[left] = b /\ \A k \in left + 1 .. right : f[k] = F[k][f[k - 1]]
  BY <1>4 DEF Run
<1> DEFINE T == {k \in left .. right : f[k].store <= k}
<1>6. \A i \in left .. right : i \in T
  <2>1. left \in T
    <3>1. f[left] = b
      BY <1>0, <1>5
    <3> QED
      BY <1>0, <3>1
  <2>2. ASSUME NEW i \in left .. right - 1, i \in T PROVE i + 1 \in T
    <3>1. /\ i + 1 \in left .. right /\ i + 1 # left /\ (i + 1) - 1 = i
          /\ f[i] \in S /\ f[i].store < i + 1
      BY <2>2
    <3>2. f[i + 1] = F[i + 1][f[i]]
      <4>1. i + 1 \in left + 1 .. right
        OBVIOUS
      <4>2. f[i + 1] = F[i + 1][f[(i + 1) - 1]]
        BY <1>5, <4>1
      <4> HIDE DEF F, S
      <4> QED
        BY <3>1, <4>2
    <3>3. f[i + 1] = Turn(i + 1, f[i], right)
      BY <3>1, <3>2
    <3>4. f[i + 1].store \in {f[i].store, f[i].store + 1}
      BY <3>1, <3>3 DEF Turn
    <3>5. f[i].store \in Int /\ f[i].store <= i
      BY <2>2, <3>1
    <3> HIDE DEF F, S
    <3> QED
      BY <3>1, <3>4, <3>5
  <2> HIDE DEF T
  <2> QED
    BY <1>0, <2>1, <2>2, UpTo
<1>7. ASSUME NEW i \in left + 1 .. right
      PROVE  f[i - 1].store < i /\ f[i] = Turn(i, f[i - 1], right)
  <2>1. i \in left .. right /\ i # left /\ i - 1 \in left .. right /\ f[i - 1] \in S
    OBVIOUS
  <2>2. f[i - 1].store <= i - 1
    BY <1>6, <2>1
  <2>3. f[i - 1].store < i
    BY <2>1, <2>2
  <2>4. f[i] = F[i][f[i - 1]]
    BY <1>5, <2>1
  <2> QED
    BY <2>1, <2>3, <2>4
<1> DEFINE Loop(g) ==
             [i \in left .. right |->
                IF i = left THEN [a |-> pivoted, store |-> left]
                ELSE LET s == g[i - 1] IN
                     IF s.a[right] > s.a[i - 1]
                     THEN [a |-> Swap(s.a, i - 1, s.store), store |-> s.store + 1]
                     ELSE s]
<1>8. f = Loop(f)
  <2>1. f = [i \in left .. right |-> f[i]]
    OBVIOUS
  <2>2. ASSUME NEW i \in left .. right PROVE f[i] = Loop(f)[i]
    <3>1. CASE i = left
      BY <1>5, <3>1
    <3>2. CASE i # left
      <4>1. f[i] = Turn(i, f[i - 1], right)
        BY <1>7, <3>2
      <4> QED
        BY <3>2, <4>1 DEF Turn
    <3> QED
      BY <3>1, <3>2
  <2>3. Loop(f) = [i \in left .. right |-> Loop(f)[i]]
    OBVIOUS
  <2> HIDE DEF Loop
  <2> QED
    BY <2>1, <2>2, <2>3
<1>9. seen = Loop(seen)
  <2>1. seen = CHOOSE g : g = Loop(g)
    OBVIOUS
  <2> HIDE DEF Loop, seen
  <2> QED
    BY <1>8, <2>1
<1>10. seen = f
  <2> DEFINE Q == {i \in left .. right : seen[i] = f[i]}
  <2>1. left \in Q
    <3>1. seen[left] = Loop(seen)[left] /\ f[left] = Loop(f)[left]
      <4> HIDE DEF Loop, seen
      <4> QED
        BY <1>8, <1>9
    <3> HIDE DEF seen
    <3> QED
      BY <3>1
  <2>2. ASSUME NEW i \in left .. right - 1, i \in Q PROVE i + 1 \in Q
    <3>1. seen[i + 1] = Loop(seen)[i + 1] /\ f[i + 1] = Loop(f)[i + 1]
      <4> HIDE DEF Loop, seen
      <4> QED
        BY <1>8, <1>9
    <3>2. seen[i] = f[i] /\ (i + 1) - 1 = i /\ i + 1 \in left .. right /\ i + 1 # left
      BY <2>2
    <3> HIDE DEF seen
    <3> QED
      BY <3>1, <3>2
  <2>3. \A i \in left .. right : i \in Q
    <3> HIDE DEF Q
    <3> QED
      BY <1>0, <2>1, <2>2, UpTo
  <2>4. DOMAIN seen = left .. right /\ seen = [i \in left .. right |-> seen[i]]
    <3>1. seen = [i \in left .. right |-> Loop(seen)[i]]
      <4> HIDE DEF seen
      <4> QED
        BY <1>9
    <3> HIDE DEF seen, Loop
    <3> QED
      BY <3>1
  <2> HIDE DEF seen
  <2> QED
    BY <2>3, <2>4
<1>11. f[left] = b /\ f[right].store <= right
  <2> HIDE DEF b, F, S
  <2> QED
    BY <1>0, <1>5, <1>6
<1> HIDE DEF seen, F
<1>12. Turns(f, a, left, right)
  BY <1>1, <1>7, <1>10, <1>11 DEF Turns
<1> QED
  BY <1>12

(* What the loop of Partition has done when it comes to place i. *)
SplitTo(a, b, store, i, left, right, pivot) ==
    /\ store <= i
    /\ Shuffled(a, b, left, right)
    /\ b[right] = pivot
    /\ \A k \in left .. store - 1 : b[k] < pivot
    /\ \A k \in store .. i - 1 : pivot <= b[k]

LEMMA TurnSwaps ==
    ASSUME NEW n \in Nat, NEW a \in [1 .. n -> Key],
           NEW left \in 1 .. n, NEW right \in left .. n, NEW pivot \in Key,
           NEW b \in [1 .. n -> Key], NEW m \in left .. right, NEW i \in left .. right - 1,
           SplitTo(a, b, m, i, left, right, pivot), pivot > b[i]
    PROVE  SplitTo(a, Swap(b, i, m), m + 1, i + 1, left, right, pivot)
<1> DEFINE c == Swap(b, i, m)
<1>1. /\ left \in Int /\ right \in Int /\ m \in Int /\ i \in Int /\ Key \subseteq Int
      /\ i \in 1 .. n /\ m \in 1 .. n /\ i \in left .. right /\ m <= i
  BY SortAssumption DEF SplitTo
<1>2. /\ Shuffled(b, c, left, right)
      /\ \A k \in 1 .. n : c[k] = IF k = m THEN b[i] ELSE IF k = i THEN b[m] ELSE b[k]
  BY <1>1, ShuffledBySwap
<1> HIDE DEF c
<1>3. Shuffled(a, c, left, right)
  BY <1>1, <1>2, ShuffledTwice DEF SplitTo
<1>4. c[right] = pivot
  <2>1. right \in 1 .. n /\ right # m /\ right # i
    BY <1>1
  <2> QED
    BY <1>2, <2>1 DEF SplitTo
<1>5. ASSUME NEW k \in left .. (m + 1) - 1 PROVE c[k] < pivot
  <2>1. k \in Int /\ left <= k /\ k <= m /\ k \in 1 .. n
    BY <1>1
  <2>2. CASE k = m
    BY <1>1, <1>2, <2>1, <2>2
  <2>3. CASE k # m
    <3>1. k \in left .. m - 1 /\ k # i
      BY <1>1, <2>1, <2>3
    <3> QED
      BY <1>2, <2>1, <2>3, <3>1 DEF SplitTo
  <2> QED
    BY <2>2, <2>3
<1>6. ASSUME NEW k \in m + 1 .. (i + 1) - 1 PROVE pivot <= c[k]
  <2>1. k \in Int /\ m < k /\ k <= i /\ k \in 1 .. n
    BY <1>1
  <2>2. CASE k = i
    <3>1. m \in m .. i - 1 /\ c[k] = b[m]
      BY <1>1, <1>2, <2>1, <2>2
    <3> QED
      BY <3>1 DEF SplitTo
  <2>3. CASE k # i
    <3>1. k \in m .. i - 1 /\ c[k] = b[k]
      BY <1>1, <1>2, <2>1, <2>3
    <3> QED
      BY <3>1 DEF SplitTo
  <2> QED
    BY <2>2, <2>3
<1>7. SplitTo(a, c, m + 1, i + 1, left, right, pivot)
  BY <1>1, <1>3, <1>4, <1>5, <1>6 DEF SplitTo
<1> QED
  BY <1>7 DEF c

LEMMA TurnPasses ==
    ASSUME NEW n \in Nat, NEW a \in [1 .. n -> Key],
           NEW left \in 1 .. n, NEW right \in left .. n, NEW pivot \in Key,
           NEW b \in [1 .. n -> Key], NEW m \in left .. right, NEW i \in left .. right - 1,
           SplitTo(a, b, m, i, left, right, pivot), ~(pivot > b[i])
    PROVE  SplitTo(a, b, m, i + 1, left, right, pivot)
<1>1. /\ left \in Int /\ right \in Int /\ m \in Int /\ i \in Int /\ Key \subseteq Int
      /\ i \in 1 .. n /\ m <= i
  BY SortAssumption DEF SplitTo
<1>2. pivot <= b[i]
  <2>1. b[i] \in Key
    BY <1>1
  <2>2. b[i] \in Int /\ pivot \in Int
    BY <1>1, <2>1
  <2> QED
    BY <2>2
<1>3. ASSUME NEW k \in m .. (i + 1) - 1 PROVE pivot <= b[k]
  <2>1. k = i \/ k \in m .. i - 1
    BY <1>1
  <2> QED
    BY <1>2, <2>1 DEF SplitTo
<1> QED
  BY <1>1, <1>3 DEF SplitTo

(* The last swap of Partition. *)
LEMMA PivotToStore ==
    ASSUME NEW n \in Nat, NEW a \in [1 .. n -> Key],
           NEW left \in 1 .. n, NEW right \in left .. n, NEW pivot \in Key,
           NEW b \in [1 .. n -> Key], NEW m \in left .. right,
           SplitTo(a, b, m, right, left, right, pivot), NEW c, c = Swap(b, right, m)
    PROVE  /\ Shuffled(a, c, left, right)
           /\ c[m] = pivot
           /\ \A k \in left .. m - 1 : c[k] < pivot
           /\ \A k \in m + 1 .. right : pivot <= c[k]
<1>1. /\ left \in Int /\ right \in Int /\ m \in Int /\ Key \subseteq Int
      /\ right \in 1 .. n /\ m \in 1 .. n /\ right \in left .. right
  BY SortAssumption
<1>2. /\ Shuffled(b, c, left, right)
      /\ \A k \in 1 .. n : c[k] = IF k = m THEN b[right] ELSE IF k = right THEN b[m] ELSE b[k]
  BY <1>1, ShuffledBySwap
<1>3. Shuffled(a, c, left, right)
  BY <1>1, <1>2, ShuffledTwice DEF SplitTo
<1>4. c[m] = pivot
  BY <1>1, <1>2 DEF SplitTo
<1>5. ASSUME NEW k \in left .. m - 1 PROVE c[k] < pivot
  <2>1. k \in 1 .. n /\ k # m /\ k # right
    BY <1>1
  <2> QED
    BY <1>2, <2>1 DEF SplitTo
<1>6. ASSUME NEW k \in m + 1 .. right PROVE pivot <= c[k]
  <2>1. k \in Int /\ m < k /\ k <= right /\ k \in 1 .. n /\ k # m
    BY <1>1
  <2>2. CASE k = right
    <3>1. m \in m .. right - 1 /\ c[k] = b[m]
      BY <1>1, <1>2, <2>1, <2>2
    <3> QED
      BY <3>1 DEF SplitTo
  <2>3. CASE k # right
    <3>1. k \in m .. right - 1 /\ c[k] = b[k]
      BY <1>1, <1>2, <2>1, <2>3
    <3> QED
      BY <3>1 DEF SplitTo
  <2> QED
    BY <2>2, <2>3
<1> QED
  BY <1>3, <1>4, <1>5, <1>6

(* Partition puts the pivot at store, and the items less than it to its left. *)
LEMMA PartitionSplits ==
    ASSUME NEW n \in Nat, NEW a \in [1 .. n -> Key],
           NEW left \in 1 .. n, NEW right \in left .. n,
           NEW p, p = Partition(a, left, right)
    PROVE  /\ p.store \in left .. right
           /\ Shuffled(a, p.a, left, right)
           /\ \A k \in left .. p.store - 1 : p.a[k] < p.a[p.store]
           /\ \A k \in p.store + 1 .. right : p.a[p.store] <= p.a[k]
<1> DEFINE S == [a : [1 .. n -> Key], store : left .. right]
           middle == left + (right - left) \div 2
<1>0. /\ left \in Int /\ right \in Int /\ left <= right /\ right \in 1 .. n
      /\ left \in left .. right /\ right \in left .. right
      /\ middle \in 1 .. n /\ middle \in left .. right
  OBVIOUS
<1>a. PICK f \in [left .. right -> S] : Turns(f, a, left, right)
  BY PartitionLoop
<1>1. /\ f[left] = [a |-> Swap(a, middle, right), store |-> left]
      /\ \A i \in left + 1 .. right : f[i - 1].store < i /\ f[i] = Turn(i, f[i - 1], right)
      /\ Partition(a, left, right) = [f[right] EXCEPT !.a = Swap(@, right, f[right].store)]
  BY <1>a DEF Turns
<1> DEFINE pivot == a[middle]
           Good(i) == SplitTo(a, f[i].a, f[i].store, i, left, right, pivot)
           T == {i \in left .. right : Good(i)}
<1>2. Key \subseteq Int /\ pivot \in Key
  BY <1>0, SortAssumption
<1> HIDE DEF middle
<1>3. left \in T
  <2>1. f[left].a = Swap(a, middle, right) /\ f[left].store = left
    BY <1>1
  <2>2. Shuffled(a, f[left].a, left, right) /\ f[left].a[right] = pivot
    <3>1. /\ Shuffled(a, Swap(a, middle, right), left, right)
          /\ \A k \in 1 .. n : Swap(a, middle, right)[k] =
               IF k = right THEN a[middle] ELSE IF k = middle THEN a[right] ELSE a[k]
      <4> HIDE DEF S
      <4> QED
        BY <1>0, ShuffledBySwap
    <3> QED
      BY <1>0, <2>1, <3>1
  <2>3. left .. left - 1 = {}
    BY <1>0
  <2>4. Good(left)
    BY <1>0, <2>1, <2>2, <2>3 DEF SplitTo
  <2> QED
    BY <1>0, <2>4
<1>4. ASSUME NEW i \in left .. right - 1, i \in T PROVE i + 1 \in T
  <2>1. /\ i + 1 \in left + 1 .. right /\ i + 1 \in left .. right
        /\ i \in left .. right /\ (i + 1) - 1 = i
    BY <1>0
  <2>2. f[i] = [a |-> f[i].a, store |-> f[i].store] /\ f[i].a \in [1 .. n -> Key]
        /\ f[i].store \in left .. right
    BY <2>1
  <2>3. f[i + 1] = Turn(i + 1, f[i], right)
    <3>1. f[i + 1] = Turn(i + 1, f[(i + 1) - 1], right)
      BY <1>1, <2>1
    <3> QED
      BY <2>1, <3>1
  <2>4. SplitTo(a, f[i].a, f[i].store, i, left, right, pivot) /\ f[i].a[right] = pivot
    BY <1>4 DEF SplitTo
  <2> HIDE DEF pivot
  <2>5. CASE pivot > f[i].a[i]
    <3>1. f[i + 1] = [a |-> Swap(f[i].a, i, f[i].store), store |-> f[i].store + 1]
      BY <2>1, <2>3, <2>4, <2>5 DEF Turn
    <3>2. f[i + 1].a = Swap(f[i].a, i, f[i].store) /\ f[i + 1].store = f[i].store + 1
      BY <3>1
    <3>3. SplitTo(a, Swap(f[i].a, i, f[i].store), f[i].store + 1, i + 1, left, right, pivot)
      BY <1>2, <2>2, <2>4, <2>5, TurnSwaps
    <3> QED
      BY <2>1, <3>2, <3>3
  <2>6. CASE ~(pivot > f[i].a[i])
    <3>1. f[i + 1] = f[i]
      BY <2>1, <2>3, <2>4, <2>6 DEF Turn
    <3>2. SplitTo(a, f[i].a, f[i].store, i + 1, left, right, pivot)
      BY <1>2, <2>2, <2>4, <2>6, TurnPasses
    <3> QED
      BY <2>1, <3>1, <3>2
  <2> QED
    BY <2>5, <2>6
<1>5. Good(right)
  <2>1. \A i \in left .. right : i \in T
    <3> HIDE DEF T
    <3> QED
      BY <1>0, <1>3, <1>4, UpTo
  <2> HIDE DEF Good
  <2> QED
    BY <1>0, <2>1
<1>6. f[right].a \in [1 .. n -> Key] /\ f[right].store \in left .. right
  BY <1>0
<1>7. p.a = Swap(f[right].a, right, f[right].store) /\ p.store = f[right].store
  <2>1. f[right] \in S
    BY <1>0
  <2> QED
    BY <1>1, <2>1
<1> HIDE DEF pivot
<1> DEFINE m == f[right].store
<1>8. /\ Shuffled(a, p.a, left, right)
      /\ p.a[m] = pivot
      /\ \A k \in left .. m - 1 : p.a[k] < pivot
      /\ \A k \in m + 1 .. right : pivot <= p.a[k]
  <2> DEFINE b == f[right].a
             c == p.a
  <2>1. SplitTo(a, b, m, right, left, right, pivot)
    BY <1>5
  <2>2. b \in [1 .. n -> Key] /\ m \in left .. right /\ c = Swap(b, right, m)
    BY <1>6, <1>7
  <2> HIDE DEF b, m, c, S
  <2>3. /\ Shuffled(a, c, left, right)
        /\ c[m] = pivot
        /\ \A k \in left .. m - 1 : c[k] < pivot
        /\ \A k \in m + 1 .. right : pivot <= c[k]
    BY <1>2, <2>1, <2>2, PivotToStore
  <2> QED
    BY <2>3 DEF c
<1> QED
  BY <1>6, <1>7, <1>8

(***************************************************************************)
(* Insertion sort.                                                         *)
(***************************************************************************)
InOrder(a, left, right) == \A k \in left + 1 .. right : a[k - 1] <= a[k]

(* The place that Inserted chooses exists. *)
LEMMA PlaceToInsert ==
    ASSUME NEW n \in Nat, NEW a \in [1 .. n -> Key], NEW left \in 1 .. n, NEW i \in left .. n
    PROVE  \E j \in left .. i : /\ \A k \in j .. i - 1 : a[k] > a[i]
                                /\ j > left => a[j - 1] <= a[i]
<1> DEFINE T == {j \in left .. i : \A k \in j .. i - 1 : a[k] > a[i]}
<1>1. left \in Int /\ i \in Int /\ i \in 1 .. n /\ Key \subseteq Int
  BY SortAssumption
<1>2. i \in T /\ T \subseteq left .. i
  OBVIOUS
<1>3. PICK j \in T : \A s \in T : j <= s
  <2> HIDE DEF T
  <2> QED
    BY <1>1, <1>2, LeastOf
<1>4. /\ j \in left .. i /\ j \in Int
      /\ \A k \in j .. i - 1 : a[k] > a[i]
  BY <1>1
<1>5. ASSUME j > left PROVE a[j - 1] <= a[i]
  <2>1. j - 1 \in left .. i /\ j - 1 \in 1 .. n /\ ~(j <= j - 1)
    BY <1>1, <1>4, <1>5
  <2>2. j - 1 \notin T
    BY <1>3, <2>1
  <2>3. PICK k \in (j - 1) .. i - 1 : ~(a[k] > a[i])
    BY <2>1, <2>2
  <2>4. k = j - 1
    BY <1>1, <1>4, <2>3
  <2>5. a[j - 1] \in Int /\ a[i] \in Int
    <3>1. a[j - 1] \in Key /\ a[i] \in Key
      BY <1>1, <2>1
    <3> QED
      BY <1>1, <3>1
  <2> QED
    BY <2>3, <2>4, <2>5
<1> QED
  BY <1>4, <1>5

LEMMA InsertedSorts ==
    ASSUME NEW n \in Nat, NEW a \in [1 .. n -> Key], NEW left \in 1 .. n, NEW i \in left .. n,
           NEW b, b = Inserted(a, left, i)
    PROVE  /\ Shuffled(a, b, left, i)
           /\ InOrder(a, left, i - 1) => InOrder(b, left, i)
<1> DEFINE At(j) == /\ \A k \in j .. i - 1 : a[k] > a[i]
                    /\ j > left => a[j - 1] <= a[i]
           to == CHOOSE j \in left .. i : At(j)
<1>1. left \in Int /\ i \in Int /\ i \in 1 .. n /\ Key \subseteq Int /\ DOMAIN a = 1 .. n
  BY SortAssumption
<1>2. b = [k \in 1 .. n |-> IF k = to THEN a[i]
                            ELSE IF k \in to + 1 .. i THEN a[k - 1] ELSE a[k]]
  BY <1>1 DEF Inserted
<1>3. to \in left .. i /\ At(to)
  <2>1. \E j \in left .. i : At(j)
    BY PlaceToInsert
  <2> HIDE DEF At
  <2> QED
    BY <2>1
<1> HIDE DEF to
<1>4. to \in Int /\ left <= to /\ to <= i /\ to \in 1 .. n
  BY <1>1, <1>3
<1> DEFINE f == [k \in 1 .. n |-> IF k = to THEN i ELSE IF k \in to + 1 .. i THEN k - 1 ELSE k]
           g == [k \in 1 .. n |-> IF k = i THEN to ELSE IF k \in to .. i - 1 THEN k + 1 ELSE k]
<1>5. Shuffled(a, b, left, i)
  <2>1. f \in [1 .. n -> 1 .. n] /\ g \in [1 .. n -> 1 .. n]
    BY <1>1, <1>4
  <2>2. \A k \in 1 .. n : g[f[k]] = k
    BY <1>1, <1>4
  <2>3. \A k \in 1 .. n : f[g[k]] = k
    BY <1>1, <1>4
  <2>4. \A k \in 1 .. n : /\ k \in left .. i => f[k] \in left .. i
                          /\ k \notin left .. i => f[k] = k
    BY <1>1, <1>4
  <2>5. b = [k \in 1 .. n |-> a[f[k]]]
    <3>1. \A k \in 1 .. n : a[f[k]] = IF k = to THEN a[i]
                            ELSE IF k \in to + 1 .. i THEN a[k - 1] ELSE a[k]
      OBVIOUS
    <3> HIDE DEF f
    <3> QED
      BY <1>2, <3>1
  <2> HIDE DEF f, g
  <2>6. \A k, m \in 1 .. n : f[k] = f[m] => k = m
    BY <2>2
  <2>7. \A k \in 1 .. n : \E m \in 1 .. n : f[m] = k
    BY <2>1, <2>3
  <2>8. f \in Bijection(1 .. n, 1 .. n)
    BY <2>1, <2>6, <2>7, Fun_IsBij
  <2> QED
    BY <1>1, <2>4, <2>5, <2>8 DEF Shuffled
<1>6. ASSUME InOrder(a, left, i - 1), NEW k \in left + 1 .. i PROVE b[k - 1] <= b[k]
  <2>1. k \in Int /\ left < k /\ k <= i /\ k \in 1 .. n /\ k - 1 \in 1 .. n
    BY <1>1
  <2>2. a[k] \in Int /\ a[k - 1] \in Int /\ a[i] \in Int
    <3>1. a[k] \in Key /\ a[k - 1] \in Key /\ a[i] \in Key
      BY <1>1, <2>1
    <3> QED
      BY <1>1, <3>1
  <2>3. CASE k < to
    <3>1. b[k] = a[k] /\ b[k - 1] = a[k - 1] /\ k \in left + 1 .. i - 1
      BY <1>1, <1>2, <1>4, <2>1, <2>3
    <3> QED
      BY <1>6, <3>1 DEF InOrder
  <2>4. CASE k = to
    <3>1. b[k] = a[i] /\ b[k - 1] = a[k - 1] /\ to > left
      BY <1>1, <1>2, <1>4, <2>1, <2>4
    <3> QED
      BY <1>3, <2>4, <3>1
  <2>5. CASE k = to + 1
    <3>1. b[k] = a[to] /\ b[k - 1] = a[i] /\ to \in to .. i - 1 /\ k - 1 = to
      BY <1>1, <1>2, <1>4, <2>1, <2>5
    <3>2. a[to] > a[i]
      BY <1>3, <3>1
    <3> QED
      BY <2>2, <3>1, <3>2
  <2>6. CASE k > to + 1
    <3>1. b[k] = a[k - 1] /\ b[k - 1] = a[(k - 1) - 1] /\ k - 1 \in left + 1 .. i - 1
      BY <1>1, <1>2, <1>4, <2>1, <2>6
    <3> QED
      BY <1>6, <3>1 DEF InOrder
  <2> QED
    BY <1>4, <2>1, <2>3, <2>4, <2>5, <2>6
<1>7. InOrder(a, left, i - 1) => InOrder(b, left, i)
  BY <1>6 DEF InOrder
<1> QED
  BY <1>5, <1>7

LEMMA InsertionSorts ==
    ASSUME NEW n \in Nat, NEW a \in [1 .. n -> Key],
           NEW left \in 1 .. n, NEW right \in left .. n, left < right
    PROVE  /\ Shuffled(a, InsertionSort(a, left, right), left, right)
           /\ InOrder(InsertionSort(a, left, right), left, right)
<1> DEFINE S == [1 .. n -> Key]
           F == [i \in left .. right + 1 |->
                   [b \in S |-> IF i <= left + 1 THEN a ELSE Inserted(b, left, i - 1)]]
           sorted[i \in left .. right + 1] ==
             IF i <= left + 1 THEN a ELSE Inserted(sorted[i - 1], left, i - 1)
           Loop(g) == [i \in left .. right + 1 |->
                         IF i <= left + 1 THEN a ELSE Inserted(g[i - 1], left, i - 1)]
<1>1. /\ left \in Int /\ right \in Int /\ right + 1 \in Int /\ left <= right + 1
      /\ left \in left .. right + 1 /\ right + 1 \in left .. right + 1 /\ a \in S
      /\ right + 1 > left + 1
  OBVIOUS
<1>2. InsertionSort(a, left, right) = sorted[right + 1]
  BY DEF InsertionSort
<1>3. Body(F, left, right + 1, S)
  <2> SUFFICES ASSUME NEW i \in left .. right + 1, NEW b \in S, ~(i <= left + 1)
               PROVE  Inserted(b, left, i - 1) \in S
    BY <1>1 DEF Body
  <2>1. i - 1 \in left .. n
    BY <1>1
  <2> DEFINE c == Inserted(b, left, i - 1)
  <2>2. Shuffled(b, c, left, i - 1)
    BY <2>1, InsertedSorts
  <2> HIDE DEF c
  <2>3. c \in [1 .. n -> Key]
    BY <1>1, <2>1, <2>2, ShuffledFrom DEF From
  <2> QED
    BY <2>3 DEF c
<1>4. PICK f \in [left .. right + 1 -> S] : Run(f, a, F, left, right + 1, S)
  <2> HIDE DEF F, S
  <2> QED
    BY <1>1, <1>3, LoopRuns
<1>5. /\ f[left] = a
      /\ \A i \in left + 1 .. right + 1 :
           f[i] = IF i <= left + 1 THEN a ELSE Inserted(f[i - 1], left, i - 1)
  <2>1. f[left] = a /\ \A i \in left + 1 .. right + 1 : f[i] = F[i][f[i - 1]]
    BY <1>4 DEF Run
  <2> SUFFICES ASSUME NEW i \in left + 1 .. right + 1
               PROVE  f[i] = IF i <= left + 1 THEN a ELSE Inserted(f[i - 1], left, i - 1)
    BY <2>1
  <2>2. i \in left .. right + 1 /\ f[i - 1] \in S
    BY <1>1
  <2>3. f[i] = F[i][f[i - 1]]
    BY <2>1
  <2> QED
    BY <2>2, <2>3
<1>6. f = Loop(f)
  <2>1. \A i \in left .. right + 1 :
          f[i] = IF i <= left + 1 THEN a ELSE Inserted(f[i - 1], left, i - 1)
    <3> SUFFICES ASSUME NEW i \in left .. right + 1
                 PROVE  f[i] = IF i <= left + 1 THEN a ELSE Inserted(f[i - 1], left, i - 1)
      OBVIOUS
    <3>1. i = left \/ i \in left + 1 .. right + 1
      BY <1>1
    <3> QED
      BY <1>1, <1>5, <3>1
  <2>2. f = [i \in left .. right + 1 |-> f[i]]
    OBVIOUS
  <2> QED
    BY <2>1, <2>2
<1>7. sorted = Loop(sorted)
  <2>1. sorted = CHOOSE g : g = Loop(g)
    OBVIOUS
  <2> HIDE DEF Loop, sorted
  <2> QED
    BY <1>6, <2>1
<1>8. \A i \in left .. right + 1 : sorted[i] = f[i]
  <2> DEFINE Q == {i \in left .. right + 1 : sorted[i] = f[i]}
  <2>1. left \in Q
    <3>1. sorted[left] = Loop(sorted)[left]
      <4> HIDE DEF Loop, sorted
      <4> QED
        BY <1>7
    <3> HIDE DEF sorted
    <3> QED
      BY <1>1, <1>5, <3>1
  <2>2. ASSUME NEW i \in left .. (right + 1) - 1, i \in Q PROVE i + 1 \in Q
    <3>1. sorted[i + 1] = Loop(sorted)[i + 1] /\ f[i + 1] = Loop(f)[i + 1]
      <4> HIDE DEF Loop, sorted
      <4> QED
        BY <1>6, <1>7
    <3>2. sorted[i] = f[i] /\ (i + 1) - 1 = i /\ i + 1 \in left .. right + 1
      BY <2>2
    <3> HIDE DEF sorted
    <3> QED
      BY <3>1, <3>2
  <2> HIDE DEF Q
  <2>3. \A i \in left .. right + 1 : i \in Q
    BY <1>1, <2>1, <2>2, UpTo
  <2> QED
    BY <2>3 DEF Q
<1> DEFINE Good(i) == Shuffled(a, f[i], left, right) /\ InOrder(f[i], left, i - 1)
           T == {i \in left .. right + 1 : Good(i)}
<1>9. left \in T
  <2>1. Shuffled(a, a, left, right)
    BY <1>1, ShuffledNot
  <2> QED
    BY <1>1, <1>5, <2>1 DEF InOrder
<1>10. ASSUME NEW i \in left .. (right + 1) - 1, i \in T PROVE i + 1 \in T
  <2>1. /\ i \in left .. n /\ i \in left .. right + 1 /\ i \in Int /\ (i + 1) - 1 = i
        /\ i + 1 \in left + 1 .. right + 1 /\ i + 1 \in left .. right + 1
        /\ i <= right
    BY <1>1
  <2>2. Good(i) /\ f[i] \in S
    BY <1>10, <2>1
  <2>3. CASE i = left
    <3>1. f[i] = a /\ f[i + 1] = a /\ InOrder(a, left, left)
      BY <1>1, <1>5, <2>1, <2>3 DEF InOrder
    <3> QED
      BY <2>1, <2>2, <2>3, <3>1
  <2>4. CASE i # left
    <3>1. f[i + 1] = Inserted(f[i], left, i)
      <4>1. f[i + 1] = Inserted(f[(i + 1) - 1], left, (i + 1) - 1)
        BY <1>1, <1>5, <2>1, <2>4
      <4> QED
        BY <2>1, <4>1
    <3> DEFINE b == f[i]
               c == f[i + 1]
    <3>2. b \in [1 .. n -> Key] /\ c = Inserted(b, left, i)
      BY <2>2, <3>1
    <3> HIDE DEF b, c
    <3>3. Shuffled(b, c, left, i) /\ (InOrder(b, left, i - 1) => InOrder(c, left, i))
      BY <2>1, <3>2, InsertedSorts
    <3>4. Shuffled(b, c, left, right)
      <4>1. left <= left /\ i <= right
        BY <1>1, <2>1
      <4> HIDE DEF S, F, T, Loop, sorted
      <4> QED
        BY <1>1, <2>1, <3>2, <3>3, <4>1, ShuffledWithin
    <3>5. Shuffled(a, c, left, right)
      BY <1>1, <2>2, <3>2, <3>4, ShuffledTwice DEF b
    <3> QED
      BY <2>1, <2>2, <3>3, <3>5 DEF b, c
  <2> QED
    BY <2>3, <2>4
<1>11. Good(right + 1)
  <2>1. \A i \in left .. right + 1 : i \in T
    <3> HIDE DEF T
    <3> QED
      BY <1>1, <1>9, <1>10, UpTo
  <2> HIDE DEF Good
  <2> QED
    BY <1>1, <2>1
<1> HIDE DEF sorted
<1>12. InsertionSort(a, left, right) = f[right + 1] /\ (right + 1) - 1 = right
  BY <1>1, <1>2, <1>8
<1> QED
  BY <1>11, <1>12

(* Any two items of a part that is in order are in order. *)
LEMMA PairsInOrder ==
    ASSUME NEW n \in Nat, NEW a \in [1 .. n -> Key],
           NEW left \in 1 .. n, NEW right \in left .. n, InOrder(a, left, right),
           NEW i \in left .. right, NEW j \in i .. right
    PROVE  a[i] <= a[j]
<1> DEFINE T == {k \in i .. right : a[i] <= a[k]}
<1>1. /\ left \in Int /\ right \in Int /\ i \in Int /\ i \in 1 .. n
      /\ \A k \in left .. right : a[k] \in Int
  <2>1. \A k \in left .. right : k \in 1 .. n
    OBVIOUS
  <2>2. \A k \in 1 .. n : a[k] \in Int
    BY SortAssumption
  <2> QED
    BY <2>1, <2>2
<1>2. i \in T
  BY <1>1
<1>3. ASSUME NEW k \in i .. right - 1, k \in T PROVE k + 1 \in T
  <2>1. k + 1 \in left + 1 .. right /\ (k + 1) - 1 = k /\ k \in left .. right /\ k + 1 \in i .. right
        /\ k + 1 \in left .. right
    BY <1>1
  <2>2. a[(k + 1) - 1] <= a[k + 1]
    BY <2>1 DEF InOrder
  <2>3. a[i] \in Int /\ a[k] \in Int /\ a[k + 1] \in Int /\ a[i] <= a[k]
    BY <1>1, <1>3, <2>1
  <2>4. a[i] <= a[k + 1]
    BY <2>1, <2>2, <2>3
  <2> QED
    BY <2>1, <2>4
<1>4. \A k \in i .. right : k \in T
  <2> HIDE DEF T
  <2> QED
    BY <1>1, <1>2, <1>3, UpTo
<1> QED
  BY <1>4

(***************************************************************************)
(* One turn of the loop of qsort.                                          *)
(***************************************************************************)
Items(part) == part.left .. part.right

LEMMA ShortIsSorted ==
    ASSUME NEW n \in Nat, NEW a \in [1 .. n -> Key], NEW left \in 1 .. n + 1, NEW right \in 0 .. n,
           NEW part, part = [left |-> left, right |-> right], NEW b, b = SortShort(a, part)
    PROVE  /\ Shuffled(a, b, left, right)
           /\ Short(part) => \A i \in left .. right : \A j \in i .. right : b[i] <= b[j]
<1>1. left \in Int /\ right \in Int
  OBVIOUS
<1>2. CASE Short(part) /\ left < right
  <2>1. b = InsertionSort(a, left, right) /\ left \in 1 .. n /\ right \in left .. n
    BY <1>1, <1>2 DEF SortShort
  <2>2. Shuffled(a, b, left, right) /\ InOrder(b, left, right)
    BY <1>2, <2>1, InsertionSorts
  <2>3. b \in [1 .. n -> Key]
    BY <1>1, <2>2, ShuffledFrom DEF From
  <2>4. \A i \in left .. right : \A j \in i .. right : b[i] <= b[j]
    BY <2>1, <2>2, <2>3, PairsInOrder
  <2> QED
    BY <2>2, <2>4
<1>3. CASE ~(Short(part) /\ left < right)
  <2>1. b = a
    BY <1>3 DEF SortShort, InsertionSort
  <2>2. Shuffled(a, b, left, right)
    BY <1>1, <2>1, ShuffledNot
  <2>3. ASSUME Short(part), NEW i \in left .. right, NEW j \in i .. right PROVE b[i] <= b[j]
    <3>1. i = j /\ j \in 1 .. n
      BY <1>1, <1>3, <2>3
    <3>2. b[j] \in Key
      BY <2>1, <3>1
    <3>3. b[j] \in Int
      BY <3>2, SortAssumption
    <3> QED
      BY <3>1, <3>3
  <2> QED
    BY <2>2, <2>3
<1> QED
  BY <1>2, <1>3

(* From left to right, items that are not in order are in one of two long parts. *)
SortedBut(b, x, y, left, right) ==
    \A i, j \in left .. right :
      i < j => \/ b[i] <= b[j]
               \/ ~Short(x) /\ i \in Items(x) /\ j \in Items(x)
               \/ ~Short(y) /\ i \in Items(y) /\ j \in Items(y)

(* The part that is split is in order but for pairs of items that are in one of
   its sides, if that one is not short. *)
LEMMA SplitSorts ==
    ASSUME NEW n \in Nat, NEW a \in [1 .. n -> Key],
           NEW left \in 1 .. n, NEW right \in left .. n,
           NEW p, p = Partition(a, left, right),
           NEW l, l = [left |-> left, right |-> p.store - 1],
           NEW r, r = [left |-> p.store + 1, right |-> right],
           NEW b, b = SortShort(SortShort(p.a, l), r)
    PROVE  /\ p.store \in left .. right
           /\ Shuffled(a, b, left, right)
           /\ SortedBut(b, l, r, left, right)
<1> DEFINE m == p.store
           d == p.a
           c == SortShort(d, l)
<1>1. /\ m \in left .. right
      /\ Shuffled(a, d, left, right)
      /\ \A k \in left .. m - 1 : d[k] < d[m]
      /\ \A k \in m + 1 .. right : d[m] <= d[k]
  BY PartitionSplits
<1>2. l = [left |-> left, right |-> m - 1] /\ r = [left |-> m + 1, right |-> right]
      /\ b = SortShort(c, r)
  OBVIOUS
<1> HIDE DEF m, d
<1>3. /\ left \in Int /\ right \in Int /\ m \in Int /\ left <= m /\ m <= right /\ 1 <= left /\ right <= n
      /\ m \in 1 .. n /\ m - 1 \in 0 .. n /\ m + 1 \in 1 .. n + 1 /\ m - 1 \in Int /\ m + 1 \in Int
      /\ left \in 1 .. n + 1 /\ right \in 0 .. n
  BY <1>1
<1>4. d \in [1 .. n -> Key]
  BY <1>1, <1>3, ShuffledFrom DEF From
<1>5. /\ Shuffled(d, c, left, m - 1)
      /\ Short(l) => \A i \in left .. m - 1 : \A j \in i .. m - 1 : c[i] <= c[j]
  BY <1>2, <1>3, <1>4, ShortIsSorted
<1> HIDE DEF c
<1>6. /\ c \in [1 .. n -> Key]
      /\ \A k \in (1 .. n) \ (left .. m - 1) : c[k] = d[k]
      /\ \A k \in (1 .. n) \cap (left .. m - 1) :
           \E i \in (1 .. n) \cap (left .. m - 1) : c[k] = d[i]
  <2>1. From(d, c, n, left, m - 1)
    BY <1>3, <1>4, <1>5, ShuffledFrom
  <2> QED
    BY <2>1 DEF From
<1>7. /\ Shuffled(c, b, m + 1, right)
      /\ Short(r) => \A i \in m + 1 .. right : \A j \in i .. right : b[i] <= b[j]
  BY <1>2, <1>3, <1>6, ShortIsSorted
<1>8. /\ b \in [1 .. n -> Key]
      /\ \A k \in (1 .. n) \ (m + 1 .. right) : b[k] = c[k]
      /\ \A k \in (1 .. n) \cap (m + 1 .. right) :
           \E i \in (1 .. n) \cap (m + 1 .. right) : b[k] = c[i]
  <2>1. From(c, b, n, m + 1, right)
    BY <1>3, <1>6, <1>7, ShuffledFrom
  <2> QED
    BY <2>1 DEF From
<1>9. Shuffled(a, b, left, right)
  <2>1. Shuffled(d, c, left, right)
    <3>1. left <= left /\ m - 1 <= right
      BY <1>3
    <3> QED
      BY <1>3, <1>4, <1>5, <3>1, ShuffledWithin
  <2>2. Shuffled(c, b, left, right)
    <3>1. left <= m + 1 /\ right <= right
      BY <1>3
    <3> QED
      BY <1>3, <1>6, <1>7, <3>1, ShuffledWithin
  <2>3. Shuffled(a, c, left, right)
    BY <1>1, <1>3, <2>1, ShuffledTwice
  <2> QED
    BY <1>3, <2>2, <2>3, ShuffledTwice
<1> DEFINE pivot == d[m]
<1>10. Key \subseteq Int /\ pivot \in Int
  BY <1>3, <1>4, SortAssumption
<1>11. b[m] = pivot
  BY <1>3, <1>6, <1>8
<1> HIDE DEF pivot
<1>12. ASSUME NEW k \in left .. m - 1 PROVE b[k] <= pivot /\ b[k] = c[k]
  <2>1. k \in 1 .. n /\ k \notin m + 1 .. right /\ k \in left .. m - 1
    BY <1>3
  <2>2. PICK i \in left .. m - 1 : c[k] = d[i]
    BY <1>6, <2>1
  <2>3. d[i] < pivot /\ d[i] \in Int
    <3>1. i \in 1 .. n
      BY <1>3
    <3>2. d[i] \in Key
      BY <1>4, <3>1
    <3> QED
      BY <1>1, <1>10, <3>2 DEF pivot
  <2>4. b[k] = c[k]
    BY <1>8, <2>1
  <2> QED
    BY <1>10, <2>2, <2>3, <2>4
<1>13. ASSUME NEW k \in m + 1 .. right PROVE pivot <= b[k]
  <2>1. k \in 1 .. n /\ k \in m + 1 .. right
    BY <1>3
  <2>2. PICK i \in (1 .. n) \cap (m + 1 .. right) : b[k] = c[i]
    BY <1>8, <2>1
  <2>3. i \notin left .. m - 1 /\ i \in 1 .. n /\ i \in m + 1 .. right
    BY <1>3
  <2>4. c[i] = d[i]
    BY <1>6, <2>3
  <2> QED
    BY <1>1, <2>2, <2>3, <2>4 DEF pivot
<1>14. ASSUME NEW i \in left .. right, NEW j \in left .. right, i < j
       PROVE  \/ b[i] <= b[j]
              \/ ~Short(l) /\ i \in Items(l) /\ j \in Items(l)
              \/ ~Short(r) /\ i \in Items(r) /\ j \in Items(r)
  <2>1. i \in Int /\ j \in Int /\ i \in 1 .. n /\ j \in 1 .. n /\ left <= i /\ j <= right
    BY <1>3
  <2>2. b[i] \in Int /\ b[j] \in Int
    BY <1>8, <1>10, <2>1
  <2>3. CASE j < m
    <3>1. i \in left .. m - 1 /\ j \in left .. m - 1 /\ j \in i .. m - 1
      BY <1>3, <1>14, <2>1, <2>3
    <3>2. b[i] = c[i] /\ b[j] = c[j]
      BY <1>12, <3>1
    <3>3. i \in Items(l) /\ j \in Items(l)
      BY <1>2, <3>1 DEF Items
    <3> QED
      BY <1>5, <3>1, <3>2, <3>3
  <2>4. CASE i > m
    <3>1. i \in m + 1 .. right /\ j \in m + 1 .. right /\ j \in i .. right
      BY <1>3, <1>14, <2>1, <2>4
    <3>2. i \in Items(r) /\ j \in Items(r)
      BY <1>2, <3>1 DEF Items
    <3> QED
      BY <1>7, <3>1, <3>2
  <2>5. CASE i <= m /\ m <= j
    <3>1. b[i] <= pivot
      <4>1. i = m \/ i \in left .. m - 1
        BY <1>3, <2>1, <2>5
      <4> QED
        BY <1>10, <1>11, <1>12, <4>1
    <3>2. pivot <= b[j]
      <4>1. j = m \/ j \in m + 1 .. right
        BY <1>3, <2>1, <2>5
      <4> QED
        BY <1>10, <1>11, <1>13, <4>1
    <3> QED
      BY <1>10, <2>2, <3>1, <3>2
  <2> QED
    BY <1>3, <2>1, <2>3, <2>4, <2>5
<1> QED
  BY <1>1, <1>9, <1>14 DEF m, SortedBut

(* Powers of two count the subsets of an interval. *)
LEMMA TwoTo ==
    ASSUME NEW k \in Nat
    PROVE  2^0 = 1 /\ 2^k \in Nat /\ 2^(k + 1) = 2 * 2^k
<1> DEFINE S == 1 .. k
           T == 1 .. k + 1
           A == SUBSET S
           B == {X \cup {k + 1} : X \in A}
           f == [X \in A |-> X \cup {k + 1}]
<1>1. /\ IsFiniteSet(S) /\ Cardinality(S) = k
      /\ IsFiniteSet(T) /\ Cardinality(T) = k + 1
  BY FS_Interval
<1>2. S \subseteq T /\ k + 1 \notin S /\ T = S \cup {k + 1}
  OBVIOUS
<1> HIDE DEF S, T
<1>3. /\ IsFiniteSet(A) /\ Cardinality(A) = 2^k /\ 2^k \in Nat
      /\ Cardinality(SUBSET T) = 2^(k + 1)
  BY <1>1, FS_SUBSET, FS_CardinalityType
<1>4. f \in Bijection(A, B)
  <2>1. f \in [A -> B]
    OBVIOUS
  <2>2. \A X, Y \in A : f[X] = f[Y] => X = Y
    <3> SUFFICES ASSUME NEW X \in A, NEW Y \in A, X \cup {k + 1} = Y \cup {k + 1} PROVE X = Y
      OBVIOUS
    <3> QED
      BY <1>2
  <2>3. \A Z \in B : \E X \in A : f[X] = Z
    OBVIOUS
  <2> HIDE DEF f, A, B
  <2> QED
    BY <2>1, <2>2, <2>3, Fun_IsBij
<1>5. IsFiniteSet(B) /\ Cardinality(B) = 2^k
  <2> HIDE DEF f, A, B
  <2>1. ExistsBijection(A, B)
    BY <1>4 DEF ExistsBijection
  <2> QED
    BY <1>3, <2>1, FS_Bijection
<1>6. SUBSET T = A \cup B
  <2>1. ASSUME NEW Z \in SUBSET T PROVE Z \in A \cup B
    <3>1. CASE k + 1 \in Z
      <4>1. Z \ {k + 1} \in A /\ Z = (Z \ {k + 1}) \cup {k + 1}
        BY <1>2, <3>1
      <4> QED
        BY <4>1
    <3>2. CASE k + 1 \notin Z
      BY <1>2, <3>2
    <3> QED
      BY <3>1, <3>2
  <2>2. ASSUME NEW Z \in A \cup B PROVE Z \in SUBSET T
    BY <1>2
  <2> HIDE DEF A, B
  <2> QED
    BY <2>1, <2>2
<1>7. A \cap B = {}
  BY <1>2
<1>8. Cardinality(A \cup B) = 2^k + 2^k
  <2> HIDE DEF A, B
  <2>1. Cardinality(A \cup B) = Cardinality(A) + Cardinality(B) - Cardinality(A \cap B)
    BY <1>3, <1>5, FS_Union
  <2>2. Cardinality(A \cap B) = 0
    BY <1>7, FS_EmptySet
  <2> QED
    BY <1>3, <1>5, <2>1, <2>2
<1>9. 2^0 = 1
  <2>1. IsFiniteSet({}) /\ Cardinality({}) = 0
    BY FS_EmptySet
  <2>2. Cardinality(SUBSET {}) = 2^0
    BY <2>1, FS_SUBSET
  <2>3. SUBSET {} = {{}}
    OBVIOUS
  <2> QED
    BY <2>2, <2>3, FS_Singleton
<1> HIDE DEF A, B, f
<1>10. 2^(k + 1) = 2^k + 2^k
  BY <1>3, <1>6, <1>8, Zenon
<1>11. 2^k + 2^k = 2 * 2^k
  <2> DEFINE x == 2^k
  <2>1. x \in Nat
    BY <1>3
  <2> HIDE DEF x
  <2>2. x + x = 2 * x
    BY <2>1
  <2> QED
    BY <2>2 DEF x
<1> QED
  BY <1>3, <1>9, <1>10, <1>11, Zenon

(***************************************************************************)
(* The stack.                                                              *)
(***************************************************************************)
Part(n) == [left : 1 .. n, right : 1 .. n]
Size(part) == part.right - part.left + 1

(* No item is in two parts. *)
Apart(s) == \A j, k \in 1 .. Len(s) : j # k => \A i \in Items(s[j]) : i \notin Items(s[k])

(* Items that are not in order are in one part. *)
Together(s, i, j) == \E k \in 1 .. Len(s) : i \in Items(s[k]) /\ j \in Items(s[k])
OrderedBut(a, s, n) == \A i, j \in 1 .. n : i < j => a[i] <= a[j] \/ Together(s, i, j)

(* A part is at most half as long with every part below it. *)
Halved(s, n) == \A k \in 1 .. Len(s) : Size(s[k]) * 2^(k - 1) <= n

(* What the top of the stack becomes: x, the longer of its sides, and y. *)
Pushed(s, x, y, new) ==
    /\ \A k \in 1 .. Len(s) - 1 : k \in 1 .. Len(new) /\ new[k] = s[k]
    /\ ~Short(x) => Len(s) \in 1 .. Len(new) /\ new[Len(s)] = x
    /\ ~Short(y) => /\ Len(s) + 1 \in 1 .. Len(new) /\ new[Len(s) + 1] = y
                    /\ ~Short(x) /\ Size(y) <= Size(x)
    /\ \A k \in 1 .. Len(new) : \/ k \in 1 .. Len(s) - 1
                                \/ k = Len(s) /\ ~Short(x)
                                \/ k = Len(s) + 1 /\ ~Short(y)

LEMMA OneMore ==
    ASSUME NEW S, NEW q \in Seq(S), NEW x \in S, NEW n \in Nat, Len(q) + 1 = n,
           NEW new, new = Append(q, x)
    PROVE  /\ new \in Seq(S) /\ Len(new) = n /\ new[n] = x
           /\ \A k \in 1 .. n - 1 : new[k] = q[k]
<1>1. /\ new \in Seq(S) /\ Len(new) = Len(q) + 1 /\ new[Len(q) + 1] = x
      /\ \A k \in 1 .. Len(q) : new[k] = q[k]
  <2>1. Append(q, x) \in Seq(S)
    BY AppendProperties
  <2>2. Len(Append(q, x)) = Len(q) + 1
    BY AppendProperties
  <2>3. \A k \in 1 .. Len(q) : Append(q, x)[k] = q[k]
    BY AppendProperties
  <2>4. Append(q, x)[Len(q) + 1] = x
    BY AppendProperties
  <2> QED
    BY <2>1, <2>2, <2>3, <2>4, Zenon
<1>2. Len(q) = n - 1
  BY Len(q) \in Nat
<1> QED
  BY <1>1, <1>2

LEMMA OneLess ==
    ASSUME NEW S, NEW q \in Seq(S), q # << >>, NEW new, new = SubSeq(q, 1, Len(q) - 1)
    PROVE  /\ new \in Seq(S) /\ Len(q) \in Nat \ {0} /\ Len(new) + 1 = Len(q)
           /\ \A k \in 1 .. Len(q) - 1 : new[k] = q[k]
<1> DEFINE m == Len(q) - 1
<1>1. Len(q) \in Nat \ {0} /\ m \in Int /\ m \in Nat /\ \A k \in 1 .. m : q[k] \in S
  OBVIOUS
<1>2. new = SubSeq(q, 1, m) /\ Len(q) = m + 1
  BY <1>1
<1> HIDE DEF m
<1>3. /\ new \in Seq(S)
      /\ Len(new) = IF 1 <= m THEN m - 1 + 1 ELSE 0
      /\ \A k \in 1 .. m - 1 + 1 : new[k] = q[1 + k - 1]
  BY <1>1, <1>2, SubSeqProperties
<1>4. Len(new) = m /\ \A k \in 1 .. m : new[k] = q[k]
  BY <1>1, <1>3
<1> QED
  BY <1>1, <1>2, <1>3, <1>4 DEF m

LEMMA SidesPushed ==
    ASSUME NEW n \in Nat, NEW s \in Seq(Part(n)), s # << >>,
           NEW l, NEW r, Size(l) \in Int, Size(r) \in Int,
           ~Short(l) => l \in Part(n), ~Short(r) => r \in Part(n),
           NEW new, new = PushSides(SubSeq(s, 1, Len(s) - 1), l, r)
    PROVE  /\ new \in Seq(Part(n))
           /\ Pushed(s, l, r, new) \/ Pushed(s, r, l, new)
<1> DEFINE rest == SubSeq(s, 1, Len(s) - 1)
<1>1. /\ rest \in Seq(Part(n)) /\ Len(s) \in Nat \ {0} /\ Len(rest) + 1 = Len(s)
      /\ \A k \in 1 .. Len(s) - 1 : rest[k] = s[k]
  BY OneLess
<1>a. new = PushSides(rest, l, r) /\ Len(rest) = Len(s) - 1
  BY <1>1
<1> HIDE DEF rest
<1>2. ASSUME NEW x, NEW y, x \in {l, r}, y \in {l, r},
             ~Short(y) => Size(y) <= Size(x),
             new = PushLong(PushLong(rest, x), y), Short(x) => Short(y)
      PROVE  new \in Seq(Part(n)) /\ Pushed(s, x, y, new)
  <2>1. CASE Short(x)
    <3>1. new = rest /\ Short(y)
      BY <1>2, <2>1 DEF PushLong
    <3> QED
      BY <1>1, <1>a, <2>1, <3>1 DEF Pushed
  <2>2. CASE ~Short(x) /\ Short(y)
    <3>1. new = Append(rest, x) /\ x \in Part(n)
      BY <1>2, <2>2 DEF PushLong
    <3>2. /\ new \in Seq(Part(n)) /\ Len(new) = Len(s) /\ new[Len(s)] = x
          /\ \A k \in 1 .. Len(s) - 1 : new[k] = rest[k]
      BY <1>1, <3>1, OneMore
    <3> QED
      BY <1>1, <2>2, <3>2 DEF Pushed
  <2>3. CASE ~Short(x) /\ ~Short(y)
    <3>1. new = Append(Append(rest, x), y) /\ x \in Part(n) /\ y \in Part(n)
      BY <1>2, <2>3 DEF PushLong
    <3> DEFINE one == Append(rest, x)
    <3>2. /\ one \in Seq(Part(n)) /\ Len(one) = Len(s) /\ one[Len(s)] = x
          /\ \A k \in 1 .. Len(s) - 1 : one[k] = rest[k]
      BY <1>1, <3>1, OneMore
    <3> HIDE DEF one
    <3>3. /\ new \in Seq(Part(n)) /\ Len(new) = Len(s) + 1 /\ new[Len(s) + 1] = y
          /\ \A k \in 1 .. Len(s) : new[k] = one[k]
      <4> DEFINE m == Len(s) + 1
      <4>1. new = Append(one, y)
        BY <3>1 DEF one
      <4>2. m \in Nat /\ Len(one) + 1 = m
        BY <1>1, <3>2
      <4> HIDE DEF m
      <4>3. /\ new \in Seq(Part(n)) /\ Len(new) = m /\ new[m] = y
            /\ \A k \in 1 .. m - 1 : new[k] = one[k]
        BY <3>1, <3>2, <4>1, <4>2, OneMore
      <4> QED
        BY <1>1, <4>3 DEF m
    <3> QED
      BY <1>1, <1>2, <2>3, <3>2, <3>3 DEF Pushed
  <2> QED
    BY <1>2, <2>1, <2>2, <2>3
<1>3. new = IF Size(l) < Size(r) THEN PushLong(PushLong(rest, r), l)
            ELSE PushLong(PushLong(rest, l), r)
  BY <1>a DEF PushSides, Size
<1>4. threshold \in Int /\ \A part : Short(part) <=> Size(part) <= threshold
  BY SortAssumption DEF Short, Size
<1>5. CASE Size(l) < Size(r)
  <2>1. Size(l) <= Size(r) /\ (Short(r) => Short(l))
    BY <1>4, <1>5
  <2> QED
    BY <1>2, <1>3, <1>5, <2>1
<1>6. CASE ~(Size(l) < Size(r))
  <2>1. Size(r) <= Size(l) /\ (Short(l) => Short(r))
    BY <1>4, <1>6
  <2> QED
    BY <1>2, <1>3, <1>6, <2>1
<1> QED
  BY <1>5, <1>6

(* The state of qsort: what its loop leaves as it was. *)
SortInv ==
    /\ Len(given) \in Nat \ {0}
    /\ given \in [1 .. Len(given) -> Key] /\ array \in [1 .. Len(given) -> Key]
    /\ Shuffled(given, array, 1, Len(given))
    /\ stack \in Seq(Part(Len(given)))
    /\ \A k \in 1 .. Len(stack) : stack[k].left <= stack[k].right
    /\ Apart(stack)
    /\ OrderedBut(array, stack, Len(given))
    /\ Halved(stack, Len(given))

LEMMA StartSorting == SortInit => SortInv
<1> SUFFICES ASSUME SortInit PROVE SortInv
  OBVIOUS
<1>1. PICK n \in 1 .. MaxLength : array \in [1 .. n -> Key]
  BY DEF SortInit
<1>2. n \in Nat \ {0} /\ array = given
  BY SortAssumption DEF SortInit
<1>3. array \in Seq(Key) /\ Len(array) = n
  BY <1>1, <1>2
<1> DEFINE all == [left |-> 1, right |-> n]
<1>4. stack = <<all>>
  BY <1>3 DEF SortInit
<1>5. /\ all \in Part(n) /\ stack \in Seq(Part(n)) /\ Len(stack) = 1 /\ stack[1] = all
      /\ all.left <= all.right
  BY <1>2, <1>4 DEF Part
<1>6. Shuffled(given, array, 1, n)
  BY <1>1, <1>2, ShuffledNot
<1>7. Apart(stack)
  BY <1>5 DEF Apart
<1>8. OrderedBut(array, stack, n)
  <2> SUFFICES ASSUME NEW i \in 1 .. n, NEW j \in 1 .. n PROVE Together(stack, i, j)
    BY DEF OrderedBut
  <2>1. i \in Items(stack[1]) /\ j \in Items(stack[1])
    BY <1>5 DEF Items
  <2> QED
    BY <1>5, <2>1 DEF Together
<1>9. Halved(stack, n)
  <2> SUFFICES ASSUME NEW k \in 1 .. Len(stack) PROVE Size(stack[k]) * 2^(k - 1) <= n
    BY DEF Halved
  <2>1. k = 1 /\ k - 1 = 0
    BY <1>5
  <2>2. Size(stack[k]) = n
    BY <1>2, <1>5, <2>1 DEF Size
  <2>3. 2^(k - 1) = 1
    BY <2>1, TwoTo
  <2> QED
    BY <1>2, <2>2, <2>3
<1> QED
  BY <1>1, <1>2, <1>3, <1>5, <1>6, <1>7, <1>8, <1>9 DEF SortInv

LEMMA TimesKeeps ==
    ASSUME NEW i \in Int, NEW j \in Int, NEW m \in Nat, i <= j
    PROVE  i * m <= j * m
<1>1. \A d \in Nat : d * m >= 0 /\ (i + d) * m = i * m + d * m
  OBVIOUS
<1>2. j - i \in Nat /\ i + (j - i) = j
  OBVIOUS
<1>3. (j - i) * m >= 0 /\ (i + (j - i)) * m = i * m + (j - i) * m
  BY <1>1, <1>2
<1> QED
  BY <1>2, <1>3

(* The top is taken from the stack and its sides are put on it. *)
LEMMA StackKeeps ==
    ASSUME NEW n \in Nat, NEW s \in Seq(Part(n)), s # << >>,
           \A k \in 1 .. Len(s) : s[k].left <= s[k].right, Apart(s), Halved(s, n),
           NEW x \in [left : Int, right : Int], NEW y \in [left : Int, right : Int],
           \A i \in Items(x) : i \in Items(s[Len(s)]) /\ i \notin Items(y),
           \A i \in Items(y) : i \in Items(s[Len(s)]) /\ i \notin Items(x),
           Size(x) + Size(y) < Size(s[Len(s)]), 0 <= Size(x), 0 <= Size(y),
           NEW new \in Seq(Part(n)), Pushed(s, x, y, new)
    PROVE  /\ \A k \in 1 .. Len(new) : new[k].left <= new[k].right
           /\ Apart(new) /\ Halved(new, n)
<1> DEFINE L == Len(s)
           top == s[L]
<1>1. L \in Nat \ {0} /\ L \in 1 .. Len(s) /\ top \in Part(n)
  OBVIOUS
<1>2. /\ \A k \in 1 .. L - 1 : k \in 1 .. Len(new) /\ new[k] = s[k]
      /\ ~Short(x) => L \in 1 .. Len(new) /\ new[L] = x
      /\ ~Short(y) => /\ L + 1 \in 1 .. Len(new) /\ new[L + 1] = y
                      /\ ~Short(x) /\ Size(y) <= Size(x)
      /\ \A k \in 1 .. Len(new) : \/ k \in 1 .. L - 1
                                  \/ k = L /\ ~Short(x)
                                  \/ k = L + 1 /\ ~Short(y)
  BY DEF Pushed
<1>3. Size(x) \in Int /\ Size(y) \in Int /\ Size(top) \in Int
  <2>1. /\ x.left \in Int /\ x.right \in Int /\ y.left \in Int /\ y.right \in Int
        /\ top.left \in Int /\ top.right \in Int
    BY <1>1 DEF Part
  <2>2. \A z : z.left \in Int /\ z.right \in Int => Size(z) \in Int
    BY DEF Size
  <2> HIDE DEF top
  <2> QED
    BY <2>1, <2>2
<1>4. Size(x) + Size(y) < Size(top)
  OBVIOUS
<1> HIDE DEF L, top
<1>5. ASSUME NEW k \in 1 .. Len(new) PROVE new[k].left <= new[k].right
  <2>1. CASE k \in 1 .. L - 1
    BY <1>2, <2>1 DEF L
  <2>2. ASSUME NEW z \in {x, y}, new[k] = z, ~Short(z) PROVE new[k].left <= new[k].right
    <3>1. threshold \in Int /\ threshold >= 1
      BY SortAssumption
    <3>2. ~(z.right - z.left + 1 <= threshold)
      BY <2>2 DEF Short
    <3>3. z.left \in Int /\ z.right \in Int
      OBVIOUS
    <3>4. z.left <= z.right
      BY <3>1, <3>2, <3>3
    <3> QED
      BY <2>2, <3>4
  <2> QED
    BY <1>2, <2>1, <2>2
<1>6. Apart(new)
  <2> SUFFICES ASSUME NEW j \in 1 .. Len(new), NEW k \in 1 .. Len(new), j # k,
                      NEW i \in Items(new[j])
               PROVE  i \notin Items(new[k])
    BY DEF Apart
  <2>1. ASSUME NEW a \in 1 .. L - 1 PROVE new[a] = s[a] /\ a \in 1 .. Len(s) /\ a # L
    BY <1>1, <1>2 DEF L
  <2>2. ASSUME NEW a \in 1 .. L - 1, i \in Items(s[a]) PROVE i \notin Items(top)
    BY <1>1, <2>1, <2>2 DEF Apart, top
  <2>3. /\ i \in Items(x) => i \in Items(top) /\ i \notin Items(y)
        /\ i \in Items(y) => i \in Items(top) /\ i \notin Items(x)
    BY DEF top, L
  <2>4. CASE j \in 1 .. L - 1 /\ k \in 1 .. L - 1
    BY <2>1, <2>4 DEF Apart
  <2>5. CASE j \in 1 .. L - 1 /\ k \notin 1 .. L - 1
    <3>1. new[k] = x \/ new[k] = y
      BY <1>2, <2>5
    <3>2. i \in Items(s[j])
      BY <2>1, <2>5
    <3> QED
      BY <2>2, <2>3, <2>5, <3>1, <3>2
  <2>6. CASE j \notin 1 .. L - 1 /\ k \in 1 .. L - 1
    <3>1. new[j] = x \/ new[j] = y
      BY <1>2, <2>6
    <3>2. i \in Items(top)
      BY <2>3, <3>1
    <3> QED
      BY <2>1, <2>2, <2>6, <3>2
  <2>7. CASE j \notin 1 .. L - 1 /\ k \notin 1 .. L - 1
    <3>1. (j = L /\ k = L + 1) \/ (k = L /\ j = L + 1)
      BY <1>2, <2>7
    <3>2. (new[j] = x /\ new[k] = y) \/ (new[k] = x /\ new[j] = y)
      BY <1>1, <1>2, <2>7, <3>1
    <3> QED
      BY <2>3, <3>2
  <2> QED
    BY <2>4, <2>5, <2>6, <2>7
<1>7. Halved(new, n)
  <2> SUFFICES ASSUME NEW k \in 1 .. Len(new) PROVE Size(new[k]) * 2^(k - 1) <= n
    BY DEF Halved
  <2> DEFINE P == 2^(L - 1)
  <2>1. L - 1 \in Nat /\ (L - 1) + 1 = L
    BY <1>1
  <2>2. P \in Nat /\ 2^L = 2 * P
    BY <2>1, TwoTo
  <2>3. Size(top) * P <= n
    BY <1>1 DEF Halved, top
  <2> HIDE DEF P
  <2>4. CASE k \in 1 .. L - 1
    <3>1. new[k] = s[k] /\ k \in 1 .. Len(s)
      BY <1>1, <1>2, <2>4 DEF L
    <3> QED
      BY <3>1 DEF Halved
  <2>5. CASE k = L /\ ~Short(x)
    <3>1. Size(x) <= Size(top)
      BY <1>3, <1>4
    <3>2. Size(x) * P <= Size(top) * P
      BY <1>3, <2>2, <3>1, TimesKeeps
    <3>3. Size(x) * P <= n
      BY <1>3, <2>2, <2>3, <3>2
    <3> QED
      BY <1>2, <2>5, <3>3 DEF P
  <2>6. CASE k = L + 1 /\ ~Short(y)
    <3>1. 2 * Size(y) <= Size(top)
      BY <1>2, <1>3, <1>4, <2>6
    <3>2. (2 * Size(y)) * P <= Size(top) * P
      BY <1>3, <2>2, <3>1, 2 * Size(y) \in Int, TimesKeeps
    <3>3. Size(y) * (2 * P) <= n
      BY <1>3, <2>2, <2>3, <3>2
    <3>4. k - 1 = L /\ new[k] = y
      BY <1>1, <1>2, <2>6
    <3> QED
      BY <2>2, <3>3, <3>4
  <2> QED
    BY <1>2, <2>4, <2>5, <2>6
<1> QED
  BY <1>5, <1>6, <1>7

(* Pairs that were in order are so, and one of its sides has those of the top that are not. *)
LEMMA OrderKeeps ==
    ASSUME NEW n \in Nat, NEW s \in Seq(Part(n)), s # << >>, Apart(s),
           NEW a \in [1 .. n -> Key], OrderedBut(a, s, n),
           NEW left \in 1 .. n, NEW right \in left .. n,
           s[Len(s)] = [left |-> left, right |-> right],
           NEW b, Shuffled(a, b, left, right),
           NEW x, NEW y, NEW new \in Seq(Part(n)), Pushed(s, x, y, new),
           SortedBut(b, x, y, left, right)
    PROVE  OrderedBut(b, new, n)
<1> DEFINE L == Len(s)
           top == s[L]
<1>1. L \in Nat \ {0} /\ L \in 1 .. Len(s) /\ left \in Int /\ right \in Int
  OBVIOUS
<1>2. Items(top) = left .. right
  BY DEF Items
<1>3. From(a, b, n, left, right)
  BY <1>1, ShuffledFrom
<1>4. ASSUME NEW k \in 1 .. L, NEW i \in Items(s[k]), i \notin left .. right
      PROVE  k \in 1 .. L - 1 /\ k \in 1 .. Len(new) /\ new[k] = s[k]
  <2>1. k # L
    BY <1>2, <1>4
  <2>2. k \in 1 .. L - 1
    BY <1>1, <2>1
  <2> QED
    BY <2>2 DEF Pushed
<1>5. ASSUME NEW i \in 1 .. n, NEW j \in 1 .. n, Together(s, i, j),
             i \in left .. right <=> j \notin left .. right
      PROVE  FALSE
  <2>1. PICK k \in 1 .. L : i \in Items(s[k]) /\ j \in Items(s[k])
    BY <1>5 DEF Together
  <2>2. CASE k = L
    BY <1>2, <1>5, <2>1, <2>2
  <2>3. CASE k # L
    BY <1>1, <1>2, <1>5, <2>1, <2>3 DEF Apart
  <2> QED
    BY <2>2, <2>3
<1> SUFFICES ASSUME NEW i \in 1 .. n, NEW j \in 1 .. n, i < j
             PROVE  b[i] <= b[j] \/ Together(new, i, j)
  BY DEF OrderedBut
<1>6. CASE i \in left .. right /\ j \in left .. right
  <2>1. ~Short(x) /\ i \in Items(x) /\ j \in Items(x) => Together(new, i, j)
    BY DEF Together, Pushed
  <2>2. ~Short(y) /\ i \in Items(y) /\ j \in Items(y) => Together(new, i, j)
    BY DEF Together, Pushed
  <2> QED
    BY <1>6, <2>1, <2>2 DEF SortedBut
<1>7. CASE i \notin left .. right /\ j \notin left .. right
  <2>1. b[i] = a[i] /\ b[j] = a[j]
    BY <1>3, <1>7 DEF From
  <2>2. Together(s, i, j) => Together(new, i, j)
    BY <1>4, <1>7 DEF Together
  <2> QED
    BY <2>1, <2>2 DEF OrderedBut
<1>8. CASE i \in left .. right /\ j \notin left .. right
  <2>1. PICK k \in (1 .. n) \cap (left .. right) : b[i] = a[k]
    BY <1>3, <1>8 DEF From
  <2>2. b[j] = a[j]
    BY <1>3, <1>8 DEF From
  <2>3. k \in 1 .. n /\ k \in left .. right /\ k < j
    BY <1>1, <1>8
  <2>4. ~Together(s, k, j)
    BY <1>5, <1>8, <2>3
  <2> QED
    BY <2>1, <2>2, <2>3, <2>4 DEF OrderedBut
<1>9. CASE i \notin left .. right /\ j \in left .. right
  <2>1. PICK k \in (1 .. n) \cap (left .. right) : b[j] = a[k]
    BY <1>3, <1>9 DEF From
  <2>2. b[i] = a[i]
    BY <1>3, <1>9 DEF From
  <2>3. k \in 1 .. n /\ k \in left .. right /\ i < k
    BY <1>1, <1>9
  <2>4. ~Together(s, i, k)
    BY <1>5, <1>9, <2>3
  <2> QED
    BY <2>1, <2>2, <2>3, <2>4 DEF OrderedBut
<1> QED
  BY <1>6, <1>7, <1>8, <1>9

LEMMA SortingOn == SortInv /\ SortPart => SortInv'
<1> SUFFICES ASSUME SortInv, SortPart PROVE SortInv'
  OBVIOUS
<1> DEFINE n == Len(given)
           top == stack[Len(stack)]
           p == Partition(array, top.left, top.right)
           l == [left |-> top.left, right |-> p.store - 1]
           r == [left |-> p.store + 1, right |-> top.right]
           new == PushSides(SubSeq(stack, 1, Len(stack) - 1), l, r)
           b == SortShort(SortShort(p.a, l), r)
<1>1. /\ stack # << >> /\ array' = b /\ stack' = new /\ given' = given
  BY DEF SortPart
<1>2. /\ n \in Nat \ {0} /\ given \in [1 .. n -> Key] /\ array \in [1 .. n -> Key]
      /\ Shuffled(given, array, 1, n) /\ stack \in Seq(Part(n))
      /\ \A k \in 1 .. Len(stack) : stack[k].left <= stack[k].right
      /\ Apart(stack) /\ OrderedBut(array, stack, n) /\ Halved(stack, n)
  BY DEF SortInv
<1> HIDE DEF n
<1>3. /\ Len(stack) \in 1 .. Len(stack) /\ top \in Part(n) /\ top.left <= top.right
      /\ top = [left |-> top.left, right |-> top.right]
  <2>1. Len(stack) \in 1 .. Len(stack) /\ top \in Part(n)
    BY <1>1, <1>2
  <2> QED
    BY <1>2, <2>1 DEF Part
<1> DEFINE left == top.left
           right == top.right
           m == p.store
<1>4. left \in 1 .. n /\ right \in left .. n
  BY <1>2, <1>3 DEF Part
<1>5. l = [left |-> left, right |-> m - 1] /\ r = [left |-> m + 1, right |-> right]
  OBVIOUS
<1>a. top = [left |-> left, right |-> right] /\ top = stack[Len(stack)]
  BY <1>3
<1>b. new = PushSides(SubSeq(stack, 1, Len(stack) - 1), l, r)
  OBVIOUS
<1>c. /\ p = Partition(array, left, right) /\ b = SortShort(SortShort(p.a, l), r)
      /\ l = [left |-> left, right |-> p.store - 1] /\ r = [left |-> p.store + 1, right |-> right]
  OBVIOUS
<1> HIDE DEF new, b, l, r, p, left, right, top
<1>6. /\ m \in left .. right
      /\ Shuffled(array, b, left, right)
      /\ SortedBut(b, l, r, left, right)
  <2>1. n \in Nat
    BY <1>2
  <2> QED
    BY <1>2, <1>4, <1>c, <2>1, SplitSorts
<1> HIDE DEF m
<1>7. /\ left \in Int /\ right \in Int /\ m \in Int /\ left <= m /\ m <= right
      /\ 1 <= left /\ right <= n
  BY <1>2, <1>4, <1>6
<1>8. /\ l \in [left : Int, right : Int] /\ r \in [left : Int, right : Int]
      /\ Size(l) = m - left /\ Size(r) = right - m /\ Size(top) = right - left + 1
      /\ Items(l) = left .. m - 1 /\ Items(r) = m + 1 .. right /\ Items(top) = left .. right
  <2>1. /\ l.left = left /\ l.right = m - 1 /\ r.left = m + 1 /\ r.right = right
        /\ top.left = left /\ top.right = right
    BY <1>5, <1>a
  <2> QED
    BY <1>5, <1>7, <2>1 DEF Size, Items
<1>9. (~Short(l) => l \in Part(n)) /\ (~Short(r) => r \in Part(n))
  <2>1. threshold \in Int /\ threshold >= 1
    BY SortAssumption
  <2>2. ~Short(l) => m - left > threshold
    BY <1>5, <1>7, <2>1 DEF Short
  <2>3. ~Short(r) => right - m > threshold
    BY <1>5, <1>7, <2>1 DEF Short
  <2> QED
    BY <1>2, <1>5, <1>7, <2>1, <2>2, <2>3 DEF Part
<1>10. new \in Seq(Part(n)) /\ (Pushed(stack, l, r, new) \/ Pushed(stack, r, l, new))
  <2>1. Size(l) \in Int /\ Size(r) \in Int
    BY <1>7, <1>8
  <2> QED
    BY <1>1, <1>2, <1>9, <1>b, <2>1, SidesPushed
<1>11. /\ \A i \in Items(l) : i \in Items(top) /\ i \notin Items(r)
       /\ \A i \in Items(r) : i \in Items(top) /\ i \notin Items(l)
       /\ Size(l) + Size(r) < Size(top) /\ Size(r) + Size(l) < Size(top)
       /\ 0 <= Size(l) /\ 0 <= Size(r)
  BY <1>7, <1>8
<1>12. /\ \A k \in 1 .. Len(new) : new[k].left <= new[k].right
       /\ Apart(new) /\ Halved(new, n)
  BY <1>1, <1>2, <1>8, <1>10, <1>11, <1>a, StackKeeps
<1>13. OrderedBut(b, new, n)
  <2>0. n \in Nat /\ stack[Len(stack)] = [left |-> left, right |-> right]
    BY <1>2, <1>a
  <2>1. CASE Pushed(stack, l, r, new)
    BY <1>1, <1>2, <1>4, <1>6, <1>10, <1>a, <2>0, <2>1, OrderKeeps
  <2>2. CASE Pushed(stack, r, l, new)
    <3>1. SortedBut(b, r, l, left, right)
      BY <1>6 DEF SortedBut
    <3> QED
      BY <1>1, <1>2, <1>4, <1>6, <1>10, <1>a, <2>0, <2>2, <3>1, OrderKeeps
  <2> QED
    BY <1>10, <2>1, <2>2
<1>14. Shuffled(given, b, 1, n) /\ b \in [1 .. n -> Key]
  <2>1. Shuffled(array, b, 1, n)
    BY <1>2, <1>6, <1>7, ShuffledWithin
  <2>2. Shuffled(given, b, 1, n)
    BY <1>2, <2>1, ShuffledTwice
  <2>3. From(given, b, n, 1, n)
    BY <1>2, <2>2, ShuffledFrom
  <2> QED
    BY <2>2, <2>3 DEF From
<1> QED
  BY <1>1, <1>2, <1>10, <1>12, <1>13, <1>14 DEF SortInv, n

LEMMA SortInvMeans == SortInv => SortTypeOK /\ SortsWell
<1> SUFFICES ASSUME SortInv PROVE SortTypeOK /\ SortsWell
  OBVIOUS
<1> DEFINE n == Len(given)
<1>1. /\ n \in Nat \ {0} /\ given \in [1 .. n -> Key] /\ array \in [1 .. n -> Key]
      /\ Shuffled(given, array, 1, n) /\ stack \in Seq(Part(n))
      /\ \A k \in 1 .. Len(stack) : stack[k].left <= stack[k].right
      /\ OrderedBut(array, stack, n) /\ Halved(stack, n)
  BY DEF SortInv
<1>2. array \in [1 .. Len(given) -> Key]
  BY <1>1
<1> HIDE DEF n
<1>3. Len(array) = n /\ array \in Seq(Key)
  BY <1>1
<1>4. SortTypeOK
  <2> SUFFICES ASSUME NEW k \in 1 .. Len(stack) PROVE stack[k].left \in 1 .. stack[k].right
    BY <1>2 DEF SortTypeOK
  <2>1. stack[k] \in Part(n) /\ stack[k].left <= stack[k].right
    BY <1>1
  <2> QED
    BY <1>1, <2>1 DEF Part
<1>5. ASSUME NEW x \in Key
      PROVE  Cardinality({i \in DOMAIN array : array[i] = x})
             = Cardinality({i \in DOMAIN given : given[i] = x})
  <2>1. n \in Nat /\ 1 \in Int /\ n \in Int
    BY <1>1
  <2>2. Cardinality(Having(array, x)) = Cardinality(Having(given, x))
    BY <1>1, <2>1, ShuffledSame
  <2> QED
    BY <2>2 DEF Having
<1>6. ASSUME stack = << >>, NEW i \in 2 .. Len(array) PROVE array[i - 1] <= array[i]
  <2>1. i \in 1 .. n /\ i - 1 \in 1 .. n /\ i - 1 < i
    BY <1>1, <1>3
  <2>2. ~Together(stack, i - 1, i)
    BY <1>6 DEF Together
  <2> QED
    BY <1>1, <2>1, <2>2 DEF OrderedBut
<1>7. ASSUME stack # << >>
      PROVE  LET top == stack[Len(stack)] IN
             (top.right - top.left + 1) * 2^(Len(stack) - 1) <= Len(array)
  <2>1. Len(stack) \in 1 .. Len(stack)
    BY <1>1, <1>7
  <2> QED
    BY <1>1, <1>3, <2>1 DEF Halved, Size
<1> QED
  BY <1>4, <1>5, <1>6, <1>7 DEF SortsWell

(* qsort keeps the items, is done only when they are in order, and puts no more
   parts on its stack than the length of the array can be halved (qsort.c:86-230). *)
THEOREM SortingIsRight == SortSpec => [](SortTypeOK /\ SortsWell)
<1>1. SortInv /\ UNCHANGED sortVars => SortInv'
  BY DEF SortInv, sortVars, Apart, OrderedBut, Together, Halved, Shuffled, Items, Size
<1>2. SortInv /\ [SortNext]_sortVars => SortInv'
  BY <1>1, SortingOn DEF SortNext, Sorted
<1> QED
  BY <1>2, StartSorting, SortInvMeans, PTL DEF SortSpec
(***************************************************************************)
(* Linked lists.                                                           *)
(***************************************************************************)
ItemAt(c, k) == IF k \in 1 .. Len(c) THEN c[k] ELSE NULL

Once(c) == \A i, j \in 1 .. Len(c) : c[i] = c[j] => i = j

(* The links of l are those of the sequence c. *)
Linked(l, c) ==
    /\ l \in List /\ c \in Seq(ListItem) /\ Once(c)
    /\ l.head = ItemAt(c, 1)
    /\ \A k \in 1 .. Len(c) : l.next[c[k]] = ItemAt(c, k + 1)

(* A sequence without repetition is no longer than there are items. *)
LEMMA OnceIsShort ==
    ASSUME NEW c \in Seq(ListItem), Once(c)
    PROVE  Cardinality(ListItem) \in Nat /\ Len(c) <= Cardinality(ListItem)
<1> DEFINE D == 1 .. Len(c)
<1>1. Len(c) \in Nat /\ c \in [D -> ListItem]
  OBVIOUS
<1>2. IsFiniteSet(D) /\ Cardinality(D) = Len(c)
  BY <1>1, FS_Interval
<1>3. \A i, j \in D : c[i] = c[j] => i = j
  BY DEF Once
<1> HIDE DEF D
<1>4. c \in Injection(D, ListItem)
  BY <1>1, <1>3, Fun_IsInj
<1>5. IsFiniteSet(ListItem) /\ Cardinality(ListItem) \in Nat
  BY NullAssumption, FS_CardinalityType
<1> QED
  BY <1>2, <1>4, <1>5, FS_Injection

(* The rest of a sequence. *)
Rest(c, k) == SubSeq(c, k, Len(c))

LEMMA RestGoesOn ==
    ASSUME NEW c \in Seq(ListItem), NEW k \in 1 .. Len(c)
    PROVE  Rest(c, k) = IF k = Len(c) THEN <<c[k]>> ELSE <<c[k]>> \o Rest(c, k + 1)
<1>1. Len(c) \in Nat /\ k \in Int /\ k + 1 \in Int
  OBVIOUS
<1>2. /\ Rest(c, k) \in Seq(ListItem) /\ Len(Rest(c, k)) = Len(c) - k + 1
      /\ \A i \in 1 .. Len(c) - k + 1 : Rest(c, k)[i] = c[k + i - 1]
  BY <1>1, SubSeqProperties DEF Rest
<1>3. CASE k = Len(c)
  BY <1>1, <1>2, <1>3
<1>4. CASE k # Len(c)
  <2> DEFINE r == Rest(c, k + 1)
             one == <<c[k]>>
  <2>1. /\ r \in Seq(ListItem) /\ Len(r) = Len(c) - k
        /\ \A i \in 1 .. Len(c) - k : r[i] = c[k + i]
    <3>1. \A i \in k + 1 .. Len(c) : c[i] \in ListItem
      BY <1>1
    <3>2. /\ r \in Seq(ListItem)
          /\ Len(r) = IF k + 1 <= Len(c) THEN Len(c) - (k + 1) + 1 ELSE 0
          /\ \A i \in 1 .. Len(c) - (k + 1) + 1 : r[i] = c[(k + 1) + i - 1]
      BY <1>1, <3>1, SubSeqProperties DEF Rest
    <3> QED
      BY <1>1, <1>4, <3>2
  <2>2. one \in Seq(ListItem) /\ Len(one) = 1 /\ one[1] = c[k]
    OBVIOUS
  <2> HIDE DEF r, one
  <2>3. /\ one \o r \in Seq(ListItem) /\ Len(one \o r) = 1 + Len(r)
        /\ \A i \in 1 .. 1 + Len(r) : (one \o r)[i] = IF i <= 1 THEN one[i] ELSE r[i - 1]
    <3>1. /\ one \o r \in Seq(ListItem) /\ Len(one \o r) = Len(one) + Len(r)
          /\ \A i \in 1 .. Len(one) + Len(r) :
               (one \o r)[i] = IF i <= Len(one) THEN one[i] ELSE r[i - Len(one)]
      BY <2>1, <2>2, ConcatProperties
    <3> QED
      BY <2>2, <3>1
  <2>4. Rest(c, k) = one \o r
    <3> DEFINE p == Rest(c, k)
               q == one \o r
    <3>1. Len(p) = Len(q) /\ p \in Seq(ListItem) /\ q \in Seq(ListItem)
      BY <1>1, <1>2, <2>1, <2>3
    <3>2. ASSUME NEW i \in 1 .. Len(p) PROVE p[i] = q[i]
      <4>1. i \in 1 .. Len(c) - k + 1 /\ i \in 1 .. 1 + Len(r)
        BY <1>1, <1>2, <2>1
      <4>2. CASE i = 1
        BY <1>1, <1>2, <2>2, <2>3, <4>1, <4>2
      <4>3. CASE i # 1
        <5>1. i - 1 \in 1 .. Len(c) - k /\ k + (i - 1) = k + i - 1
          BY <1>1, <4>1, <4>3
        <5>2. r[i - 1] = c[k + (i - 1)]
          BY <2>1, <5>1
        <5>3. p[i] = c[k + i - 1]
          BY <1>2, <4>1
        <5>4. q[i] = r[i - 1]
          BY <2>3, <4>1, <4>3, <5>1
        <5> QED
          BY <5>1, <5>2, <5>3, <5>4
      <4> QED
        BY <4>2, <4>3
    <3> HIDE DEF p, q
    <3>3. p = q
      BY <3>1, <3>2, SeqEqual
    <3> QED
      BY <3>3 DEF p, q
  <2> QED
    BY <1>4, <2>4 DEF r, one
<1> QED
  BY <1>3, <1>4

(* A loop over a list comes by the items that it stands for. *)
LEMMA LinkedIsChain ==
    ASSUME NEW l, NEW c, Linked(l, c)
    PROVE  Chain(l) = c
<1> DEFINE N == Cardinality(ListItem) + 1
           S == [ListItem -> Seq(ListItem)]
           b == [x \in ListItem |-> <<x>>]
           F == [n \in 1 .. N |-> [w \in S |->
                  [x \in ListItem |->
                    IF l.next[x] = NULL THEN <<x>> ELSE <<x>> \o w[l.next[x]]]]]
           walk[n \in 1 .. N] ==
            [x \in ListItem |->
                IF n = 1 \/ l.next[x] = NULL THEN <<x>> ELSE <<x>> \o walk[n - 1][l.next[x]]]
<1>1. /\ l \in List /\ c \in Seq(ListItem) /\ Once(c) /\ l.head = ItemAt(c, 1)
      /\ \A k \in 1 .. Len(c) : l.next[c[k]] = ItemAt(c, k + 1)
  BY DEF Linked
<1>2. N \in Nat \ {0} /\ Len(c) \in Nat /\ Len(c) < N /\ 1 \in Int /\ N \in Int /\ 1 <= N
  BY <1>1, OnceIsShort
<1>3. Chain(l) = IF l.head = NULL THEN << >> ELSE walk[N][l.head]
  BY DEF Chain
<1>4. \A x \in ListItem : l.next[x] = NULL \/ l.next[x] \in ListItem
  BY <1>1 DEF List
<1> HIDE DEF N
<1>5. b \in S
  OBVIOUS
<1>6. Body(F, 1, N, S)
  <2> SUFFICES ASSUME NEW w \in S, NEW x \in ListItem, l.next[x] # NULL
               PROVE  <<x>> \o w[l.next[x]] \in Seq(ListItem)
    BY DEF Body
  <2>1. <<x>> \in Seq(ListItem) /\ w[l.next[x]] \in Seq(ListItem)
    BY <1>4
  <2> QED
    BY <2>1, ConcatProperties
<1>7. PICK f \in [1 .. N -> S] : Run(f, b, F, 1, N, S)
  <2> HIDE DEF b, F, S
  <2> QED
    BY <1>2, <1>5, <1>6, LoopRuns
<1>8. f[1] = b /\ \A k \in 2 .. N : f[k] = F[k][f[k - 1]]
  <2>1. f[1] = b /\ \A k \in 1 + 1 .. N : f[k] = F[k][f[k - 1]]
    <3> HIDE DEF b, F, S
    <3> QED
      BY <1>7 DEF Run
  <2> HIDE DEF b, F, S
  <2> QED
    BY <2>1
<1> DEFINE Loop(g) == [n \in 1 .. N |-> [x \in ListItem |->
               IF n = 1 \/ l.next[x] = NULL THEN <<x>> ELSE <<x>> \o g[n - 1][l.next[x]]]]
<1>9. f = Loop(f)
  <2> SUFFICES ASSUME NEW n \in 1 .. N PROVE f[n] = Loop(f)[n]
    OBVIOUS
  <2>1. CASE n = 1
    BY <1>8, <2>1
  <2>2. CASE n # 1
    <3>1. n \in 2 .. N /\ n - 1 \in 1 .. N
      BY <1>2, <2>2
    <3>2. f[n] = F[n][f[n - 1]] /\ f[n - 1] \in S
      BY <1>8, <3>1
    <3> QED
      BY <2>2, <3>2
  <2> QED
    BY <2>1, <2>2
<1>10. walk = Loop(walk)
  <2>1. walk = CHOOSE g : g = Loop(g)
    OBVIOUS
  <2> HIDE DEF Loop, walk
  <2> QED
    BY <1>9, <2>1
<1>11. \A n \in 1 .. N : walk[n] = Loop(walk)[n]
  <2> HIDE DEF walk, Loop
  <2> QED
    BY <1>10, Zenon
<1> HIDE DEF walk
<1> DEFINE T == {n \in 1 .. N : \A k \in 1 .. Len(c) :
                   Len(c) - k + 1 <= n => walk[n][c[k]] = Rest(c, k)}
<1>12. ASSUME NEW n \in 1 .. N, NEW k \in 1 .. Len(c)
       PROVE  walk[n][c[k]] = IF n = 1 \/ k = Len(c) THEN <<c[k]>>
                              ELSE <<c[k]>> \o walk[n - 1][c[k + 1]]
  <2>1. c[k] \in ListItem /\ l.next[c[k]] = ItemAt(c, k + 1)
    BY <1>1
  <2>2. k # Len(c) => k + 1 \in 1 .. Len(c) /\ l.next[c[k]] = c[k + 1] /\ c[k + 1] # NULL
    <3>1. k # Len(c) => k + 1 \in 1 .. Len(c)
      BY <1>2
    <3>2. \A i \in 1 .. Len(c) : c[i] \in ListItem
      BY <1>1
    <3> QED
      BY <2>1, <3>1, <3>2, NullAssumption DEF ItemAt
  <2>3. k = Len(c) => l.next[c[k]] = NULL
    BY <1>2, <2>1 DEF ItemAt
  <2>4. walk[n][c[k]] = IF n = 1 \/ l.next[c[k]] = NULL THEN <<c[k]>>
                        ELSE <<c[k]>> \o walk[n - 1][l.next[c[k]]]
    <3>1. \A x \in ListItem : walk[n][x] = IF n = 1 \/ l.next[x] = NULL THEN <<x>>
                                           ELSE <<x>> \o walk[n - 1][l.next[x]]
      BY <1>11
    <3> QED
      BY <2>1, <3>1
  <2> QED
    BY <2>2, <2>3, <2>4
<1>13. \A n \in 1 .. N : n \in T
  <2>1. 1 \in T
    <3> SUFFICES ASSUME NEW k \in 1 .. Len(c), Len(c) - k + 1 <= 1 PROVE walk[1][c[k]] = Rest(c, k)
      BY <1>2
    <3>1. k = Len(c) /\ 1 \in 1 .. N
      BY <1>2
    <3> QED
      BY <1>1, <1>12, <3>1, RestGoesOn
  <2>2. ASSUME NEW n \in 1 .. N - 1, n \in T PROVE n + 1 \in T
    <3>1. n + 1 \in 1 .. N /\ n + 1 # 1 /\ (n + 1) - 1 = n /\ n \in 1 .. N
      BY <1>2
    <3> SUFFICES ASSUME NEW k \in 1 .. Len(c), Len(c) - k + 1 <= n + 1
                 PROVE  walk[n + 1][c[k]] = Rest(c, k)
      BY <3>1
    <3>2. walk[n + 1][c[k]] = IF k = Len(c) THEN <<c[k]>> ELSE <<c[k]>> \o walk[n][c[k + 1]]
      BY <1>12, <3>1
    <3>3. k # Len(c) => walk[n][c[k + 1]] = Rest(c, k + 1)
      <4>1. k # Len(c) => k + 1 \in 1 .. Len(c) /\ Len(c) - (k + 1) + 1 <= n
        BY <1>2
      <4> QED
        BY <2>2, <4>1
    <3> QED
      BY <1>1, <3>2, <3>3, RestGoesOn
  <2> HIDE DEF T
  <2> QED
    BY <1>2, <2>1, <2>2, UpTo
<1>14. CASE c = << >>
  <2>1. l.head = NULL
    BY <1>1, <1>14 DEF ItemAt
  <2> QED
    BY <1>3, <1>14, <2>1
<1>15. CASE c # << >>
  <2>1. 1 \in 1 .. Len(c) /\ Len(c) - 1 + 1 <= N /\ N \in 1 .. N
    BY <1>1, <1>2, <1>15
  <2>2. l.head = c[1] /\ c[1] # NULL
    BY <1>1, <2>1, NullAssumption DEF ItemAt
  <2>3. walk[N][c[1]] = Rest(c, 1)
    BY <1>13, <2>1
  <2>4. Rest(c, 1) = c
    BY <1>1 DEF Rest
  <2> QED
    BY <1>3, <2>2, <2>3, <2>4
<1> QED
  BY <1>14, <1>15

(* What is asked of a list is asked of the sequence. *)
LEMMA ChainFacts ==
    ASSUME NEW l, NEW c, Linked(l, c)
    PROVE  /\ Chain(l) = c
           /\ \A x : In(l, x) <=> \E k \in 1 .. Len(c) : c[k] = x
           /\ list_tail(l) = ItemAt(c, Len(c))
           /\ \A k \in 1 .. Len(c) : Before(l, c[k]) = ItemAt(c, k - 1)
<1>1. Chain(l) = c /\ c \in Seq(ListItem) /\ Once(c)
  BY LinkedIsChain DEF Linked
<1>2. DOMAIN c = 1 .. Len(c) /\ Len(c) \in Nat
  BY <1>1
<1>3. \A x : In(l, x) <=> \E k \in 1 .. Len(c) : c[k] = x
  BY <1>1, <1>2 DEF In
<1>4. list_tail(l) = ItemAt(c, Len(c))
  <2>1. list_tail(l) = IF c = << >> THEN NULL ELSE c[Len(c)]
    BY <1>1 DEF list_tail
  <2>2. c = << >> <=> Len(c) \notin 1 .. Len(c)
    BY <1>1, <1>2
  <2> QED
    BY <2>1, <2>2 DEF ItemAt
<1>5. ASSUME NEW k \in 1 .. Len(c) PROVE Before(l, c[k]) = ItemAt(c, k - 1)
  <2> DEFINE i == CHOOSE i \in DOMAIN c : c[i] = c[k]
  <2>1. i \in 1 .. Len(c) /\ c[i] = c[k]
    BY <1>2
  <2>2. i = k
    BY <1>1, <2>1 DEF Once
  <2>3. Before(l, c[k]) = IF i = 1 THEN NULL ELSE c[i - 1]
    BY <1>1 DEF Before
  <2> HIDE DEF i
  <2>4. Before(l, c[k]) = IF k = 1 THEN NULL ELSE c[k - 1]
    BY <2>2, <2>3
  <2>5. k - 1 \in 1 .. Len(c) <=> k # 1
    BY <1>2
  <2> QED
    BY <2>4, <2>5 DEF ItemAt
<1> QED
  BY <1>1, <1>3, <1>4, <1>5

(* d is c without its item i, or with x before its item i. *)
IsDrop(c, i, d) ==
    /\ d \in Seq(ListItem) /\ Len(d) + 1 = Len(c)
    /\ \A k \in 1 .. Len(d) : d[k] = IF k < i THEN c[k] ELSE c[k + 1]
IsPut(c, i, x, d) ==
    /\ d \in Seq(ListItem) /\ Len(d) = Len(c) + 1
    /\ \A k \in 1 .. Len(d) : d[k] = IF k < i THEN c[k] ELSE IF k = i THEN x ELSE c[k - 1]

Has(c, x) == \E k \in 1 .. Len(c) : c[k] = x

LEMMA LinkedDrop ==
    ASSUME NEW l, NEW c, Linked(l, c), NEW i \in 1 .. Len(c), NEW d, IsDrop(c, i, d),
           NEW m \in List,
           i = 1 => m.head = ItemAt(c, 2),
           i # 1 => m.head = l.head /\ m.next[c[i - 1]] = ItemAt(c, i + 1),
           \A k \in 1 .. Len(c) : k # i /\ k # i - 1 => m.next[c[k]] = l.next[c[k]]
    PROVE  Linked(m, d) /\ ~Has(d, c[i])
<1>1. /\ c \in Seq(ListItem) /\ Len(c) \in Nat /\ Once(c) /\ l.head = ItemAt(c, 1)
      /\ \A k \in 1 .. Len(c) : l.next[c[k]] = ItemAt(c, k + 1)
  BY DEF Linked
<1>2. /\ d \in Seq(ListItem) /\ Len(d) \in Nat /\ Len(d) + 1 = Len(c)
      /\ \A k \in 1 .. Len(d) : d[k] = IF k < i THEN c[k] ELSE c[k + 1]
  BY DEF IsDrop
<1> DEFINE from(k) == IF k < i THEN k ELSE k + 1
<1>3. \A k \in 1 .. Len(d) : from(k) \in 1 .. Len(c) /\ from(k) # i /\ d[k] = c[from(k)]
  BY <1>1, <1>2
<1>4. \A j, k \in 1 .. Len(d) : from(j) = from(k) => j = k
  BY <1>1, <1>2
<1> HIDE DEF from
<1>5. Once(d) /\ ~Has(d, c[i])
  <2>1. ASSUME NEW j \in 1 .. Len(d), NEW k \in 1 .. Len(d), d[j] = d[k] PROVE j = k
    <3>1. /\ from(j) \in 1 .. Len(c) /\ from(k) \in 1 .. Len(c)
          /\ c[from(j)] = c[from(k)]
      BY <1>3, <2>1, Zenon
    <3>2. from(j) = from(k)
      BY <1>1, <3>1, Zenon DEF Once
    <3> QED
      BY <1>4, <3>2, Zenon
  <2>2. ASSUME NEW k \in 1 .. Len(d) PROVE d[k] # c[i]
    BY <1>1, <1>3 DEF Once
  <2> QED
    BY <2>1, <2>2 DEF Once, Has
<1>6. m.head = ItemAt(d, 1)
  <2>1. CASE i = 1
    BY <1>1, <1>2, <2>1 DEF ItemAt
  <2>2. CASE i # 1
    <3>1. 1 \in 1 .. Len(d) /\ 1 \in 1 .. Len(c) /\ 1 < i
      BY <1>1, <1>2, <2>2
    <3> QED
      BY <1>1, <1>2, <2>2, <3>1 DEF ItemAt
  <2> QED
    BY <2>1, <2>2
<1>7. ASSUME NEW k \in 1 .. Len(d) PROVE m.next[d[k]] = ItemAt(d, k + 1)
  <2>1. CASE k < i - 1
    <3>1. /\ k \in 1 .. Len(c) /\ k + 1 \in 1 .. Len(c) /\ k + 1 \in 1 .. Len(d) /\ k + 1 < i
          /\ k # i /\ k # i - 1 /\ k < i
      BY <1>1, <1>2, <2>1
    <3> QED
      BY <1>1, <1>2, <3>1 DEF ItemAt
  <2>2. CASE k = i - 1
    <3>1. i # 1 /\ k < i /\ ~(k + 1 < i) /\ (k + 1) + 1 = i + 1
          /\ (k + 1 \in 1 .. Len(d) <=> i + 1 \in 1 .. Len(c))
      BY <1>1, <1>2, <2>2
    <3>2. m.next[d[k]] = ItemAt(c, i + 1)
      BY <1>2, <2>2, <3>1
    <3> QED
      BY <1>2, <3>1, <3>2 DEF ItemAt
  <2>3. CASE k >= i
    <3>1. /\ k + 1 \in 1 .. Len(c) /\ k + 1 # i /\ k + 1 # i - 1 /\ ~(k < i) /\ ~(k + 1 < i)
          /\ (k + 1 \in 1 .. Len(d) <=> (k + 1) + 1 \in 1 .. Len(c))
      BY <1>1, <1>2, <2>3
    <3>2. m.next[d[k]] = ItemAt(c, (k + 1) + 1)
      BY <1>1, <1>2, <3>1
    <3> QED
      BY <1>2, <3>1, <3>2 DEF ItemAt
  <2> QED
    BY <1>1, <2>1, <2>2, <2>3
<1> QED
  BY <1>2, <1>5, <1>6, <1>7 DEF Linked

LEMMA LinkedPut ==
    ASSUME NEW l, NEW c, Linked(l, c), NEW x \in ListItem, ~Has(c, x),
           NEW i \in 1 .. Len(c) + 1, NEW d, IsPut(c, i, x, d),
           NEW m \in List, m.next[x] = ItemAt(c, i),
           i = 1 => m.head = x,
           i # 1 => m.head = l.head /\ m.next[c[i - 1]] = x,
           \A k \in 1 .. Len(c) : k # i - 1 => m.next[c[k]] = l.next[c[k]]
    PROVE  Linked(m, d)
<1>1. /\ c \in Seq(ListItem) /\ Len(c) \in Nat /\ Once(c) /\ l.head = ItemAt(c, 1)
      /\ \A k \in 1 .. Len(c) : l.next[c[k]] = ItemAt(c, k + 1)
  BY DEF Linked
<1>2. /\ d \in Seq(ListItem) /\ Len(d) \in Nat /\ Len(d) = Len(c) + 1
      /\ \A k \in 1 .. Len(d) : d[k] = IF k < i THEN c[k] ELSE IF k = i THEN x ELSE c[k - 1]
  BY DEF IsPut
<1> DEFINE from(k) == IF k < i THEN k ELSE k - 1
<1>3. \A k \in 1 .. Len(d) : k # i => from(k) \in 1 .. Len(c) /\ d[k] = c[from(k)] /\ d[k] # x
  BY <1>1, <1>2 DEF Has
<1>4. \A j, k \in 1 .. Len(d) : j # i /\ k # i /\ from(j) = from(k) => j = k
  BY <1>1, <1>2
<1> HIDE DEF from
<1>5. Once(d)
  <2>1. i \in 1 .. Len(d) /\ d[i] = x
    BY <1>1, <1>2
  <2> SUFFICES ASSUME NEW j \in 1 .. Len(d), NEW k \in 1 .. Len(d), d[j] = d[k] PROVE j = k
    BY DEF Once
  <2>2. CASE j = i \/ k = i
    BY <1>3, <2>1, <2>2
  <2>3. CASE j # i /\ k # i
    <3>1. /\ from(j) \in 1 .. Len(c) /\ from(k) \in 1 .. Len(c)
          /\ c[from(j)] = c[from(k)]
      BY <1>3, <2>3, Zenon
    <3>2. from(j) = from(k)
      BY <1>1, <3>1, Zenon DEF Once
    <3> QED
      BY <1>4, <2>3, <3>2, Zenon
  <2> QED
    BY <2>2, <2>3
<1>6. m.head = ItemAt(d, 1)
  <2>1. 1 \in 1 .. Len(d)
    BY <1>2
  <2>2. CASE i = 1
    BY <1>2, <2>1, <2>2 DEF ItemAt
  <2>3. CASE i # 1
    <3>1. 1 < i /\ 1 \in 1 .. Len(c)
      BY <1>1, <2>3
    <3> QED
      BY <1>1, <1>2, <2>1, <2>3, <3>1 DEF ItemAt
  <2> QED
    BY <2>2, <2>3
<1>7. ASSUME NEW k \in 1 .. Len(d) PROVE m.next[d[k]] = ItemAt(d, k + 1)
  <2>1. CASE k < i - 1
    <3>1. /\ k \in 1 .. Len(c) /\ k + 1 \in 1 .. Len(c) /\ k + 1 \in 1 .. Len(d) /\ k + 1 < i
          /\ k # i - 1 /\ k < i
      BY <1>1, <1>2, <2>1
    <3> QED
      BY <1>1, <1>2, <3>1 DEF ItemAt
  <2>2. CASE k = i - 1
    <3>1. i # 1 /\ k < i /\ k + 1 = i /\ k + 1 \in 1 .. Len(d)
      BY <1>1, <1>2, <2>2
    <3> QED
      BY <1>2, <2>2, <3>1 DEF ItemAt
  <2>3. CASE k = i
    <3>1. ~(k + 1 < i) /\ k + 1 # i /\ (k + 1) - 1 = i
          /\ (k + 1 \in 1 .. Len(d) <=> i \in 1 .. Len(c))
      BY <1>1, <1>2, <2>3
    <3>2. m.next[d[k]] = ItemAt(c, i)
      BY <1>2, <2>3
    <3> QED
      BY <1>2, <3>1, <3>2 DEF ItemAt
  <2>4. CASE k > i
    <3>1. /\ k - 1 \in 1 .. Len(c) /\ k - 1 # i - 1 /\ ~(k < i) /\ k # i
          /\ ~(k + 1 < i) /\ k + 1 # i /\ (k + 1) - 1 = k /\ (k - 1) + 1 = k
          /\ (k + 1 \in 1 .. Len(d) <=> k \in 1 .. Len(c))
      BY <1>1, <1>2, <2>4
    <3>2. m.next[d[k]] = ItemAt(c, k)
      BY <1>1, <1>2, <3>1
    <3> QED
      BY <1>2, <3>1, <3>2 DEF ItemAt
  <2> QED
    BY <1>1, <2>1, <2>2, <2>3, <2>4
<1> QED
  BY <1>2, <1>5, <1>6, <1>7 DEF Linked

LEMMA Unlinked ==
    ASSUME NEW l, NEW c, Linked(l, c), NEW i \in 1 .. Len(c), NEW d, IsDrop(c, i, d)
    PROVE  Linked(list_remove(l, c[i]), d) /\ ~Has(d, c[i])
<1> DEFINE x == c[i]
           p == ItemAt(c, i - 1)
           cut == Relink(l, x, l.next[x])
           m == Link(cut, x, NULL)
<1>1. /\ c \in Seq(ListItem) /\ Len(c) \in Nat /\ Once(c) /\ l.head = ItemAt(c, 1) /\ l \in List
      /\ \A k \in 1 .. Len(c) : l.next[c[k]] = ItemAt(c, k + 1) /\ c[k] \in ListItem
  BY DEF Linked
<1>2. list_remove(l, x) = m /\ Before(l, x) = p
  BY ChainFacts DEF list_remove
<1>3. \A k \in 1 .. Len(c) : k # i => c[k] # x
  BY <1>1 DEF Once
<1>4. x \in ListItem /\ l.next[x] = ItemAt(c, i + 1) /\ ItemAt(c, i + 1) \in ListItem \cup {NULL}
  BY <1>1 DEF ItemAt
<1>5. CASE i = 1
  <2>1. p = NULL
    BY <1>5 DEF ItemAt
  <2>2. m = [head |-> ItemAt(c, 2), next |-> [l.next EXCEPT ![x] = NULL]]
    <3>1. 1 + 1 = 2 /\ i + 1 = 2
      BY <1>5
    <3>2. l.next[x] = ItemAt(c, 2) /\ Before(l, x) = NULL
      BY <1>2, <1>4, <2>1, <3>1
    <3> HIDE DEF p, x
    <3>3. cut = [l EXCEPT !.head = ItemAt(c, 2)]
      BY <3>2 DEF Relink
    <3>4. cut = [head |-> ItemAt(c, 2), next |-> l.next]
      BY <1>1, <3>3 DEF List
    <3> HIDE DEF cut
    <3>5. m = [cut EXCEPT !.next[x] = NULL]
      BY DEF Link
    <3> QED
      BY <3>4, <3>5
  <2>3. m \in List
    BY <1>1, <1>4, <1>5, <2>2 DEF List
  <2>4. m.head = ItemAt(c, 2) /\ \A k \in 1 .. Len(c) : k # i => m.next[c[k]] = l.next[c[k]]
    BY <1>1, <1>3, <2>2 DEF List
  <2> HIDE DEF m, x
  <2>5. Linked(m, d) /\ ~Has(d, c[i])
    BY <1>5, <2>3, <2>4, LinkedDrop
  <2> QED
    BY <1>2, <2>5 DEF x
<1>6. CASE i # 1
  <2>1. i - 1 \in 1 .. Len(c) /\ p = c[i - 1] /\ p \in ListItem /\ p # NULL
    BY <1>1, <1>6, NullAssumption DEF ItemAt
  <2>2. m = [head |-> l.head,
             next |-> [[l.next EXCEPT ![p] = ItemAt(c, i + 1)] EXCEPT ![x] = NULL]]
    <3> HIDE DEF p, x
    <3> QED
      BY <1>1, <1>2, <1>4, <2>1 DEF Relink, Link, List
  <2>3. m \in List
    BY <1>1, <1>4, <2>1, <2>2 DEF List
  <2>4. p # x /\ \A k \in 1 .. Len(c) : k # i /\ k # i - 1 => c[k] # x /\ c[k] # p
    BY <1>1, <1>3, <2>1 DEF Once
  <2>5. /\ m.head = l.head /\ m.next[c[i - 1]] = ItemAt(c, i + 1)
        /\ \A k \in 1 .. Len(c) : k # i /\ k # i - 1 => m.next[c[k]] = l.next[c[k]]
    <3>1. l.next \in [ListItem -> ListItem \cup {NULL}]
      BY <1>1 DEF List
    <3> HIDE DEF p, x
    <3>2. m.next[p] = ItemAt(c, i + 1)
      BY <1>4, <2>1, <2>2, <2>4, <3>1
    <3>3. \A y \in ListItem : y # x /\ y # p => m.next[y] = l.next[y]
      BY <1>4, <2>1, <2>2, <3>1
    <3>4. m.head = l.head
      BY <2>2
    <3> QED
      BY <1>1, <2>1, <2>4, <3>2, <3>3, <3>4
  <2> HIDE DEF m, x
  <2>6. Linked(m, d) /\ ~Has(d, c[i])
    BY <1>6, <2>3, <2>5, LinkedDrop
  <2> QED
    BY <1>2, <2>6 DEF x
<1> QED
  BY <1>5, <1>6

LEMMA Popped ==
    ASSUME NEW l, NEW c, Linked(l, c), c # << >>, NEW d, IsDrop(c, 1, d)
    PROVE  Linked(list_pop(l), d) /\ l.head = c[1]
<1>1. /\ c \in Seq(ListItem) /\ Len(c) \in Nat /\ l.head = ItemAt(c, 1) /\ l \in List
      /\ \A k \in 1 .. Len(c) : l.next[c[k]] = ItemAt(c, k + 1) /\ c[k] \in ListItem
  BY DEF Linked
<1>2. 1 \in 1 .. Len(c) /\ l.head = c[1] /\ c[1] # NULL /\ 1 + 1 = 2
  BY <1>1, NullAssumption DEF ItemAt
<1> DEFINE m == [l EXCEPT !.head = l.next[l.head]]
<1>3. list_pop(l) = m
  BY <1>2 DEF list_pop
<1>4. m \in List /\ m.head = ItemAt(c, 2) /\ m.next = l.next
  BY <1>1, <1>2 DEF List
<1> HIDE DEF m
<1>5. Linked(m, d)
  BY <1>2, <1>4, LinkedDrop
<1> QED
  BY <1>2, <1>3, <1>5

LEMMA Chopped ==
    ASSUME NEW l, NEW c, Linked(l, c), c # << >>, NEW d, IsDrop(c, Len(c), d)
    PROVE  Linked(list_chop(l), d)
<1>1. /\ c \in Seq(ListItem) /\ Len(c) \in Nat /\ l.head = ItemAt(c, 1) /\ l \in List /\ Once(c)
      /\ \A k \in 1 .. Len(c) : l.next[c[k]] = ItemAt(c, k + 1) /\ c[k] \in ListItem
  BY DEF Linked
<1> DEFINE n == Len(c)
           p == ItemAt(c, n - 1)
           m == Relink(l, c[n], NULL)
<1>2. n \in 1 .. Len(c) /\ 1 \in 1 .. Len(c) /\ l.head # NULL /\ ItemAt(c, n) = c[n]
      /\ ItemAt(c, n + 1) = NULL /\ (n = 1 => ItemAt(c, 2) = NULL)
  BY <1>1, NullAssumption DEF ItemAt
<1>3. list_chop(l) = m /\ Before(l, c[n]) = p
  BY <1>2, ChainFacts DEF list_chop
<1>4. CASE n = 1
  <2>1. m = [l EXCEPT !.head = NULL]
    BY <1>3, <1>4 DEF Relink, ItemAt
  <2>2. m \in List /\ m.head = ItemAt(c, 2) /\ m.next = l.next
    BY <1>1, <1>2, <1>4, <2>1 DEF List
  <2> HIDE DEF m
  <2>3. Linked(m, d)
    BY <1>2, <1>4, <2>2, LinkedDrop
  <2> QED
    BY <1>3, <2>3
<1>5. CASE n # 1
  <2>1. n - 1 \in 1 .. Len(c) /\ p = c[n - 1] /\ p \in ListItem /\ p # NULL
    <3>1. n - 1 \in 1 .. Len(c)
      <4>1. n \in Nat /\ Len(c) = n /\ 1 <= n
        BY <1>1, <1>2
      <4> HIDE DEF n
      <4> QED
        BY <1>5, <4>1
    <3> QED
      BY <1>1, <3>1, NullAssumption DEF ItemAt
  <2>2. m = [head |-> l.head, next |-> [l.next EXCEPT ![p] = NULL]]
    <3> HIDE DEF p, n
    <3> QED
      BY <1>1, <1>3, <2>1 DEF Relink, Link, List
  <2>3. m \in List
    BY <1>1, <2>1, <2>2 DEF List
  <2>4. \A k \in 1 .. Len(c) : k # n - 1 => c[k] # p
    BY <1>1, <2>1 DEF Once
  <2>5. /\ m.head = l.head /\ m.next[c[n - 1]] = ItemAt(c, n + 1)
        /\ \A k \in 1 .. Len(c) : k # n - 1 => m.next[c[k]] = l.next[c[k]]
    <3>1. l.next \in [ListItem -> ListItem \cup {NULL}]
      BY <1>1 DEF List
    <3> HIDE DEF p, n
    <3> QED
      BY <1>1, <1>2, <2>1, <2>2, <2>4, <3>1
  <2> HIDE DEF m
  <2>6. IsDrop(c, n, d)
    OBVIOUS
  <2> HIDE DEF n
  <2>7. Linked(m, d)
    BY <1>2, <1>5, <2>3, <2>5, <2>6, LinkedDrop
  <2> QED
    BY <1>3, <2>7
<1> QED
  BY <1>4, <1>5

(* The links of an item that is not in the list do not matter to it. *)
LEMMA OtherLink ==
    ASSUME NEW l, NEW c, Linked(l, c), NEW x \in ListItem, ~Has(c, x), NEW y \in ListItem \cup {NULL},
           NEW m, m = Link(l, x, y)
    PROVE  /\ Linked(m, c) /\ m \in List /\ m.head = l.head /\ m.next[x] = y
           /\ \A z \in ListItem : z # x => m.next[z] = l.next[z]
<1>1. /\ c \in Seq(ListItem) /\ l \in List /\ \A k \in 1 .. Len(c) : c[k] \in ListItem /\ c[k] # x
  BY DEF Linked, Has
<1>2. m = [head |-> l.head, next |-> [l.next EXCEPT ![x] = y]]
  BY <1>1 DEF Link, List
<1>3. l.next \in [ListItem -> ListItem \cup {NULL}] /\ l.head \in ListItem \cup {NULL}
  BY <1>1 DEF List
<1>4. /\ m \in List /\ m.head = l.head /\ m.next[x] = y
      /\ \A z \in ListItem : z # x => m.next[z] = l.next[z]
  BY <1>2, <1>3 DEF List
<1>5. \A k \in 1 .. Len(c) : m.next[c[k]] = l.next[c[k]]
  BY <1>1, <1>4
<1> QED
  BY <1>4, <1>5 DEF Linked

LEMMA PushedOn ==
    ASSUME NEW l, NEW c, Linked(l, c), NEW x \in ListItem, ~Has(c, x), NEW d, IsPut(c, 1, x, d)
    PROVE  Linked(list_push(l, x), d)
<1> DEFINE on == Link(l, x, l.head)
           m == [on EXCEPT !.head = x]
<1>1. c \in Seq(ListItem) /\ l \in List /\ l.head = ItemAt(c, 1) /\ 1 \in 1 .. Len(c) + 1
      /\ \A k \in 1 .. Len(c) : c[k] \in ListItem /\ c[k] # x
  BY DEF Linked, Has
<1>2. l.head \in ListItem \cup {NULL}
  BY <1>1 DEF List
<1>3. /\ on \in List /\ on.next[x] = l.head
      /\ \A z \in ListItem : z # x => on.next[z] = l.next[z]
  BY <1>2, OtherLink
<1>4. list_push(l, x) = m
  BY DEF list_push
<1> HIDE DEF on
<1>5. m \in List /\ m.head = x /\ m.next = on.next
  BY <1>3 DEF List
<1> HIDE DEF m
<1>6. m.next[x] = ItemAt(c, 1) /\ \A k \in 1 .. Len(c) : m.next[c[k]] = l.next[c[k]]
  BY <1>1, <1>3, <1>5
<1>7. Linked(m, d)
  BY <1>1, <1>5, <1>6, LinkedPut
<1> QED
  BY <1>4, <1>7

LEMMA InsertedBehind ==
    ASSUME NEW l, NEW c, Linked(l, c), NEW x \in ListItem, ~Has(c, x), NEW i \in 1 .. Len(c),
           NEW d, IsPut(c, i + 1, x, d)
    PROVE  Linked(Link(Link(l, x, l.next[c[i]]), c[i], x), d)
<1> DEFINE on == Link(l, x, l.next[c[i]])
           prev == c[i]
           m == Link(on, prev, x)
<1>1. /\ c \in Seq(ListItem) /\ Len(c) \in Nat /\ l \in List /\ Once(c)
      /\ \A k \in 1 .. Len(c) : c[k] \in ListItem /\ c[k] # x /\ l.next[c[k]] = ItemAt(c, k + 1)
  BY DEF Linked, Has
<1>2. prev \in ListItem /\ prev # x /\ l.next[prev] = ItemAt(c, i + 1)
      /\ l.next[prev] \in ListItem \cup {NULL}
  BY <1>1 DEF List
<1>3. /\ on \in List /\ on.head = l.head /\ on.next[x] = l.next[prev]
      /\ \A z \in ListItem : z # x => on.next[z] = l.next[z]
  <2> DEFINE y == l.next[c[i]]
  <2>1. y \in ListItem \cup {NULL} /\ on = Link(l, x, y) /\ y = l.next[prev]
    BY <1>2
  <2> HIDE DEF y, on, prev
  <2> QED
    BY <2>1, OtherLink
<1> HIDE DEF on, prev
<1>4. m = [head |-> on.head, next |-> [on.next EXCEPT ![prev] = x]]
  BY <1>3 DEF Link, List
<1>5. on.next \in [ListItem -> ListItem \cup {NULL}] /\ on.head \in ListItem \cup {NULL}
  BY <1>3 DEF List
<1>6. /\ m \in List /\ m.head = on.head /\ m.next[prev] = x
      /\ \A z \in ListItem : z # prev => m.next[z] = on.next[z]
  BY <1>2, <1>4, <1>5 DEF List
<1> HIDE DEF m
<1>7. i + 1 \in 1 .. Len(c) + 1 /\ i + 1 # 1 /\ (i + 1) - 1 = i /\ prev = c[i]
  BY <1>1 DEF prev
<1>8. /\ m.next[x] = ItemAt(c, i + 1) /\ m.head = l.head /\ m.next[c[(i + 1) - 1]] = x
      /\ \A k \in 1 .. Len(c) : k # (i + 1) - 1 => m.next[c[k]] = l.next[c[k]]
  <2>1. m.next[x] = ItemAt(c, i + 1)
    BY <1>2, <1>3, <1>6
  <2>2. ASSUME NEW k \in 1 .. Len(c), k # i PROVE m.next[c[k]] = l.next[c[k]]
    <3>1. c[k] # prev
      BY <1>1, <1>7, <2>2 DEF Once
    <3> QED
      BY <1>1, <1>3, <1>6, <3>1
  <2> QED
    BY <1>3, <1>6, <1>7, <2>1, <2>2
<1> DEFINE j == i + 1
<1>9. j \in 1 .. Len(c) + 1 /\ j # 1 /\ IsPut(c, j, x, d)
  BY <1>7
<1>10. /\ m.next[x] = ItemAt(c, j) /\ m.head = l.head /\ m.next[c[j - 1]] = x
       /\ \A k \in 1 .. Len(c) : k # j - 1 => m.next[c[k]] = l.next[c[k]]
  BY <1>8
<1> HIDE DEF j
<1>11. Linked(m, d)
  BY <1>6, <1>9, <1>10, LinkedPut
<1> QED
  BY <1>11 DEF m, prev, on

LEMMA Added ==
    ASSUME NEW l, NEW c, Linked(l, c), NEW x \in ListItem, ~Has(c, x),
           NEW d, IsPut(c, Len(c) + 1, x, d)
    PROVE  Linked(list_add(l, x), d)
<1> DEFINE ended == Link(l, x, NULL)
           t == list_tail(ended)
           n == Len(c)
<1>1. /\ Linked(ended, c) /\ ended \in List /\ ended.head = l.head /\ ended.next[x] = NULL
      /\ \A z \in ListItem : z # x => ended.next[z] = l.next[z]
  BY OtherLink
<1>2. list_add(l, x) = IF t = NULL THEN [ended EXCEPT !.head = x] ELSE Link(ended, t, x)
  BY DEF list_add
<1>3. t = ItemAt(c, n)
  BY <1>1, ChainFacts
<1> HIDE DEF t, ended
<1>4. c \in Seq(ListItem) /\ n \in Nat /\ \A k \in 1 .. n : c[k] \in ListItem /\ c[k] # x
  BY DEF Linked, Has
<1>5. CASE n = 0
  <2> DEFINE m == [ended EXCEPT !.head = x]
  <2>1. t = NULL /\ ItemAt(c, 1) = NULL /\ n + 1 = 1 /\ 1 \in 1 .. n + 1
    BY <1>3, <1>5 DEF ItemAt
  <2>2. m \in List /\ m.head = x /\ m.next = ended.next
    BY <1>1 DEF List
  <2> HIDE DEF m
  <2>3. m.next[x] = ItemAt(c, 1) /\ IsPut(c, 1, x, d) /\ \A k \in 1 .. Len(c) : FALSE
    BY <1>1, <1>5, <2>1, <2>2
  <2>4. Linked(m, d)
    BY <2>1, <2>2, <2>3, LinkedPut
  <2> QED
    BY <1>2, <2>1, <2>4 DEF m
<1>6. CASE n # 0
  <2>1. n \in 1 .. Len(c) /\ t = c[n] /\ t # NULL /\ IsPut(c, n + 1, x, d)
    <3>1. n \in 1 .. Len(c)
      BY <1>4, <1>6
    <3> QED
      BY <1>3, <1>4, <3>1, NullAssumption DEF ItemAt
  <2>2. ended.next[t] = NULL
    <3>1. ended.next[c[n]] = ItemAt(c, n + 1) /\ n + 1 \notin 1 .. Len(c)
      BY <1>1, <1>4, <2>1 DEF Linked
    <3> QED
      BY <2>1, <3>1 DEF ItemAt
  <2>3. Link(ended, x, NULL) = ended
    BY <1>1 DEF Link, List
  <2>4. Linked(Link(Link(ended, x, ended.next[t]), t, x), d)
    <3> HIDE DEF n
    <3> QED
      BY <1>1, <2>1, InsertedBehind
  <2> QED
    BY <1>2, <2>1, <2>2, <2>3, <2>4
<1> QED
  BY <1>5, <1>6

(***************************************************************************)
(* The lists of list.c and tn_list.c.                                      *)
(***************************************************************************)
LEMMA CutAround ==
    ASSUME NEW c \in Seq(ListItem), NEW i \in 1 .. Len(c)
    PROVE  IsDrop(c, i, SubSeq(c, 1, i - 1) \o SubSeq(c, i + 1, Len(c)))
<1> DEFINE n == Len(c)
           a == SubSeq(c, 1, i - 1)
           b == SubSeq(c, i + 1, n)
<1>1. n \in Nat /\ i \in Int /\ i - 1 \in Int /\ i + 1 \in Int
      /\ \A k \in 1 .. n : c[k] \in ListItem
  OBVIOUS
<1>2. /\ a \in Seq(ListItem) /\ Len(a) = i - 1 /\ \A k \in 1 .. i - 1 : a[k] = c[k]
  <2>1. /\ a \in Seq(ListItem) /\ Len(a) = (IF 1 <= i - 1 THEN (i - 1) - 1 + 1 ELSE 0)
        /\ \A k \in 1 .. (i - 1) - 1 + 1 : a[k] = c[1 + k - 1]
    BY <1>1, SubSeqProperties
  <2> HIDE DEF a
  <2> QED
    BY <1>1, <2>1
<1>3. /\ b \in Seq(ListItem) /\ Len(b) = n - i /\ \A k \in 1 .. n - i : b[k] = c[i + k]
  <2>1. /\ b \in Seq(ListItem) /\ Len(b) = (IF i + 1 <= n THEN n - (i + 1) + 1 ELSE 0)
        /\ \A k \in 1 .. n - (i + 1) + 1 : b[k] = c[(i + 1) + k - 1]
    BY <1>1, SubSeqProperties
  <2> HIDE DEF b
  <2> QED
    BY <1>1, <2>1
<1> HIDE DEF a, b
<1>4. /\ a \o b \in Seq(ListItem) /\ Len(a \o b) = Len(a) + Len(b)
      /\ \A k \in 1 .. Len(a) + Len(b) :
           (a \o b)[k] = IF k <= Len(a) THEN a[k] ELSE b[k - Len(a)]
  BY <1>2, <1>3, ConcatProperties
<1> DEFINE d == a \o b
<1>5. d \in Seq(ListItem) /\ Len(d) + 1 = n
  <2> DEFINE la == Len(a)
             lb == Len(b)
  <2>1. la = i - 1 /\ lb = n - i /\ Len(d) = la + lb /\ d \in Seq(ListItem)
    BY <1>2, <1>3, <1>4
  <2>2. n \in Nat /\ i \in Int
    BY <1>1
  <2> HIDE DEF la, lb, n, d
  <2>3. Len(d) + 1 = n
    BY <2>1, <2>2
  <2> QED
    BY <2>1, <2>3
<1>6. ASSUME NEW k \in 1 .. Len(d) PROVE d[k] = IF k < i THEN c[k] ELSE c[k + 1]
  <2>1. k \in 1 .. Len(a) + Len(b) /\ k \in Int
    BY <1>2, <1>3, <1>4
  <2>2. CASE k < i
    <3>1. k <= Len(a) /\ k \in 1 .. i - 1
      BY <1>1, <1>2, <2>1, <2>2
    <3> QED
      BY <1>2, <1>4, <2>1, <2>2, <3>1
  <2>3. CASE ~(k < i)
    <3>1. ~(k <= Len(a)) /\ k - Len(a) \in 1 .. n - i /\ i + (k - Len(a)) = k + 1
      BY <1>1, <1>2, <1>3, <2>1, <2>3
    <3>2. b[k - Len(a)] = c[i + (k - Len(a))]
      BY <1>3, <3>1
    <3> QED
      BY <1>4, <2>1, <2>3, <3>1, <3>2
  <2> QED
    BY <2>2, <2>3
<1> HIDE DEF d
<1>7. IsDrop(c, i, d)
  BY <1>5, <1>6 DEF IsDrop
<1> QED
  BY <1>7 DEF d, a, b

LEMMA PutBetween ==
    ASSUME NEW c \in Seq(ListItem), NEW i \in 1 .. Len(c) + 1, NEW x \in ListItem
    PROVE  IsPut(c, i, x, SubSeq(c, 1, i - 1) \o <<x>> \o SubSeq(c, i, Len(c)))
<1> DEFINE n == Len(c)
           a == SubSeq(c, 1, i - 1)
           o == <<x>>
           b == SubSeq(c, i, n)
<1>1. n \in Nat /\ i \in Int /\ i - 1 \in Int /\ i <= n + 1 /\ 1 <= i
      /\ \A k \in 1 .. n : c[k] \in ListItem
  OBVIOUS
<1>2. /\ a \in Seq(ListItem) /\ Len(a) = i - 1 /\ \A k \in 1 .. i - 1 : a[k] = c[k]
  <2>1. \A k \in 1 .. i - 1 : c[k] \in ListItem
    BY <1>1
  <2>2. /\ a \in Seq(ListItem) /\ Len(a) = (IF 1 <= i - 1 THEN (i - 1) - 1 + 1 ELSE 0)
        /\ \A k \in 1 .. (i - 1) - 1 + 1 : a[k] = c[1 + k - 1]
    BY <1>1, <2>1, SubSeqProperties
  <2> HIDE DEF a
  <2> QED
    BY <1>1, <2>2
<1>3. /\ b \in Seq(ListItem) /\ Len(b) = n - i + 1 /\ \A k \in 1 .. n - i + 1 : b[k] = c[i + k - 1]
  <2>1. \A k \in i .. n : c[k] \in ListItem
    BY <1>1
  <2>2. /\ b \in Seq(ListItem) /\ Len(b) = (IF i <= n THEN n - i + 1 ELSE 0)
        /\ \A k \in 1 .. n - i + 1 : b[k] = c[i + k - 1]
    BY <1>1, <2>1, SubSeqProperties
  <2> HIDE DEF b
  <2> QED
    BY <1>1, <2>2
<1>4. o \in Seq(ListItem) /\ Len(o) = 1 /\ o[1] = x
  OBVIOUS
<1> HIDE DEF a, b, o
<1> DEFINE e == a \o o
           d == e \o b
<1>5. /\ e \in Seq(ListItem) /\ Len(e) = Len(a) + Len(o)
      /\ \A k \in 1 .. Len(a) + Len(o) :
           e[k] = IF k <= Len(a) THEN a[k] ELSE o[k - Len(a)]
  BY <1>2, <1>4, ConcatProperties
<1>6. Len(e) = i /\ \A k \in 1 .. i : e[k] = IF k < i THEN c[k] ELSE x
  <2> HIDE DEF e
  <2>1. Len(e) = i
    BY <1>1, <1>2, <1>4, <1>5
  <2>2. ASSUME NEW k \in 1 .. i PROVE e[k] = IF k < i THEN c[k] ELSE x
    <3>1. k < i => k <= Len(a) /\ k \in 1 .. i - 1
      BY <1>1, <1>2
    <3>2. ~(k < i) => ~(k <= Len(a)) /\ k - Len(a) = 1
      BY <1>1, <1>2
    <3> QED
      BY <1>1, <1>2, <1>4, <1>5, <2>1, <3>1, <3>2
  <2> QED
    BY <2>1, <2>2
<1> HIDE DEF e
<1>7. /\ d \in Seq(ListItem) /\ Len(d) = Len(e) + Len(b)
      /\ \A k \in 1 .. Len(e) + Len(b) : d[k] = IF k <= Len(e) THEN e[k] ELSE b[k - Len(e)]
  <2>1. e \in Seq(ListItem) /\ b \in Seq(ListItem)
    BY <1>3, <1>5
  <2> QED
    BY <2>1, ConcatProperties
<1> HIDE DEF d
<1>8. Len(d) = n + 1
  BY <1>1, <1>3, <1>6, <1>7
<1>9. ASSUME NEW k \in 1 .. Len(d)
      PROVE  d[k] = IF k < i THEN c[k] ELSE IF k = i THEN x ELSE c[k - 1]
  <2>1. k \in 1 .. Len(e) + Len(b) /\ k \in Int
    BY <1>7
  <2>2. CASE k <= i
    BY <1>1, <1>6, <1>7, <2>1, <2>2
  <2>3. CASE k > i
    <3>1. ~(k <= Len(e)) /\ k - Len(e) \in 1 .. n - i + 1 /\ i + (k - Len(e)) - 1 = k - 1
      BY <1>1, <1>3, <1>6, <2>1, <2>3
    <3>2. b[k - Len(e)] = c[i + (k - Len(e)) - 1]
      BY <1>3, <3>1
    <3>3. d[k] = b[k - Len(e)]
      BY <1>7, <2>1, <3>1
    <3>4. ~(k < i) /\ k # i
      BY <1>1, <2>1, <2>3
    <3> QED
      BY <3>1, <3>2, <3>3, <3>4
  <2> QED
    BY <1>1, <2>1, <2>2, <2>3
<1>10. IsPut(c, i, x, d)
  BY <1>7, <1>8, <1>9 DEF IsPut
<1> QED
  BY <1>10 DEF d, e, a, o, b

LEMMA EndsOfSequence ==
    ASSUME NEW c \in Seq(ListItem), NEW x \in ListItem
    PROVE  /\ IsPut(c, Len(c) + 1, x, Append(c, x))
           /\ IsPut(c, 1, x, <<x>> \o c)
           /\ c # << >> => /\ Len(c) \in 1 .. Len(c) /\ 1 \in 1 .. Len(c)
                           /\ IsDrop(c, Len(c), SubSeq(c, 1, Len(c) - 1))
                           /\ IsDrop(c, 1, Tail(c)) /\ Head(c) = c[1]
<1>1. Len(c) \in Nat /\ \A k \in 1 .. Len(c) : c[k] \in ListItem
  OBVIOUS
<1>2. IsPut(c, Len(c) + 1, x, Append(c, x))
  BY <1>1, OneMore DEF IsPut
<1>3. IsPut(c, 1, x, <<x>> \o c)
  <2> DEFINE o == <<x>>
             d == o \o c
  <2>1. o \in Seq(ListItem) /\ Len(o) = 1 /\ o[1] = x
    OBVIOUS
  <2> HIDE DEF o
  <2>2. /\ d \in Seq(ListItem) /\ Len(d) = Len(o) + Len(c)
        /\ \A k \in 1 .. Len(o) + Len(c) : d[k] = IF k <= Len(o) THEN o[k] ELSE c[k - Len(o)]
    BY <2>1, ConcatProperties
  <2> HIDE DEF d
  <2>3. IsPut(c, 1, x, d)
    BY <1>1, <2>1, <2>2 DEF IsPut
  <2> QED
    BY <2>3 DEF d, o
<1>4. ASSUME c # << >>
      PROVE  /\ Len(c) \in 1 .. Len(c) /\ 1 \in 1 .. Len(c)
             /\ IsDrop(c, Len(c), SubSeq(c, 1, Len(c) - 1))
             /\ IsDrop(c, 1, Tail(c)) /\ Head(c) = c[1]
  <2>1. Len(c) \in 1 .. Len(c) /\ 1 \in 1 .. Len(c) /\ Head(c) = c[1]
    BY <1>1, <1>4
  <2>2. IsDrop(c, Len(c), SubSeq(c, 1, Len(c) - 1))
    <3> DEFINE d == SubSeq(c, 1, Len(c) - 1)
    <3>1. /\ d \in Seq(ListItem) /\ Len(d) + 1 = Len(c) /\ \A k \in 1 .. Len(c) - 1 : d[k] = c[k]
      BY <1>4, OneLess
    <3> HIDE DEF d
    <3>2. \A k \in 1 .. Len(d) : d[k] = IF k < Len(c) THEN c[k] ELSE c[k + 1]
      BY <1>1, <3>1
    <3>3. IsDrop(c, Len(c), d)
      BY <3>1, <3>2 DEF IsDrop
    <3> QED
      BY <3>3 DEF d
  <2>3. IsDrop(c, 1, Tail(c))
    <3> DEFINE d == Tail(c)
    <3>1. d \in Seq(ListItem) /\ Len(d) + 1 = Len(c) /\ \A k \in 1 .. Len(d) : d[k] = c[k + 1]
      BY <1>1, <1>4
    <3> HIDE DEF d
    <3>2. \A k \in 1 .. Len(d) : d[k] = IF k < 1 THEN c[k] ELSE c[k + 1]
      BY <1>1, <3>1
    <3>3. IsDrop(c, 1, d)
      BY <3>1, <3>2 DEF IsDrop
    <3> QED
      BY <3>3 DEF d
  <2> QED
    BY <2>1, <2>2, <2>3
<1> QED
  BY <1>2, <1>3, <1>4

ListInv == kind \in {"list", "tn_list"} /\ Linked(list, Chain(list))

LEMMA StaysLinked ==
    ASSUME NEW s, Linked(list', s), kind \in {"list", "tn_list"}, UNCHANGED kind
    PROVE  ListInv' /\ Chain(list') = s
<1>1. Chain(list') = s
  BY LinkedIsChain
<1>2. ListInv' <=> kind' \in {"list", "tn_list"} /\ Linked(list', Chain(list'))
  BY DEF ListInv, Linked, ItemAt, Once, List, Chain
<1> QED
  BY <1>1, <1>2

LEMMA StartsLinked == ListInit => ListInv /\ Sequence!Init
<1> SUFFICES ASSUME ListInit PROVE ListInv /\ Sequence!Init
  OBVIOUS
<1>1. /\ list = list_init /\ kind \in {"list", "tn_list"}
      /\ call = [op |-> "init", item |-> NULL, prev |-> NULL, ret |-> NULL]
  BY DEF ListInit
<1>2. list_init \in List /\ list_init.head = NULL
  BY DEF list_init, List
<1> DEFINE e == << >>
<1>3. e \in Seq(ListItem) /\ Len(e) = 0
  OBVIOUS
<1>4. Linked(list, e)
  BY <1>1, <1>2, <1>3 DEF Linked, ItemAt, Once
<1>5. Chain(list) = e
  BY <1>4, LinkedIsChain
<1> QED
  BY <1>1, <1>4, <1>5 DEF ListInv, Sequence!Init

LEMMA RemovedIsWithout ==
    ASSUME ListInv, NEW x \in ListItem
    PROVE  /\ Linked(list_remove(list, x), Sequence!Without(x)) /\ ~Has(Sequence!Without(x), x)
           /\ ~In(list, x) => Sequence!Without(x) = Chain(list) /\ list_remove(list, x) = list
<1> DEFINE c == Chain(list)
           i == CHOOSE i \in DOMAIN c : c[i] = x
<1>1. Linked(list, c) /\ c \in Seq(ListItem) /\ DOMAIN c = 1 .. Len(c)
  BY DEF ListInv, Linked
<1>2. In(list, x) <=> Has(c, x)
  BY <1>1, ChainFacts DEF Has
<1>3. Sequence!Without(x) =
        IF Has(c, x) THEN SubSeq(c, 1, i - 1) \o SubSeq(c, i + 1, Len(c)) ELSE c
  BY <1>1 DEF Sequence!Without, Sequence!Range, Sequence!RemoveAt, Has
<1>4. CASE ~Has(c, x)
  BY <1>1, <1>2, <1>3, <1>4 DEF list_remove
<1>5. CASE Has(c, x)
  <2>1. i \in 1 .. Len(c) /\ c[i] = x
    BY <1>1, <1>5 DEF Has
  <2> DEFINE d == SubSeq(c, 1, i - 1) \o SubSeq(c, i + 1, Len(c))
  <2> HIDE DEF c, i
  <2>2. IsDrop(c, i, d)
    BY <1>1, <2>1, CutAround
  <2> HIDE DEF d
  <2>3. Linked(list_remove(list, c[i]), d) /\ ~Has(d, c[i])
    BY <1>1, <2>1, <2>2, Unlinked
  <2> QED
    BY <1>2, <1>3, <1>5, <2>1, <2>3 DEF d
<1> QED
  BY <1>4, <1>5

(* The list to which an item is added: without it. *)
LEMMA ReadyForItem ==
    ASSUME ListInv, NEW x \in ListItem, Addable(x), NEW l,
           l = IF kind = "list" THEN list ELSE list_remove(list, x)
    PROVE  /\ Linked(l, Sequence!Without(x)) /\ ~Has(Sequence!Without(x), x)
           /\ Sequence!Without(x) \in Seq(ListItem)
<1>1. kind = "list" => ~In(list, x)
  BY DEF Addable
<1>2. /\ Linked(list_remove(list, x), Sequence!Without(x)) /\ ~Has(Sequence!Without(x), x)
      /\ ~In(list, x) => list_remove(list, x) = list
  BY RemovedIsWithout
<1>3. Linked(l, Sequence!Without(x))
  BY <1>1, <1>2
<1> QED
  BY <1>2, <1>3 DEF Linked

LEMMA AddIsAdd == ASSUME ListInv, NEW x \in ListItem, Add(x) PROVE ListInv' /\ Sequence!Add(x)
<1> DEFINE l == IF kind = "list" THEN list ELSE list_remove(list, x)
           w == Sequence!Without(x)
<1>1. Addable(x) /\ list' = list_add(l, x) /\ kind' = kind /\ kind \in {"list", "tn_list"}
  BY DEF Add, Called, tn_list_add, ListInv
<1>2. Linked(l, w) /\ ~Has(w, x) /\ w \in Seq(ListItem)
  BY <1>1, ReadyForItem
<1>3. Sequence!IsCall("add", x, NULL, NULL)
  BY DEF Add, Called, Sequence!IsCall
<1> HIDE DEF l, w
<1>4. Linked(list', Append(w, x))
  BY <1>1, <1>2, EndsOfSequence, Added
<1>5. ListInv' /\ Chain(list') = Append(w, x)
  BY <1>1, <1>4, StaysLinked
<1> QED
  BY <1>3, <1>5 DEF w, Sequence!Add

LEMMA PushIsPush == ASSUME ListInv, NEW x \in ListItem, Push(x) PROVE ListInv' /\ Sequence!Push(x)
<1> DEFINE l == IF kind = "list" THEN list ELSE list_remove(list, x)
           w == Sequence!Without(x)
<1>1. Addable(x) /\ list' = list_push(l, x) /\ kind' = kind /\ kind \in {"list", "tn_list"}
  BY DEF Push, Called, tn_list_push, ListInv
<1>2. Linked(l, w) /\ ~Has(w, x) /\ w \in Seq(ListItem)
  BY <1>1, ReadyForItem
<1>3. Sequence!IsCall("push", x, NULL, NULL)
  BY DEF Push, Called, Sequence!IsCall
<1> HIDE DEF l, w
<1>4. Linked(list', <<x>> \o w)
  BY <1>1, <1>2, EndsOfSequence, PushedOn
<1>5. ListInv' /\ Chain(list') = <<x>> \o w
  BY <1>1, <1>4, StaysLinked
<1> QED
  BY <1>3, <1>5 DEF w, Sequence!Push

LEMMA RemoveIsRemove ==
    ASSUME ListInv, NEW x \in ListItem, RemoveItem(x) PROVE ListInv' /\ Sequence!RemoveItem(x)
<1>1. list' = list_remove(list, x) /\ kind' = kind /\ kind \in {"list", "tn_list"}
  BY DEF RemoveItem, Called, ListInv
<1>2. Sequence!IsCall("remove", x, NULL, NULL)
  BY DEF RemoveItem, Called, Sequence!IsCall
<1>3. Linked(list', Sequence!Without(x))
  BY <1>1, RemovedIsWithout
<1>4. ListInv' /\ Chain(list') = Sequence!Without(x)
  BY <1>1, <1>3, StaysLinked
<1> QED
  BY <1>2, <1>4 DEF Sequence!RemoveItem

LEMMA ChopIsChop == ASSUME ListInv, Chop PROVE ListInv' /\ Sequence!Chop
<1> DEFINE c == Chain(list)
<1>1. /\ Linked(list, c) /\ c \in Seq(ListItem) /\ list' = list_chop(list) /\ kind' = kind
      /\ kind \in {"list", "tn_list"} /\ list.head = ItemAt(c, 1) /\ Len(c) \in Nat
  BY DEF Chop, Called, ListInv, Linked
<1>2. call' = [op |-> "chop", item |-> NULL, prev |-> NULL, ret |-> ItemAt(c, Len(c))]
  BY <1>1, ChainFacts DEF Chop, Called
<1>3. CASE c = << >>
  <2>1. list.head = NULL /\ ItemAt(c, Len(c)) = NULL
    BY <1>1, <1>3 DEF ItemAt
  <2>2. list' = list
    BY <1>1, <2>1 DEF list_chop
  <2>3. ListInv' /\ Chain(list') = c
    BY <1>1, <2>2, StaysLinked
  <2> QED
    BY <1>2, <1>3, <2>1, <2>3 DEF Sequence!Chop, Sequence!IsCall
<1>4. CASE c # << >>
  <2> DEFINE d == SubSeq(c, 1, Len(c) - 1)
  <2>1. ItemAt(c, Len(c)) = c[Len(c)] /\ \E y : y \in ListItem
    BY <1>1, <1>4 DEF ItemAt
  <2>2. IsDrop(c, Len(c), d)
    <3> HIDE DEF c
    <3> QED
      BY <1>1, <1>4, <2>1, EndsOfSequence
  <2> HIDE DEF d, c
  <2>3. Linked(list', d)
    BY <1>1, <1>4, <2>2, Chopped
  <2>4. ListInv' /\ Chain(list') = d
    BY <1>1, <2>3, StaysLinked
  <2> QED
    BY <1>2, <1>4, <2>1, <2>4 DEF c, d, Sequence!Chop, Sequence!IsCall
<1> QED
  BY <1>3, <1>4

LEMMA PopIsPop == ASSUME ListInv, Pop PROVE ListInv' /\ Sequence!Pop
<1> DEFINE c == Chain(list)
           d == Chain(list')
           ret == IF kind = "list" THEN list'.head ELSE list.head
<1>1. /\ Linked(list, c) /\ c \in Seq(ListItem) /\ list' = list_pop(list) /\ kind' = kind
      /\ kind \in {"list", "tn_list"} /\ list.head = ItemAt(c, 1) /\ Len(c) \in Nat
      /\ call' = [op |-> "pop", item |-> NULL, prev |-> NULL, ret |-> ret]
  BY DEF Pop, Called, ListInv, Linked
<1>2. ListInv' /\ d = IF c = << >> THEN c ELSE Tail(c)
  <2>1. CASE c = << >>
    <3>1. list.head = NULL
      BY <1>1, <2>1 DEF ItemAt
    <3>2. list' = list
      BY <1>1, <3>1 DEF list_pop
    <3>3. ListInv' /\ Chain(list') = c
      BY <1>1, <3>2, StaysLinked
    <3> QED
      BY <2>1, <3>3
  <2>2. CASE c # << >>
    <3> DEFINE t == Tail(c)
    <3>1. \E y : y \in ListItem
      BY <1>1, <2>2
    <3>2. IsDrop(c, 1, t)
      <4> HIDE DEF c
      <4> QED
        BY <1>1, <2>2, <3>1, EndsOfSequence
    <3> HIDE DEF t, c
    <3>3. Linked(list', t)
      BY <1>1, <2>2, <3>2, Popped
    <3>4. ListInv' /\ Chain(list') = t
      BY <1>1, <3>3, StaysLinked
    <3> QED
      BY <2>2, <3>4 DEF t
  <2> QED
    BY <2>1, <2>2
<1>3. \A s \in Seq(ListItem) : ItemAt(s, 1) = Sequence!First(s)
  BY DEF ItemAt, Sequence!First
<1>4. d \in Seq(ListItem) /\ list'.head = ItemAt(d, 1)
  BY <1>2 DEF ListInv, Linked, ItemAt, Once, List, Chain
<1>5. ret \in {Sequence!First(c), Sequence!First(d)}
  <2> HIDE DEF c, d
  <2> QED
    BY <1>1, <1>3, <1>4
<1> HIDE DEF ret
<1> QED
  BY <1>1, <1>2, <1>5 DEF Sequence!Pop, Sequence!IsCall

LEMMA InsertIsInsert ==
    ASSUME ListInv, NEW prev \in ListItem \cup {NULL}, NEW x \in ListItem, Insert(prev, x)
    PROVE  ListInv' /\ Sequence!Insert(prev, x)
<1> DEFINE c == Chain(list)
           w == Sequence!Without(x)
<1>1. /\ Linked(list, c) /\ c \in Seq(ListItem) /\ DOMAIN c = 1 .. Len(c) /\ Len(c) \in Nat
      /\ kind' = kind /\ kind \in {"list", "tn_list"}
  BY DEF Insert, Called, ListInv, Linked
<1>2. Sequence!IsCall("insert", x, prev, NULL)
  BY DEF Insert, Called, Sequence!IsCall
<1>3. CASE prev = NULL
  <2> DEFINE l == IF kind = "list" THEN list ELSE list_remove(list, x)
  <2>1. Addable(x) /\ list' = list_push(l, x)
    BY <1>3 DEF Insert, list_insert, tn_list_insert, tn_list_push
  <2>2. Linked(l, w) /\ ~Has(w, x) /\ w \in Seq(ListItem)
    BY <2>1, ReadyForItem
  <2> HIDE DEF l, w
  <2>3. Linked(list', <<x>> \o w)
    BY <2>1, <2>2, EndsOfSequence, PushedOn
  <2>4. ListInv' /\ Chain(list') = <<x>> \o w
    BY <1>1, <2>3, StaysLinked
  <2> QED
    BY <1>2, <1>3, <2>4 DEF w, Sequence!Insert
<1>4. CASE prev # NULL
  <2>1. /\ In(list, prev) /\ ~In(list, x)
        /\ list' = Link(Link(list, x, list.next[prev]), prev, x)
    BY <1>4 DEF Insert, list_insert, tn_list_insert
  <2>2. Has(c, prev) /\ ~Has(c, x)
    BY <1>1, <2>1, ChainFacts DEF Has
  <2>3. PICK i \in 1 .. Len(c) : c[i] = prev
    BY <2>2 DEF Has
  <2> HIDE DEF c
  <2> DEFINE d == SubSeq(c, 1, (i + 1) - 1) \o <<x>> \o SubSeq(c, i + 1, Len(c))
  <2>4. i + 1 \in 1 .. Len(c) + 1
    BY <1>1
  <2>5. IsPut(c, i + 1, x, d)
    BY <1>1, <2>4, PutBetween
  <2> HIDE DEF d
  <2>6. Linked(list', d)
    BY <1>1, <2>1, <2>2, <2>3, <2>5, InsertedBehind
  <2>7. ListInv' /\ Chain(list') = d
    BY <1>1, <2>6, StaysLinked
  <2>8. \E k \in DOMAIN c : c[k] = prev /\ Chain(list') = Sequence!InsertAt(c, k + 1, x)
    BY <1>1, <2>3, <2>7 DEF d, Sequence!InsertAt
  <2> QED
    BY <1>2, <1>4, <2>7, <2>8 DEF c, Sequence!Insert
<1> QED
  BY <1>3, <1>4

LEMMA ListStep ==
    ListInv /\ [ListNext]_listVars => ListInv' /\ [Sequence!Next]_<<Chain(list), call>>
<1> SUFFICES ASSUME ListInv, [ListNext]_listVars
             PROVE  ListInv' /\ [Sequence!Next]_<<Chain(list), call>>
  OBVIOUS
<1>1. ASSUME NEW x \in ListItem, Add(x) PROVE ListInv' /\ Sequence!Next
  BY <1>1, AddIsAdd DEF Sequence!Next
<1>2. ASSUME NEW x \in ListItem, Push(x) PROVE ListInv' /\ Sequence!Next
  BY <1>2, PushIsPush DEF Sequence!Next
<1>3. ASSUME NEW x \in ListItem, RemoveItem(x) PROVE ListInv' /\ Sequence!Next
  BY <1>3, RemoveIsRemove DEF Sequence!Next
<1>4. CASE Chop
  BY <1>4, ChopIsChop DEF Sequence!Next
<1>5. CASE Pop
  BY <1>5, PopIsPop DEF Sequence!Next
<1>6. ASSUME NEW prev \in ListItem \cup {NULL}, NEW x \in ListItem, Insert(prev, x)
      PROVE  ListInv' /\ Sequence!Next
  BY <1>6, InsertIsInsert DEF Sequence!Next
<1>7. CASE UNCHANGED listVars
  <2>1. list' = list /\ call' = call /\ kind' = kind
    BY <1>7 DEF listVars
  <2>2. Linked(list', Chain(list)) /\ kind \in {"list", "tn_list"}
    BY <2>1 DEF ListInv
  <2> QED
    BY <2>1, <2>2, StaysLinked
<1> QED
  BY <1>1, <1>2, <1>3, <1>4, <1>5, <1>6, <1>7 DEF ListNext

(* After any legal calls, in any number and for every set of items, what a loop over
   a list of list.c or tn_list.c comes by is what the calls would make of a
   sequence (list.c:92-259, tn_list.c:38-150). *)
THEOREM ListsAreSequences == ListSpec => []ListTypeOK /\ ListIsSequence
<1>1. ListInv => ListTypeOK
  BY DEF ListInv, Linked, ListTypeOK
<1> QED
  BY <1>1, StartsLinked, ListStep, PTL DEF ListSpec, ListIsSequence, Sequence!Spec

(***************************************************************************)
(* The allocator.                                                          *)
(***************************************************************************)
(* Where block k of the sequence c ends, with the pointers p and the sizes z. *)
EndOf(p, z, c, k) == IF k = 0 THEN 0 ELSE p[c[k]] + z[c[k]]

InRow(p, z, c) == \A k \in 1 .. Len(c) : p[c[k]] = EndOf(p, z, c, k - 1)

BytesOf(mem, s, n) == [k \in 1 .. n |-> mem[s + k - 1]]

Kept(c, avail, mem, p, z, w) ==
    /\ c \in Seq(ListItem)
    /\ avail \in 0 .. MMEM_SIZE
    /\ mem \in [Address -> 0 .. 1]
    /\ p \in [ListItem -> 0 .. MMEM_SIZE] /\ z \in [ListItem -> 0 .. MMEM_SIZE]
    /\ w = [m \in ListItem |-> w[m]]
    /\ InRow(p, z, c)
    /\ MMEM_SIZE - avail = EndOf(p, z, c, Len(c))
    /\ \A k \in 1 .. Len(c) : w[c[k]] = BytesOf(mem, p[c[k]], z[c[k]])

MmemInv ==
    /\ Linked(mmemlist, Chain(mmemlist))
    /\ Kept(Chain(mmemlist), avail_memory, memory, ptr, bytes, contents)

(* Blocks behind one another do not overlap, and are below the last one's end. *)
LEMMA RowInOrder ==
    ASSUME NEW c \in Seq(ListItem), NEW p \in [ListItem -> Nat], NEW z \in [ListItem -> Nat],
           InRow(p, z, c), NEW j \in 1 .. Len(c)
    PROVE  /\ \A k \in 1 .. Len(c) : j < k => p[c[j]] + z[c[j]] <= p[c[k]]
           /\ p[c[j]] + z[c[j]] <= EndOf(p, z, c, Len(c))
<1> DEFINE end == p[c[j]] + z[c[j]]
           T == {k \in j .. Len(c) : end <= p[c[k]] + z[c[k]]}
<1>1. /\ Len(c) \in Nat /\ j \in Int /\ j <= Len(c) /\ 1 <= j
      /\ \A k \in 1 .. Len(c) : c[k] \in ListItem /\ p[c[k]] \in Nat /\ z[c[k]] \in Nat
  OBVIOUS
<1>2. ASSUME NEW k \in j .. Len(c) - 1
      PROVE  k \in 1 .. Len(c) /\ k + 1 \in 1 .. Len(c) /\ p[c[k + 1]] = p[c[k]] + z[c[k]]
  <2>1. k \in 1 .. Len(c) /\ k + 1 \in 1 .. Len(c) /\ (k + 1) - 1 = k /\ k # 0
    BY <1>1
  <2> QED
    BY <2>1 DEF InRow, EndOf
<1>3. \A k \in j .. Len(c) : k \in T
  <2>1. j \in T
    BY <1>1
  <2>2. ASSUME NEW k \in j .. Len(c) - 1, k \in T PROVE k + 1 \in T
    <3>1. k + 1 \in j .. Len(c)
      BY <1>1
    <3>2. p[c[k]] + z[c[k]] <= p[c[k + 1]] + z[c[k + 1]]
      BY <1>1, <1>2
    <3> QED
      BY <1>1, <1>2, <2>2, <3>1, <3>2
  <2>3. Len(c) \in Int /\ j \in Int
    BY <1>1
  <2> HIDE DEF T, end
  <2>4. \A k \in j .. Len(c) - 1 : k \in T => k + 1 \in T
    BY <2>2
  <2> QED
    BY <2>1, <2>3, <2>4, UpTo
<1>4. ASSUME NEW k \in 1 .. Len(c), j < k PROVE end <= p[c[k]]
  <2>1. k - 1 \in j .. Len(c) - 1 /\ k - 1 \in j .. Len(c) /\ (k - 1) + 1 = k
    BY <1>1, <1>4
  <2>2. k - 1 \in T
    BY <1>3, <2>1
  <2>3. p[c[k]] = p[c[k - 1]] + z[c[k - 1]]
    BY <1>2, <2>1
  <2> QED
    BY <2>2, <2>3
<1>5. end <= EndOf(p, z, c, Len(c))
  <2>1. Len(c) \in T /\ Len(c) # 0
    BY <1>1, <1>3
  <2> QED
    BY <2>1 DEF EndOf
<1> QED
  BY <1>4, <1>5

LEMMA MmemStarts == MmemInit => MmemInv
<1> SUFFICES ASSUME MmemInit PROVE MmemInv
  OBVIOUS
<1>1. /\ mmemlist = list_init /\ avail_memory = MMEM_SIZE
      /\ memory = [p \in Address |-> 0]
      /\ ptr = [m \in ListItem |-> 0] /\ bytes = [m \in ListItem |-> 0]
      /\ contents = [m \in ListItem |-> << >>]
  BY DEF MmemInit
<1>2. list_init \in List /\ list_init.head = NULL
  BY DEF list_init, List
<1> DEFINE e == << >>
<1>3. e \in Seq(ListItem) /\ Len(e) = 0
  OBVIOUS
<1>4. Linked(mmemlist, e)
  BY <1>1, <1>2, <1>3 DEF Linked, ItemAt, Once
<1>5. Chain(mmemlist) = e
  BY <1>4, LinkedIsChain
<1>6. Kept(e, avail_memory, memory, ptr, bytes, contents)
  <2>1. /\ MMEM_SIZE \in Nat /\ avail_memory \in 0 .. MMEM_SIZE
        /\ MMEM_SIZE - avail_memory = 0
    BY <1>1, MmemAssumption
  <2>2. /\ memory \in [Address -> 0 .. 1]
        /\ ptr \in [ListItem -> 0 .. MMEM_SIZE] /\ bytes \in [ListItem -> 0 .. MMEM_SIZE]
        /\ contents = [m \in ListItem |-> contents[m]]
    BY <1>1, <2>1
  <2>3. InRow(ptr, bytes, e) /\ EndOf(ptr, bytes, e, Len(e)) = 0
    BY <1>3 DEF InRow, EndOf
  <2> QED
    BY <1>3, <2>1, <2>2, <2>3 DEF Kept
<1> QED
  BY <1>4, <1>5, <1>6 DEF MmemInv

(* The inductive step in terms of the list that a call leaves. *)
LEMMA StaysKept ==
    ASSUME NEW s, Linked(mmemlist', s),
           Kept(s, avail_memory', memory', ptr', bytes', contents')
    PROVE  MmemInv'
<1>1. Chain(mmemlist') = s
  BY LinkedIsChain
<1>2. MmemInv' <=> /\ Linked(mmemlist', Chain(mmemlist'))
                   /\ Kept(Chain(mmemlist'), avail_memory', memory', ptr', bytes', contents')
  BY DEF MmemInv, Linked, ItemAt, Once, List, Chain, Kept, InRow, EndOf, BytesOf, Address
<1> QED
  BY <1>1, <1>2

LEMMA KeptFacts ==
    ASSUME NEW c, NEW a, NEW mem, NEW p, NEW z, NEW w, Kept(c, a, mem, p, z, w)
    PROVE  /\ c \in Seq(ListItem) /\ Len(c) \in Nat
           /\ MMEM_SIZE \in Nat /\ a \in Nat /\ a <= MMEM_SIZE
           /\ p \in [ListItem -> Nat] /\ z \in [ListItem -> Nat]
           /\ \A k \in 1 .. Len(c) :
                 /\ c[k] \in ListItem /\ p[c[k]] \in Nat /\ z[c[k]] \in Nat
                 /\ p[c[k]] + z[c[k]] <= MMEM_SIZE - a
                 /\ \A j \in 1 .. Len(c) : j < k => p[c[j]] + z[c[j]] <= p[c[k]]
<1>1. /\ c \in Seq(ListItem) /\ a \in 0 .. MMEM_SIZE
      /\ p \in [ListItem -> 0 .. MMEM_SIZE] /\ z \in [ListItem -> 0 .. MMEM_SIZE]
      /\ InRow(p, z, c) /\ MMEM_SIZE - a = EndOf(p, z, c, Len(c))
  BY DEF Kept
<1>2. MMEM_SIZE \in Nat
  BY MmemAssumption
<1>3. p \in [ListItem -> Nat] /\ z \in [ListItem -> Nat]
  BY <1>1, <1>2
<1>4. Len(c) \in Nat /\ \A k \in 1 .. Len(c) : c[k] \in ListItem
  BY <1>1
<1>5. \A k \in 1 .. Len(c) :
         /\ \A i \in 1 .. Len(c) : k < i => p[c[k]] + z[c[k]] <= p[c[i]]
         /\ p[c[k]] + z[c[k]] <= EndOf(p, z, c, Len(c))
  BY <1>1, <1>3, RowInOrder
<1> QED
  BY <1>1, <1>2, <1>3, <1>4, <1>5

(* A block is allocated behind the others. *)
LEMMA KeptAlloc ==
    ASSUME NEW c, NEW a, NEW mem, NEW p, NEW z, NEW w, Kept(c, a, mem, p, z, w),
           NEW m \in ListItem, ~Has(c, m), NEW n \in 0 .. MMEM_SIZE, n <= a,
           NEW d, IsPut(c, Len(c) + 1, m, d)
    PROVE  Kept(d, a - n, mem, [p EXCEPT ![m] = MMEM_SIZE - a], [z EXCEPT ![m] = n],
                [w EXCEPT ![m] = BytesOf(mem, MMEM_SIZE - a, n)])
<1> DEFINE N == Len(c)
           e == MMEM_SIZE - a
           q == [p EXCEPT ![m] = e]
           y == [z EXCEPT ![m] = n]
           v == [w EXCEPT ![m] = BytesOf(mem, e, n)]
<1>1. /\ c \in Seq(ListItem) /\ N \in Nat /\ MMEM_SIZE \in Nat /\ a \in Nat /\ a <= MMEM_SIZE
      /\ n \in Nat
  BY KeptFacts
<1>2. /\ mem \in [Address -> 0 .. 1]
      /\ p \in [ListItem -> 0 .. MMEM_SIZE] /\ z \in [ListItem -> 0 .. MMEM_SIZE]
      /\ w = [x \in ListItem |-> w[x]]
      /\ \A k \in 1 .. N : p[c[k]] = EndOf(p, z, c, k - 1)
      /\ e = EndOf(p, z, c, N)
      /\ \A k \in 1 .. N : w[c[k]] = BytesOf(mem, p[c[k]], z[c[k]])
  BY DEF Kept, InRow
<1>3. e \in 0 .. MMEM_SIZE /\ a - n \in 0 .. MMEM_SIZE /\ MMEM_SIZE - (a - n) = e + n
  BY <1>1
<1>4. d \in Seq(ListItem) /\ Len(d) = N + 1 /\ d[N + 1] = m
  <2>1. N + 1 \in 1 .. N + 1
    BY <1>1
  <2> QED
    BY <1>1, <2>1 DEF IsPut
<1>5. ASSUME NEW k \in 1 .. N PROVE d[k] = c[k] /\ c[k] \in ListItem /\ c[k] # m
  <2>1. k \in 1 .. N + 1 /\ k < N + 1
    BY <1>1
  <2> QED
    BY <1>1, <2>1 DEF IsPut, Has
<1>6. /\ q \in [ListItem -> 0 .. MMEM_SIZE] /\ y \in [ListItem -> 0 .. MMEM_SIZE]
      /\ q[m] = e /\ y[m] = n
      /\ \A x \in ListItem : x # m => q[x] = p[x] /\ y[x] = z[x]
  BY <1>2, <1>3
<1>7. /\ v = [x \in ListItem |-> v[x]] /\ v[m] = BytesOf(mem, e, n)
      /\ \A x \in ListItem : x # m => v[x] = w[x]
  <2>1. v = [x \in ListItem |-> IF x = m THEN BytesOf(mem, e, n) ELSE w[x]]
    BY <1>2, Zenon
  <2> HIDE DEF v
  <2> QED
    BY <2>1, Zenon
<1> HIDE DEF q, y, v, e
<1>8. ASSUME NEW k \in 0 .. N PROVE EndOf(q, y, d, k) = EndOf(p, z, c, k)
  <2>1. CASE k = 0
    BY <2>1 DEF EndOf
  <2>2. CASE k # 0
    <3>1. k \in 1 .. N
      BY <1>1, <2>2
    <3> QED
      BY <1>5, <1>6, <2>2, <3>1 DEF EndOf
  <2> QED
    BY <2>1, <2>2
<1>9. ASSUME NEW k \in 1 .. Len(d)
      PROVE q[d[k]] = EndOf(q, y, d, k - 1) /\ v[d[k]] = BytesOf(mem, q[d[k]], y[d[k]])
  <2>1. k - 1 \in 0 .. N
    BY <1>1, <1>4
  <2>2. CASE k = N + 1
    <3>1. k - 1 = N
      BY <1>1, <2>2
    <3>2. EndOf(q, y, d, k - 1) = e
      BY <1>2, <1>8, <2>1, <3>1
    <3> QED
      BY <1>4, <1>6, <1>7, <2>2, <3>2
  <2>3. CASE k # N + 1
    <3>1. k \in 1 .. N
      BY <1>1, <1>4, <2>3
    <3>2. d[k] = c[k] /\ c[k] \in ListItem /\ c[k] # m
      BY <1>5, <3>1
    <3>3. EndOf(q, y, d, k - 1) = EndOf(p, z, c, k - 1)
      BY <1>8, <2>1
    <3> QED
      BY <1>2, <1>6, <1>7, <3>1, <3>2, <3>3
  <2> QED
    BY <2>2, <2>3
<1>10. EndOf(q, y, d, Len(d)) = e + n
  <2>1. Len(d) # 0
    BY <1>1, <1>4
  <2> QED
    BY <1>4, <1>6, <2>1 DEF EndOf
<1>11. Kept(d, a - n, mem, q, y, v)
  BY <1>2, <1>3, <1>4, <1>6, <1>7, <1>9, <1>10 DEF Kept, InRow
<1> QED
  BY <1>11 DEF q, y, v, e

(* The owner of the block at i writes byte k of it. *)
LEMMA KeptWrite ==
    ASSUME NEW c, NEW a, NEW mem, NEW p, NEW z, NEW w, Kept(c, a, mem, p, z, w), Once(c),
           NEW i \in 1 .. Len(c), NEW k \in 1 .. z[c[i]], NEW byte \in 0 .. 1
    PROVE  Kept(c, a, [mem EXCEPT ![p[c[i]] + k - 1] = byte], p, z,
                [w EXCEPT ![c[i]] = [w[c[i]] EXCEPT ![k] = byte]])
<1> DEFINE m == c[i]
           u == p[m] + k - 1
           n == [mem EXCEPT ![u] = byte]
           b == [w[m] EXCEPT ![k] = byte]
           v == [w EXCEPT ![m] = b]
<1>1. /\ c \in Seq(ListItem) /\ Len(c) \in Nat /\ MMEM_SIZE \in Nat /\ a \in Nat /\ a <= MMEM_SIZE
      /\ \A h \in 1 .. Len(c) :
            /\ c[h] \in ListItem /\ p[c[h]] \in Nat /\ z[c[h]] \in Nat
            /\ p[c[h]] + z[c[h]] <= MMEM_SIZE - a
            /\ \A j \in 1 .. Len(c) : j < h => p[c[j]] + z[c[j]] <= p[c[h]]
  BY KeptFacts
<1>2. /\ mem \in [Address -> 0 .. 1] /\ a \in 0 .. MMEM_SIZE
      /\ p \in [ListItem -> 0 .. MMEM_SIZE] /\ z \in [ListItem -> 0 .. MMEM_SIZE]
      /\ w = [x \in ListItem |-> w[x]]
      /\ InRow(p, z, c) /\ MMEM_SIZE - a = EndOf(p, z, c, Len(c))
      /\ \A h \in 1 .. Len(c) : w[c[h]] = BytesOf(mem, p[c[h]], z[c[h]])
  BY DEF Kept
<1>3. m \in ListItem /\ k \in Int /\ 1 <= k /\ k <= z[m] /\ p[m] \in Nat /\ z[m] \in Nat
  BY <1>1
<1>4. u \in Address
  BY <1>1, <1>3 DEF Address
<1>5. /\ n \in [Address -> 0 .. 1]
      /\ \A x \in Address : n[x] = IF x = u THEN byte ELSE mem[x]
  BY <1>2, <1>4
<1>6. /\ v = [x \in ListItem |-> v[x]] /\ v[m] = b
      /\ \A x \in ListItem : x # m => v[x] = w[x]
  <2>1. v = [x \in ListItem |-> IF x = m THEN b ELSE w[x]]
    BY <1>2, Zenon
  <2> HIDE DEF v, b
  <2> QED
    BY <1>3, <2>1, Zenon
<1>7. \A h \in 1 .. Len(c), j \in Int :
          1 <= j /\ j <= z[c[h]] => p[c[h]] + j - 1 \in Address
  BY <1>1 DEF Address
<1>8. ASSUME NEW h \in 1 .. Len(c), h # i, NEW j \in 1 .. z[c[h]]
      PROVE  c[h] # m /\ n[p[c[h]] + j - 1] = mem[p[c[h]] + j - 1]
  <2>1. c[h] # m
    BY <1>8 DEF Once
  <2>2. j \in Int /\ 1 <= j /\ j <= z[c[h]] /\ p[c[h]] \in Nat /\ z[c[h]] \in Nat
    BY <1>1
  <2>3. h < i \/ i < h
    BY <1>1, <1>8
  <2>4. p[c[h]] + z[c[h]] <= p[m] \/ p[m] + z[m] <= p[c[h]]
    BY <1>1, <2>3
  <2>5. p[c[h]] + j - 1 # u
    <3> DEFINE s == p[c[h]]
               e == z[c[h]]
    <3>1. /\ s \in Nat /\ e \in Nat /\ j \in Int /\ 1 <= j /\ j <= e
          /\ (s + e <= p[m] \/ p[m] + z[m] <= s)
      BY <2>2, <2>4
    <3> HIDE DEF s, e
    <3>2. s + j - 1 # p[m] + k - 1
      BY <1>3, <3>1
    <3> QED
      BY <3>2 DEF s
  <2>6. p[c[h]] + j - 1 \in Address
    BY <1>7, <2>2
  <2> QED
    BY <1>5, <2>1, <2>5, <2>6
<1>9. b = BytesOf(n, p[m], z[m])
  <2>1. w[m] = [j \in 1 .. z[m] |-> mem[p[m] + j - 1]]
    BY <1>2 DEF BytesOf
  <2>2. b = [j \in 1 .. z[m] |-> IF j = k THEN byte ELSE mem[p[m] + j - 1]]
    BY <2>1
  <2>3. ASSUME NEW j \in 1 .. z[m]
        PROVE  n[p[m] + j - 1] = IF j = k THEN byte ELSE mem[p[m] + j - 1]
    <3>1. j \in Int /\ 1 <= j /\ j <= z[c[i]]
      BY <1>3
    <3>2. p[m] + j - 1 \in Address
      BY <1>7, <3>1
    <3>3. p[m] + j - 1 = u <=> j = k
      BY <1>3, <3>1
    <3> QED
      BY <1>5, <3>2, <3>3
  <2> HIDE DEF b, n
  <2> QED
    BY <2>2, <2>3 DEF BytesOf
<1> HIDE DEF n, v, b
<1>10. ASSUME NEW h \in 1 .. Len(c) PROVE v[c[h]] = BytesOf(n, p[c[h]], z[c[h]])
  <2>1. CASE h = i
    BY <1>6, <1>9, <2>1
  <2>2. CASE h # i
    <3>1. c[h] \in ListItem
      BY <1>1
    <3>2. \A j \in 1 .. z[c[h]] : n[p[c[h]] + j - 1] = mem[p[c[h]] + j - 1]
      BY <1>8, <2>2
    <3>3. c[h] # m
      BY <2>2 DEF Once
    <3>4. BytesOf(n, p[c[h]], z[c[h]]) = BytesOf(mem, p[c[h]], z[c[h]])
      BY <3>2 DEF BytesOf
    <3> QED
      BY <1>2, <1>6, <3>1, <3>3, <3>4
  <2> QED
    BY <2>1, <2>2
<1>11. Kept(c, a, n, p, z, v)
  BY <1>1, <1>2, <1>5, <1>6, <1>10 DEF Kept
<1> QED
  BY <1>11 DEF n, v, b, u, m

(* The last block is freed. *)
LEMMA KeptFreeLast ==
    ASSUME NEW c, NEW a, NEW mem, NEW p, NEW z, NEW w, Kept(c, a, mem, p, z, w), Once(c),
           NEW i \in 1 .. Len(c), i = Len(c), NEW d, IsDrop(c, i, d)
    PROVE  Kept(d, a + z[c[i]], mem, p, z, [w EXCEPT ![c[i]] = << >>])
<1> DEFINE m == c[i]
           v == [w EXCEPT ![m] = << >>]
<1>1. /\ c \in Seq(ListItem) /\ Len(c) \in Nat /\ MMEM_SIZE \in Nat /\ a \in Nat /\ a <= MMEM_SIZE
      /\ \A k \in 1 .. Len(c) : c[k] \in ListItem /\ p[c[k]] \in Nat /\ z[c[k]] \in Nat
  BY KeptFacts
<1>2. /\ mem \in [Address -> 0 .. 1] /\ a \in 0 .. MMEM_SIZE
      /\ p \in [ListItem -> 0 .. MMEM_SIZE] /\ z \in [ListItem -> 0 .. MMEM_SIZE]
      /\ w = [x \in ListItem |-> w[x]]
      /\ \A k \in 1 .. Len(c) : p[c[k]] = EndOf(p, z, c, k - 1)
      /\ MMEM_SIZE - a = EndOf(p, z, c, Len(c))
      /\ \A k \in 1 .. Len(c) : w[c[k]] = BytesOf(mem, p[c[k]], z[c[k]])
  BY DEF Kept, InRow
<1>3. d \in Seq(ListItem) /\ Len(d) \in Nat /\ Len(d) = i - 1 /\ \A k \in 1 .. Len(d) : d[k] = c[k]
  <2>1. d \in Seq(ListItem) /\ Len(d) \in Nat /\ Len(d) + 1 = Len(c)
    BY DEF IsDrop
  <2>2. \A k \in 1 .. Len(d) : k < i
    BY <1>1, <2>1
  <2> QED
    BY <1>1, <2>1, <2>2 DEF IsDrop
<1>4. /\ v = [x \in ListItem |-> v[x]]
      /\ \A x \in ListItem : x # m => v[x] = w[x]
  <2>1. v = [x \in ListItem |-> IF x = m THEN << >> ELSE w[x]]
    BY <1>2, Zenon
  <2> HIDE DEF v
  <2> QED
    BY <2>1, Zenon
<1>5. ASSUME NEW k \in 0 .. Len(d) PROVE EndOf(p, z, d, k) = EndOf(p, z, c, k)
  BY <1>3 DEF EndOf
<1>6. EndOf(p, z, d, Len(d)) = p[m]
  <2>1. Len(d) \in 0 .. Len(d)
    BY <1>3
  <2>2. EndOf(p, z, d, Len(d)) = EndOf(p, z, c, Len(d))
    BY <1>5, <2>1
  <2> QED
    BY <1>2, <1>3, <2>2
<1>7. MMEM_SIZE - (a + z[m]) = p[m] /\ a + z[m] \in 0 .. MMEM_SIZE
  <2> DEFINE s == p[m]
             e == z[m]
  <2>1. MMEM_SIZE - a = s + e /\ s \in Nat /\ e \in Nat
    BY <1>1, <1>2 DEF EndOf
  <2> HIDE DEF s, e
  <2>2. MMEM_SIZE - (a + e) = s /\ a + e \in 0 .. MMEM_SIZE
    BY <1>1, <2>1
  <2> QED
    BY <2>2 DEF s, e
<1> HIDE DEF v
<1>8. ASSUME NEW k \in 1 .. Len(d)
      PROVE  p[d[k]] = EndOf(p, z, d, k - 1) /\ v[d[k]] = BytesOf(mem, p[d[k]], z[d[k]])
  <2>1. k \in 1 .. Len(c) /\ d[k] = c[k] /\ c[k] \in ListItem /\ k - 1 \in 0 .. Len(d) /\ k # i
    BY <1>1, <1>3
  <2>2. c[k] # m
    BY <2>1 DEF Once
  <2>3. EndOf(p, z, d, k - 1) = EndOf(p, z, c, k - 1)
    BY <1>5, <2>1
  <2> HIDE DEF m
  <2> QED
    BY <1>2, <1>4, <2>1, <2>2, <2>3
<1>9. Kept(d, a + z[m], mem, p, z, v)
  BY <1>2, <1>3, <1>6, <1>7, <1>4, <1>8 DEF Kept, InRow
<1> QED
  BY <1>9 DEF v, m

Moved(mem, to, from, n) ==
    [x \in Address |-> IF x \in to .. to + n - 1 THEN mem[from + x - to] ELSE mem[x]]

Lowered(c, i, p, g) ==
    [b \in ListItem |-> IF \E k \in 1 .. Len(c) : i < k /\ c[k] = b THEN p[b] - g ELSE p[b]]

(* A block is freed that others lie behind: they are moved down to its place. *)
LEMMA KeptFreeBelow ==
    ASSUME NEW c, NEW a, NEW mem, NEW p, NEW z, NEW w, Kept(c, a, mem, p, z, w), Once(c),
           NEW i \in 1 .. Len(c), i < Len(c), NEW d, IsDrop(c, i, d)
    PROVE  Kept(d, a + z[c[i]],
                Moved(mem, p[c[i]], p[c[i + 1]], MMEM_SIZE - a - p[c[i + 1]]),
                Lowered(c, i, p, z[c[i]]), z, [w EXCEPT ![c[i]] = << >>])
<1> DEFINE m == c[i]
           g == z[m]
           to == p[m]
           from == p[c[i + 1]]
           n == MMEM_SIZE - a - from
           mv == Moved(mem, to, from, n)
           q == Lowered(c, i, p, g)
           v == [w EXCEPT ![m] = << >>]
           N == Len(c)
<1>1. /\ c \in Seq(ListItem) /\ N \in Nat /\ MMEM_SIZE \in Nat /\ a \in Nat /\ a <= MMEM_SIZE
      /\ \A k \in 1 .. N :
            /\ c[k] \in ListItem /\ p[c[k]] \in Nat /\ z[c[k]] \in Nat
            /\ p[c[k]] + z[c[k]] <= MMEM_SIZE - a
            /\ \A j \in 1 .. N : j < k => p[c[j]] + z[c[j]] <= p[c[k]]
  BY KeptFacts
<1>2. /\ mem \in [Address -> 0 .. 1] /\ a \in 0 .. MMEM_SIZE
      /\ p \in [ListItem -> 0 .. MMEM_SIZE] /\ z \in [ListItem -> 0 .. MMEM_SIZE]
      /\ w = [x \in ListItem |-> w[x]]
      /\ \A k \in 1 .. N : p[c[k]] = EndOf(p, z, c, k - 1)
      /\ MMEM_SIZE - a = EndOf(p, z, c, N)
      /\ \A k \in 1 .. N : w[c[k]] = BytesOf(mem, p[c[k]], z[c[k]])
  BY DEF Kept, InRow
<1>3. /\ i \in Int /\ 1 <= i /\ i + 1 \in 1 .. N /\ i # 0
      /\ m \in ListItem /\ to \in Nat /\ g \in Nat /\ to = p[m]
  BY <1>1
<1>4. from = to + g /\ to + n = MMEM_SIZE - a - g /\ from + n = MMEM_SIZE - a /\ n \in Int
  <2>1. (i + 1) - 1 = i
    BY <1>3
  <2>2. from = EndOf(p, z, c, i)
    BY <1>2, <1>3, <2>1
  <2>3. from = to + g
    BY <1>3, <2>2 DEF EndOf
  <2> HIDE DEF g, to, from
  <2>4. from \in Nat /\ MMEM_SIZE \in Nat /\ a \in Nat /\ to \in Nat /\ g \in Nat
    BY <1>1, <1>3, <2>3
  <2>5. n \in Int
    BY <2>4
  <2>6. to + n = MMEM_SIZE - a - g /\ from + n = MMEM_SIZE - a
    BY <2>3, <2>4
  <2> QED
    BY <2>3, <2>5, <2>6
<1>5. MMEM_SIZE - (a + g) \in Nat /\ a + g \in 0 .. MMEM_SIZE /\ MMEM_SIZE - a = p[c[N]] + z[c[N]]
  <2>1. MMEM_SIZE - a = p[c[N]] + z[c[N]] /\ N \in 1 .. N
    BY <1>1, <1>2, <1>3 DEF EndOf
  <2> DEFINE s == p[c[N]]
             e == z[c[N]]
  <2>2. s \in Nat /\ e \in Nat /\ to + g <= s /\ MMEM_SIZE - a = s + e
    BY <1>1, <2>1
  <2> HIDE DEF g, to, s, e
  <2>3. MMEM_SIZE - (a + g) \in Nat /\ a + g \in 0 .. MMEM_SIZE
    BY <1>1, <1>3, <2>2
  <2> QED
    BY <2>1, <2>3
<1>6. /\ d \in Seq(ListItem) /\ Len(d) = N - 1 /\ Len(d) \in Nat /\ Len(d) # 0
      /\ \A k \in 1 .. N - 1 : d[k] = IF k < i THEN c[k] ELSE c[k + 1]
  <2>1. d \in Seq(ListItem) /\ Len(d) \in Nat /\ Len(d) + 1 = N
    BY DEF IsDrop
  <2>2. Len(d) = N - 1 /\ Len(d) # 0
    BY <1>1, <1>3, <2>1
  <2> QED
    BY <2>1, <2>2 DEF IsDrop
<1>16. /\ q = [b \in ListItem |-> q[b]]
      /\ \A b \in ListItem : q[b] = IF \E k \in 1 .. N : i < k /\ c[k] = b THEN p[b] - g ELSE p[b]
  BY DEF Lowered
<1>17. /\ mv = [x \in Address |-> mv[x]]
      /\ \A x \in Address : mv[x] = IF x \in to .. to + n - 1 THEN mem[from + x - to] ELSE mem[x]
  BY DEF Moved
<1> HIDE DEF q, mv, n, from, to
<1>7. ASSUME NEW k \in 1 .. N
      PROVE  /\ k > i => q[c[k]] = p[c[k]] - g
             /\ k < i => q[c[k]] = p[c[k]]
  <2>1. c[k] \in ListItem
    BY <1>1
  <2>2. (\E j \in 1 .. N : i < j /\ c[j] = c[k]) <=> i < k
    BY DEF Once
  <2>3. q[c[k]] = IF \E j \in 1 .. N : i < j /\ c[j] = c[k] THEN p[c[k]] - g ELSE p[c[k]]
    BY <1>16, <2>1
  <2>4. k \in Int /\ (k < i => ~(i < k))
    BY <1>3
  <2> HIDE DEF g, m, N
  <2> QED
    BY <1>3, <2>2, <2>3, <2>4
<1>8. q \in [ListItem -> 0 .. MMEM_SIZE]
  <2>1. ASSUME NEW b \in ListItem PROVE q[b] \in 0 .. MMEM_SIZE
    <3>1. CASE \E k \in 1 .. N : i < k /\ c[k] = b
      <4>1. PICK k \in 1 .. N : i < k /\ c[k] = b
        BY <3>1
      <4>2. q[b] = p[b] - g
        BY <1>7, <4>1
      <4> DEFINE s == p[b]
      <4>3. to + g <= s /\ s \in 0 .. MMEM_SIZE
        BY <1>1, <1>2, <1>3, <4>1
      <4> HIDE DEF g, s
      <4>4. s - g \in 0 .. MMEM_SIZE
        BY <1>1, <1>3, <4>3
      <4> QED
        BY <4>2, <4>4 DEF s
    <3>2. CASE ~\E k \in 1 .. N : i < k /\ c[k] = b
      BY <1>2, <1>16, <3>2
    <3> QED
      BY <3>1, <3>2
  <2> QED
    BY <1>16, <2>1
<1>9. /\ mv \in [Address -> 0 .. 1]
      /\ \A x \in Address : mv[x] = IF to <= x /\ x < to + n THEN mem[x + g] ELSE mem[x]
  <2>1. ASSUME NEW x \in Address
        PROVE  /\ x \in to .. to + n - 1 <=> to <= x /\ x < to + n
               /\ from + x - to = x + g
               /\ x < to + n => x + g \in Address
    <3>1. x \in Int /\ 0 <= x /\ x <= MMEM_SIZE - 1 /\ to + n \in Int /\ g \in Nat /\ from \in Int
      BY <1>1, <1>3, <1>4 DEF Address
    <3> HIDE DEF g
    <3> DEFINE e == to + n
    <3>2. x \in to .. to + n - 1 <=> to <= x /\ x < to + n
      <4>1. e \in Int /\ to \in Int /\ x \in Int /\ n \in Int
        BY <1>3, <1>4, <3>1
      <4>2. e - 1 = to + n - 1
        BY <4>1
      <4> HIDE DEF e
      <4>3. x \in to .. e - 1 <=> to <= x /\ x < e
        BY <4>1
      <4> QED
        BY <4>2, <4>3 DEF e
    <3>3. from + x - to = x + g
      BY <1>3, <1>4, <3>1
    <3>4. x < to + n => 0 <= x + g /\ x + g <= MMEM_SIZE - 1 /\ x + g \in Int
      BY <1>1, <1>4, <3>1
    <3>5. x < to + n => x + g \in Address
      BY <1>1, <3>4 DEF Address
    <3> QED
      BY <3>2, <3>3, <3>5
  <2>2. \A x \in Address : mv[x] = IF to <= x /\ x < to + n THEN mem[x + g] ELSE mem[x]
    BY <1>17, <2>1
  <2>3. \A x \in Address : mv[x] \in 0 .. 1
    BY <1>2, <2>1, <2>2
  <2> QED
    BY <1>17, <2>2, <2>3
<1>10. /\ v = [x \in ListItem |-> v[x]]
       /\ \A x \in ListItem : x # m => v[x] = w[x]
  <2>1. v = [x \in ListItem |-> IF x = m THEN << >> ELSE w[x]]
    BY <1>2, Zenon
  <2> HIDE DEF v
  <2> QED
    BY <2>1, Zenon
<1> HIDE DEF v
(* The blocks below stay where they are. *)
<1>11. ASSUME NEW k \in 1 .. N, k < i
       PROVE  /\ q[c[k]] = EndOf(q, z, d, k - 1) /\ d[k] = c[k]
              /\ v[c[k]] = BytesOf(mv, q[c[k]], z[c[k]])
  <2>1. c[k] \in ListItem /\ c[k] # m /\ q[c[k]] = p[c[k]] /\ d[k] = c[k]
    <3>1. k \in 1 .. N - 1 /\ k # i
      BY <1>1, <1>3, <1>11
    <3> QED
      BY <1>1, <1>6, <1>7, <1>11, <3>1 DEF Once
  <2>2. EndOf(q, z, d, k - 1) = EndOf(p, z, c, k - 1)
    <3>1. CASE k = 1
      BY <3>1 DEF EndOf
    <3>2. CASE k # 1
      <4>1. k - 1 \in 1 .. N /\ k - 1 < i /\ k - 1 \in 1 .. N - 1 /\ k - 1 # 0
        BY <1>1, <1>3, <1>11, <3>2
      <4>2. d[k - 1] = c[k - 1] /\ q[c[k - 1]] = p[c[k - 1]]
        BY <1>6, <1>7, <4>1
      <4> QED
        BY <4>1, <4>2 DEF EndOf
    <3> QED
      BY <3>1, <3>2
  <2>3. ASSUME NEW j \in 1 .. z[c[k]] PROVE mv[p[c[k]] + j - 1] = mem[p[c[k]] + j - 1]
    <3> DEFINE s == p[c[k]]
               e == z[c[k]]
    <3>1. /\ s \in Nat /\ e \in Nat /\ j \in Int /\ 1 <= j /\ j <= e
          /\ s + e <= to /\ s + e <= MMEM_SIZE - a
      BY <1>1, <1>3, <1>11
    <3> HIDE DEF s, e
    <3>2. s + j - 1 \in Address /\ s + j - 1 < to
      BY <1>1, <1>3, <3>1 DEF Address
    <3>3. ~(to <= s + j - 1)
      BY <1>3, <3>1
    <3> QED
      BY <1>9, <3>2, <3>3 DEF s
  <2>4. BytesOf(mv, p[c[k]], z[c[k]]) = BytesOf(mem, p[c[k]], z[c[k]])
    BY <2>3 DEF BytesOf
  <2> HIDE DEF m
  <2> QED
    BY <1>2, <1>10, <2>1, <2>2, <2>4
(* Those above are moved by the size of the block freed. *)
<1>12. ASSUME NEW k \in 1 .. N, i < k
       PROVE  /\ q[c[k]] = EndOf(q, z, d, k - 2) /\ d[k - 1] = c[k]
              /\ v[c[k]] = BytesOf(mv, q[c[k]], z[c[k]])
  <2>1. c[k] \in ListItem /\ c[k] # m /\ q[c[k]] = p[c[k]] - g /\ d[k - 1] = c[k]
    <3>1. k - 1 \in 1 .. N - 1 /\ ~(k - 1 < i) /\ (k - 1) + 1 = k /\ k # i
      BY <1>1, <1>3, <1>12
    <3> QED
      BY <1>1, <1>6, <1>7, <1>12, <3>1 DEF Once
  <2>2. p[c[k]] = p[c[k - 1]] + z[c[k - 1]] /\ k - 1 \in 1 .. N
    <3>1. k - 1 # 0 /\ k - 1 \in 1 .. N
      BY <1>1, <1>3, <1>12
    <3> QED
      BY <1>2, <3>1 DEF EndOf
  <2>3. q[c[k]] = EndOf(q, z, d, k - 2)
    <3>1. CASE k = i + 1
      <4>1. q[c[k]] = to
        <5>1. p[c[k]] = to + g
          BY <1>4, <3>1 DEF from
        <5> HIDE DEF g
        <5> QED
          BY <1>3, <2>1, <5>1
      <4>2. to = EndOf(p, z, c, i - 1) /\ k - 2 = i - 1
        BY <1>2, <1>3, <3>1
      <4>3. EndOf(q, z, d, i - 1) = EndOf(p, z, c, i - 1)
        <5>1. CASE i = 1
          BY <5>1 DEF EndOf
        <5>2. CASE i # 1
          <6>1. i - 1 \in 1 .. N /\ i - 1 < i /\ i - 1 \in 1 .. N - 1 /\ i - 1 # 0
            BY <1>1, <1>3, <5>2
          <6>2. d[i - 1] = c[i - 1] /\ q[c[i - 1]] = p[c[i - 1]]
            BY <1>6, <1>7, <6>1
          <6> QED
            BY <6>1, <6>2 DEF EndOf
        <5> QED
          BY <5>1, <5>2
      <4> QED
        BY <4>1, <4>2, <4>3
    <3>2. CASE k # i + 1
      <4>1. /\ i < k - 1 /\ k - 2 \in 1 .. N - 1 /\ ~(k - 2 < i) /\ (k - 2) + 1 = k - 1
            /\ k - 2 # 0
        BY <1>1, <1>3, <1>12, <3>2
      <4>2. d[k - 2] = c[k - 1] /\ q[c[k - 1]] = p[c[k - 1]] - g
        <5>1. d[k - 2] = c[(k - 2) + 1]
          BY <1>6, <4>1
        <5> QED
          BY <1>7, <2>2, <4>1, <5>1
      <4>3. EndOf(q, z, d, k - 2) = (p[c[k - 1]] - g) + z[c[k - 1]]
        BY <4>1, <4>2 DEF EndOf
      <4>4. p[c[k - 1]] \in Nat /\ z[c[k - 1]] \in Nat
        BY <1>1, <2>2
      <4> HIDE DEF g
      <4> QED
        BY <1>3, <2>1, <2>2, <4>3, <4>4
    <3> QED
      BY <3>1, <3>2
  <2>4. ASSUME NEW j \in 1 .. z[c[k]] PROVE mv[q[c[k]] + j - 1] = mem[p[c[k]] + j - 1]
    <3> DEFINE s == p[c[k]]
               e == z[c[k]]
    <3>1. /\ s \in Nat /\ e \in Nat /\ j \in Int /\ 1 <= j /\ j <= e
          /\ to + g <= s /\ s + e <= MMEM_SIZE - a /\ q[c[k]] = s - g
      BY <1>1, <1>3, <1>12, <2>1
    <3> HIDE DEF s, e, g
    <3> DEFINE y == (s - g) + j - 1
    <3>2. y \in Int /\ to <= y /\ y + g = s + j - 1 /\ y < MMEM_SIZE - a - g
      <4>1. /\ s \in Nat /\ e \in Nat /\ j \in Int /\ to \in Nat /\ g \in Nat /\ a \in Nat
            /\ MMEM_SIZE \in Nat /\ 1 <= j /\ j <= e /\ to + g <= s /\ s + e <= MMEM_SIZE - a
        BY <1>1, <1>3, <3>1
      <4>2. y \in Int /\ to <= y /\ y + g = s + j - 1
        BY <4>1
      <4>3. y + g < s + e
        BY <4>1, <4>2
      <4>4. y < MMEM_SIZE - a - g
        BY <4>1, <4>2, <4>3
      <4> QED
        BY <4>2, <4>4
    <3> HIDE DEF y
    <3>3. y < to + n
      BY <1>4, <3>2
    <3>4. y \in Address
      BY <1>1, <1>3, <3>2 DEF Address
    <3>5. mv[y] = mem[y + g]
      BY <1>9, <3>2, <3>3, <3>4
    <3> QED
      BY <3>1, <3>2, <3>5 DEF y, s
  <2>5. BytesOf(mv, q[c[k]], z[c[k]]) = BytesOf(mem, p[c[k]], z[c[k]])
    BY <2>4 DEF BytesOf
  <2> HIDE DEF m, g
  <2> QED
    BY <1>2, <1>10, <2>1, <2>3, <2>5
<1>13. ASSUME NEW k \in 1 .. Len(d)
       PROVE  q[d[k]] = EndOf(q, z, d, k - 1) /\ v[d[k]] = BytesOf(mv, q[d[k]], z[d[k]])
  <2>1. k \in 1 .. N /\ k + 1 \in 1 .. N /\ (k + 1) - 1 = k /\ (k + 1) - 2 = k - 1
    BY <1>1, <1>6
  <2>2. CASE k < i
    BY <1>11, <2>1, <2>2
  <2>3. CASE ~(k < i)
    <3> DEFINE h == k + 1
    <3>1. i < h /\ h \in 1 .. N /\ h - 1 = k /\ h - 2 = k - 1
      BY <1>3, <2>1, <2>3
    <3> HIDE DEF h
    <3>2. q[c[h]] = EndOf(q, z, d, h - 2) /\ d[h - 1] = c[h] /\ v[c[h]] = BytesOf(mv, q[c[h]], z[c[h]])
      BY <1>12, <3>1
    <3> QED
      BY <3>1, <3>2
  <2> QED
    BY <2>2, <2>3
<1>14. MMEM_SIZE - (a + g) = EndOf(q, z, d, Len(d))
  <2>1. N \in 1 .. N /\ i < N
    BY <1>1, <1>3
  <2>2. d[N - 1] = c[N] /\ q[c[N]] = p[c[N]] - g
    BY <1>7, <1>12, <2>1
  <2>3. EndOf(q, z, d, Len(d)) = (p[c[N]] - g) + z[c[N]]
    BY <1>6, <2>2 DEF EndOf
  <2> DEFINE s == p[c[N]]
             e == z[c[N]]
  <2>4. s \in Nat /\ e \in Nat /\ MMEM_SIZE - a = s + e /\ EndOf(q, z, d, Len(d)) = (s - g) + e
    BY <1>1, <1>5, <2>1, <2>3
  <2> HIDE DEF g, s, e
  <2> QED
    BY <1>1, <1>3, <2>4
<1>15. Kept(d, a + g, mv, q, z, v)
  BY <1>2, <1>5, <1>6, <1>8, <1>9, <1>10, <1>13, <1>14 DEF Kept, InRow
<1> QED
  BY <1>15 DEF v, g, m, q, mv, n, from, to

LEMMA AllocStays ==
    ASSUME MmemInv, NEW m \in ListItem, NEW n \in 0 .. MMEM_SIZE, mmem_alloc(m, n)
    PROVE  MmemInv'
<1> DEFINE c == Chain(mmemlist)
           d == Append(c, m)
           e == MMEM_SIZE - avail_memory
<1>1. Linked(mmemlist, c) /\ Kept(c, avail_memory, memory, ptr, bytes, contents) /\ c \in Seq(ListItem)
  BY DEF MmemInv, Linked
<1>2. /\ ~In(mmemlist, m) /\ avail_memory >= n /\ mmemlist' = list_add(mmemlist, m)
      /\ ptr' = [ptr EXCEPT ![m] = e] /\ bytes' = [bytes EXCEPT ![m] = n]
      /\ avail_memory' = avail_memory - n /\ memory' = memory
      /\ contents' = [contents EXCEPT ![m] = BytesOf(memory, e, n)]
  BY DEF mmem_alloc, BytesAt, BytesOf
<1>3. ~Has(c, m)
  BY <1>1, <1>2, ChainFacts DEF Has
<1>4. n <= avail_memory
  BY <1>1, <1>2, KeptFacts
<1> HIDE DEF c, e
<1>5. IsPut(c, Len(c) + 1, m, d)
  BY <1>1, EndsOfSequence
<1> HIDE DEF d
<1>6. Linked(mmemlist', d)
  BY <1>1, <1>2, <1>3, <1>5, Added
<1>7. Kept(d, avail_memory', memory', ptr', bytes', contents')
  BY <1>1, <1>2, <1>3, <1>4, <1>5, KeptAlloc DEF e
<1> QED
  BY <1>6, <1>7, StaysKept

LEMMA FreeStays == ASSUME MmemInv, NEW m \in ListItem, mmem_free(m) PROVE MmemInv'
<1> DEFINE c == Chain(mmemlist)
<1>1. /\ Linked(mmemlist, c) /\ Kept(c, avail_memory, memory, ptr, bytes, contents)
      /\ c \in Seq(ListItem) /\ Len(c) \in Nat /\ DOMAIN c = 1 .. Len(c) /\ Once(c)
      /\ \A k \in 1 .. Len(c) : mmemlist.next[c[k]] = ItemAt(c, k + 1)
      /\ \A k \in 1 .. Len(c) : c[k] \in ListItem /\ c[k] # NULL
  BY NullAssumption DEF MmemInv, Linked
<1>2. /\ In(mmemlist, m) /\ Compact(m) /\ avail_memory' = avail_memory + bytes[m]
      /\ mmemlist' = list_remove(mmemlist, m)
      /\ contents' = [contents EXCEPT ![m] = << >>] /\ bytes' = bytes
  BY DEF mmem_free
<1>3. PICK i \in 1 .. Len(c) : c[i] = m
  BY <1>1, <1>2, ChainFacts
<1> DEFINE d == SubSeq(c, 1, i - 1) \o SubSeq(c, i + 1, Len(c))
           from == ptr[c[i + 1]]
<1>4. BlocksAbove(m) = {c[k] : k \in {k \in 1 .. Len(c) : i < k}}
  <2>1. ASSUME NEW k \in 1 .. Len(c) PROVE (\E j \in 1 .. k - 1 : c[j] = m) <=> i < k
    <3>1. ASSUME NEW j \in 1 .. k - 1, c[j] = m PROVE i < k
      <4>1. j \in 1 .. Len(c) /\ j < k
        BY <1>1
      <4>2. j = i
        BY <1>1, <1>3, <3>1, <4>1 DEF Once
      <4> QED
        BY <4>1, <4>2
    <3>2. ASSUME i < k PROVE i \in 1 .. k - 1
      BY <3>2
    <3> QED
      BY <1>3, <3>1, <3>2
  <2> QED
    BY <1>1, <2>1 DEF BlocksAbove
<1>5. mmemlist.next[m] = ItemAt(c, i + 1)
  BY <1>1, <1>3
<1> HIDE DEF c
<1>6. IsDrop(c, i, d)
  BY <1>1, CutAround
<1> HIDE DEF d, from
<1>7. Linked(mmemlist', d)
  BY <1>1, <1>2, <1>3, <1>6, Unlinked
<1>8. CASE i = Len(c)
  <2>1. mmemlist.next[m] = NULL
    BY <1>1, <1>5, <1>8 DEF ItemAt
  <2>2. memory' = memory /\ ptr' = ptr
    BY <1>2, <2>1 DEF Compact
  <2>3. Kept(d, avail_memory', memory', ptr', bytes', contents')
    BY <1>1, <1>2, <1>3, <1>6, <1>8, <2>2, KeptFreeLast
  <2> QED
    BY <1>7, <2>3, StaysKept
<1>9. CASE i # Len(c)
  <2>1. i < Len(c) /\ i + 1 \in 1 .. Len(c)
    <3> DEFINE N == Len(c)
    <3>1. N \in Nat /\ i \in 1 .. N /\ i # N
      BY <1>1, <1>3, <1>9
    <3> HIDE DEF N
    <3>2. i < N /\ i + 1 \in 1 .. N
      BY <3>1
    <3> QED
      BY <3>2 DEF N
  <2>2. mmemlist.next[m] = c[i + 1] /\ c[i + 1] # NULL
    BY <1>1, <1>5, <2>1 DEF ItemAt
  <2>3. memory' = Moved(memory, ptr[m], from, MMEM_SIZE - avail_memory - from)
    BY <1>2, <2>2 DEF Compact, MovedDown, Moved, from
  <2>4. ptr' = Lowered(c, i, ptr, bytes[m])
    <3>1. ptr' = [b \in ListItem |-> IF b \in BlocksAbove(m) THEN ptr[b] - bytes[m] ELSE ptr[b]]
      BY <1>2, <2>2 DEF Compact
    <3>2. \A b : b \in BlocksAbove(m) <=> \E k \in 1 .. Len(c) : i < k /\ c[k] = b
      BY <1>4
    <3> QED
      BY <3>1, <3>2 DEF Lowered
  <2>5. Kept(d, avail_memory', memory', ptr', bytes', contents')
    BY <1>1, <1>2, <1>3, <1>6, <2>1, <2>3, <2>4, KeptFreeBelow DEF from
  <2> QED
    BY <1>7, <2>5, StaysKept
<1> QED
  BY <1>8, <1>9

LEMMA WriteStays ==
    ASSUME MmemInv, NEW m \in ListItem, NEW k \in 1 .. MMEM_SIZE, NEW byte \in 0 .. 1,
           Write(m, k, byte)
    PROVE  MmemInv'
<1> DEFINE c == Chain(mmemlist)
<1>1. Linked(mmemlist, c) /\ Kept(c, avail_memory, memory, ptr, bytes, contents) /\ Once(c)
  BY DEF MmemInv, Linked
<1>2. /\ In(mmemlist, m) /\ k \in 1 .. bytes[m]
      /\ memory' = [memory EXCEPT ![ptr[m] + k - 1] = byte]
      /\ contents' = [contents EXCEPT ![m] = [contents[m] EXCEPT ![k] = byte]]
      /\ mmemlist' = mmemlist /\ avail_memory' = avail_memory /\ ptr' = ptr /\ bytes' = bytes
  BY DEF Write
<1>3. PICK i \in 1 .. Len(c) : c[i] = m
  BY <1>1, <1>2, ChainFacts
<1> HIDE DEF c
<1>4. Kept(c, avail_memory', memory', ptr', bytes', contents')
  BY <1>1, <1>2, <1>3, KeptWrite
<1> QED
  BY <1>1, <1>2, <1>4, StaysKept

LEMMA MmemStep == MmemInv /\ [MmemNext]_mmemVars => MmemInv'
<1> SUFFICES ASSUME MmemInv, [MmemNext]_mmemVars PROVE MmemInv'
  OBVIOUS
<1>1. CASE MmemNext
  BY <1>1, AllocStays, FreeStays, WriteStays DEF MmemNext
<1>2. CASE UNCHANGED mmemVars
  <2>1. /\ mmemlist' = mmemlist /\ avail_memory' = avail_memory /\ memory' = memory
        /\ ptr' = ptr /\ bytes' = bytes /\ contents' = contents
    BY <1>2 DEF mmemVars
  <2>2. Linked(mmemlist', Chain(mmemlist))
    BY <2>1 DEF MmemInv
  <2>3. Kept(Chain(mmemlist), avail_memory', memory', ptr', bytes', contents')
    BY <2>1 DEF MmemInv
  <2> QED
    BY <2>2, <2>3, StaysKept
<1> QED
  BY <1>1, <1>2

LEMMA InvKeepsBlocks == MmemInv => MmemTypeOK /\ BlocksKept
<1> SUFFICES ASSUME MmemInv PROVE MmemTypeOK /\ BlocksKept
  OBVIOUS
<1> DEFINE c == Chain(mmemlist)
<1>1. /\ Linked(mmemlist, c) /\ mmemlist \in List /\ c \in Seq(ListItem) /\ DOMAIN c = 1 .. Len(c)
      /\ avail_memory \in 0 .. MMEM_SIZE /\ memory \in [Address -> 0 .. 1]
      /\ ptr \in [ListItem -> 0 .. MMEM_SIZE] /\ bytes \in [ListItem -> 0 .. MMEM_SIZE]
      /\ \A k \in 1 .. Len(c) : ptr[c[k]] = EndOf(ptr, bytes, c, k - 1)
      /\ MMEM_SIZE - avail_memory = EndOf(ptr, bytes, c, Len(c))
      /\ \A k \in 1 .. Len(c) : contents[c[k]] = BytesOf(memory, ptr[c[k]], bytes[c[k]])
  BY DEF MmemInv, Linked, Kept, InRow
<1>2. \A m \in ListItem : In(mmemlist, m) => BytesAt(ptr[m], bytes[m]) = contents[m]
  <2>1. ASSUME NEW m \in ListItem, In(mmemlist, m)
        PROVE  BytesAt(ptr[m], bytes[m]) = contents[m]
    <3>1. PICK k \in 1 .. Len(c) : c[k] = m
      BY <1>1, <2>1, ChainFacts
    <3> QED
      BY <1>1, <3>1 DEF BytesAt, BytesOf
  <2> QED
    BY <2>1
<1> HIDE DEF c
<1>3. BlocksKept <=>
        /\ \A m \in ListItem : In(mmemlist, m) => BytesAt(ptr[m], bytes[m]) = contents[m]
        /\ \A k \in DOMAIN c : ptr[c[k]] = EndOf(ptr, bytes, c, k - 1)
        /\ MMEM_SIZE - avail_memory = EndOf(ptr, bytes, c, Len(c))
  BY DEF BlocksKept, EndOf, c
<1> QED
  BY <1>1, <1>2, <1>3 DEF MmemTypeOK

(* Whatever blocks are allocated, freed and written, for every size of the memory and
   every number of blocks, a block in use holds what its owner wrote wherever it was
   moved, the blocks lie behind one another without holes or overlaps, and all the
   rest is available (mmem.c:40-99, list.c:161-259). *)
THEOREM BlocksAreKept == MmemSpec => [](MmemTypeOK /\ BlocksKept)
<1> QED
  BY MmemStarts, MmemStep, InvKeepsBlocks, PTL DEF MmemSpec
=============================================================================
