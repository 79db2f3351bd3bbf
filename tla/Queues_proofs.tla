--------------------------- MODULE Queues_proofs ---------------------------
(***************************************************************************)
(* What the queue operations return.  The queues of the pipelines hold     *)
(* sequence numbers, nearly all of them in increasing order, and such a    *)
(* queue is determined by the set of its elements: these lemmas let the    *)
(* proofs about a pipeline speak of sets.                                  *)
(*                                                                         *)
(* The induction they need is over numbers.  The induction theorems of the *)
(* library take an operator; here the set of the numbers that satisfy it,  *)
(* or a least counterexample, stands in.                                   *)
(***************************************************************************)
EXTENDS Queues, FiniteSets, FiniteSetTheorems, FunctionTheorems,
        WellFoundedInduction, TLAPS

Increasing(q) == \A m, n \in 1 .. Len(q) : m < n => q[m] < q[n]
Before(S, T) == \A i \in S : \A j \in T : i < j

(* S has every element of T that is less than one of S. *)
DownClosed(S, T) == \A i \in S : \A j \in T : j < i => j \in S

LEMMA BeforeDisjoint ==
  ASSUME NEW S \in SUBSET Nat, NEW T \in SUBSET Nat, Before(S, T)
  PROVE  S \cap T = {}
<1> SUFFICES ASSUME NEW i \in S, i \in T PROVE FALSE
  OBVIOUS
<1>1. i < i /\ i \in Nat
  BY DEF Before
<1> QED BY <1>1

-----------------------------------------------------------------------------
(* Numbers. *)

LEMMA LeastNat ==
  ASSUME NEW S \in SUBSET Nat, S # {}
  PROVE  \E n \in S : \A m \in S : n <= m
<1> DEFINE R == {p \in Nat \X Nat : p[1] < p[2]}
<1>1. IsWellFoundedOn(OpToRel(<, Nat), Nat)
  BY NatLessThanWellFounded
<1>2. R = OpToRel(<, Nat)
  BY DEF OpToRel
<1>3. IsWellFoundedOn(R, Nat)
  BY <1>1, <1>2
<1> HIDE DEF R
<1>4. PICK x \in S : \A y \in S : ~ (<<y, x>> \in R)
  BY <1>3, WFMin
<1>5. \A y \in S : ~ (y < x)
  <2> TAKE y \in S
  <2> QED BY <1>4 DEF R
<1> QED BY <1>5

(* Induction along an interval, for the set of numbers that satisfy it. *)
LEMMA UpTo ==
  ASSUME NEW N \in Nat, NEW G, 0 \in G,
         \A n \in 1 .. N : n - 1 \in G => n \in G
  PROVE  \A n \in 0 .. N : n \in G
<1> SUFFICES ASSUME NEW k \in 0 .. N, k \notin G PROVE FALSE
  OBVIOUS
<1> DEFINE B == {n \in 0 .. N : n \notin G}
<1>1. PICK n \in B : \A m \in B : n <= m
  <2>1. B \in SUBSET Nat /\ B # {}
    OBVIOUS
  <2> HIDE DEF B
  <2> QED BY <2>1, LeastNat
<1>2. n \in 1 .. N /\ n - 1 \in 0 .. N
  BY <1>1
<1>3. n - 1 \in G
  BY <1>1, <1>2
<1> QED BY <1>1, <1>2, <1>3

LEMMA GreatestNat ==
  ASSUME NEW S \in SUBSET Nat, S # {}, NEW b \in Nat, \A n \in S : n <= b
  PROVE  \E n \in S : \A m \in S : m <= n
<1> DEFINE B == {n \in Nat : \A m \in S : m <= n}
<1>1. PICK n \in B : \A m \in B : n <= m
  <2>1. B \in SUBSET Nat /\ b \in B
    OBVIOUS
  <2> HIDE DEF B
  <2> QED BY <2>1, LeastNat
<1>2. CASE n \in S
  BY <1>1, <1>2
<1>3. CASE n \notin S
  <2>1. \A m \in S : m < n
    <3> TAKE m \in S
    <3> m <= n /\ m # n
      BY <1>1, <1>3
    <3> QED BY <1>1
  <2>a. n \in Nat /\ n # 0
    <3> PICK m \in S : TRUE
      OBVIOUS
    <3> QED BY <2>1, <1>1
  <2>2. n - 1 \in B
    BY <2>1, <2>a
  <2> QED BY <1>1, <2>2
<1> QED BY <1>2, <1>3

(* A function defined by recursion along an interval exists. *)
Recursive(f, N, V, a, Step) ==
  /\ f \in [0 .. N -> V]
  /\ f[0] = a
  /\ \A n \in 1 .. N : f[n] = Step[<<n, f[n - 1]>>]

LEMMA Recursion ==
  ASSUME NEW N \in Nat, NEW V, NEW a \in V, NEW Step \in [(1 .. N) \X V -> V]
  PROVE  \E f : Recursive(f, N, V, a, Step)
<1> DEFINE Ok(n, f) == f[0] = a /\ \A m \in 1 .. n : f[m] = Step[<<m, f[m - 1]>>]
           G == {n \in 0 .. N : \E f \in [0 .. N -> V] : Ok(n, f)}
<1>1. 0 \in G
  <2> DEFINE c == [n \in 0 .. N |-> a]
  <2>1. c \in [0 .. N -> V] /\ c[0] = a
    OBVIOUS
  <2>2. Ok(0, c)
    BY <2>1
  <2>3. \E f \in [0 .. N -> V] : Ok(0, f)
    BY <2>1, <2>2, Zenon
  <2> QED BY <2>3
<1>2. ASSUME NEW n \in 1 .. N, n - 1 \in G PROVE n \in G
  <2>1. PICK f \in [0 .. N -> V] : Ok(n - 1, f)
    BY <1>2
  <2> DEFINE g == [f EXCEPT ![n] = Step[<<n, f[n - 1]>>]]
  <2>a. n \in 0 .. N /\ n - 1 \in 0 .. N /\ n - 1 # n
    OBVIOUS
  <2>b. Step[<<n, f[n - 1]>>] \in V
    BY <2>a
  <2>2. g \in [0 .. N -> V]
    BY <2>b
  <2>3. g[n] = Step[<<n, f[n - 1]>>] /\ \A m \in 0 .. N : m # n => g[m] = f[m]
    BY <2>a
  <2> HIDE DEF g
  <2>4. Ok(n, g)
    <3>1. g[0] = a
      BY <2>1, <2>3
    <3>2. ASSUME NEW m \in 1 .. n PROVE g[m] = Step[<<m, g[m - 1]>>]
      <4>1. g[m - 1] = f[m - 1]
        BY <2>3
      <4>2. CASE m = n
        BY <4>1, <4>2, <2>3
      <4>3. CASE m # n
        <5>1. m \in 1 .. n - 1 /\ m \in 0 .. N
          BY <4>3
        <5> QED BY <5>1, <4>1, <4>3, <2>1, <2>3
      <4> QED BY <4>2, <4>3
    <3> QED BY <3>1, <3>2
  <2> QED BY <2>2, <2>4, <2>a
<1>3. N \in G
  <2> HIDE DEF G
  <2> QED BY <1>1, <1>2, UpTo
<1> QED BY <1>3 DEF Recursive

-----------------------------------------------------------------------------
(* Queues. *)

LEMMA ElementsIn ==
  ASSUME NEW D, NEW q \in Seq(D)
  PROVE  /\ Elements(q) \subseteq D
         /\ Len(q) \in Nat
         /\ \A n \in 1 .. Len(q) : q[n] \in Elements(q)
         /\ q = << >> <=> Elements(q) = {}
         /\ q = << >> <=> Len(q) = 0
<1>1. Len(q) \in Nat /\ \A n \in 1 .. Len(q) : q[n] \in D
  OBVIOUS
<1>2. q = << >> <=> Len(q) = 0
  OBVIOUS
<1>3. Elements(q) \subseteq D
  BY <1>1 DEF Elements
<1>4. \A n \in 1 .. Len(q) : q[n] \in Elements(q)
  BY DEF Elements
<1>5. ASSUME Elements(q) = {} PROVE Len(q) = 0
  <2> SUFFICES ASSUME Len(q) # 0 PROVE FALSE
    OBVIOUS
  <2>1. 1 \in 1 .. Len(q)
    BY <1>1
  <2> QED BY <2>1, <1>4, <1>5
<1>6. ASSUME Len(q) = 0 PROVE Elements(q) = {}
  BY <1>6 DEF Elements
<1> QED BY <1>1, <1>2, <1>3, <1>4, <1>5, <1>6

LEMMA EmptyQueue ==
  ASSUME NEW D
  PROVE  /\ << >> \in Seq(D) /\ Len(<< >>) = 0
         /\ Elements(<< >>) = {} /\ Increasing(<< >>) /\ Distinct(<< >>)
BY DEF Elements, Increasing, Distinct

LEMMA IncreasingDistinct ==
  ASSUME NEW D \in SUBSET Nat, NEW q \in Seq(D), Increasing(q)
  PROVE  Distinct(q)
<1> SUFFICES ASSUME NEW m \in 1 .. Len(q), NEW n \in 1 .. Len(q), q[m] = q[n], m # n
             PROVE  FALSE
  BY DEF Distinct
<1>1. q[m] \in Nat /\ q[n] \in Nat
  BY ElementsIn
<1>2. m < n \/ n < m
  OBVIOUS
<1> QED BY <1>1, <1>2 DEF Increasing

LEMMA TakeDrop ==
  ASSUME NEW D, NEW q \in Seq(D), NEW k \in 0 .. Len(q)
  PROVE  /\ Take(q, k) \in Seq(D) /\ Len(Take(q, k)) = k
         /\ \A n \in 1 .. k : Take(q, k)[n] = q[n]
         /\ Drop(q, k) \in Seq(D) /\ Len(Drop(q, k)) = Len(q) - k
         /\ \A n \in 1 .. Len(q) - k : Drop(q, k)[n] = q[k + n]
BY DEF Take, Drop

LEMMA TakeDropElements ==
  ASSUME NEW D, NEW q \in Seq(D), NEW k \in 0 .. Len(q)
  PROVE  /\ Elements(Take(q, k)) = {q[n] : n \in 1 .. k}
         /\ Elements(Drop(q, k)) = {q[n] : n \in k + 1 .. Len(q)}
         /\ Elements(q) = Elements(Take(q, k)) \cup Elements(Drop(q, k))
<1>1. Elements(Take(q, k)) = {q[n] : n \in 1 .. k}
  <2>1. Elements(Take(q, k)) = {Take(q, k)[n] : n \in 1 .. k}
    BY TakeDrop, Zenon DEF Elements
  <2> QED BY <2>1, TakeDrop, ZenonT(60)
<1>2. ASSUME NEW n \in k + 1 .. Len(q) PROVE q[n] \in Elements(Drop(q, k))
  <2>1. n - k \in 1 .. Len(q) - k /\ q[n] = Drop(q, k)[n - k]
    BY TakeDrop
  <2> QED BY <2>1, TakeDrop DEF Elements
<1>3. ASSUME NEW i \in Elements(Drop(q, k)) PROVE i \in {q[n] : n \in k + 1 .. Len(q)}
  <2>1. PICK n \in 1 .. Len(q) - k : i = Drop(q, k)[n]
    BY TakeDrop, ZenonT(60) DEF Elements
  <2>2. k + n \in k + 1 .. Len(q)
    OBVIOUS
  <2>3. i = q[k + n]
    BY <2>1, TakeDrop, Zenon
  <2> QED BY <2>2, <2>3
<1>4. Elements(Drop(q, k)) = {q[n] : n \in k + 1 .. Len(q)}
  BY <1>2, <1>3
<1>5. Elements(q) = {q[n] : n \in 1 .. k} \cup {q[n] : n \in k + 1 .. Len(q)}
  BY DEF Elements
<1> QED BY <1>1, <1>4, <1>5

LEMMA DistinctTakeDrop ==
  ASSUME NEW D, NEW q \in Seq(D), Distinct(q), NEW k \in 0 .. Len(q)
  PROVE  /\ Distinct(Take(q, k)) /\ Distinct(Drop(q, k))
         /\ Elements(Drop(q, k)) = Elements(q) \ Elements(Take(q, k))
<1>t. DEFINE t == Take(q, k)
            d == Drop(q, k)
<1>0. /\ Len(t) = k /\ \A n \in 1 .. k : t[n] = q[n]
      /\ Len(d) = Len(q) - k /\ \A n \in 1 .. Len(q) - k : d[n] = q[k + n]
  BY TakeDrop
<1> HIDE DEF t, d
<1>1. Distinct(t)
  BY <1>0 DEF Distinct
<1>2. Distinct(d)
  <2> SUFFICES ASSUME NEW m \in 1 .. Len(q) - k, NEW n \in 1 .. Len(q) - k,
                      d[m] = d[n]
               PROVE  m = n
    BY <1>0 DEF Distinct
  <2>1. k + m \in 1 .. Len(q) /\ k + n \in 1 .. Len(q)
    OBVIOUS
  <2>2. k + m = k + n
    BY <2>1, <1>0 DEF Distinct
  <2> QED BY <2>2
<1>3. ASSUME NEW m \in 1 .. k, NEW n \in k + 1 .. Len(q) PROVE q[m] # q[n]
  BY DEF Distinct
<1>4. Elements(Drop(q, k)) = Elements(q) \ Elements(Take(q, k))
  <2>1. {q[n] : n \in 1 .. k} \cap {q[n] : n \in k + 1 .. Len(q)} = {}
    BY <1>3
  <2> QED BY <2>1, TakeDropElements, SMTT(30)
<1> QED BY <1>1, <1>2, <1>4 DEF t, d

LEMMA IncreasingTakeDrop ==
  ASSUME NEW D \in SUBSET Nat, NEW q \in Seq(D), Increasing(q), NEW k \in 0 .. Len(q)
  PROVE  /\ Increasing(Take(q, k)) /\ Increasing(Drop(q, k))
         /\ Before(Elements(Take(q, k)), Elements(Drop(q, k)))
         /\ Elements(Drop(q, k)) = Elements(q) \ Elements(Take(q, k))
         /\ DownClosed(Elements(Take(q, k)), Elements(q))
<1>t. DEFINE t == Take(q, k)
            d == Drop(q, k)
<1>0. /\ Len(t) = k /\ \A n \in 1 .. k : t[n] = q[n]
      /\ Len(d) = Len(q) - k /\ \A n \in 1 .. Len(q) - k : d[n] = q[k + n]
  BY TakeDrop
<1> HIDE DEF t, d
<1>1. Increasing(t)
  BY <1>0 DEF Increasing
<1>2. Increasing(d)
  <2> SUFFICES ASSUME NEW m \in 1 .. Len(q) - k, NEW n \in 1 .. Len(q) - k, m < n
               PROVE  d[m] < d[n]
    BY <1>0 DEF Increasing
  <2>1. k + m \in 1 .. Len(q) /\ k + n \in 1 .. Len(q) /\ k + m < k + n
    OBVIOUS
  <2> QED BY <2>1, <1>0 DEF Increasing
<1>3. ASSUME NEW m \in 1 .. k, NEW n \in k + 1 .. Len(q) PROVE q[m] < q[n]
  BY DEF Increasing
<1>4. Before(Elements(Take(q, k)), Elements(Drop(q, k)))
  BY <1>3, TakeDropElements DEF Before
<1>5. \A i \in Elements(q) : i \in Nat
  BY ElementsIn
<1> QED
  BY <1>1, <1>2, <1>4, <1>5, TakeDropElements, DistinctTakeDrop, IncreasingDistinct
     DEF Before, DownClosed, t, d

LEMMA Concat ==
  ASSUME NEW D, NEW q \in Seq(D), NEW r \in Seq(D)
  PROVE  /\ q \o r \in Seq(D)
         /\ Len(q \o r) = Len(q) + Len(r)
         /\ Elements(q \o r) = Elements(q) \cup Elements(r)
         /\ Increasing(q) /\ Increasing(r) /\ Before(Elements(q), Elements(r))
              => Increasing(q \o r)
         /\ Distinct(q) /\ Distinct(r) /\ Elements(q) \cap Elements(r) = {}
              => Distinct(q \o r)
<1> DEFINE s == q \o r
<1>1. s \in Seq(D) /\ Len(s) = Len(q) + Len(r)
  OBVIOUS
<1>2. \A n \in 1 .. Len(s) : s[n] = IF n <= Len(q) THEN q[n] ELSE r[n - Len(q)]
  OBVIOUS
<1>3. \A n \in 1 .. Len(q) : n \in 1 .. Len(s) /\ s[n] = q[n]
  BY <1>1, <1>2
<1>4. \A n \in 1 .. Len(r) : n + Len(q) \in 1 .. Len(s) /\ s[n + Len(q)] = r[n]
  BY <1>1, <1>2
<1>5. \A n \in 1 .. Len(s) : n \in 1 .. Len(q) \/ n - Len(q) \in 1 .. Len(r)
  BY <1>1
<1> HIDE DEF s
<1>6. Elements(s) = Elements(q) \cup Elements(r)
  <2>1. Elements(s) \subseteq Elements(q) \cup Elements(r)
    BY <1>2, <1>5 DEF Elements
  <2>2. Elements(q) \subseteq Elements(s)
    BY <1>3 DEF Elements
  <2>3. Elements(r) \subseteq Elements(s)
    <3> SUFFICES ASSUME NEW n \in 1 .. Len(r) PROVE r[n] \in Elements(s)
      BY DEF Elements
    <3>1. n + Len(q) \in 1 .. Len(s) /\ s[n + Len(q)] = r[n]
      BY <1>4
    <3> QED BY <3>1 DEF Elements
  <2> QED BY <2>1, <2>2, <2>3
<1>7. ASSUME Increasing(q), Increasing(r), Before(Elements(q), Elements(r))
      PROVE  Increasing(s)
  <2> SUFFICES ASSUME NEW m \in 1 .. Len(s), NEW n \in 1 .. Len(s), m < n
               PROVE  s[m] < s[n]
    BY DEF Increasing
  <2>1. CASE n <= Len(q)
    BY <2>1, <1>2, <1>7 DEF Increasing
  <2>2. CASE m <= Len(q) /\ n > Len(q)
    <3>1. s[m] = q[m] /\ m \in 1 .. Len(q)
      BY <2>2, <1>2
    <3>2. s[n] = r[n - Len(q)] /\ n - Len(q) \in 1 .. Len(r)
      BY <2>2, <1>2, <1>1
    <3>3. s[m] \in Elements(q) /\ s[n] \in Elements(r)
      BY <3>1, <3>2 DEF Elements
    <3> QED BY <3>3, <1>7 DEF Before
  <2>3. CASE m > Len(q)
    <3>1. s[m] = r[m - Len(q)] /\ m - Len(q) \in 1 .. Len(r)
      BY <2>3, <1>2, <1>1
    <3>2. s[n] = r[n - Len(q)] /\ n - Len(q) \in 1 .. Len(r)
      BY <2>3, <1>2, <1>1
    <3>3. m - Len(q) < n - Len(q)
      OBVIOUS
    <3> QED BY <3>1, <3>2, <3>3, <1>7 DEF Increasing
  <2> QED BY <2>1, <2>2, <2>3
<1>8. ASSUME Distinct(q), Distinct(r), Elements(q) \cap Elements(r) = {}
      PROVE  Distinct(s)
  <2> SUFFICES ASSUME NEW m \in 1 .. Len(s), NEW n \in 1 .. Len(s), m < n
               PROVE  s[m] # s[n]
    BY DEF Distinct
  <2>1. CASE n <= Len(q)
    BY <2>1, <1>2, <1>8 DEF Distinct
  <2>2. CASE m <= Len(q) /\ n > Len(q)
    <3>1. s[m] = q[m] /\ m \in 1 .. Len(q)
      BY <2>2, <1>2
    <3>2. s[n] = r[n - Len(q)] /\ n - Len(q) \in 1 .. Len(r)
      BY <2>2, <1>2, <1>1
    <3>3. s[m] \in Elements(q) /\ s[n] \in Elements(r)
      BY <3>1, <3>2 DEF Elements
    <3> QED BY <3>3, <1>8
  <2>3. CASE m > Len(q)
    <3>1. s[m] = r[m - Len(q)] /\ m - Len(q) \in 1 .. Len(r)
      BY <2>3, <1>2, <1>1
    <3>2. s[n] = r[n - Len(q)] /\ n - Len(q) \in 1 .. Len(r)
      BY <2>3, <1>2, <1>1
    <3>3. m - Len(q) # n - Len(q)
      OBVIOUS
    <3> QED BY <3>1, <3>2, <3>3, <1>8 DEF Distinct
  <2> QED BY <2>1, <2>2, <2>3
<1> QED BY <1>1, <1>6, <1>7, <1>8 DEF s

-----------------------------------------------------------------------------
(* A queue in increasing order is determined by its elements. *)

IsPrefixOf(p, q) == Len(p) <= Len(q) /\ \A n \in 1 .. Len(p) : p[n] = q[n]

(* A queue whose elements are the least ones of another is a prefix of it. *)
LEMMA LeastElementsPrefix ==
  ASSUME NEW D \in SUBSET Nat, NEW p \in Seq(D), NEW q \in Seq(D),
         Increasing(p), Increasing(q),
         Elements(p) \subseteq Elements(q), DownClosed(Elements(p), Elements(q))
  PROVE  IsPrefixOf(p, q)
<1>0. /\ Len(p) \in Nat /\ \A n \in 1 .. Len(p) : p[n] \in Nat /\ p[n] \in Elements(p)
      /\ Len(q) \in Nat /\ \A n \in 1 .. Len(q) : q[n] \in Nat /\ q[n] \in Elements(q)
  BY ElementsIn
<1> DEFINE B == {n \in 1 .. Len(p) : n > Len(q) \/ p[n] # q[n]}
<1>1. SUFFICES ASSUME B # {} PROVE FALSE
  <2>1. CASE B = {}
    <3>1. \A n \in 1 .. Len(p) : n <= Len(q) /\ p[n] = q[n]
      BY <2>1, <1>0
    <3>2. Len(p) <= Len(q)
      <4>1. CASE Len(p) = 0
        BY <4>1, <1>0
      <4>2. CASE Len(p) # 0
        BY <4>2, <3>1, <1>0
      <4> QED BY <4>1, <4>2
    <3> QED BY <3>1, <3>2 DEF IsPrefixOf
  <2> QED BY <2>1, <1>1
<1>2. PICK n \in B : \A m \in B : n <= m
  <2>1. B \in SUBSET Nat
    OBVIOUS
  <2> HIDE DEF B
  <2> QED BY <2>1, <1>1, LeastNat
<1>3. n \in 1 .. Len(p) /\ \A m \in 1 .. n - 1 : m <= Len(q) /\ p[m] = q[m]
  <2>1. n \in 1 .. Len(p)
    OBVIOUS
  <2> SUFFICES ASSUME NEW m \in 1 .. n - 1 PROVE m <= Len(q) /\ p[m] = q[m]
    BY <2>1
  <2>2. m \in 1 .. Len(p) /\ m \notin B
    BY <2>1, <1>2
  <2> QED BY <2>2, <1>0
<1>4. PICK m \in 1 .. Len(q) : p[n] = q[m]
  BY <1>3, <1>0 DEF Elements
<1>5. CASE m < n
  <2>1. m \in 1 .. Len(p) /\ p[m] < p[n]
    BY <1>5, <1>3 DEF Increasing
  <2>2. p[m] = q[m]
    BY <1>3, <1>5
  <2> QED BY <2>1, <2>2, <1>4, <1>0
<1>6. CASE m > n
  <2>1. n \in 1 .. Len(q) /\ q[n] < q[m]
    BY <1>3, <1>6 DEF Increasing
  <2>2. q[n] \in Elements(p)
    BY <2>1, <1>4, <1>3, <1>0 DEF DownClosed
  <2>3. PICK l \in 1 .. Len(p) : q[n] = p[l]
    BY <2>2 DEF Elements
  <2>4. l < n
    <3> SUFFICES ASSUME n <= l PROVE FALSE
      BY <1>3
    <3>1. p[n] <= p[l]
      <4>1. CASE n = l
        BY <4>1, <1>0
      <4>2. CASE n < l
        BY <4>2, <1>3, <1>0 DEF Increasing
      <4> QED BY <4>1, <4>2, <1>3
    <3> QED BY <3>1, <2>1, <2>3, <1>4, <1>0
  <2>5. l \in 1 .. Len(q) /\ q[l] = q[n]
    BY <2>3, <2>4, <1>3
  <2>6. q[l] < q[n]
    BY <2>4, <2>5, <2>1 DEF Increasing
  <2> QED BY <2>5, <2>6, <2>1, <1>0
<1>7. CASE m = n
  BY <1>7, <1>4, <1>3, <1>0
<1> QED BY <1>5, <1>6, <1>7, <1>3

LEMMA SameElements ==
  ASSUME NEW D \in SUBSET Nat, NEW p \in Seq(D), NEW q \in Seq(D),
         Increasing(p), Increasing(q), Elements(p) = Elements(q)
  PROVE  p = q
<1>1. DownClosed(Elements(p), Elements(q)) /\ DownClosed(Elements(q), Elements(p))
  BY DEF DownClosed
<1>2. IsPrefixOf(p, q) /\ IsPrefixOf(q, p)
  BY <1>1, LeastElementsPrefix
<1>3. Len(p) = Len(q) /\ Len(p) \in Nat
  BY <1>2, ElementsIn DEF IsPrefixOf
<1> QED BY <1>2, <1>3 DEF IsPrefixOf

(* The prefix of a queue, as the operators of the specifications say it. *)
LEMMA PrefixTake ==
  ASSUME NEW D, NEW p \in Seq(D), NEW q \in Seq(D), IsPrefixOf(p, q)
  PROVE  /\ Len(p) \in 0 .. Len(q)
         /\ p = Take(q, Len(p))
         /\ SubSeq(p, 1, Len(p)) = SubSeq(q, 1, Len(p))
         /\ \A k \in 0 .. Len(p) : Take(p, k) = Take(q, k)
<1>1. Len(p) \in 0 .. Len(q)
  BY DEF IsPrefixOf
<1>2. ASSUME NEW k \in 0 .. Len(p) PROVE Take(p, k) = Take(q, k)
  <2> DEFINE a == Take(p, k)
             b == Take(q, k)
  <2>0. k \in 0 .. Len(q)
    BY <1>1
  <2>1. /\ a \in Seq(D) /\ Len(a) = k /\ \A n \in 1 .. k : a[n] = p[n]
        /\ b \in Seq(D) /\ Len(b) = k /\ \A n \in 1 .. k : b[n] = q[n]
    BY <2>0, TakeDrop
  <2> HIDE DEF a, b
  <2>2. \A n \in 1 .. k : a[n] = b[n]
    BY <2>1 DEF IsPrefixOf
  <2>3. a = b
    BY <2>1, <2>2
  <2> QED BY <2>3 DEF a, b
<1>3. p = Take(p, Len(p))
  BY DEF Take
<1>4. Take(p, Len(p)) = Take(q, Len(p))
  BY <1>1, <1>2
<1> QED BY <1>1, <1>2, <1>3, <1>4 DEF Take

-----------------------------------------------------------------------------
(* How many elements a queue has. *)

LEMMA CountElements ==
  ASSUME NEW D, NEW q \in Seq(D), Distinct(q)
  PROVE  IsFiniteSet(Elements(q)) /\ Cardinality(Elements(q)) = Len(q)
<1>0. Len(q) \in Nat
  OBVIOUS
<1> DEFINE f == [n \in 1 .. Len(q) |-> q[n]]
<1>1. f \in Bijection(1 .. Len(q), Elements(q))
  <2>1. f \in Injection(1 .. Len(q), Elements(q))
    BY ElementsIn DEF Injection, IsInjective, Distinct
  <2>2. f \in Surjection(1 .. Len(q), Elements(q))
    BY DEF Surjection, Elements
  <2> QED BY <2>1, <2>2 DEF Bijection
<1>2. ExistsBijection(1 .. Len(q), Elements(q))
  BY <1>1 DEF ExistsBijection
<1>3. IsFiniteSet(1 .. Len(q)) /\ Cardinality(1 .. Len(q)) = Len(q)
  BY <1>0, FS_Interval, SMTT(30)
<1> QED BY <1>2, <1>3, FS_Bijection

-----------------------------------------------------------------------------
(* The search. *)

Filtering(found, q, S, D) ==
  /\ found \in [0 .. Len(q) -> Seq(D)]
  /\ found[0] = << >>
  /\ \A n \in 1 .. Len(q) :
       found[n] = IF q[n] \in S THEN Append(found[n - 1], q[n]) ELSE found[n - 1]
  /\ Filter(q, S) = found[Len(q)]

LEMMA FilterSteps ==
  ASSUME NEW D, NEW q \in Seq(D), NEW S
  PROVE  \E found : Filtering(found, q, S, D)
<1> DEFINE N == Len(q)
           Step == [p \in (1 .. N) \X Seq(D) |->
                      IF q[p[1]] \in S THEN Append(p[2], q[p[1]]) ELSE p[2]]
           Next(f) == [n \in 0 .. N |->
                         IF n = 0 THEN << >>
                         ELSE IF q[n] \in S THEN Append(f[n - 1], q[n])
                         ELSE f[n - 1]]
           found == CHOOSE f : f = Next(f)
<1>0. N \in Nat /\ \A n \in 1 .. N : q[n] \in D /\ n - 1 \in 0 .. N /\ n # 0 /\ n \in 0 .. N
  OBVIOUS
<1>1. Filter(q, S) = found[N]
  BY DEF Filter
<1>2. << >> \in Seq(D) /\ Step \in [(1 .. N) \X Seq(D) -> Seq(D)]
  BY <1>0
<1> HIDE DEF N
<1>r. PICK f : Recursive(f, N, Seq(D), << >>, Step)
  <2> HIDE DEF Step
  <2> QED BY <1>0, <1>2, Recursion
<1>3. /\ f \in [0 .. N -> Seq(D)]
      /\ f[0] = << >> /\ \A n \in 1 .. N : f[n] = Step[<<n, f[n - 1]>>]
  BY <1>r DEF Recursive
<1>4. ASSUME NEW n \in 1 .. N
      PROVE  f[n] = IF q[n] \in S THEN Append(f[n - 1], q[n]) ELSE f[n - 1]
  <2>1. f[n - 1] \in Seq(D)
    BY <1>0, <1>3
  <2>2. Step[<<n, f[n - 1]>>] =
          IF q[n] \in S THEN Append(f[n - 1], q[n]) ELSE f[n - 1]
    BY <2>1
  <2> QED BY <2>2, <1>3
<1> HIDE DEF Step
<1>5. f = Next(f)
  <2>1. \A n \in 0 .. N : f[n] = Next(f)[n]
    <3> TAKE n \in 0 .. N
    <3>1. CASE n = 0
      BY <3>1, <1>3
    <3>2. CASE n # 0
      <4>1. n \in 1 .. N
        BY <3>2, <1>0
      <4> QED BY <4>1, <3>2, <1>4
    <3> QED BY <3>1, <3>2
  <2>2. f \in [0 .. N -> Seq(D)] /\ DOMAIN Next(f) = 0 .. N
    BY <1>3
  <2>3. Next(f) = [n \in 0 .. N |-> Next(f)[n]] /\ f = [n \in 0 .. N |-> f[n]]
    BY <2>2, Zenon
  <2> HIDE DEF Next
  <2> QED BY <2>1, <2>3, Zenon
<1>6. found = Next(found)
  <2> HIDE DEF Next
  <2> QED BY <1>5, Zenon
<1> HIDE DEF found
<1>7. /\ found = [n \in 0 .. N |-> found[n]]
      /\ found[0] = << >>
      /\ \A n \in 1 .. N : found[n] = IF q[n] \in S THEN Append(found[n - 1], q[n])
                                       ELSE found[n - 1]
  <2>1. \A n \in 0 .. N : found[n] = IF n = 0 THEN << >>
                         ELSE IF q[n] \in S THEN Append(found[n - 1], q[n])
                         ELSE found[n - 1]
    BY <1>6
  <2>2. found = [n \in 0 .. N |-> found[n]]
    BY <1>6
  <2>3. found[0] = << >>
    BY <2>1, <1>0
  <2>4. \A n \in 1 .. N : found[n] = IF q[n] \in S THEN Append(found[n - 1], q[n])
                                     ELSE found[n - 1]
    BY <2>1, <1>0
  <2> QED BY <2>2, <2>3, <2>4
<1>8. \A n \in 0 .. N : found[n] = f[n]
  <2> DEFINE G == {n \in 0 .. N : found[n] = f[n]}
  <2>1. 0 \in G
    BY <1>0, <1>3, <1>7
  <2>2. ASSUME NEW n \in 1 .. N, n - 1 \in G PROVE n \in G
    BY <2>2, <1>0, <1>4, <1>7
  <2>3. \A n \in 0 .. N : n \in G
    <3> HIDE DEF G
    <3> QED BY <1>0, <2>1, <2>2, UpTo
  <2> QED BY <2>3
<1>9. found = f
  <2>1. f = [n \in 0 .. N |-> f[n]]
    BY <1>3
  <2> QED BY <1>7, <1>8, <2>1
<1> QED BY <1>1, <1>3, <1>4, <1>9 DEF N, Filtering

LEMMA AppendElements ==
  ASSUME NEW D, NEW q \in Seq(D), NEW x \in D
  PROVE  /\ Append(q, x) \in Seq(D) /\ Len(Append(q, x)) = Len(q) + 1
         /\ Elements(Append(q, x)) = Elements(q) \cup {x}
         /\ Increasing(q) /\ (\A i \in Elements(q) : i < x) => Increasing(Append(q, x))
         /\ Distinct(q) /\ x \notin Elements(q) => Distinct(Append(q, x))
<1> DEFINE r == <<x>>
<1>1. r \in Seq(D) /\ Len(r) = 1 /\ r[1] = x
  OBVIOUS
<1>2. Append(q, x) = q \o r
  OBVIOUS
<1> HIDE DEF r
<1>3. Elements(r) = {x} /\ Increasing(r) /\ Distinct(r)
  BY <1>1 DEF Elements, Increasing, Distinct
<1>4. (\A i \in Elements(q) : i < x) => Before(Elements(q), Elements(r))
  BY <1>3 DEF Before
<1>5. x \notin Elements(q) => Elements(q) \cap Elements(r) = {}
  BY <1>3
<1>6. /\ q \o r \in Seq(D) /\ Len(q \o r) = Len(q) + Len(r)
      /\ Elements(q \o r) = Elements(q) \cup Elements(r)
      /\ Increasing(q) /\ Increasing(r) /\ Before(Elements(q), Elements(r))
           => Increasing(q \o r)
      /\ Distinct(q) /\ Distinct(r) /\ Elements(q) \cap Elements(r) = {}
           => Distinct(q \o r)
  BY <1>1, Concat, ZenonT(60)
<1> QED BY <1>1, <1>2, <1>3, <1>4, <1>5, <1>6

LEMMA FilterElements ==
  ASSUME NEW D, NEW q \in Seq(D), NEW S
  PROVE  /\ Filter(q, S) \in Seq(D)
         /\ Elements(Filter(q, S)) = Elements(q) \cap S
         /\ Len(Filter(q, S)) <= Len(q)
<1>f. PICK found : Filtering(found, q, S, D)
  BY FilterSteps
<1>1. /\ found \in [0 .. Len(q) -> Seq(D)]
      /\ found[0] = << >>
      /\ \A n \in 1 .. Len(q) :
           found[n] = IF q[n] \in S THEN Append(found[n - 1], q[n]) ELSE found[n - 1]
      /\ Filter(q, S) = found[Len(q)]
  BY <1>f DEF Filtering
<1>0. Len(q) \in Nat /\ \A n \in 1 .. Len(q) : q[n] \in D /\ n - 1 \in 0 .. Len(q)
  OBVIOUS
<1> DEFINE Seen(n) == {q[m] : m \in 1 .. n}
           G == {n \in 0 .. Len(q) : /\ Elements(found[n]) = Seen(n) \cap S
                                     /\ Len(found[n]) <= n}
<1>2. 0 \in G
  <2>1. Seen(0) = {}
    OBVIOUS
  <2> QED BY <1>0, <1>1, <2>1, EmptyQueue
<1>3. ASSUME NEW n \in 1 .. Len(q), n - 1 \in G PROVE n \in G
  <2>1. Seen(n) = Seen(n - 1) \cup {q[n]}
    OBVIOUS
  <2>a. n - 1 \in 0 .. Len(q) /\ found[n - 1] \in Seq(D)
    BY <1>0, <1>1
  <2>2. /\ found[n - 1] \in Seq(D)
        /\ Elements(found[n - 1]) = Seen(n - 1) \cap S /\ Len(found[n - 1]) <= n - 1
    BY <1>3, <2>a
  <2>3. CASE q[n] \in S
    <3>1. found[n] = Append(found[n - 1], q[n])
      BY <2>3, <1>1
    <3>2. /\ Elements(found[n]) = Elements(found[n - 1]) \cup {q[n]}
          /\ Len(found[n]) = Len(found[n - 1]) + 1
      BY <2>2, <3>1, <1>0, AppendElements
    <3>3. Len(found[n - 1]) \in Nat
      BY <2>2
    <3> HIDE DEF Seen
    <3> QED BY <3>2, <3>3, <2>1, <2>2, <2>3
  <2>4. CASE q[n] \notin S
    <3> HIDE DEF Seen
    <3> QED BY <2>1, <2>2, <2>4, <1>1
  <2> QED BY <2>3, <2>4
<1>4. Len(q) \in G
  <2> HIDE DEF G
  <2>1. \A n \in 0 .. Len(q) : n \in G
    BY <1>0, <1>2, <1>3, UpTo
  <2> QED BY <2>1, <1>0
<1>5. Seen(Len(q)) = Elements(q)
  BY DEF Elements
<1> QED BY <1>0, <1>1, <1>4, <1>5

LEMMA FilterIncreasing ==
  ASSUME NEW D \in SUBSET Nat, NEW q \in Seq(D), Increasing(q), NEW S
  PROVE  Increasing(Filter(q, S))
<1>f. PICK found : Filtering(found, q, S, D)
  BY FilterSteps
<1>1. /\ found \in [0 .. Len(q) -> Seq(D)]
      /\ found[0] = << >>
      /\ \A n \in 1 .. Len(q) :
           found[n] = IF q[n] \in S THEN Append(found[n - 1], q[n]) ELSE found[n - 1]
      /\ Filter(q, S) = found[Len(q)]
  BY <1>f DEF Filtering
<1>0. Len(q) \in Nat /\ \A n \in 1 .. Len(q) : q[n] \in D /\ q[n] \in Nat /\ n - 1 \in 0 .. Len(q)
  <2>1. Len(q) \in Nat /\ \A n \in 1 .. Len(q) : q[n] \in D
    OBVIOUS
  <2>2. \A n \in 1 .. Len(q) : q[n] \in Nat
    BY <2>1
  <2>3. \A n \in 1 .. Len(q) : n - 1 \in 0 .. Len(q)
    BY <2>1
  <2> QED BY <2>1, <2>2, <2>3
<1> DEFINE Seen(n) == {q[m] : m \in 1 .. n}
           G == {n \in 0 .. Len(q) : Increasing(found[n]) /\ Elements(found[n]) \subseteq Seen(n)}
<1>2. 0 \in G
  BY <1>0, <1>1, EmptyQueue
<1>3. ASSUME NEW n \in 1 .. Len(q), n - 1 \in G PROVE n \in G
  <2>1. Seen(n) = Seen(n - 1) \cup {q[n]}
    OBVIOUS
  <2>a. n - 1 \in 0 .. Len(q) /\ found[n - 1] \in Seq(D)
    BY <1>0, <1>1
  <2>2. /\ found[n - 1] \in Seq(D)
        /\ Increasing(found[n - 1]) /\ Elements(found[n - 1]) \subseteq Seen(n - 1)
    BY <1>3, <2>a
  <2>3. CASE q[n] \in S
    <3>1. found[n] = Append(found[n - 1], q[n])
      BY <2>3, <1>1
    <3>3. \A i \in Seen(n - 1) : i < q[n]
      BY DEF Increasing
    <3>4. \A i \in Elements(found[n - 1]) : i < q[n]
      BY <3>3, <2>2
    <3>5. Increasing(found[n]) /\ Elements(found[n]) = Elements(found[n - 1]) \cup {q[n]}
      BY <2>2, <3>1, <3>4, <1>0, AppendElements
    <3> HIDE DEF Seen
    <3> QED BY <3>5, <2>1, <2>2
  <2>4. CASE q[n] \notin S
    <3> HIDE DEF Seen
    <3> QED BY <2>1, <2>2, <2>4, <1>1
  <2> QED BY <2>3, <2>4
<1>4. Len(q) \in G
  <2> HIDE DEF G
  <2>1. \A n \in 0 .. Len(q) : n \in G
    BY <1>0, <1>2, <1>3, UpTo
  <2> QED BY <2>1, <1>0
<1> QED BY <1>1, <1>4

(* A queue in program order stays in order under a search. *)
LEMMA FilterQueue ==
  ASSUME NEW D \in SUBSET Nat, NEW q \in Seq(D), Increasing(q), NEW S
  PROVE  /\ Filter(q, S) \in Seq(D) /\ Increasing(Filter(q, S))
         /\ Elements(Filter(q, S)) = Elements(q) \cap S
BY FilterElements, FilterIncreasing

LEMMA FilterDistinct ==
  ASSUME NEW D, NEW q \in Seq(D), Distinct(q), NEW S
  PROVE  Distinct(Filter(q, S))
<1>f. PICK found : Filtering(found, q, S, D)
  BY FilterSteps
<1>1. /\ found \in [0 .. Len(q) -> Seq(D)]
      /\ found[0] = << >>
      /\ \A n \in 1 .. Len(q) :
           found[n] = IF q[n] \in S THEN Append(found[n - 1], q[n]) ELSE found[n - 1]
      /\ Filter(q, S) = found[Len(q)]
  BY <1>f DEF Filtering
<1>0. Len(q) \in Nat /\ \A n \in 1 .. Len(q) : q[n] \in D /\ n - 1 \in 0 .. Len(q)
  OBVIOUS
<1> DEFINE Seen(n) == {q[m] : m \in 1 .. n}
           G == {n \in 0 .. Len(q) : Distinct(found[n]) /\ Elements(found[n]) \subseteq Seen(n)}
<1>2. 0 \in G
  BY <1>0, <1>1, EmptyQueue
<1>3. ASSUME NEW n \in 1 .. Len(q), n - 1 \in G PROVE n \in G
  <2>1. Seen(n) = Seen(n - 1) \cup {q[n]}
    OBVIOUS
  <2>a. n - 1 \in 0 .. Len(q) /\ found[n - 1] \in Seq(D)
    BY <1>0, <1>1
  <2>2. /\ found[n - 1] \in Seq(D)
        /\ Distinct(found[n - 1]) /\ Elements(found[n - 1]) \subseteq Seen(n - 1)
    BY <1>3, <2>a
  <2>3. CASE q[n] \in S
    <3>1. found[n] = Append(found[n - 1], q[n])
      BY <2>3, <1>1
    <3>2. q[n] \notin Seen(n - 1)
      BY DEF Distinct
    <3>3. q[n] \notin Elements(found[n - 1])
      BY <3>2, <2>2
    <3>4. Distinct(found[n]) /\ Elements(found[n]) = Elements(found[n - 1]) \cup {q[n]}
      BY <2>2, <3>1, <3>3, <1>0, AppendElements
    <3> HIDE DEF Seen
    <3> QED BY <3>4, <2>1, <2>2
  <2>4. CASE q[n] \notin S
    <3> HIDE DEF Seen
    <3> QED BY <2>1, <2>2, <2>4, <1>1
  <2> QED BY <2>3, <2>4
<1>4. Len(q) \in G
  <2> HIDE DEF G
  <2>1. \A n \in 0 .. Len(q) : n \in G
    BY <1>0, <1>2, <1>3, UpTo
  <2> QED BY <2>1, <1>0
<1> QED BY <1>1, <1>4

(* How many a search finds. *)
LEMMA FilterCount ==
  ASSUME NEW D \in SUBSET Nat, NEW q \in Seq(D), Increasing(q), NEW S
  PROVE  Len(Filter(q, S)) = Cardinality(Elements(q) \cap S)
<1>1. Filter(q, S) \in Seq(D) /\ Distinct(Filter(q, S))
  BY FilterElements, FilterIncreasing, IncreasingDistinct
<1> QED BY <1>1, CountElements, FilterElements

(* To take as many entries as S has, when S is the front of the queue. *)
LEMMA TakeCount ==
  ASSUME NEW D \in SUBSET Nat, NEW q \in Seq(D), Increasing(q),
         NEW S \in SUBSET Elements(q), DownClosed(S, Elements(q))
  PROVE  /\ Cardinality(S) \in 0 .. Len(q)
         /\ Elements(Take(q, Cardinality(S))) = S
         /\ Elements(Drop(q, Cardinality(S))) = Elements(q) \ S
<1> DEFINE p == Filter(q, S)
<1>1. p \in Seq(D) /\ Increasing(p) /\ Elements(p) = S
  <2>1. p \in Seq(D) /\ Elements(p) = Elements(q) \cap S
    BY FilterElements
  <2>2. Increasing(p)
    BY FilterIncreasing
  <2> QED BY <2>1, <2>2
<1>2. Len(p) = Cardinality(S)
  <2>1. Distinct(p)
    <3> HIDE DEF p
    <3> QED BY <1>1, IncreasingDistinct
  <2> HIDE DEF p
  <2> QED BY <1>1, <2>1, CountElements
<1> HIDE DEF p
<1>3. IsPrefixOf(p, q)
  BY <1>1, LeastElementsPrefix
<1>4. Len(p) \in 0 .. Len(q) /\ p = Take(q, Len(p))
  BY <1>1, <1>3, PrefixTake
<1> QED BY <1>1, <1>2, <1>4, IncreasingTakeDrop
-----------------------------------------------------------------------------
(* Queues behind one another. *)

Flattening(upTo, parts, D) ==
  /\ upTo \in [0 .. Len(parts) -> Seq(D)]
  /\ upTo[0] = << >>
  /\ \A n \in 1 .. Len(parts) : upTo[n] = upTo[n - 1] \o parts[n]
  /\ Flatten(parts) = upTo[Len(parts)]

LEMMA FlattenSteps ==
  ASSUME NEW D, NEW parts \in Seq(Seq(D))
  PROVE  \E upTo : Flattening(upTo, parts, D)
<1> DEFINE N == Len(parts)
           Step == [p \in (1 .. N) \X Seq(D) |-> p[2] \o parts[p[1]]]
           Next(f) == [n \in 0 .. N |->
                         IF n = 0 THEN << >> ELSE f[n - 1] \o parts[n]]
           upTo == CHOOSE f : f = Next(f)
<1>0. /\ N \in Nat
      /\ \A n \in 1 .. N : parts[n] \in Seq(D) /\ n - 1 \in 0 .. N /\ n # 0 /\ n \in 0 .. N
  OBVIOUS
<1>1. Flatten(parts) = upTo[N]
  BY DEF Flatten
<1>2. << >> \in Seq(D) /\ Step \in [(1 .. N) \X Seq(D) -> Seq(D)]
  BY <1>0
<1> HIDE DEF N
<1>r. PICK f : Recursive(f, N, Seq(D), << >>, Step)
  <2> HIDE DEF Step
  <2> QED BY <1>0, <1>2, Recursion
<1>3. /\ f \in [0 .. N -> Seq(D)]
      /\ f[0] = << >> /\ \A n \in 1 .. N : f[n] = Step[<<n, f[n - 1]>>]
  BY <1>r DEF Recursive
<1>4. ASSUME NEW n \in 1 .. N
      PROVE  f[n] = f[n - 1] \o parts[n]
  <2>1. f[n - 1] \in Seq(D)
    BY <1>0, <1>3
  <2>2. Step[<<n, f[n - 1]>>] = f[n - 1] \o parts[n]
    BY <2>1
  <2> QED BY <2>2, <1>3
<1> HIDE DEF Step
<1>5. f = Next(f)
  <2>1. \A n \in 0 .. N : f[n] = Next(f)[n]
    <3> TAKE n \in 0 .. N
    <3>1. CASE n = 0
      BY <3>1, <1>3
    <3>2. CASE n # 0
      <4>1. n \in 1 .. N
        BY <3>2, <1>0
      <4> QED BY <4>1, <3>2, <1>4
    <3> QED BY <3>1, <3>2
  <2>2. f \in [0 .. N -> Seq(D)] /\ DOMAIN Next(f) = 0 .. N
    BY <1>3
  <2>3. Next(f) = [n \in 0 .. N |-> Next(f)[n]] /\ f = [n \in 0 .. N |-> f[n]]
    BY <2>2, Zenon
  <2> HIDE DEF Next
  <2> QED BY <2>1, <2>3, Zenon
<1>6. upTo = Next(upTo)
  <2> HIDE DEF Next
  <2> QED BY <1>5, Zenon
<1> HIDE DEF upTo
<1>7. /\ upTo = [n \in 0 .. N |-> upTo[n]]
      /\ upTo[0] = << >>
      /\ \A n \in 1 .. N : upTo[n] = upTo[n - 1] \o parts[n]
  <2>1. \A n \in 0 .. N : upTo[n] = IF n = 0 THEN << >> ELSE upTo[n - 1] \o parts[n]
    BY <1>6
  <2>2. upTo = [n \in 0 .. N |-> upTo[n]]
    BY <1>6
  <2>3. upTo[0] = << >>
    BY <2>1, <1>0
  <2>4. \A n \in 1 .. N : upTo[n] = upTo[n - 1] \o parts[n]
    BY <2>1, <1>0
  <2> QED BY <2>2, <2>3, <2>4
<1>8. \A n \in 0 .. N : upTo[n] = f[n]
  <2> DEFINE G == {n \in 0 .. N : upTo[n] = f[n]}
  <2>1. 0 \in G
    BY <1>0, <1>3, <1>7
  <2>2. ASSUME NEW n \in 1 .. N, n - 1 \in G PROVE n \in G
    BY <2>2, <1>0, <1>4, <1>7
  <2>3. \A n \in 0 .. N : n \in G
    <3> HIDE DEF G
    <3> QED BY <1>0, <2>1, <2>2, UpTo
  <2> QED BY <2>3
<1>9. upTo = f
  <2>1. f = [n \in 0 .. N |-> f[n]]
    BY <1>3
  <2> QED BY <1>7, <1>8, <2>1
<1> QED BY <1>1, <1>3, <1>4, <1>9 DEF N, Flattening

LEMMA FlattenElements ==
  ASSUME NEW D, NEW parts \in Seq(Seq(D))
  PROVE  /\ Flatten(parts) \in Seq(D)
         /\ Elements(Flatten(parts)) = UNION {Elements(parts[n]) : n \in 1 .. Len(parts)}
<1>f. PICK upTo : Flattening(upTo, parts, D)
  BY FlattenSteps
<1>1. /\ upTo \in [0 .. Len(parts) -> Seq(D)]
      /\ upTo[0] = << >>
      /\ \A n \in 1 .. Len(parts) : upTo[n] = upTo[n - 1] \o parts[n]
      /\ Flatten(parts) = upTo[Len(parts)]
  BY <1>f DEF Flattening
<1>0. /\ Len(parts) \in Nat
      /\ \A n \in 1 .. Len(parts) : parts[n] \in Seq(D) /\ n - 1 \in 0 .. Len(parts)
  OBVIOUS
<1> DEFINE Seen(n) == UNION {Elements(parts[m]) : m \in 1 .. n}
           G == {n \in 0 .. Len(parts) : Elements(upTo[n]) = Seen(n)}
<1>2. 0 \in G
  <2>1. Seen(0) = {}
    OBVIOUS
  <2> QED BY <1>0, <1>1, <2>1, EmptyQueue
<1>3. ASSUME NEW n \in 1 .. Len(parts), n - 1 \in G PROVE n \in G
  <2>1. Seen(n) = Seen(n - 1) \cup Elements(parts[n])
    <3>1. \A m \in 1 .. n : m \in 1 .. n - 1 \/ m = n
      OBVIOUS
    <3>2. \A m \in 1 .. n - 1 : m \in 1 .. n
      OBVIOUS
    <3> QED BY <3>1, <3>2
  <2>2. upTo[n - 1] \in Seq(D) /\ parts[n] \in Seq(D)
    BY <1>0, <1>1
  <2>3. Elements(upTo[n - 1] \o parts[n]) = Elements(upTo[n - 1]) \cup Elements(parts[n])
    BY <2>2, Concat
  <2>4. Elements(upTo[n - 1]) = Seen(n - 1)
    BY <1>3
  <2>5. Elements(upTo[n]) = Seen(n)
    <3> HIDE DEF Seen
    <3> QED BY <2>1, <2>3, <2>4, <1>1
  <2> QED BY <2>5
<1>4. Len(parts) \in G
  <2> HIDE DEF G
  <2>1. \A n \in 0 .. Len(parts) : n \in G
    BY <1>0, <1>2, <1>3, UpTo
  <2> QED BY <2>1, <1>0
<1>5. Flatten(parts) \in Seq(D)
  BY <1>0, <1>1
<1> QED BY <1>0, <1>1, <1>4, <1>5

(* Queues without repetition and with no element in common have none       *)
(* behind one another.                                                     *)
LEMMA FlattenDistinct ==
  ASSUME NEW D, NEW parts \in Seq(Seq(D)),
         \A n \in 1 .. Len(parts) : Distinct(parts[n]),
         \A m, n \in 1 .. Len(parts) :
           m # n => Elements(parts[m]) \cap Elements(parts[n]) = {}
  PROVE  Distinct(Flatten(parts))
<1>f. PICK upTo : Flattening(upTo, parts, D)
  BY FlattenSteps
<1>1. /\ upTo \in [0 .. Len(parts) -> Seq(D)]
      /\ upTo[0] = << >>
      /\ \A n \in 1 .. Len(parts) : upTo[n] = upTo[n - 1] \o parts[n]
      /\ Flatten(parts) = upTo[Len(parts)]
  BY <1>f DEF Flattening
<1>0. /\ Len(parts) \in Nat
      /\ \A n \in 1 .. Len(parts) : parts[n] \in Seq(D) /\ n - 1 \in 0 .. Len(parts)
  OBVIOUS
<1> DEFINE Seen(n) == UNION {Elements(parts[m]) : m \in 1 .. n}
           G == {n \in 0 .. Len(parts) : Distinct(upTo[n]) /\ Elements(upTo[n]) \subseteq Seen(n)}
<1>2. 0 \in G
  BY <1>0, <1>1, EmptyQueue
<1>3. ASSUME NEW n \in 1 .. Len(parts), n - 1 \in G PROVE n \in G
  <2>1. Seen(n - 1) \cup Elements(parts[n]) \subseteq Seen(n)
    <3>2. \A m \in 1 .. n - 1 : m \in 1 .. n
      OBVIOUS
    <3> QED BY <3>2
  <2>2. upTo[n - 1] \in Seq(D) /\ parts[n] \in Seq(D)
    BY <1>0, <1>1
  <2>3. Distinct(upTo[n - 1]) /\ Elements(upTo[n - 1]) \subseteq Seen(n - 1)
    BY <1>3
  <2>4. Seen(n - 1) \cap Elements(parts[n]) = {}
    <3>1. \A m \in 1 .. n - 1 : m \in 1 .. Len(parts) /\ m # n
      OBVIOUS
    <3> QED BY <3>1
  <2> HIDE DEF Seen
  <2>5. Elements(upTo[n - 1]) \cap Elements(parts[n]) = {}
    BY <2>3, <2>4
  <2>6. Distinct(parts[n])
    OBVIOUS
  <2>7. /\ Distinct(upTo[n - 1] \o parts[n])
        /\ Elements(upTo[n - 1] \o parts[n]) = Elements(upTo[n - 1]) \cup Elements(parts[n])
    BY <2>2, <2>3, <2>5, <2>6, Concat
  <2>8. Distinct(upTo[n]) /\ Elements(upTo[n]) \subseteq Seen(n)
    BY <2>1, <2>3, <2>7, <1>1
  <2> QED BY <2>8
<1>4. Len(parts) \in G
  <2> HIDE DEF G
  <2>1. \A n \in 0 .. Len(parts) : n \in G
    BY <1>0, <1>2, <1>3, UpTo
  <2> QED BY <2>1, <1>0
<1> QED BY <1>1, <1>4

-----------------------------------------------------------------------------
(* The ascending enumeration of a set of numbers is a sequence that has    *)
(* each of its elements once.                                              *)
LEMMA AscendingEnumerates ==
    ASSUME NEW N \in Nat, NEW S \in SUBSET (1 .. N)
    PROVE  /\ Ascending(S) \in Seq(S)
           /\ Distinct(Ascending(S)) /\ Elements(Ascending(S)) = S
<1> DEFINE C == Cardinality(S)
           upTo(p) == {q \in S : q <= p}
           rank == [p \in S |-> Rank(S, p)]
<1>1. IsFiniteSet(S) /\ C \in Nat /\ \A p \in S : p \in Nat
  <2>1. IsFiniteSet(1 .. N)
    BY FS_Interval
  <2>2. IsFiniteSet(S)
    BY <2>1, FS_Subset
  <2> QED
    BY <2>2, FS_CardinalityType
<1>2. ASSUME NEW p \in S
      PROVE  /\ IsFiniteSet(upTo(p)) /\ Cardinality(upTo(p)) = Rank(S, p)
             /\ Rank(S, p) \in 1 .. C
  <2>1. upTo(p) \in SUBSET S /\ p \in upTo(p)
    BY <1>1
  <2>2. IsFiniteSet(upTo(p)) /\ Cardinality(upTo(p)) <= C
    BY <1>1, <2>1, FS_Subset
  <2>3. Cardinality(upTo(p)) \in Nat /\ Cardinality(upTo(p)) # 0
    BY <2>1, <2>2, FS_CardinalityType, FS_EmptySet
  <2>4. Cardinality(upTo(p)) = Rank(S, p)
    BY DEF Rank
  <2> QED
    BY <1>1, <2>2, <2>3, <2>4
<1>3. ASSUME NEW p \in S, NEW q \in S, p < q
      PROVE  Rank(S, p) # Rank(S, q)
  <2>0. p \in Nat /\ q \in Nat /\ \A r \in S : r \in Nat
    BY <1>1
  <2>a. \A r \in S : r <= p => r <= q
    BY <2>0, <1>3
  <2>b. q <= q /\ ~ (q <= p)
    BY <2>0, <1>3
  <2>1. upTo(p) \in SUBSET upTo(q) /\ q \in upTo(q) /\ q \notin upTo(p)
    BY <2>a, <2>b
  <2>2. Cardinality(upTo(p)) # Cardinality(upTo(q))
    BY <1>2, <2>1, FS_Subset
  <2> QED
    BY <1>2, <2>2
<1>4. \A p, q \in S : Rank(S, p) = Rank(S, q) => p = q
  <2> SUFFICES ASSUME NEW p \in S, NEW q \in S, p # q
               PROVE  Rank(S, p) # Rank(S, q)
    OBVIOUS
  <2>1. p < q \/ q < p
    BY <1>1
  <2> QED
    BY <1>3, <2>1
<1>5. rank \in Injection(S, 1 .. C)
  <2>1. rank \in [S -> 1 .. C] /\ \A p \in S : rank[p] = Rank(S, p)
    BY <1>2
  <2> HIDE DEF rank
  <2> QED
    BY <1>4, <2>1, Fun_IsInj, Zenon
<1>6. rank \in Surjection(S, 1 .. C)
  <2>1. IsFiniteSet(1 .. C) /\ Cardinality(1 .. C) = C
    BY <1>1, FS_Interval
  <2> HIDE DEF rank
  <2> QED
    BY <1>5, <2>1, FS_Injection
<1>7. \A i \in 1 .. C : \E p \in S : Rank(S, p) = i
  BY <1>6 DEF Surjection
<1>8. \A i \in 1 .. C : /\ Ascending(S)[i] \in S
                        /\ Rank(S, Ascending(S)[i]) = i
  <2> SUFFICES ASSUME NEW i \in 1 .. C
               PROVE  Ascending(S)[i] \in S /\ Rank(S, Ascending(S)[i]) = i
    OBVIOUS
  <2>1. Ascending(S)[i] = CHOOSE p \in S : Rank(S, p) = i
    BY DEF Ascending
  <2> QED
    BY <1>7, <2>1
<1>9. Ascending(S) \in Seq(S) /\ Len(Ascending(S)) = C
  <2>1. Ascending(S) = [i \in 1 .. C |-> Ascending(S)[i]]
    BY DEF Ascending
  <2> QED
    BY <1>1, <1>8, <2>1
<1>10. ASSUME NEW p \in S
       PROVE  \E i \in 1 .. C : Ascending(S)[i] = p
  <2>1. Rank(S, p) \in 1 .. C
    BY <1>2
  <2>2. Ascending(S)[Rank(S, p)] = p
    BY <1>4, <1>8, <2>1
  <2> QED
    BY <2>1, <2>2
<1>11. \A i, j \in 1 .. C : Ascending(S)[i] = Ascending(S)[j] => i = j
  BY <1>8
<1>12. \A i \in 1 .. C : Ascending(S)[i] \in S
  BY <1>8
<1> HIDE DEF C
<1>13. Distinct(Ascending(S))
  BY <1>9, <1>11 DEF Distinct
<1>14. Elements(Ascending(S)) = S
  BY <1>9, <1>10, <1>12 DEF Elements
<1> QED
  BY <1>9, <1>13, <1>14

(* The ranks of the elements of a set of numbers are 1, 2, and so on. *)
LEMMA Ranks ==
  ASSUME NEW N \in Nat, NEW S \in SUBSET (1 .. N)
  PROVE  /\ Cardinality(S) \in Nat
         /\ \A e \in S : Cardinality({f \in S : f <= e}) \in Nat \ {0}
         /\ \A n \in 1 .. Cardinality(S) : \E e \in S : Cardinality({f \in S : f <= e}) = n
<1> DEFINE T(e) == {f \in S : f <= e}
           C(e) == Cardinality(T(e))
           G == {e \in 0 .. N : \A n \in 1 .. C(e) : \E g \in S : C(g) = n}
<1>1. IsFiniteSet(S)
  <2>1. IsFiniteSet(1 .. N)
    BY FS_Interval
  <2> QED BY <2>1, FS_Subset
<1>2. \A e : IsFiniteSet(T(e)) /\ C(e) \in Nat
  <2> TAKE e
  <2>1. IsFiniteSet(T(e))
    BY <1>1, FS_Subset
  <2> QED BY <2>1, FS_CardinalityType
<1>3. \A e \in S : C(e) # 0
  <2> TAKE e \in S
  <2>1. e \in T(e)
    OBVIOUS
  <2> HIDE DEF T
  <2> QED BY <2>1, <1>2, FS_EmptySet
<1>n. S \subseteq Nat /\ \A f \in S : 1 <= f /\ f <= N
  OBVIOUS
<1>4. T(0) = {} /\ T(N) = S
  <2>1. \A f \in S : ~(f <= 0)
    BY <1>n
  <2> QED BY <2>1, <1>n
<1>5. ASSUME NEW e \in 1 .. N
      PROVE  /\ e \in S => C(e) = C(e - 1) + 1
             /\ e \notin S => C(e) = C(e - 1)
  <2>0. e \in Nat /\ e - 1 \in Nat /\ ~(e <= e - 1)
        /\ \A f \in S : f <= e <=> f <= e - 1 \/ f = e
    BY <1>n
  <2>1. /\ e \in S => T(e) = T(e - 1) \cup {e}
        /\ e \notin S => T(e) = T(e - 1)
        /\ e \notin T(e - 1)
    <3>1. \A f : f \in T(e) <=> f \in S /\ (f <= e - 1 \/ f = e)
      BY <2>0
    <3>2. \A f : f \in T(e - 1) <=> f \in S /\ f <= e - 1
      OBVIOUS
    <3> HIDE DEF T
    <3> QED BY <3>1, <3>2, <2>0
  <2> HIDE DEF T
  <2> QED BY <2>1, <1>2, FS_AddElement
<1> HIDE DEF T
<1>6. 0 \in G
  <2>1. C(0) = 0
    BY <1>4, FS_EmptySet
  <2> QED BY <2>1
<1>7. ASSUME NEW e \in 1 .. N, e - 1 \in G PROVE e \in G
  <2> HIDE DEF C
  <2>1. e \in 0 .. N /\ C(e) \in Nat /\ C(e - 1) \in Nat
    BY <1>2 DEF C
  <2>2. \A n \in 1 .. C(e - 1) : \E g \in S : C(g) = n
    BY <1>7
  <2>3. \A n \in 1 .. C(e) : \E g \in S : C(g) = n
    <3> TAKE n \in 1 .. C(e)
    <3>1. CASE n \in 1 .. C(e - 1)
      BY <3>1, <2>2
    <3>2. CASE n \notin 1 .. C(e - 1)
      BY <3>2, <2>1, <1>5
    <3> QED BY <3>1, <3>2
  <2> QED BY <2>1, <2>3
<1>8. N \in G
  <2> HIDE DEF G
  <2>1. \A e \in 0 .. N : e \in G
    BY <1>6, <1>7, UpTo
  <2> QED BY <2>1
<1>9. \A n \in 1 .. C(N) : \E g \in S : C(g) = n
  BY <1>8
<1>10. C(N) = Cardinality(S)
  BY <1>4
<1> QED BY <1>2, <1>3, <1>9, <1>10 DEF T
=============================================================================
