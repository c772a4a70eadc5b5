---------------------------- MODULE QueueLemmas ----------------------------
(***************************************************************************)
(* What the operations on queues keep: the elements a queue holds (ToSet)  *)
(* and that it holds none twice (IsInjective); and that a set of numbers   *)
(* has a least and, if it is bounded, a greatest element, which is what an *)
(* induction over numbers, or over a log, rests on.  The last lemmas are   *)
(* about totals of weights over the subsets of a finite set.               *)
(***************************************************************************)
EXTENDS Integers, FiniteSets, SequencesExt, SequenceTheorems, FiniteSetTheorems,
        WellFoundedInduction, TLAPS

(* Joining two queues adds their elements, keeping none twice when they    *)
(* share none.                                                             *)
LEMMA ConcatElements ==
  ASSUME NEW S, NEW s \in Seq(S), NEW u \in Seq(S)
  PROVE  /\ s \o u \in Seq(S)
         /\ ToSet(s \o u) = ToSet(s) \cup ToSet(u)
         /\ IsInjective(s) /\ IsInjective(u) /\ ToSet(s) \cap ToSet(u) = {}
            => IsInjective(s \o u)
<1> DEFINE c == s \o u
<1>1. /\ c \in Seq(S)
      /\ Len(c) = Len(s) + Len(u)
      /\ \A i \in 1..Len(s) + Len(u) :
            c[i] = IF i <= Len(s) THEN s[i] ELSE u[i - Len(s)]
  BY ConcatProperties
<1>2. \A j \in 1..Len(u) : c[j + Len(s)] = u[j]
  BY <1>1
<1>3. ToSet(c) \subseteq ToSet(s) \cup ToSet(u)
  BY <1>1 DEF ToSet
<1>4. ToSet(s) \subseteq ToSet(c)
  BY <1>1 DEF ToSet
<1>5. ToSet(u) \subseteq ToSet(c)
  <2> SUFFICES ASSUME NEW x \in ToSet(u)
               PROVE  x \in ToSet(c)
    OBVIOUS
  <2>1. PICK j \in 1..Len(u) : u[j] = x
    BY DEF ToSet
  <2>2. j + Len(s) \in 1..Len(c)
    BY <1>1
  <2> QED
    BY <2>1, <2>2, <1>1, <1>2 DEF ToSet
<1>6. ASSUME IsInjective(s), IsInjective(u), ToSet(s) \cap ToSet(u) = {}
      PROVE  IsInjective(c)
  <2> SUFFICES ASSUME NEW i \in 1..Len(c), NEW j \in 1..Len(c), c[i] = c[j]
               PROVE  i = j
    BY <1>1 DEF IsInjective
  <2>1. CASE i <= Len(s) /\ j <= Len(s)
    BY <2>1, <1>1, <1>6 DEF IsInjective
  <2>2. CASE i > Len(s) /\ j > Len(s)
    <3>1. i - Len(s) \in 1..Len(u) /\ j - Len(s) \in 1..Len(u)
      BY <2>2, <1>1
    <3>2. u[i - Len(s)] = u[j - Len(s)]
      BY <2>2, <1>1
    <3> QED
      BY <3>1, <3>2, <1>6 DEF IsInjective
  <2>3. ASSUME NEW a \in 1..Len(c), NEW b \in 1..Len(c),
               a <= Len(s), b > Len(s)
        PROVE  c[a] # c[b]
    <3>1. c[a] \in ToSet(s)
      BY <2>3, <1>1 DEF ToSet
    <3>2. b - Len(s) \in 1..Len(u) /\ c[b] = u[b - Len(s)]
      BY <2>3, <1>1
    <3>3. c[b] \in ToSet(u)
      BY <3>2 DEF ToSet
    <3> QED
      BY <3>1, <3>3, <1>6
  <2> QED
    BY <2>1, <2>2, <2>3, <1>1
<1> QED
  BY <1>1, <1>3, <1>4, <1>5, <1>6

(* Enqueueing at the tail adds one element. *)
LEMMA AppendElements ==
  ASSUME NEW S, NEW s \in Seq(S), NEW x \in S
  PROVE  /\ Append(s, x) \in Seq(S)
         /\ ToSet(Append(s, x)) = ToSet(s) \cup {x}
         /\ IsInjective(s) /\ x \notin ToSet(s) => IsInjective(Append(s, x))
<1>1. /\ <<x>> \in Seq(S)
      /\ ToSet(<<x>>) = {x}
      /\ IsInjective(<<x>>)
      /\ Append(s, x) = s \o <<x>>
  BY AppendIsConcat DEF ToSet, IsInjective
<1>2. x \notin ToSet(s) => ToSet(s) \cap ToSet(<<x>>) = {}
  BY <1>1
<1>3. /\ s \o <<x>> \in Seq(S)
      /\ ToSet(s \o <<x>>) = ToSet(s) \cup ToSet(<<x>>)
      /\ IsInjective(s) /\ IsInjective(<<x>>)
           /\ ToSet(s) \cap ToSet(<<x>>) = {} => IsInjective(s \o <<x>>)
  BY <1>1, ConcatElements
<1> QED
  BY <1>1, <1>2, <1>3

(* Enqueueing at the head adds one element. *)
LEMMA PushElements ==
  ASSUME NEW S, NEW s \in Seq(S), NEW x \in S
  PROVE  /\ <<x>> \o s \in Seq(S)
         /\ ToSet(<<x>> \o s) = ToSet(s) \cup {x}
         /\ IsInjective(s) /\ x \notin ToSet(s) => IsInjective(<<x>> \o s)
<1>1. /\ <<x>> \in Seq(S)
      /\ ToSet(<<x>>) = {x}
      /\ IsInjective(<<x>>)
  BY DEF ToSet, IsInjective
<1>2. x \notin ToSet(s) => ToSet(<<x>>) \cap ToSet(s) = {}
  BY <1>1
<1>3. /\ <<x>> \o s \in Seq(S)
      /\ ToSet(<<x>> \o s) = ToSet(<<x>>) \cup ToSet(s)
      /\ IsInjective(<<x>>) /\ IsInjective(s)
           /\ ToSet(<<x>>) \cap ToSet(s) = {} => IsInjective(<<x>> \o s)
  BY <1>1, ConcatElements
<1> QED
  BY <1>1, <1>2, <1>3

(* Dequeueing takes the head and leaves the rest. *)
LEMMA TailElements ==
  ASSUME NEW S, NEW s \in Seq(S), s # <<>>
  PROVE  /\ Tail(s) \in Seq(S) /\ Head(s) \in S
         /\ ToSet(s) = ToSet(Tail(s)) \cup {Head(s)}
         /\ IsInjective(s) =>
              IsInjective(Tail(s)) /\ Head(s) \notin ToSet(Tail(s))
<1> DEFINE u == Tail(s)
<1>1. /\ u \in Seq(S) /\ Head(s) \in S /\ Head(s) = s[1]
      /\ Len(s) \in Nat \ {0} /\ Len(u) = Len(s) - 1
      /\ \A j \in 1..Len(u) : u[j] = s[j + 1]
  BY HeadTailProperties, LenProperties
<1>2. ToSet(u) \cup {Head(s)} \subseteq ToSet(s)
  BY <1>1 DEF ToSet
<1>3. ToSet(s) \subseteq ToSet(u) \cup {Head(s)}
  <2> SUFFICES ASSUME NEW k \in 1..Len(s), k # 1
               PROVE  s[k] \in ToSet(u)
    BY <1>1 DEF ToSet
  <2>1. k - 1 \in 1..Len(u) /\ (k - 1) + 1 = k
    BY <1>1
  <2>2. u[k - 1] = s[k]
    BY <2>1, <1>1
  <2>3. k - 1 \in DOMAIN u
    BY <2>1, <1>1
  <2>4. u[k - 1] \in ToSet(u)
    BY <2>3 DEF ToSet
  <2> QED
    BY <2>2, <2>4
<1>4. IsInjective(s) => IsInjective(u) /\ Head(s) \notin ToSet(u)
  BY <1>1 DEF ToSet, IsInjective
<1> QED
  BY <1>1, <1>2, <1>3, <1>4

(* Deleting the entry at one place removes that element only. *)
LEMMA RemoveElements ==
  ASSUME NEW S, NEW s \in Seq(S), NEW i \in DOMAIN s
  PROVE  /\ RemoveAt(s, i) \in Seq(S) /\ Len(RemoveAt(s, i)) = Len(s) - 1
         /\ ToSet(RemoveAt(s, i)) \subseteq ToSet(s)
         /\ \A k \in 1..(Len(s) - 1) :
              RemoveAt(s, i)[k] = IF k < i THEN s[k] ELSE s[k + 1]
         /\ IsInjective(s) => /\ ToSet(RemoveAt(s, i)) = ToSet(s) \ {s[i]}
                              /\ IsInjective(RemoveAt(s, i))
<1> DEFINE r == RemoveAt(s, i)
<1>0. i \in 1..Len(s) /\ Len(s) \in Nat
  BY DEF ToSet
<1>1. /\ SubSeq(s, 1, i-1) \in Seq(S)
      /\ Len(SubSeq(s, 1, i-1)) = i - 1
      /\ \A k \in 1..i-1 : SubSeq(s, 1, i-1)[k] = s[k]
  BY <1>0
<1>2. /\ SubSeq(s, i+1, Len(s)) \in Seq(S)
      /\ Len(SubSeq(s, i+1, Len(s))) = Len(s) - i
      /\ \A k \in 1..(Len(s) - i) : SubSeq(s, i+1, Len(s))[k] = s[k + i]
  BY <1>0
<1>3. /\ r \in Seq(S)
      /\ Len(r) = Len(s) - 1
      /\ \A k \in 1..(Len(s) - 1) : r[k] = IF k < i THEN s[k] ELSE s[k + 1]
  <2>1. /\ r \in Seq(S)
        /\ Len(r) = (i - 1) + (Len(s) - i)
        /\ \A k \in 1..((i - 1) + (Len(s) - i)) :
             r[k] = IF k <= i - 1 THEN SubSeq(s, 1, i-1)[k]
                                  ELSE SubSeq(s, i+1, Len(s))[k - (i - 1)]
    BY <1>1, <1>2, ConcatProperties DEF RemoveAt
  <2>2. ASSUME NEW k \in 1..(Len(s) - 1)
        PROVE  r[k] = IF k < i THEN s[k] ELSE s[k + 1]
    <3>1. CASE k < i
      <4>1. k <= i - 1 /\ k \in 1..(i - 1) /\ k \in 1..((i - 1) + (Len(s) - i))
        BY <3>1, <1>0
      <4>2. r[k] = SubSeq(s, 1, i-1)[k]
        BY <4>1, <2>1
      <4> QED
        BY <3>1, <4>1, <4>2, <1>1
    <3>2. CASE k >= i
      <4>1. k - (i - 1) \in 1..(Len(s) - i)
        BY <3>2, <1>0
      <4>2. SubSeq(s, i+1, Len(s))[k - (i - 1)] = s[k - (i - 1) + i]
        BY <4>1, <1>2
      <4>3. r[k] = SubSeq(s, i+1, Len(s))[k - (i - 1)]
        BY SMTT(60), <2>1, <1>0, <3>2
      <4>4. k - (i - 1) + i = k + 1 /\ ~(k < i)
        BY <1>0, <3>2
      <4> QED
        BY <4>2, <4>3, <4>4
    <3> QED
      BY <3>1, <3>2, <1>0
  <2> QED
    BY <2>1, <2>2, <1>0
<1>5. ToSet(r) \subseteq ToSet(s)
  <2> SUFFICES ASSUME NEW k \in 1..(Len(s) - 1)
               PROVE  r[k] \in ToSet(s)
    BY <1>3 DEF ToSet
  <2> QED
    BY <1>3, <1>0 DEF ToSet
<1>4. ASSUME IsInjective(s)
      PROVE  ToSet(r) = ToSet(s) \ {s[i]} /\ IsInjective(r)
  <2>1. IsInjective(r)
    BY <1>3, <1>4, <1>0 DEF IsInjective
  <2>2. ToSet(r) \subseteq ToSet(s) \ {s[i]}
    <3> SUFFICES ASSUME NEW k \in 1..(Len(s) - 1)
                 PROVE  r[k] \in ToSet(s) /\ r[k] # s[i]
      BY <1>3 DEF ToSet
    <3> QED
      BY <1>3, <1>4, <1>0 DEF ToSet, IsInjective
  <2>3. ToSet(s) \ {s[i]} \subseteq ToSet(r)
    <3> SUFFICES ASSUME NEW k \in 1..Len(s), k # i
                 PROVE  s[k] \in ToSet(r)
      BY <1>0 DEF ToSet
    <3>1. CASE k < i
      <4>1. k \in 1..(Len(s) - 1) /\ r[k] = s[k]
        BY <3>1, <1>3, <1>0
      <4> QED
        BY <4>1, <1>3 DEF ToSet
    <3>2. CASE k > i
      <4>1. k - 1 \in 1..(Len(s) - 1) /\ ~(k - 1 < i) /\ (k - 1) + 1 = k
        BY <3>2, <1>0
      <4>2. r[k - 1] = s[k]
        BY <4>1, <1>3
      <4> QED
        BY <4>1, <4>2, <1>3 DEF ToSet
    <3> QED
      BY <3>1, <3>2, <1>0
  <2> QED
    BY <2>1, <2>2, <2>3
<1> QED
  BY <1>3, <1>4, <1>5

(* The empty queue. *)
LEMMA EmptyElements ==
  ToSet(<<>>) = {} /\ IsInjective(<<>>)
  BY DEF ToSet, IsInjective

(* A set of natural numbers that is not empty has a least element.         *)
LEMMA LeastNatural ==
  ASSUME NEW T \in SUBSET Nat, T # {}
  PROVE  \E x \in T : \A y \in T : x <= y
<1> DEFINE Less == {p \in Nat \X Nat : p[1] < p[2]}
<1>1. IsWellFoundedOn(Less, Nat)
  BY NatLessThanWellFounded, Zenon DEF OpToRel
<1>2. \E x \in T : \A y \in T : ~ (<<y, x>> \in Less)
  <2> HIDE DEF Less
  <2> QED
    BY <1>1, WFMin
<1>3. PICK x \in T : \A y \in T : ~ (<<y, x>> \in Less)
  BY <1>2
<1>4. \A y \in T : x <= y
  <2> TAKE y \in T
  <2>1. x \in Nat /\ y \in Nat /\ <<y, x>> \in Nat \X Nat
    OBVIOUS
  <2>2. ~ (y < x)
    BY <1>3, <2>1
  <2> QED
    BY <2>1, <2>2
<1> QED
  BY <1>4

(* What holds of 0, and of n + 1 if it holds of n, holds of every number;  *)
(* "what holds" is the set of the numbers it holds of.                     *)
LEMMA SetInduction ==
  ASSUME NEW T \in SUBSET Nat, 0 \in T, \A n \in T : n + 1 \in T
  PROVE  T = Nat
<1>1. SUFFICES ASSUME Nat \ T # {}
               PROVE  FALSE
  OBVIOUS
<1>2. PICK x \in Nat \ T : \A y \in Nat \ T : x <= y
  BY <1>1, LeastNatural
<1>3. x - 1 \in Nat /\ x - 1 < x
  BY <1>2
<1>4. x - 1 \in T
  BY <1>2, <1>3
<1> QED
  BY <1>2, <1>3, <1>4

(* A set of numbers up to n that is not empty has a greatest element.      *)
LEMMA GreatestExists ==
  ASSUME NEW n \in Nat, NEW T \in SUBSET (1..n), T # {}
  PROVE  \E x \in T : \A y \in T : y <= x
<1> DEFINE U == {n - y : y \in T}
<1>1. U \in SUBSET Nat /\ U # {}
  <2>1. \A y \in T : n - y \in Nat
    OBVIOUS
  <2> QED
    BY <2>1
<1>2. PICK u \in U : \A v \in U : u <= v
  <2> HIDE DEF U
  <2> QED
    BY <1>1, LeastNatural
<1>3. PICK x \in T : u = n - x
  OBVIOUS
<1>4. \A y \in T : y <= x
  <2> TAKE y \in T
  <2>1. n - x <= n - y
    BY <1>2, <1>3
  <2>2. x \in Nat /\ y \in Nat
    OBVIOUS
  <2> QED
    BY <2>1, <2>2
<1> QED
  BY <1>4

(* The elements of A occur in s in increasing order. *)
Rising(s, A) ==
  \A i, j \in DOMAIN s : i < j /\ s[i] \in A /\ s[j] \in A => s[i] < s[j]

(* An order among some elements survives whatever adds others: a greater   *)
(* one at the end, one not of A in front, a queue without any of A behind. *)
LEMMA RisingGrows ==
  ASSUME NEW S \in SUBSET Int, NEW s \in Seq(S), NEW A, Rising(s, A)
  PROVE  /\ \A x \in S : x \notin A \/ (\A y \in ToSet(s) : y < x)
                           => Rising(Append(s, x), A)
         /\ \A x \in S : x \notin A => Rising(<<x>> \o s, A)
         /\ \A u \in Seq(S) : ToSet(u) \cap A = {} => Rising(s \o u, A)
<1>1. ASSUME NEW x \in S, x \notin A \/ (\A y \in ToSet(s) : y < x)
      PROVE  Rising(Append(s, x), A)
  <2> DEFINE c == Append(s, x)
  <2> SUFFICES ASSUME NEW i \in DOMAIN c, NEW j \in DOMAIN c,
                      i < j, c[i] \in A, c[j] \in A
               PROVE  c[i] < c[j]
    BY DEF Rising
  <2>1. /\ DOMAIN c = 1..Len(s) + 1 /\ Len(s) \in Nat /\ DOMAIN s = 1..Len(s)
        /\ \A k \in 1..Len(s) : c[k] = s[k]
        /\ c[Len(s) + 1] = x
    OBVIOUS
  <2> HIDE DEF c
  <2>2. i \in DOMAIN s /\ c[i] = s[i] /\ s[i] \in ToSet(s)
    BY <2>1 DEF ToSet
  <2>3. CASE j \in DOMAIN s
    BY <2>1, <2>2, <2>3 DEF Rising
  <2>4. CASE j \notin DOMAIN s
    <3>1. c[j] = x
      BY <2>1, <2>4
    <3> QED
      BY <3>1, <2>2, <1>1
  <2> QED
    BY <2>3, <2>4
<1>2. ASSUME NEW x \in S, x \notin A
      PROVE  Rising(<<x>> \o s, A)
  <2> DEFINE c == <<x>> \o s
  <2> SUFFICES ASSUME NEW i \in DOMAIN c, NEW j \in DOMAIN c,
                      i < j, c[i] \in A, c[j] \in A
               PROVE  c[i] < c[j]
    BY DEF Rising
  <2>1. /\ DOMAIN c = 1..Len(s) + 1 /\ Len(s) \in Nat /\ DOMAIN s = 1..Len(s)
        /\ c[1] = x
        /\ \A k \in 2..Len(s) + 1 : c[k] = s[k - 1]
    <3>1. <<x>> \in Seq(S) /\ Len(<<x>>) = 1 /\ <<x>>[1] = x
      OBVIOUS
    <3>2. /\ c \in Seq(S) /\ Len(c) = 1 + Len(s)
          /\ \A k \in 1..1 + Len(s) : c[k] = IF k <= 1 THEN <<x>>[k] ELSE s[k - 1]
      BY <3>1, ConcatProperties
    <3> HIDE DEF c
    <3> QED
      BY <3>1, <3>2
  <2> HIDE DEF c
  <2>2. i \in 2..Len(s) + 1 /\ j \in 2..Len(s) + 1
    BY <2>1, <1>2
  <2>3. c[i] = s[i - 1] /\ c[j] = s[j - 1] /\ i - 1 \in DOMAIN s /\ j - 1 \in DOMAIN s
        /\ i - 1 < j - 1
    BY <2>1, <2>2
  <2> QED
    BY <2>3 DEF Rising
<1>3. ASSUME NEW u \in Seq(S), ToSet(u) \cap A = {}
      PROVE  Rising(s \o u, A)
  <2> DEFINE c == s \o u
  <2> SUFFICES ASSUME NEW i \in DOMAIN c, NEW j \in DOMAIN c,
                      i < j, c[i] \in A, c[j] \in A
               PROVE  c[i] < c[j]
    BY DEF Rising
  <2>1. /\ DOMAIN c = 1..Len(s) + Len(u) /\ Len(s) \in Nat /\ DOMAIN s = 1..Len(s)
        /\ Len(u) \in Nat /\ DOMAIN u = 1..Len(u)
        /\ \A k \in 1..Len(s) + Len(u) : c[k] = IF k <= Len(s) THEN s[k] ELSE u[k - Len(s)]
    BY ConcatProperties
  <2> HIDE DEF c
  <2>2. \A k \in DOMAIN c : k > Len(s) => c[k] \notin A
    <3> SUFFICES ASSUME NEW k \in DOMAIN c, k > Len(s)
                 PROVE  c[k] \in ToSet(u)
      BY <1>3
    <3>1. k - Len(s) \in DOMAIN u /\ c[k] = u[k - Len(s)]
      BY <2>1
    <3> QED
      BY <3>1 DEF ToSet
  <2>3. i \in DOMAIN s /\ j \in DOMAIN s /\ c[i] = s[i] /\ c[j] = s[j]
    BY <2>1, <2>2
  <2> QED
    BY <2>3 DEF Rising
<1> QED
  BY <1>1, <1>2, <1>3

(* And whatever takes elements out. *)
LEMMA RisingShrinks ==
  ASSUME NEW S \in SUBSET Int, NEW s \in Seq(S), NEW A, Rising(s, A)
  PROVE  /\ s # <<>> => Rising(Tail(s), A)
         /\ \A i \in DOMAIN s : Rising(RemoveAt(s, i), A)
<1>0. Len(s) \in Nat /\ DOMAIN s = 1..Len(s)
  OBVIOUS
<1>1. ASSUME s # <<>>
      PROVE  Rising(Tail(s), A)
  <2> DEFINE c == Tail(s)
  <2>1. /\ DOMAIN c = 1..Len(s) - 1
        /\ \A k \in 1..Len(s) - 1 : c[k] = s[k + 1]
    BY <1>1
  <2> HIDE DEF c
  <2>2. \A k \in DOMAIN c : k + 1 \in DOMAIN s /\ c[k] = s[k + 1]
    BY <2>1, <1>0
  <2> QED
    BY <2>1, <2>2, <1>0 DEF Rising
<1>2. ASSUME NEW i \in DOMAIN s
      PROVE  Rising(RemoveAt(s, i), A)
  <2> DEFINE c == RemoveAt(s, i)
  <2> SUFFICES ASSUME NEW a \in DOMAIN c, NEW b \in DOMAIN c,
                      a < b, c[a] \in A, c[b] \in A
               PROVE  c[a] < c[b]
    BY DEF Rising
  <2>1. /\ c \in Seq(S) /\ Len(c) = Len(s) - 1
        /\ \A k \in 1..(Len(s) - 1) : c[k] = IF k < i THEN s[k] ELSE s[k + 1]
    BY RemoveElements
  <2> HIDE DEF c
  <2>2. DOMAIN c = 1..Len(s) - 1
    BY <2>1, <1>0
  <2> DEFINE at(k) == IF k < i THEN k ELSE k + 1
  <2>3. /\ at(a) \in DOMAIN s /\ at(b) \in DOMAIN s /\ at(a) < at(b)
        /\ c[a] = s[at(a)] /\ c[b] = s[at(b)]
    BY <2>1, <2>2, <1>0
  <2> QED
    BY <2>3 DEF Rising
<1> QED
  BY <1>1, <1>2
(* What holds of the empty set, and of a set with one more element, holds  *)
(* of every subset of a finite set.                                        *)
LEMMA SubsetInduction ==
  ASSUME NEW S, IsFiniteSet(S), NEW P \in SUBSET SUBSET S, {} \in P,
         \A T \in P : \A x \in S : x \notin T => T \cup {x} \in P
  PROVE  P = SUBSET S
<1> DEFINE N == {n \in Nat : \A T \in SUBSET S : Cardinality(T) = n => T \in P}
<1>1. 0 \in N
  <2>1. \A T \in SUBSET S : Cardinality(T) = 0 => T = {}
    BY FS_Subset, FS_EmptySet
  <2> QED BY <2>1
<1>2. ASSUME NEW n \in N PROVE n + 1 \in N
  <2>1. ASSUME NEW T \in SUBSET S, Cardinality(T) = n + 1 PROVE T \in P
    <3>1. IsFiniteSet(T) /\ n \in Nat
      BY FS_Subset
    <3>2. T # {}
      BY <2>1, <3>1, FS_EmptySet
    <3>3. PICK x \in T : TRUE
      BY <3>2
    <3>4. Cardinality(T \ {x}) = n
      <4>1. Cardinality(T \ {x}) = Cardinality(T) - 1
        BY <3>1, FS_RemoveElement
      <4> QED BY <2>1, <3>1, <4>1
    <3>5. T \ {x} \in P /\ x \in S /\ x \notin T \ {x} /\ T = (T \ {x}) \cup {x}
      BY <3>4
    <3> QED BY <3>5
  <2> QED BY <2>1
<1>3. N = Nat
  <2> HIDE DEF N
  <2>1. N \in SUBSET Nat
    BY DEF N
  <2> QED BY <1>1, <1>2, <2>1, SetInduction
<1>4. ASSUME NEW T \in SUBSET S PROVE T \in P
  <2>1. Cardinality(T) \in Nat
    BY FS_Subset, FS_CardinalityType
  <2> QED BY <2>1, <1>3
<1> QED BY <1>4

(* The total of the weights w over each subset of S, as a function.        *)
IsTotal(F, w, S) ==
  /\ F \in [SUBSET S -> Nat] /\ F[{}] = 0
  /\ \A T \in SUBSET S : \A x \in S : x \notin T => F[T \cup {x}] = F[T] + w[x]

LEMMA TotalExists ==
  ASSUME NEW S, IsFiniteSet(S), NEW w \in [S -> Nat]
  PROVE  \E F : IsTotal(F, w, S)
<1> DEFINE P == {U \in SUBSET S : \E F : IsTotal(F, w, U)}
<1>1. {} \in P
  <2>1. IsTotal([T \in SUBSET {} |-> 0], w, {})
    BY DEF IsTotal
  <2> QED BY <2>1
<1>2. ASSUME NEW U \in P, NEW y \in S, y \notin U PROVE U \cup {y} \in P
  <2>1. PICK F : IsTotal(F, w, U)
    OBVIOUS
  <2>2. PICK V : V = U \cup {y}
    OBVIOUS
  <2>3. PICK G : G = [T \in SUBSET V |-> IF y \in T THEN F[T \ {y}] + w[y] ELSE F[T]]
    OBVIOUS
  <2>4. G \in [SUBSET V -> Nat]
    <3>1. ASSUME NEW T \in SUBSET V
          PROVE (IF y \in T THEN F[T \ {y}] + w[y] ELSE F[T]) \in Nat
      <4>1. T \ {y} \in SUBSET U /\ (y \notin T => T \in SUBSET U)
        BY <2>2
      <4> QED BY <4>1, <2>1 DEF IsTotal
    <3> QED BY <3>1, <2>3
  <2>5. G[{}] = 0
    BY <2>1, <2>3 DEF IsTotal
  <2>6. ASSUME NEW T \in SUBSET V, NEW x \in V, x \notin T
        PROVE  G[T \cup {x}] = G[T] + w[x]
    <3>1. T \cup {x} \in SUBSET V
      OBVIOUS
    <3>2. CASE x = y
      <4>1. T \in SUBSET U /\ (T \cup {x}) \ {y} = T /\ y \in T \cup {x} /\ y \notin T
        BY <2>2, <2>6, <3>2
      <4> QED BY <4>1, <3>1, <3>2, <2>3
    <3>3. CASE x # y /\ y \in T
      <4>1. /\ T \ {y} \in SUBSET U /\ x \in U /\ x \notin T \ {y}
            /\ (T \cup {x}) \ {y} = (T \ {y}) \cup {x}
        BY <2>2, <2>6, <3>3
      <4>2. F[(T \ {y}) \cup {x}] = F[T \ {y}] + w[x]
        BY <4>1, <2>1 DEF IsTotal
      <4>3. F[T \ {y}] \in Nat /\ w[x] \in Nat /\ w[y] \in Nat
        BY <4>1, <2>1 DEF IsTotal
      <4>4. G[T \cup {x}] = F[(T \ {y}) \cup {x}] + w[y] /\ G[T] = F[T \ {y}] + w[y]
        BY <4>1, <3>1, <3>3, <2>3
      <4> QED BY <4>2, <4>3, <4>4
    <3>4. CASE x # y /\ y \notin T
      <4>1. T \in SUBSET U /\ x \in U /\ y \notin T \cup {x}
        BY <2>2, <2>6, <3>4
      <4> QED BY <4>1, <3>1, <3>4, <2>1, <2>3, <2>6 DEF IsTotal
    <3> QED BY <3>2, <3>3, <3>4
  <2>7. IsTotal(G, w, V)
    BY <2>4, <2>5, <2>6 DEF IsTotal
  <2> QED BY <2>2, <2>7
<1>3. P = SUBSET S
  <2> HIDE DEF P
  <2>1. P \in SUBSET SUBSET S
    BY DEF P
  <2> QED BY <1>1, <1>2, <2>1, SubsetInduction
<1> QED BY <1>3

(* A fold that adds the weights of the elements, in any order, is their    *)
(* total.                                                                  *)
IsFold(it, w, R) ==
  /\ it[{}] = 0
  /\ \A s \in SUBSET R : s # {} => \E x \in s : it[s] = w[x] + it[s \ {x}]

LEMMA FoldIsTotal ==
  ASSUME NEW S, IsFiniteSet(S), NEW w, NEW F, IsTotal(F, w, S), NEW R \in SUBSET S, NEW it,
         IsFold(it, w, R),
         \A x \in S : w[x] \in Nat
  PROVE  it[R] = F[R]
<1> DEFINE N == {n \in Nat : \A T \in SUBSET R : Cardinality(T) = n => it[T] = F[T]}
<1>0. IsFiniteSet(R)
  BY FS_Subset
<1>1. 0 \in N
  <2>1. ASSUME NEW T \in SUBSET R, Cardinality(T) = 0 PROVE it[T] = F[T]
    <3>1. T = {}
      BY <1>0, <2>1, FS_Subset, FS_EmptySet
    <3> QED BY <3>1 DEF IsTotal, IsFold
  <2> QED BY <2>1
<1>2. ASSUME NEW n \in N PROVE n + 1 \in N
  <2>1. ASSUME NEW T \in SUBSET R, Cardinality(T) = n + 1 PROVE it[T] = F[T]
    <3>1. IsFiniteSet(T) /\ n \in Nat
      BY <1>0, FS_Subset
    <3>2. T # {}
      BY <2>1, <3>1, FS_EmptySet
    <3>3. PICK x \in T : it[T] = w[x] + it[T \ {x}]
      BY <3>2 DEF IsFold
    <3>4. Cardinality(T \ {x}) = n
      <4>1. Cardinality(T \ {x}) = Cardinality(T) - 1
        BY <3>1, FS_RemoveElement
      <4> QED BY <2>1, <3>1, <4>1
    <3>5. it[T \ {x}] = F[T \ {x}]
      BY <3>4
    <3>7. F[T] = F[T \ {x}] + w[x]
      <4>1. T \ {x} \in SUBSET S /\ x \in S /\ x \notin T \ {x} /\ T = (T \ {x}) \cup {x}
        OBVIOUS
      <4>2. F[(T \ {x}) \cup {x}] = F[T \ {x}] + w[x]
        BY <4>1 DEF IsTotal
      <4> QED BY <4>1, <4>2
    <3>8. F[T \ {x}] \in Nat /\ w[x] \in Nat
      BY DEF IsTotal
    <3> QED BY <3>3, <3>5, <3>7, <3>8
  <2>2. n + 1 \in Nat
    OBVIOUS
  <2> QED BY <2>1, <2>2
<1>3. N = Nat
  <2> HIDE DEF N
  <2>1. N \in SUBSET Nat
    BY DEF N
  <2> QED BY <1>1, <1>2, <2>1, SetInduction
<1>4. Cardinality(R) \in Nat
  BY <1>0, FS_CardinalityType
<1> QED BY <1>3, <1>4

(* Totals compare as the weights do.                                       *)
LEMMA TotalsCompare ==
  ASSUME NEW S, IsFiniteSet(S), NEW w, NEW v, NEW u, NEW F, NEW G, NEW H,
         IsTotal(F, w, S), IsTotal(G, v, S), IsTotal(H, u, S),
         \A x \in S : w[x] \in Nat /\ v[x] \in Nat /\ u[x] \in Nat /\ w[x] <= v[x] + u[x]
  PROVE  F[S] <= G[S] + H[S]
<1> DEFINE P == {T \in SUBSET S : F[T] <= G[T] + H[T]}
<1>1. {} \in P
  BY DEF IsTotal
<1>2. ASSUME NEW T \in P, NEW x \in S, x \notin T PROVE T \cup {x} \in P
  <2>1. F[T] \in Nat /\ G[T] \in Nat /\ H[T] \in Nat
    BY DEF IsTotal
  <2>2. /\ F[T \cup {x}] = F[T] + w[x] /\ G[T \cup {x}] = G[T] + v[x]
        /\ H[T \cup {x}] = H[T] + u[x]
    BY <1>2 DEF IsTotal
  <2>3. F[T] <= G[T] + H[T] /\ w[x] <= v[x] + u[x] /\ w[x] \in Nat /\ v[x] \in Nat /\ u[x] \in Nat
    OBVIOUS
  <2>4. F[T \cup {x}] <= G[T \cup {x}] + H[T \cup {x}]
    BY <2>1, <2>2, <2>3
  <2> QED BY <2>4
<1>3. P = SUBSET S
  <2> HIDE DEF P
  <2>1. P \in SUBSET SUBSET S
    BY DEF P
  <2> QED BY <1>1, <1>2, <2>1, SubsetInduction
<1> QED BY <1>3

(* A total of weights that differ in one place differs by as much.         *)
LEMMA TotalChanges ==
  ASSUME NEW S, IsFiniteSet(S), NEW w, NEW v, NEW F, NEW G, IsTotal(F, w, S), IsTotal(G, v, S),
         NEW k \in S, \A x \in S : w[x] \in Nat /\ v[x] \in Nat /\ (x # k => v[x] = w[x])
  PROVE  G[S] + w[k] = F[S] + v[k]
<1> DEFINE P == {T \in SUBSET S : IF k \in T THEN G[T] + w[k] = F[T] + v[k] ELSE G[T] = F[T]}
<1>1. {} \in P
  BY DEF IsTotal
<1>2. ASSUME NEW T \in P, NEW x \in S, x \notin T PROVE T \cup {x} \in P
  <2>1. F[T] \in Nat /\ G[T] \in Nat
    BY DEF IsTotal
  <2>2. F[T \cup {x}] = F[T] + w[x] /\ G[T \cup {x}] = G[T] + v[x]
    BY <1>2 DEF IsTotal
  <2>3. w[x] \in Nat /\ v[x] \in Nat /\ (x # k => v[x] = w[x]) /\ w[k] \in Nat /\ v[k] \in Nat
    OBVIOUS
  <2>4. CASE x = k
    <3>1. G[T] = F[T] /\ k \in T \cup {x}
      BY <1>2, <2>4
    <3> QED BY <3>1, <2>1, <2>2, <2>3, <2>4
  <2>5. CASE x # k
    <3>1. k \in T \cup {x} <=> k \in T
      BY <2>5
    <3> QED BY <3>1, <2>1, <2>2, <2>3, <2>5
  <2> QED BY <2>4, <2>5
<1>3. P = SUBSET S
  <2> HIDE DEF P
  <2>1. P \in SUBSET SUBSET S
    BY DEF P
  <2> QED BY <1>1, <1>2, <2>1, SubsetInduction
<1> QED BY <1>3

(* Elements of no weight add nothing to a total.                           *)
LEMMA TotalOfPart ==
  ASSUME NEW S, IsFiniteSet(S), NEW w, NEW F, IsTotal(F, w, S), NEW R \in SUBSET S,
         \A x \in S : x \notin R => w[x] = 0
  PROVE  F[R] = F[S]
<1> DEFINE P == {T \in SUBSET S : F[T \cap R] = F[T]}
<1>1. {} \in P
  BY DEF IsTotal
<1>2. ASSUME NEW T \in P, NEW x \in S, x \notin T PROVE T \cup {x} \in P
  <2>1. F[T] \in Nat /\ F[T \cap R] = F[T] /\ F[T \cup {x}] = F[T] + w[x]
    BY <1>2 DEF IsTotal
  <2>2. CASE x \in R
    <3>1. (T \cup {x}) \cap R = (T \cap R) \cup {x} /\ x \notin T \cap R /\ T \cap R \in SUBSET S
      BY <1>2, <2>2
    <3> QED BY <3>1, <2>1 DEF IsTotal
  <2>3. CASE x \notin R
    <3>1. (T \cup {x}) \cap R = T \cap R
      BY <2>3
    <3> QED BY <3>1, <2>1, <2>3
  <2> QED BY <2>2, <2>3
<1>3. P = SUBSET S
  <2> HIDE DEF P
  <2>1. P \in SUBSET SUBSET S
    BY DEF P
  <2> QED BY <1>1, <1>2, <2>1, SubsetInduction
<1>4. S \cap R = R
  OBVIOUS
<1> QED BY <1>3, <1>4

(* A total of equal weights is a multiple of them.                         *)
LEMMA TotalOfEquals ==
  ASSUME NEW S, IsFiniteSet(S), NEW k \in Nat, NEW w, NEW F, IsTotal(F, w, S),
         \A x \in S : w[x] = k
  PROVE  F[S] = k * Cardinality(S)
<1> DEFINE P == {T \in SUBSET S : F[T] = k * Cardinality(T)}
<1>1. {} \in P
  BY FS_EmptySet DEF IsTotal
<1>2. ASSUME NEW T \in P, NEW x \in S, x \notin T PROVE T \cup {x} \in P
  <2>1. F[T \cup {x}] = F[T] + k /\ F[T] = k * Cardinality(T)
    BY <1>2 DEF IsTotal
  <2>2. Cardinality(T \cup {x}) = Cardinality(T) + 1 /\ Cardinality(T) \in Nat
    BY <1>2, FS_Subset, FS_AddElement, FS_CardinalityType
  <2>3. \A n \in Nat : k * (n + 1) = k * n + k
    OBVIOUS
  <2> QED BY <2>1, <2>2, <2>3
<1>3. P = SUBSET S
  <2> HIDE DEF P
  <2>1. P \in SUBSET SUBSET S
    BY DEF P
  <2> QED BY <1>1, <1>2, <2>1, SubsetInduction
<1> QED BY <1>3
(* A total is that of one element and of the rest.                         *)
LEMMA TotalUnfolds ==
  ASSUME NEW S, NEW w, NEW F, IsTotal(F, w, S), \A y \in S : w[y] \in Nat,
         NEW s \in SUBSET S, NEW x \in s
  PROVE  F[s] = w[x] + F[s \ {x}]
<1>1. s \ {x} \in SUBSET S /\ x \in S /\ x \notin s \ {x} /\ s = (s \ {x}) \cup {x}
  OBVIOUS
<1>2. F[(s \ {x}) \cup {x}] = F[s \ {x}] + w[x]
  BY <1>1 DEF IsTotal
<1>3. F[s \ {x}] \in Nat /\ w[x] \in Nat
  BY <1>1 DEF IsTotal
<1>4. F[s] = F[s \ {x}] + w[x]
  BY <1>1, <1>2
<1> QED BY <1>3, <1>4
=============================================================================
