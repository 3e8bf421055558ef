------------------------------- MODULE Lists -------------------------------
(***************************************************************************)
(* Lists and finite sets, as the proofs of the other modules use them.     *)
(*                                                                         *)
(* What taking, pushing, appending and cutting leave of a list; free       *)
(* lists, rings and message queues are lists without repetitions.  What is *)
(* known of counting is one formula, Counting, which the lemmas assume:    *)
(* a module proves it once, from the library's theorems, behind its last   *)
(* lemma.                                                                  *)
(***************************************************************************)
EXTENDS Integers, Sequences, Functions, FiniteSets, TLAPS

Counting ==
    /\ IsFiniteSet({}) /\ Cardinality({}) = 0
    /\ \A S : IsFiniteSet(S) => Cardinality(S) \in Nat /\ (Cardinality(S) = 0 <=> S = {})
    /\ \A S, x : IsFiniteSet(S) => IsFiniteSet(S \union {x}) /\ IsFiniteSet(S \ {x})
    /\ \A S, x : IsFiniteSet(S) =>
          Cardinality(S \union {x}) = IF x \in S THEN Cardinality(S) ELSE Cardinality(S) + 1
    /\ \A S, x : IsFiniteSet(S) =>
          Cardinality(S \ {x}) = IF x \in S THEN Cardinality(S) - 1 ELSE Cardinality(S)
    /\ \A S, T : IsFiniteSet(S) /\ T \subseteq S =>
          /\ IsFiniteSet(T) /\ Cardinality(T) <= Cardinality(S)
          /\ Cardinality(S) = Cardinality(T) => S = T
    /\ \A S, T : IsFiniteSet(S) /\ IsFiniteSet(T) =>
          /\ IsFiniteSet(S \union T)
          /\ Cardinality(S \union T) = Cardinality(S) + Cardinality(T) - Cardinality(S \intersect T)
    /\ \A S, T : IsFiniteSet(S) /\ ExistsBijection(S, T) =>
          IsFiniteSet(T) /\ Cardinality(T) = Cardinality(S)
    /\ \A m, n \in Int : IsFiniteSet(m..n) /\ Cardinality(m..n) = IF m > n THEN 0 ELSE n - m + 1
    /\ \A T \in SUBSET Nat : T # {} => \E x \in T : \A y \in T : x <= y

-----------------------------------------------------------------------------
(* Counting, one fact at a time.                                             *)

\* A finite set has a natural number of elements.
LEMMA CountIsNat ==
  ASSUME Counting, NEW S, IsFiniteSet(S)
  PROVE  Cardinality(S) \in Nat
  BY DEF Counting

\* The empty set is the one with none.
LEMMA CountOfNone ==
  ASSUME Counting
  PROVE  /\ IsFiniteSet({}) /\ Cardinality({}) = 0
         /\ \A S : IsFiniteSet(S) => (Cardinality(S) = 0 <=> S = {})
  BY DEF Counting

\* An element more, unless it was there.
LEMMA CountAdding ==
  ASSUME Counting, NEW S, NEW x, IsFiniteSet(S)
  PROVE  /\ IsFiniteSet(S \union {x})
         /\ Cardinality(S \union {x}) = IF x \in S THEN Cardinality(S) ELSE Cardinality(S) + 1
  BY DEF Counting

\* An element less, if it was there.
LEMMA CountRemoving ==
  ASSUME Counting, NEW S, NEW x, IsFiniteSet(S)
  PROVE  /\ IsFiniteSet(S \ {x})
         /\ Cardinality(S \ {x}) = IF x \in S THEN Cardinality(S) - 1 ELSE Cardinality(S)
  BY DEF Counting

\* A part is no larger, and as large only if it is the whole.
LEMMA CountOfPart ==
  ASSUME Counting, NEW S, IsFiniteSet(S), NEW T \in SUBSET S
  PROVE  /\ IsFiniteSet(T) /\ Cardinality(T) <= Cardinality(S)
         /\ Cardinality(S) = Cardinality(T) => S = T
  BY DEF Counting

\* Two sets together.
LEMMA CountOfUnion ==
  ASSUME Counting, NEW S, NEW T, IsFiniteSet(S), IsFiniteSet(T)
  PROVE  /\ IsFiniteSet(S \union T)
         /\ Cardinality(S \union T) = Cardinality(S) + Cardinality(T) - Cardinality(S \intersect T)
  BY DEF Counting

\* The numbers of an interval.
LEMMA CountOfRange ==
  ASSUME Counting, NEW m \in Int, NEW n \in Int
  PROVE  IsFiniteSet(m..n) /\ Cardinality(m..n) = IF m > n THEN 0 ELSE n - m + 1
  BY DEF Counting

\* Sets that a bijection pairs off are equally large.
LEMMA CountOfSame ==
  ASSUME Counting, NEW S, NEW T, IsFiniteSet(S), ExistsBijection(S, T)
  PROVE  IsFiniteSet(T) /\ Cardinality(T) = Cardinality(S)
  BY DEF Counting

\* The set of one element.
LEMMA CountOfOne ==
  ASSUME Counting, NEW x
  PROVE  IsFiniteSet({x}) /\ Cardinality({x}) = 1
  <1>1. {} \union {x} = {x} /\ x \notin {}
    OBVIOUS
  <1> QED
    BY <1>1, CountOfNone, CountAdding

\* What a set has outside another.
LEMMA CountOfRest ==
  ASSUME Counting, NEW S, NEW T, IsFiniteSet(S)
  PROVE  /\ IsFiniteSet(S \ T) /\ Cardinality(S \ T) = Cardinality(S) - Cardinality(S \intersect T)
  <1>1. /\ S \ T \in SUBSET S /\ S \intersect T \in SUBSET S
        /\ (S \ T) \union (S \intersect T) = S /\ (S \ T) \intersect (S \intersect T) = {}
    OBVIOUS
  <1>2. IsFiniteSet(S \ T) /\ IsFiniteSet(S \intersect T)
    BY <1>1, CountOfPart
  <1>3. Cardinality(S) = Cardinality(S \ T) + Cardinality(S \intersect T) - Cardinality({})
    BY <1>1, <1>2, CountOfUnion, Zenon
  <1>4. Cardinality(S \ T) \in Nat /\ Cardinality(S \intersect T) \in Nat /\ Cardinality({}) = 0
    BY <1>2, CountOfNone, CountIsNat
  <1> QED
    BY <1>2, <1>3, <1>4

\* A set of natural numbers has a smallest one.
LEMMA Smallest ==
  ASSUME Counting, NEW T \in SUBSET Nat, T # {}
  PROVE  \E x \in T : \A y \in T : x <= y
  BY DEF Counting

-----------------------------------------------------------------------------
(* Lists without repetitions.                                                *)

\* A list of elements of S has no others.
LEMMA ListElements ==
  ASSUME NEW S, NEW q \in Seq(S)
  PROVE  Range(q) \subseteq S
  BY DEF Range

\* Taking the head takes it and nothing else.
LEMMA TailOfInjective ==
  ASSUME NEW S, NEW q \in Seq(S), q # <<>>, IsInjective(q)
  PROVE  /\ Head(q) \in Range(q) /\ IsInjective(Tail(q))
         /\ \A x : x \in Range(Tail(q)) <=> x \in Range(q) /\ x # Head(q)
  <1>1. /\ Len(q) \in Nat \ {0} /\ DOMAIN q = 1..Len(q) /\ Head(q) = q[1]
        /\ DOMAIN Tail(q) = 1..(Len(q) - 1) /\ \A i \in 1..(Len(q) - 1) : Tail(q)[i] = q[i + 1]
    OBVIOUS
  <1>2. \A a, b \in 1..Len(q) : q[a] = q[b] => a = b
    BY <1>1 DEF IsInjective
  <1>3. IsInjective(Tail(q))
    BY <1>1, <1>2 DEF IsInjective
  <1>4. Head(q) \in Range(q)
    BY <1>1 DEF Range
  <1> SUFFICES ASSUME NEW x PROVE x \in Range(Tail(q)) <=> x \in Range(q) /\ x # Head(q)
    BY <1>3, <1>4
  <1>5. ASSUME x \in Range(Tail(q)) PROVE x \in Range(q) /\ x # Head(q)
    <2>1. PICK i \in 1..(Len(q) - 1) : x = q[i + 1]
      BY <1>1, <1>5 DEF Range
    <2>2. i + 1 \in 1..Len(q) /\ i + 1 # 1 /\ 1 \in 1..Len(q)
      BY <1>1, <2>1
    <2> QED
      BY <1>1, <1>2, <2>1, <2>2 DEF Range
  <1>6. ASSUME x \in Range(q), x # Head(q) PROVE x \in Range(Tail(q))
    <2>1. PICK i \in 1..Len(q) : x = q[i]
      BY <1>1, <1>6 DEF Range
    <2>2. i - 1 \in 1..(Len(q) - 1) /\ (i - 1) + 1 = i
      BY <1>1, <1>6, <2>1
    <2>3. Tail(q)[i - 1] = x
      BY <1>1, <2>1, <2>2
    <2> QED
      BY <1>1, <2>2, <2>3 DEF Range
  <1> QED
    BY <1>5, <1>6

\* Pushing in front adds what is pushed.
LEMMA PushOnInjective ==
  ASSUME NEW S, NEW q \in Seq(S), NEW s \in S, IsInjective(q), s \notin Range(q)
  PROVE  /\ IsInjective(<<s>> \o q)
         /\ \A x : x \in Range(<<s>> \o q) <=> x \in Range(q) \/ x = s
  <1> DEFINE p == <<s>> \o q
  <1>1. /\ Len(q) \in Nat /\ DOMAIN q = 1..Len(q) /\ DOMAIN p = 1..(Len(q) + 1)
        /\ p[1] = s /\ \A i \in 2..(Len(q) + 1) : p[i] = q[i - 1]
    OBVIOUS
  <1> HIDE DEF p
  <1>2. \A i \in 1..Len(q) : q[i] # s /\ i + 1 \in 2..(Len(q) + 1) /\ (i + 1) - 1 = i
    BY <1>1 DEF Range
  <1>3. \A i \in 1..(Len(q) + 1) : i = 1 \/ (i \in 2..(Len(q) + 1) /\ i - 1 \in 1..Len(q))
    BY <1>1
  <1>4. ASSUME NEW a \in 1..(Len(q) + 1), NEW b \in 1..(Len(q) + 1), p[a] = p[b] PROVE a = b
    <2>1. CASE a = 1 \/ b = 1
      BY <1>1, <1>2, <1>3, <1>4, <2>1
    <2>2. CASE a # 1 /\ b # 1
      <3>1. a - 1 \in 1..Len(q) /\ b - 1 \in 1..Len(q) /\ q[a - 1] = q[b - 1]
        BY <1>1, <1>3, <1>4, <2>2
      <3>2. a - 1 = b - 1
        BY <1>1, <3>1 DEF IsInjective
      <3> QED
        BY <3>2
    <2> QED
      BY <2>1, <2>2
  <1>5. IsInjective(p)
    BY <1>1, <1>4 DEF IsInjective
  <1>6. \A x : x \in Range(p) <=> x \in Range(q) \/ x = s
    <2> SUFFICES ASSUME NEW x PROVE x \in Range(p) <=> x \in Range(q) \/ x = s
      OBVIOUS
    <2>1. x \in Range(p) => x \in Range(q) \/ x = s
      BY <1>1, <1>3 DEF Range
    <2>2. x \in Range(q) => x \in Range(p)
      <3> SUFFICES ASSUME NEW i \in 1..Len(q), x = q[i] PROVE x \in Range(p)
        BY <1>1 DEF Range
      <3>1. p[i + 1] = x /\ i + 1 \in 1..(Len(q) + 1)
        BY <1>1, <1>2
      <3> QED
        BY <1>1, <3>1 DEF Range
    <2>3. s \in Range(p)
      BY <1>1 DEF Range
    <2> QED
      BY <2>1, <2>2, <2>3
  <1> QED
    BY <1>5, <1>6 DEF p

\* So does appending.
LEMMA AppendOnInjective ==
  ASSUME NEW S, NEW q \in Seq(S), NEW s \in S, IsInjective(q), s \notin Range(q)
  PROVE  /\ IsInjective(Append(q, s))
         /\ \A x : x \in Range(Append(q, s)) <=> x \in Range(q) \/ x = s
  <1> DEFINE p == Append(q, s)
             n == Len(q)
  <1>1. /\ n \in Nat /\ DOMAIN q = 1..n /\ DOMAIN p = 1..(n + 1)
        /\ p[n + 1] = s /\ \A i \in 1..n : p[i] = q[i]
    OBVIOUS
  <1> HIDE DEF p, n
  <1>2. \A i \in 1..n : q[i] # s
    BY <1>1 DEF Range
  <1>3. \A i \in 1..(n + 1) : i = n + 1 \/ i \in 1..n
    BY <1>1
  <1>4. IsInjective(p)
    BY <1>1, <1>2, <1>3 DEF IsInjective
  <1>5. \A x : x \in Range(p) <=> x \in Range(q) \/ x = s
    BY <1>1, <1>3 DEF Range
  <1> QED
    BY <1>4, <1>5 DEF p

\* A list without repetitions is as long as it has elements.
LEMMA LengthOfInjective ==
  ASSUME Counting, NEW S, NEW q \in Seq(S), IsInjective(q)
  PROVE  IsFiniteSet(Range(q)) /\ Len(q) = Cardinality(Range(q))
  <1>1. Len(q) \in Nat /\ DOMAIN q = 1..Len(q) /\ q \in [1..Len(q) -> S]
    OBVIOUS
  <1>2. q \in [1..Len(q) -> Range(q)]
    BY <1>1 DEF Range
  <1>3. q \in Bijection(1..Len(q), Range(q))
    <2>1. IsInjective(q) /\ \A t \in Range(q) : \E i \in 1..Len(q) : q[i] = t
      BY <1>1 DEF Range
    <2> QED
      BY <1>1, <1>2, <2>1 DEF Bijection, Injection, Surjection, IsInjective
  <1>4. ExistsBijection(1..Len(q), Range(q))
    BY <1>3 DEF ExistsBijection
  <1>5. IsFiniteSet(1..Len(q)) /\ Cardinality(1..Len(q)) = Len(q)
    BY <1>1, CountOfRange
  <1> QED
    BY <1>4, <1>5, CountOfSame

\* Two sets that a function pairs off are equally large.
LEMMA PairedOff ==
  ASSUME Counting, NEW S, NEW T, NEW f, IsFiniteSet(S), \A x \in S : f[x] \in T,
         \A x, y \in S : f[x] = f[y] => x = y, \A z \in T : \E x \in S : f[x] = z
  PROVE  IsFiniteSet(T) /\ Cardinality(S) = Cardinality(T)
  <1> DEFINE g == [x \in S |-> f[x]]
  <1>1. g \in Bijection(S, T)
    BY DEF Bijection, Injection, Surjection, IsInjective
  <1>2. ExistsBijection(S, T)
    BY <1>1 DEF ExistsBijection
  <1> QED
    BY <1>2, CountOfSame
=============================================================================
