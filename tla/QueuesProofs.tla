----------------------------- MODULE QueuesProofs -----------------------------
(***************************************************************************)
(* Proofs about the parts of MCQueues, for any configuration: the attempts *)
(* of a request, a queue that is sent in bursts, hooks that change while   *)
(* they run, the pages of a listing, what is made, fetched or kept once    *)
(* for all who ask, and cookies.  A part at rest keeps its variables, so   *)
(* that each part's invariant is one of all of them.                       *)
(***************************************************************************)
EXTENDS MCQueues, FiniteSetTheorems, SequenceTheorems, WellFoundedInduction, TLAPS

OnlyOf(part, v) == part \/ UNCHANGED v

LEMMA PartsMove ==
  ASSUME [Next]_vars
  PROVE  /\ OnlyOf(Retry!Next, retry) /\ OnlyOf(Hooks!Next, hooks) /\ OnlyOf(Batch!Next, batch)
         /\ OnlyOf(Pages!Next, pages) /\ OnlyOf(Life!Next, life)
         /\ OnlyOf(Keys!AwsNext \/ Keys!DigestNext, keys)
         /\ OnlyOf(Query!Next, query) /\ OnlyOf(Jar!Next, kept)
  BY Zenon DEF Next, vars, OfRetry, OfHooks, OfBatch, OfPages, OfLife, OfKeys, OfQuery, OfJar,
               OnlyOf

----------------------------------------------------------------------------
(* Induction over sets.                                                    *)

\* A set of numbers with 0 and with the successor of each of its elements has them all.
LEMMA NatFrom ==
  ASSUME NEW A, 0 \in A, \A n \in Nat : n \in A => n + 1 \in A
  PROVE  Nat \subseteq A
<1>. SUFFICES ASSUME Nat \ A # {} PROVE FALSE
  OBVIOUS
<1>1. PICK n \in Nat \ A : \A m \in Nat \ A : ~(<<m, n>> \in OpToRel(<, Nat))
  BY NatLessThanWellFounded, WFMin
<1>2. n - 1 \in Nat /\ n - 1 < n
  OBVIOUS
<1>3. <<n - 1, n>> \in OpToRel(<, Nat)
  BY <1>2 DEF OpToRel
<1>4. n - 1 \in A
  BY <1>1, <1>2, <1>3
<1>5. n = (n - 1) + 1
  OBVIOUS
<1>. QED  BY <1>2, <1>4, <1>5

\* A set of sequences with the empty one and with each of its own, one element longer, has
\* them all.
LEMMA SeqFrom ==
  ASSUME NEW T, NEW A, <<>> \in A, \A s \in Seq(T), e \in T : s \in A => Append(s, e) \in A
  PROVE  Seq(T) \subseteq A
<1>. DEFINE N == {n \in Nat : \A s \in Seq(T) : Len(s) = n => s \in A}
<1>1. 0 \in N
  BY EmptySeq
<1>2. ASSUME NEW n \in N PROVE n + 1 \in N
  <2>. SUFFICES ASSUME NEW s \in Seq(T), Len(s) = n + 1 PROVE s \in A
    OBVIOUS
  <2>1. s # <<>>
    BY EmptySeq
  <2>2. PICK t \in Seq(T), e \in T : s = Append(t, e)
    BY <2>1, SequenceEmptyOrAppend
  <2>3. Len(t) = n
    BY <2>2, AppendProperties, LenProperties
  <2>. QED  BY <2>2, <2>3
<1>. HIDE DEF N
<1>3. Nat \subseteq N
  BY <1>1, <1>2, NatFrom
<1>. QED  BY <1>3, LenProperties DEF N

----------------------------------------------------------------------------
(* Sequences.                                                              *)

\* What is left of a sequence without the element at k.
RemoveAt(s, k) == SubSeq(s, 1, k - 1) \o SubSeq(s, k + 1, Len(s))

LEMMA Removed ==
  ASSUME NEW S, NEW s \in Seq(S), NEW k \in 1..Len(s)
  PROVE  /\ RemoveAt(s, k) \in Seq(S) /\ Len(RemoveAt(s, k)) = Len(s) - 1
         /\ \A i \in 1..(Len(s) - 1) : RemoveAt(s, k)[i] = s[IF i < k THEN i ELSE i + 1]
<1>. DEFINE a == SubSeq(s, 1, k - 1)
            b == SubSeq(s, k + 1, Len(s))
<1>1. Len(s) \in Nat /\ k \in Int /\ \A i \in 1..Len(s) : s[i] \in S
  BY LenProperties
<1>2. a \in Seq(S) /\ Len(a) = k - 1 /\ \A i \in 1..(k - 1) : a[i] = s[i]
  <2>1. k - 1 \in Int /\ (\A i \in 1..(k - 1) : s[i] \in S) /\ (1 <= k - 1 \/ k - 1 = 0)
    BY <1>1
  <2>. QED  BY <1>1, <2>1, SubSeqProperties
<1>3. b \in Seq(S) /\ Len(b) = Len(s) - k /\ \A i \in 1..(Len(s) - k) : b[i] = s[k + i]
  <2>1. k + 1 \in Int /\ Len(s) \in Int /\ (\A i \in (k + 1)..Len(s) : s[i] \in S)
    BY <1>1
  <2>2. /\ b \in Seq(S) /\ Len(b) = IF k + 1 <= Len(s) THEN Len(s) - (k + 1) + 1 ELSE 0
        /\ \A i \in 1..(Len(s) - (k + 1) + 1) : b[i] = s[(k + 1) + i - 1]
    BY <2>1, SubSeqProperties
  <2>. QED  BY <1>1, <2>2
<1>. HIDE DEF a, b
<1>4. /\ a \o b \in Seq(S) /\ Len(a \o b) = Len(a) + Len(b)
      /\ \A i \in 1..(Len(a) + Len(b)) : (a \o b)[i] = IF i <= Len(a) THEN a[i] ELSE b[i - Len(a)]
  BY <1>2, <1>3, ConcatProperties
<1>5. ASSUME NEW i \in 1..(Len(s) - 1) PROVE (a \o b)[i] = s[IF i < k THEN i ELSE i + 1]
  BY <1>1, <1>2, <1>3, <1>4
<1>6. RemoveAt(s, k) = a \o b
  BY DEF RemoveAt, a, b
<1>7. Len(a \o b) = Len(s) - 1
  BY <1>1, <1>2, <1>3, <1>4
<1>. QED  BY <1>4, <1>5, <1>6, <1>7

----------------------------------------------------------------------------
(* A sequence without some of its elements.                                *)

\* f has, for each i, what is left of the first i elements of s without those in S.
IsRest(f, s, S) ==
  f = [i \in 0..Len(s) |-> IF i = 0 THEN <<>>
                           ELSE IF s[i] \in S THEN f[i - 1] ELSE Append(f[i - 1], s[i])]

TheRest(s, S) == CHOOSE f : IsRest(f, s, S)

LEMMA WithoutIs ==
  ASSUME NEW s, NEW S
  PROVE  /\ Hooks!Without(s, S) = TheRest(s, S)[Len(s)]
         /\ Life!Without(s, S) = TheRest(s, S)[Len(s)]
         /\ Query!Without(s, S) = TheRest(s, S)[Len(s)]
BY DEF Hooks!Without, Life!Without, Query!Without, TheRest, IsRest

LEMMA RestAt ==
  ASSUME NEW s, NEW S, NEW f, IsRest(f, s, S), NEW i \in 0..Len(s), i # 0
  PROVE  f[i] = IF s[i] \in S THEN f[i - 1] ELSE Append(f[i - 1], s[i])
BY DEF IsRest

\* There is one for a longer sequence, as there is one for the shorter,
LEMMA RestLonger ==
  ASSUME NEW T, NEW s \in Seq(T), NEW e \in T, NEW S, NEW f, IsRest(f, s, S)
  PROVE  IsRest([i \in 0..(Len(s) + 1) |->
                   IF i <= Len(s) THEN f[i] ELSE IF e \in S THEN f[Len(s)] ELSE Append(f[Len(s)], e)],
                Append(s, e), S)
<1>. DEFINE g == [i \in 0..(Len(s) + 1) |->
                    IF i <= Len(s) THEN f[i]
                    ELSE IF e \in S THEN f[Len(s)] ELSE Append(f[Len(s)], e)]
            t == Append(s, e)
<1>1. /\ Len(s) \in Nat /\ Len(t) = Len(s) + 1 /\ t[Len(s) + 1] = e
      /\ \A i \in 1..Len(s) : t[i] = s[i]
  BY LenProperties, AppendProperties
<1>. HIDE DEF t
<1>2. ASSUME NEW i \in 0..(Len(s) + 1)
      PROVE  g[i] = IF i = 0 THEN <<>> ELSE IF t[i] \in S THEN g[i - 1] ELSE Append(g[i - 1], t[i])
  <2>1. CASE i = 0
    BY <1>1, <2>1 DEF IsRest
  <2>2. CASE i \in 1..Len(s)
    <3>1. g[i] = f[i] /\ g[i - 1] = f[i - 1] /\ t[i] = s[i]
      BY <1>1, <2>2
    <3>2. i \in 0..Len(s) /\ i # 0
      BY <1>1, <2>2
    <3>3. f[i] = IF s[i] \in S THEN f[i - 1] ELSE Append(f[i - 1], s[i])
      BY <3>2, RestAt
    <3>. QED  BY <3>1, <3>2, <3>3
  <2>3. CASE i = Len(s) + 1
    <3>1. /\ g[i] = (IF e \in S THEN f[Len(s)] ELSE Append(f[Len(s)], e))
          /\ g[i - 1] = f[Len(s)] /\ t[i] = e /\ i # 0
      BY <1>1, <2>3
    <3>. QED  BY <3>1
  <2>. QED  BY <1>1, <2>1, <2>2, <2>3
<1>3. g = [i \in 0..Len(t) |-> g[i]]
  BY <1>1
<1>. HIDE DEF g
<1>4. g = [i \in 0..Len(t) |-> IF i = 0 THEN <<>>
                              ELSE IF t[i] \in S THEN g[i - 1] ELSE Append(g[i - 1], t[i])]
  BY <1>1, <1>2, <1>3
<1>. QED  BY <1>4 DEF IsRest, g, t

\* and it is the only one.
LEMMA RestOnly ==
  ASSUME NEW T, NEW s \in Seq(T), NEW S, NEW f, NEW g, IsRest(f, s, S), IsRest(g, s, S)
  PROVE  f = g
<1>1. Len(s) \in Nat
  BY LenProperties
<1>. DEFINE A == {n \in Nat : n <= Len(s) => f[n] = g[n]}
<1>2. 0 \in A
  BY <1>1 DEF IsRest
<1>3. ASSUME NEW n \in Nat, n \in A PROVE n + 1 \in A
  <2>. SUFFICES ASSUME n + 1 <= Len(s) PROVE f[n + 1] = g[n + 1]
    BY <1>3
  <2>1. f[n] = g[n] /\ n + 1 \in 0..Len(s) /\ n + 1 # 0 /\ (n + 1) - 1 = n
    BY <1>1, <1>3
  <2>2. f[n + 1] = IF s[n + 1] \in S THEN f[n] ELSE Append(f[n], s[n + 1])
    BY <2>1 DEF IsRest
  <2>3. g[n + 1] = IF s[n + 1] \in S THEN g[n] ELSE Append(g[n], s[n + 1])
    BY <2>1 DEF IsRest
  <2>. QED  BY <2>1, <2>2, <2>3
<1>. HIDE DEF A
<1>4. Nat \subseteq A
  BY <1>2, <1>3, NatFrom
<1>5. \A i \in 0..Len(s) : f[i] = g[i]
  BY <1>1, <1>4 DEF A
<1>6. f = [i \in 0..Len(s) |-> f[i]] /\ g = [i \in 0..Len(s) |-> g[i]]
  BY DEF IsRest
<1>. QED  BY <1>5, <1>6

LEMMA RestExists ==
  ASSUME NEW T, NEW s \in Seq(T), NEW S
  PROVE  IsRest(TheRest(s, S), s, S)
<1>. DEFINE A == {t \in Seq(T) : \E f : IsRest(f, t, S)}
<1>1. <<>> \in A
  <2>1. IsRest([i \in 0..0 |-> <<>>], <<>>, S)
    BY EmptySeq DEF IsRest
  <2>. QED  BY <2>1, EmptySeq
<1>2. ASSUME NEW t \in Seq(T), NEW e \in T, t \in A PROVE Append(t, e) \in A
  BY <1>2, RestLonger, AppendProperties
<1>. HIDE DEF A
<1>3. Seq(T) \subseteq A
  BY <1>1, <1>2, SeqFrom
<1>. QED  BY <1>3 DEF A, TheRest

\* Without, by the last element of the sequence.
LEMMA WithoutEmpty == ASSUME NEW S PROVE Hooks!Without(<<>>, S) = <<>>
<1>1. IsRest(TheRest(<<>>, S), <<>>, S) /\ Len(<<>>) = 0
  BY RestExists, EmptySeq
<1>2. TheRest(<<>>, S)[0] = <<>>
  BY <1>1 DEF IsRest
<1>. QED  BY <1>1, <1>2, WithoutIs

LEMMA WithoutStep ==
  ASSUME NEW T, NEW S, NEW s \in Seq(T), NEW e \in T
  PROVE  Hooks!Without(Append(s, e), S) =
           IF e \in S THEN Hooks!Without(s, S) ELSE Append(Hooks!Without(s, S), e)
<1>. DEFINE f == TheRest(s, S)
            t == Append(s, e)
            g == [i \in 0..(Len(s) + 1) |->
                    IF i <= Len(s) THEN f[i]
                    ELSE IF e \in S THEN f[Len(s)] ELSE Append(f[Len(s)], e)]
<1>1. IsRest(f, s, S)
  BY RestExists
<1>2. t \in Seq(T) /\ Len(t) = Len(s) + 1 /\ Len(s) \in Nat
  BY AppendProperties, LenProperties
<1>. HIDE DEF f
<1>3. IsRest(g, t, S)
  BY <1>1, RestLonger
<1>4. g[Len(s) + 1] = IF e \in S THEN f[Len(s)] ELSE Append(f[Len(s)], e)
  BY <1>2
<1>. HIDE DEF g, t
<1>5. TheRest(t, S) = g
  BY <1>2, <1>3, RestExists, RestOnly
<1>. QED  BY <1>2, <1>4, <1>5, WithoutIs DEF f, t

\* The parts mean the same by a set of elements and by an injective sequence.
LEMMA SameSets ==
  ASSUME NEW s
  PROVE  /\ Hooks!Range(s) = Range(s) /\ Life!Range(s) = Range(s) /\ Pages!Range(s) = Range(s)
         /\ Hooks!IsInjective(s) <=> IsInjective(s)
         /\ Life!IsInjective(s) <=> IsInjective(s)
         /\ Pages!IsInjective(s) <=> IsInjective(s)
BY DEF Range, Hooks!Range, Life!Range, Pages!Range,
       IsInjective, Hooks!IsInjective, Life!IsInjective, Pages!IsInjective

LEMMA SetOf ==
  ASSUME NEW T, NEW s \in Seq(T)
  PROVE  /\ Range(s) \subseteq T
         /\ \A x : x \in Range(s) <=> \E i \in 1..Len(s) : s[i] = x
         /\ IsInjective(s) <=> \A i, j \in 1..Len(s) : s[i] = s[j] => i = j
BY LenProperties, ElementOfSeq DEF Range, IsInjective

LEMMA SetOfAppend ==
  ASSUME NEW T, NEW s \in Seq(T), NEW e \in T
  PROVE  /\ Range(Append(s, e)) = Range(s) \cup {e}
         /\ IsInjective(Append(s, e)) <=> IsInjective(s) /\ e \notin Range(s)
<1>. DEFINE t == Append(s, e)
<1>1. /\ t \in Seq(T) /\ Len(s) \in Nat /\ Len(t) = Len(s) + 1 /\ t[Len(s) + 1] = e
      /\ \A i \in 1..Len(s) : t[i] = s[i]
  BY LenProperties, AppendProperties
<1>. HIDE DEF t
<1>2. \A i \in 1..Len(t) : i \in 1..Len(s) \/ i = Len(s) + 1
  BY <1>1
<1>3. Len(s) + 1 \in 1..Len(t) /\ \A i \in 1..Len(s) : i \in 1..Len(t) /\ i # Len(s) + 1
  BY <1>1
<1>4. ASSUME NEW x PROVE x \in Range(t) <=> x \in Range(s) \/ x = e
  BY <1>1, <1>2, <1>3, SetOf
<1>5. IsInjective(t) <=> IsInjective(s) /\ e \notin Range(s)
  <2>1. ASSUME IsInjective(t) PROVE IsInjective(s) /\ e \notin Range(s)
    BY <1>1, <1>3, <2>1, SetOf
  <2>2. ASSUME IsInjective(s), e \notin Range(s) PROVE IsInjective(t)
    <3>. SUFFICES ASSUME NEW i \in 1..Len(t), NEW j \in 1..Len(t), t[i] = t[j] PROVE i = j
      BY <1>1, SetOf
    <3>. QED  BY <1>1, <1>2, <2>2, SetOf
  <2>. QED  BY <2>1, <2>2
<1>. QED  BY <1>4, <1>5 DEF t

LEMMA SetOfConcat ==
  ASSUME NEW T, NEW s \in Seq(T), NEW t \in Seq(T)
  PROVE  /\ Range(s \o t) = Range(s) \cup Range(t)
         /\ IsInjective(s \o t) <=>
              IsInjective(s) /\ IsInjective(t) /\ Range(s) \cap Range(t) = {}
<1>. DEFINE u == s \o t
<1>1. /\ u \in Seq(T) /\ Len(s) \in Nat /\ Len(t) \in Nat /\ Len(u) = Len(s) + Len(t)
      /\ \A i \in 1..Len(s) : i \in 1..Len(u) /\ u[i] = s[i]
      /\ \A i \in 1..Len(t) : Len(s) + i \in 1..Len(u) /\ u[Len(s) + i] = t[i]
      /\ \A i \in 1..Len(u) : i \in 1..Len(s)
                              \/ (i - Len(s) \in 1..Len(t) /\ i = Len(s) + (i - Len(s)))
  <2>1. /\ u \in Seq(T) /\ Len(s) \in Nat /\ Len(t) \in Nat /\ Len(u) = Len(s) + Len(t)
        /\ \A i \in 1..Len(s) + Len(t) : u[i] = IF i <= Len(s) THEN s[i] ELSE t[i - Len(s)]
    BY LenProperties, ConcatProperties
  <2>. HIDE DEF u
  <2>2. ASSUME NEW i \in 1..Len(t) PROVE Len(s) + i \in 1..Len(u) /\ u[Len(s) + i] = t[i]
    <3>1. Len(s) + i \in 1..Len(s) + Len(t) /\ ~(Len(s) + i <= Len(s)) /\ Len(s) + i - Len(s) = i
      BY <2>1
    <3>. QED  BY <2>1, <3>1
  <2>. QED  BY <2>1, <2>2
<1>. HIDE DEF u
<1>2. Range(u) = Range(s) \cup Range(t)
  <2>1. \A x : x \in Range(u) <=> \E i \in 1..Len(u) : u[i] = x
    BY <1>1, SetOf
  <2>2. /\ \A x : x \in Range(s) <=> \E i \in 1..Len(s) : s[i] = x
        /\ \A x : x \in Range(t) <=> \E i \in 1..Len(t) : t[i] = x
    BY SetOf
  <2>3. ASSUME NEW i \in 1..Len(u) PROVE u[i] \in Range(s) \cup Range(t)
    <3>1. CASE i \in 1..Len(s)
      BY <1>1, <2>2, <3>1
    <3>2. CASE i - Len(s) \in 1..Len(t) /\ i = Len(s) + (i - Len(s))
      BY <1>1, <2>2, <3>2
    <3>. QED  BY <1>1, <3>1, <3>2
  <2>4. Range(s) \subseteq Range(u) /\ Range(t) \subseteq Range(u)
    BY <1>1, <2>1, <2>2
  <2>. QED  BY <2>1, <2>3, <2>4
<1>3. ASSUME IsInjective(u)
      PROVE  IsInjective(s) /\ IsInjective(t) /\ Range(s) \cap Range(t) = {}
  <2>1. \A i, j \in 1..Len(u) : u[i] = u[j] => i = j
    BY <1>1, <1>3, SetOf
  <2>2. IsInjective(s)
    BY <1>1, <2>1, SetOf
  <2>3. IsInjective(t)
    <3>. SUFFICES ASSUME NEW i \in 1..Len(t), NEW j \in 1..Len(t), t[i] = t[j] PROVE i = j
      BY SetOf
    <3>1. Len(s) + i = Len(s) + j
      BY <1>1, <2>1
    <3>. QED  BY <1>1, <3>1
  <2>4. ASSUME NEW x, x \in Range(s), x \in Range(t) PROVE FALSE
    <3>1. PICK i \in 1..Len(s), j \in 1..Len(t) : s[i] = x /\ t[j] = x
      BY <2>4, SetOf
    <3>2. i = Len(s) + j
      BY <1>1, <2>1, <3>1
    <3>. QED  BY <1>1, <3>2
  <2>. QED  BY <2>2, <2>3, <2>4
<1>4. ASSUME IsInjective(s), IsInjective(t), Range(s) \cap Range(t) = {}
      PROVE  IsInjective(u)
  <2>. SUFFICES ASSUME NEW i \in 1..Len(u), NEW j \in 1..Len(u), u[i] = u[j] PROVE i = j
    BY <1>1, SetOf
  <2>1. CASE i \in 1..Len(s) /\ j \in 1..Len(s)
    BY <1>1, <1>4, <2>1, SetOf
  <2>2. CASE i - Len(s) \in 1..Len(t) /\ i = Len(s) + (i - Len(s))
             /\ j - Len(s) \in 1..Len(t) /\ j = Len(s) + (j - Len(s))
    <3>1. t[i - Len(s)] = t[j - Len(s)]
      BY <1>1, <2>2
    <3>2. i - Len(s) = j - Len(s)
      BY <1>4, <2>2, <3>1, SetOf
    <3>. QED  BY <2>2, <3>2
  <2>3. ASSUME NEW k \in 1..Len(s), NEW l \in 1..Len(t) PROVE u[k] # u[Len(s) + l]
    <3>1. s[k] \in Range(s) /\ t[l] \in Range(t)
      BY SetOf
    <3>. QED  BY <1>1, <1>4, <3>1
  <2>4. CASE i \in 1..Len(s) /\ j - Len(s) \in 1..Len(t) /\ j = Len(s) + (j - Len(s))
    BY <2>3, <2>4
  <2>5. CASE j \in 1..Len(s) /\ i - Len(s) \in 1..Len(t) /\ i = Len(s) + (i - Len(s))
    BY <2>3, <2>5
  <2>. QED  BY <1>1, <2>1, <2>2, <2>4, <2>5
<1>. QED  BY <1>2, <1>3, <1>4 DEF u

\* It has the other elements, and each as often,
LEMMA WithoutFacts ==
  ASSUME NEW T, NEW S, NEW s \in Seq(T)
  PROVE  /\ Hooks!Without(s, S) \in Seq(T)
         /\ Range(Hooks!Without(s, S)) = Range(s) \ S
         /\ IsInjective(s) => IsInjective(Hooks!Without(s, S))
<1>. DEFINE W(t) == Hooks!Without(t, S)
            A == {t \in Seq(T) : /\ W(t) \in Seq(T) /\ Range(W(t)) = Range(t) \ S
                                 /\ IsInjective(t) => IsInjective(W(t))}
<1>1. <<>> \in A
  <2>1. W(<<>>) = <<>>
    BY WithoutEmpty
  <2>2. <<>> \in Seq(T) /\ Range(<<>>) = {}
    BY EmptySeq, SetOf
  <2>. QED  BY <2>1, <2>2
<1>2. ASSUME NEW t \in Seq(T), NEW e \in T, t \in A PROVE Append(t, e) \in A
  <2>1. /\ W(t) \in Seq(T) /\ Range(W(t)) = Range(t) \ S /\ (IsInjective(t) => IsInjective(W(t)))
        /\ Append(t, e) \in Seq(T)
    BY <1>2, AppendProperties
  <2>2. /\ Range(Append(t, e)) = Range(t) \cup {e}
        /\ IsInjective(Append(t, e)) <=> IsInjective(t) /\ e \notin Range(t)
    BY SetOfAppend
  <2>3. W(Append(t, e)) = IF e \in S THEN W(t) ELSE Append(W(t), e)
    BY WithoutStep
  <2>. HIDE DEF W
  <2>4. CASE e \in S
    BY <2>1, <2>2, <2>3, <2>4
  <2>5. CASE e \notin S
    <3>1. /\ Range(Append(W(t), e)) = Range(W(t)) \cup {e} /\ Append(W(t), e) \in Seq(T)
          /\ IsInjective(Append(W(t), e)) <=> IsInjective(W(t)) /\ e \notin Range(W(t))
      BY <2>1, SetOfAppend, AppendProperties
    <3>. QED  BY <2>1, <2>2, <2>3, <2>5, <3>1
  <2>. QED  BY <2>4, <2>5
<1>. HIDE DEF A
<1>3. Seq(T) \subseteq A
  BY <1>1, <1>2, SeqFrom
<1>. QED  BY <1>3 DEF A

\* and is the same when none is to go, and empty when all are;
LEMMA WithoutAllOrNone ==
  ASSUME NEW T, NEW S, NEW s \in Seq(T)
  PROVE  /\ Range(s) \cap S = {} => Hooks!Without(s, S) = s
         /\ Range(s) \subseteq S => Hooks!Without(s, S) = <<>>
<1>. DEFINE W(t) == Hooks!Without(t, S)
            A == {t \in Seq(T) : /\ Range(t) \cap S = {} => W(t) = t
                                 /\ Range(t) \subseteq S => W(t) = <<>>}
<1>1. <<>> \in A
  <2>1. W(<<>>) = <<>>
    BY WithoutEmpty
  <2>. QED  BY <2>1, EmptySeq
<1>2. ASSUME NEW t \in Seq(T), NEW e \in T, t \in A PROVE Append(t, e) \in A
  <2>1. /\ Append(t, e) \in Seq(T) /\ Range(Append(t, e)) = Range(t) \cup {e}
        /\ W(Append(t, e)) = IF e \in S THEN W(t) ELSE Append(W(t), e)
    BY AppendProperties, SetOfAppend, WithoutStep
  <2>. QED  BY <1>2, <2>1
<1>. HIDE DEF A
<1>3. Seq(T) \subseteq A
  BY <1>1, <1>2, SeqFrom
<1>. QED  BY <1>3 DEF A

\* and it is taken of two sequences one after the other.
LEMMA WithoutConcat ==
  ASSUME NEW T, NEW S, NEW s \in Seq(T), NEW u \in Seq(T)
  PROVE  Hooks!Without(s \o u, S) = Hooks!Without(s, S) \o Hooks!Without(u, S)
<1>. DEFINE W(t) == Hooks!Without(t, S)
            A == {t \in Seq(T) : W(s \o t) = W(s) \o W(t)}
<1>1. <<>> \in A
  <2>1. W(<<>>) = <<>> /\ W(s) \in Seq(T) /\ s \o <<>> = s /\ <<>> \in Seq(T)
    BY WithoutEmpty, WithoutFacts, ConcatEmptySeq, EmptySeq
  <2>2. W(s) \o <<>> = W(s)
    BY <2>1, ConcatEmptySeq
  <2>. QED  BY <2>1, <2>2
<1>2. ASSUME NEW t \in Seq(T), NEW e \in T, t \in A PROVE Append(t, e) \in A
  <2>0. <<e>> \in Seq(T) /\ s \o t \in Seq(T) /\ Append(t, e) \in Seq(T)
    BY AppendProperties, ConcatProperties
  <2>1. s \o Append(t, e) = Append(s \o t, e)
    <3>1. Append(t, e) = t \o <<e>> /\ Append(s \o t, e) = (s \o t) \o <<e>>
      BY <2>0, AppendIsConcat
    <3>. QED  BY <2>0, <3>1, ConcatAssociative
  <2>2. W(Append(s \o t, e)) = IF e \in S THEN W(s \o t) ELSE Append(W(s \o t), e)
    <3>. DEFINE v == s \o t
    <3>1. v \in Seq(T)
      BY <2>0
    <3>. HIDE DEF v
    <3>2. W(Append(v, e)) = IF e \in S THEN W(v) ELSE Append(W(v), e)
      BY <3>1, WithoutStep
    <3>. QED  BY <3>2 DEF v
  <2>6. W(Append(t, e)) = IF e \in S THEN W(t) ELSE Append(W(t), e)
    BY WithoutStep
  <2>3. W(s \o t) = W(s) \o W(t)
    BY <1>2
  <2>4. W(s) \in Seq(T) /\ W(t) \in Seq(T)
    BY WithoutFacts
  <2>. HIDE DEF W
  <2>5. Append(W(s) \o W(t), e) = W(s) \o Append(W(t), e)
    <3>1. Append(W(t), e) = W(t) \o <<e>> /\ Append(W(s) \o W(t), e) = (W(s) \o W(t)) \o <<e>>
      BY <2>4, AppendIsConcat, ConcatProperties
    <3>2. (W(s) \o W(t)) \o <<e>> = W(s) \o (W(t) \o <<e>>)
      BY <2>0, <2>4, ConcatAssociative, SMTT(20)
    <3>. QED  BY <3>1, <3>2
  <2>. QED  BY <2>0, <2>1, <2>2, <2>3, <2>5, <2>6
<1>. HIDE DEF A
<1>3. Seq(T) \subseteq A
  BY <1>1, <1>2, SeqFrom
<1>. QED  BY <1>3 DEF A

----------------------------------------------------------------------------
(* The attempts of a request.                                              *)

\* The extra attempt that a corrected clock is worth.
Extra == IF skewed THEN 1 ELSE 0

Types ==
  /\ req \in Retry!Requests
  /\ pc \in {"loop", "sending", "answered", "backoff", "done"}
  /\ attempt \in Nat /\ sent \in Nat /\ elapsed \in Nat /\ left \in Nat
  /\ aborted \in BOOLEAN /\ skewed \in BOOLEAN /\ guarded \in BOOLEAN /\ told \in BOOLEAN
  /\ answer \in Retry!Answers \cup {"none"}
  /\ result \in Retry!Answers \cup Retry!Made \cup {"none"}

\* How many attempts have been made, and how many can follow, at each place.
Attempts ==
  /\ pc # "done" => sent = attempt
  /\ pc \in {"loop", "backoff"} => attempt <= MaxRetries + Extra
  /\ pc \in {"sending", "answered"} => attempt <= MaxRetries + 1 + Extra
  /\ pc = "done" => sent <= attempt /\ attempt <= MaxRetries + 2

\* The same for a request that may be repeated because of the clock only.
AttemptsUnsafe ==
  ~req.repeatable /\ ~req.predicate =>
    /\ pc \in {"loop", "backoff"} => sent <= Extra
    /\ sent <= 1 + Extra

\* How far the clock is from the end of the budget, at each place.
Timed ==
  TotalTimeout > 0 =>
    /\ pc = "backoff" => elapsed + left < TotalTimeout
    /\ pc = "loop" /\ sent > 0 => elapsed < TotalTimeout
    /\ pc = "sending" /\ sent > 1 => elapsed + left < TotalTimeout + Timeout
    /\ sent > 1 => elapsed < TotalTimeout + Timeout

RetryInv == Types /\ Attempts /\ AttemptsUnsafe /\ Retry!BodySentOnce /\ Timed /\ Retry!CauseKept

USE DEF Extra

----------------------------------------------------------------------------
\* The invariant holds initially: nothing has been sent.
LEMMA RetryInit == Init => RetryInv
  <1> SUFFICES ASSUME Retry!Init PROVE RetryInv
      BY DEF Init
  <1> USE QueuesAssumption DEF Retry!Init
  <1>1. aborted \in BOOLEAN /\ skewed \in BOOLEAN /\ guarded \in BOOLEAN /\ told \in BOOLEAN
      OBVIOUS
  <1>2. Types
      BY <1>1 DEF Types, QueuesAssumption
  <1>3. Attempts
      BY DEF Attempts, QueuesAssumption
  <1>4. AttemptsUnsafe /\ Retry!BodySentOnce /\ Timed /\ Retry!CauseKept
      BY DEF AttemptsUnsafe, Retry!BodySentOnce, Timed, Retry!CauseKept, QueuesAssumption
  <1> QED BY <1>2, <1>3, <1>4 DEF RetryInv

\* Every step keeps it.
LEMMA RetryNext == RetryInv /\ Retry!Next => RetryInv'
  <1> SUFFICES ASSUME RetryInv, Retry!Next PROVE RetryInv'
      OBVIOUS
  <1> USE QueuesAssumption DEF RetryInv, QueuesAssumption, Retry!Return,
          Types, Attempts, AttemptsUnsafe, Retry!BodySentOnce, Timed, Retry!CauseKept
  <1>1. CASE Retry!LoopAborted
      BY <1>1 DEF Retry!LoopAborted, Retry!Made, Retry!Answers, Retry!Errors
  <1>2. CASE Retry!LoopUnreplayable
      BY <1>2 DEF Retry!LoopUnreplayable, Retry!BodyConsumed, Retry!Made
  <1>3. CASE Retry!Transmit
      BY <1>3 DEF Retry!Transmit, Retry!BodyConsumed
  <1>4. ASSUME NEW a \in Retry!Answers, Retry!Answered(a) PROVE RetryInv'
      BY <1>4 DEF Retry!Answered
  <1>5. ASSUME NEW d \in Backoffs, Retry!Retry(d) PROVE RetryInv'
    <2>1. skewed' \in BOOLEAN /\ guarded' \in BOOLEAN
        BY <1>5 DEF Retry!Retry
    <2>2. Types'
        BY <1>5, <2>1 DEF Retry!Retry
    <2>3. CASE Retry!ClockCorrected
      <3>1. ~skewed /\ skewed'
          BY <1>5, <2>3 DEF Retry!Retry, Retry!ClockCorrected
      <3>2. attempt' = attempt /\ sent' = sent /\ pc' = "backoff" /\ pc = "answered" /\ req' = req
          BY <1>5 DEF Retry!Retry
      <3>3. Attempts' /\ AttemptsUnsafe'
          BY <3>1, <3>2
      <3>4. QED
          BY <1>5, <2>2, <3>3 DEF Retry!Retry, Retry!InBudget
    <2>4. CASE ~Retry!ClockCorrected
      <3>1. Retry!WorthRetrying /\ (skewed' <=> skewed)
          BY <1>5, <2>4 DEF Retry!Retry, Retry!MayRetry
      <3>2. attempt' = attempt /\ sent' = sent /\ pc' = "backoff" /\ pc = "answered" /\ req' = req
          BY <1>5 DEF Retry!Retry
      <3>3. Attempts' /\ AttemptsUnsafe'
          BY <3>1, <3>2 DEF Retry!WorthRetrying
      <3>4. QED
          BY <1>5, <2>2, <3>3 DEF Retry!Retry, Retry!InBudget
    <2>5. QED
        BY <2>3, <2>4
  <1>6. ASSUME NEW d \in Backoffs, Retry!OutOfBudget(d) PROVE RetryInv'
      BY <1>6 DEF Retry!OutOfBudget, Retry!MayRetry, Retry!ClockCorrected, Retry!WorthRetrying
  <1>7. CASE Retry!Finish
      BY <1>7 DEF Retry!Finish, Retry!Made, Retry!Thrown
  <1>8. CASE Retry!Wake
      BY <1>8 DEF Retry!Wake
  <1>9. CASE Retry!WakeAbortedGuarded
      BY <1>9 DEF Retry!WakeAbortedGuarded, Retry!Answers, Retry!Errors
  <1>10. CASE Retry!WakeAborted
      BY <1>10 DEF Retry!WakeAborted, Retry!Answers, Retry!Errors
  <1>11. CASE Retry!Abort
      BY <1>11 DEF Retry!Abort
  <1>12. CASE Retry!Tick
      BY <1>12 DEF Retry!Tick
  <1>13. "ETIMEOUT" \in Retry!Answers
      BY DEF Retry!Answers, Retry!Errors
  <1> QED BY <1>1, <1>2, <1>3, <1>4, <1>5, <1>6, <1>7, <1>8, <1>9, <1>10, <1>11, <1>12,
             <1>13 DEF Retry!Next, Retry!Run

LEMMA RetryKept == Spec => []RetryInv
  <1>1. RetryInv /\ [Next]_vars => RetryInv'
    <2>1. RetryInv /\ UNCHANGED retry => RetryInv'
        BY DEF retry, RetryInv, Types, Attempts, AttemptsUnsafe, Retry!BodySentOnce, Timed,
               Retry!CauseKept
    <2> QED BY <2>1, PartsMove, RetryNext DEF OnlyOf
  <1> QED BY <1>1, RetryInit, PTL DEF Spec

\* What the invariant is for: the properties of the loop.
LEMMA RetryShows == RetryInv => Retry!TypeOK /\ Retry!SentSafely /\ Retry!BackoffInBudget
  <1> SUFFICES ASSUME RetryInv PROVE Retry!TypeOK /\ Retry!SentSafely /\ Retry!BackoffInBudget
      OBVIOUS
  <1>1. Retry!TypeOK
      BY QueuesAssumption DEF RetryInv, Types, Attempts, Retry!TypeOK, QueuesAssumption
  <1>2. Retry!SafeToRepeat
      BY DEF RetryInv, Types, AttemptsUnsafe, Retry!SafeToRepeat
  <1>3. Retry!BackoffInBudget
      BY DEF RetryInv, Timed, Retry!BackoffInBudget
  <1> QED BY <1>1, <1>2, <1>3 DEF RetryInv, Retry!SentSafely

\* Whatever the backoffs, none outlives the budget, and the request outlives it by less than
\* one deadline.
THEOREM BackoffInBudgetCorrect == Spec => []BackoffInBudget
  BY RetryKept, RetryShows, PTL DEF BackoffInBudget

\* The caller is never told of a cause that the loop has made up.
THEOREM CauseKeptCorrect == Spec => []CauseKept
  BY RetryKept, PTL DEF RetryInv, CauseKept
----------------------------------------------------------------------------
(* A queue that is sent in bursts.                                         *)

\* A request waits in the queue once.
QueuedOnce == \A j, k \in 1..Len(batched) : batched[j] = batched[k] => j = k

BatchInv == Batch!TypeOK /\ Batch!SentOnce /\ Batch!QueueFlushed /\ QueuedOnce

LEMMA Limits == MaxBatch \in Nat \ {0}
  BY QueuesAssumption DEF QueuesAssumption

\* The books of a queue that is a sequence.
LEMMA BooksOf ==
  ASSUME NEW q \in Seq(Items), NEW i PROVE i \in Batch!Range(q) <=> \E j \in 1..Len(q) : q[j] = i
  BY LenProperties DEF Batch!Range

LEMMA BatchInit == Init => BatchInv
<1>. SUFFICES ASSUME Batch!Init PROVE BatchInv
  BY DEF Init
<1>. USE DEF Batch!Init
<1>1. Len(<<>>) < MaxBatch /\ batched \in Seq(Items)
  BY Limits
<1>2. Batch!TypeOK
  BY <1>1 DEF Batch!TypeOK
<1>3. Batch!SentOnce /\ Batch!QueueFlushed /\ QueuedOnce
  BY DEF Batch!SentOnce, Batch!QueueFlushed, QueuedOnce, Batch!Range
<1>. QED  BY <1>2, <1>3 DEF BatchInv

\* A flush sends all of a queue q of no more than MaxBatch, each of it for the first time.
LEMMA Flushes ==
  ASSUME BatchInv, NEW q \in Seq(Items), Len(q) <= MaxBatch,
         \A j, k \in 1..Len(q) : q[j] = q[k] => j = k,
         \A j \in 1..Len(q) : promise[q[j]] \in {"new", "queued"},
         \A i \in Items : promise[i] = "queued" => \E j \in 1..Len(q) : q[j] = i,
         Batch!FlushNow(q, Batch!Burst(q)), delayed' \in BOOLEAN, tasks' \in Nat, signal' \subseteq Items
  PROVE  BatchInv'
<1>1. Len(q) \in Nat /\ DOMAIN q = 1..Len(q) /\ \A j \in 1..Len(q) : q[j] \in Items
  BY LenProperties, ElementOfSeq
<1>2. Batch!Burst(q) = q
  <2>1. (IF Len(q) < MaxBatch THEN Len(q) ELSE MaxBatch) = Len(q)
    <3>1. PICK n \in Nat : n = Len(q)
      BY ONLY <1>1
    <3>2. PICK m \in Nat : m = MaxBatch
      BY Limits
    <3>3. n <= m
      BY <3>1, <3>2
    <3>4. (IF n < m THEN n ELSE m) = n
      BY ONLY <3>3
    <3>. QED  BY ONLY <3>1, <3>2, <3>4
  <2>. QED  BY <2>1, SubSeqFull DEF Batch!Burst
<1>3. batched' = <<>>
  BY <1>1, <1>2, SubSeqEmpty DEF Batch!FlushNow
<1>4. /\ timer' = FALSE
      /\ promise' = [i \in Items |-> IF \E j \in 1..Len(q) : q[j] = i THEN "sent" ELSE promise[i]]
      /\ sends' = [i \in Items |-> IF \E j \in 1..Len(q) : q[j] = i THEN sends[i] + 1 ELSE sends[i]]
  BY <1>1, <1>2 DEF Batch!FlushNow, Batch!Range
<1>5. sends \in [Items -> Nat] /\ promise \in [Items -> {"new", "queued", "sent", "answered", "aborted"}]
  BY DEF BatchInv, Batch!TypeOK
<1>6. Batch!TypeOK'
  <2>1. batched' \in Seq(Items) /\ Len(batched') < MaxBatch
    BY <1>3, Limits, EmptySeq
  <2>2. promise' \in [Items -> {"new", "queued", "sent", "answered", "aborted"}]
    BY <1>4, <1>5
  <2>3. sends' \in [Items -> Nat]
    BY <1>4, <1>5
  <2>. QED  BY <1>4, <2>1, <2>2, <2>3 DEF Batch!TypeOK
<1>7. Batch!SentOnce'
  <2>. SUFFICES ASSUME NEW i \in Items
                PROVE  /\ sends'[i] = IF promise'[i] \in {"sent", "answered"} THEN 1 ELSE 0
                       /\ promise'[i] # "queued"
    BY <1>3 DEF Batch!SentOnce, Batch!Range
  <2>1. sends[i] = IF promise[i] \in {"sent", "answered"} THEN 1 ELSE 0
    BY DEF BatchInv, Batch!SentOnce
  <2>. QED  BY <1>1, <1>4, <1>5, <2>1
<1>. QED  BY <1>3, <1>6, <1>7 DEF BatchInv, Batch!QueueFlushed, QueuedOnce

LEMMA BatchNext == BatchInv /\ Batch!Next => BatchInv'
<1>. SUFFICES ASSUME BatchInv, Batch!Next PROVE BatchInv'
  OBVIOUS
<1>1. /\ batched \in Seq(Items) /\ Len(batched) \in Nat /\ Len(batched) < MaxBatch
      /\ DOMAIN batched = 1..Len(batched) /\ \A j \in 1..Len(batched) : batched[j] \in Items
  BY LenProperties, ElementOfSeq DEF BatchInv, Batch!TypeOK
<1>2. /\ \A i \in Items : /\ sends[i] = IF promise[i] \in {"sent", "answered"} THEN 1 ELSE 0
                          /\ promise[i] = "queued" <=> \E j \in 1..Len(batched) : batched[j] = i
      /\ promise \in [Items -> {"new", "queued", "sent", "answered", "aborted"}]
      /\ sends \in [Items -> Nat] /\ delayed \in BOOLEAN /\ timer \in BOOLEAN /\ tasks \in Nat
      /\ signal \subseteq Items
      /\ batched # <<>> => timer \/ tasks > 0
      /\ \A j, k \in 1..Len(batched) : batched[j] = batched[k] => j = k
  BY <1>1, SMTT(20) DEF BatchInv, Batch!TypeOK, Batch!SentOnce, Batch!Range, Batch!QueueFlushed, QueuedOnce
<1>3. MaxBatch \in Nat
  BY Limits
<1>4. CASE Batch!Fire \/ Batch!Flush
  <2>1. /\ Batch!FlushNow(batched, Batch!Burst(batched))
        /\ delayed' = delayed /\ signal' = signal /\ tasks' \in Nat
    BY <1>2, <1>4 DEF Batch!Fire, Batch!Flush
  <2>2. Len(batched) <= MaxBatch
    BY <1>1, <1>3
  <2>. QED  BY <1>1, <1>2, <2>1, <2>2, Flushes
<1>5. ASSUME NEW i \in Items, Batch!EnqueueAborted(i) PROVE BatchInv'
  BY <1>2, <1>5 DEF Batch!EnqueueAborted, BatchInv, Batch!TypeOK, Batch!SentOnce, Batch!QueueFlushed,
                    QueuedOnce, Batch!Range
<1>6. ASSUME NEW i \in Items, promise[i] = "new"
      PROVE  LET q == Append(batched, i)
             IN  /\ q \in Seq(Items) /\ Len(q) = Len(batched) + 1
                 /\ \A j, k \in 1..Len(q) : q[j] = q[k] => j = k
                 /\ \A j \in 1..Len(q) : promise[q[j]] \in {"new", "queued"}
                 /\ \A e \in Items : (\E j \in 1..Len(q) : q[j] = e) <=> promise[e] = "queued" \/ e = i
  <2>. DEFINE q == Append(batched, i)
  <2>1. q \in Seq(Items) /\ Len(q) = Len(batched) + 1 /\ q[Len(batched) + 1] = i
        /\ \A j \in 1..Len(batched) : q[j] = batched[j]
    BY <1>1, AppendProperties
  <2>. HIDE DEF q
  <2>2. \A j \in 1..Len(q) : j \in 1..Len(batched) \/ j = Len(batched) + 1
    BY <1>1, <2>1
  <2>3. \A j \in 1..Len(batched) : batched[j] # i /\ promise[batched[j]] = "queued"
    BY <1>1, <1>2, <1>6
  <2>4. \A j, k \in 1..Len(q) : q[j] = q[k] => j = k
    BY <1>1, <1>2, <2>1, <2>2, <2>3, SMTT(20)
  <2>5. \A j \in 1..Len(q) : promise[q[j]] \in {"new", "queued"}
    BY <1>1, <1>6, <2>1, <2>2, <2>3
  <2>6. ASSUME NEW e \in Items
        PROVE  (\E j \in 1..Len(q) : q[j] = e) <=> promise[e] = "queued" \/ e = i
    <3>1. Len(batched) + 1 \in 1..Len(q) /\ \A j \in 1..Len(batched) : j \in 1..Len(q)
      BY <1>1, <2>1
    <3>2. promise[e] = "queued" <=> \E j \in 1..Len(batched) : batched[j] = e
      BY <1>2
    <3>. QED  BY <2>1, <2>2, <3>1, <3>2
  <2>. QED  BY <2>1, <2>4, <2>5, <2>6 DEF q
<1>7. ASSUME NEW i \in Items, Batch!EnqueueLast(i) PROVE BatchInv'
  <2>. DEFINE q == Append(batched, i)
  <2>1. promise[i] = "new" /\ Batch!FlushNow(q, Batch!Burst(q)) /\ UNCHANGED <<delayed, tasks, signal>>
    BY <1>7 DEF Batch!EnqueueLast
  <2>2. /\ q \in Seq(Items) /\ Len(q) = Len(batched) + 1
        /\ \A j, k \in 1..Len(q) : q[j] = q[k] => j = k
        /\ \A j \in 1..Len(q) : promise[q[j]] \in {"new", "queued"}
        /\ \A e \in Items : (\E j \in 1..Len(q) : q[j] = e) <=> promise[e] = "queued" \/ e = i
    BY <1>6, <2>1
  <2>. HIDE DEF q
  <2>3. Len(q) <= MaxBatch
    BY <1>1, <1>3, <2>2
  <2>. QED  BY <1>2, <2>1, <2>2, <2>3, Flushes, SMTT(20)
<1>8. ASSUME NEW i \in Items, Batch!EnqueueWait(i) PROVE BatchInv'
  <2>1. /\ promise[i] = "new" /\ Len(batched) + 1 < MaxBatch /\ batched' = Append(batched, i)
        /\ promise' = [promise EXCEPT ![i] = "queued"] /\ sends' = sends
        /\ delayed' = delayed /\ signal' = signal
    BY <1>8 DEF Batch!EnqueueWait
  <2>2. timer' \in BOOLEAN /\ tasks' \in Nat /\ (timer' \/ tasks' > 0)
    <3>1. CASE delayed
      BY <1>2, <1>8, <3>1 DEF Batch!EnqueueWait
    <3>2. CASE ~delayed
      BY <1>2, <1>8, <3>2 DEF Batch!EnqueueWait
    <3>. QED  BY <3>1, <3>2
  <2>3. /\ batched' \in Seq(Items) /\ Len(batched') = Len(batched) + 1
        /\ \A j, k \in 1..Len(batched') : batched'[j] = batched'[k] => j = k
        /\ \A e \in Items : (\E j \in 1..Len(batched') : batched'[j] = e) <=> promise[e] = "queued" \/ e = i
    BY <1>6, <2>1
  <2>4. Batch!TypeOK'
    BY <1>1, <1>2, <2>1, <2>2, <2>3 DEF Batch!TypeOK
  <2>6. Batch!SentOnce'
    <3>1. ASSUME NEW e \in Items
          PROVE  /\ sends'[e] = IF promise'[e] \in {"sent", "answered"} THEN 1 ELSE 0
                 /\ promise'[e] = "queued" <=> \E j \in 1..Len(batched') : batched'[j] = e
      BY <1>2, <2>1, <2>3
    <3>. QED  BY <2>3, <3>1, BooksOf DEF Batch!SentOnce
  <2>. QED  BY <2>2, <2>3, <2>4, <2>6 DEF BatchInv, Batch!QueueFlushed, QueuedOnce
<1>9. ASSUME NEW i \in Items, Batch!Abort(i) PROVE BatchInv'
  <2>1. CASE promise[i] # "queued"
    BY <1>2, <1>9, <2>1 DEF Batch!Abort, BatchInv, Batch!TypeOK, Batch!SentOnce, Batch!QueueFlushed,
                            QueuedOnce, Batch!Range
  <2>2. CASE promise[i] = "queued"
    <3>. DEFINE k == CHOOSE k \in DOMAIN batched : batched[k] = i
    <3>1. k \in 1..Len(batched) /\ batched[k] = i
      BY <1>1, <1>2, <2>2
    <3>2. batched' = RemoveAt(batched, k)
      BY <1>9, <2>2 DEF Batch!Abort, Batch!Aborted, RemoveAt
    <3>. HIDE DEF k
    <3>3. /\ batched' \in Seq(Items) /\ Len(batched') = Len(batched) - 1
          /\ \A j \in 1..Len(batched') : batched'[j] = batched[IF j < k THEN j ELSE j + 1]
      BY <1>1, <3>1, <3>2, Removed, ZenonT(30)
    <3>4. ASSUME NEW e \in Items
          PROVE  (\E j \in 1..Len(batched') : batched'[j] = e) <=> promise[e] = "queued" /\ e # i
      <4>1. ASSUME NEW j \in 1..Len(batched'), batched'[j] = e PROVE promise[e] = "queued" /\ e # i
        <5>1. (IF j < k THEN j ELSE j + 1) \in 1..Len(batched) /\ (IF j < k THEN j ELSE j + 1) # k
          BY <1>1, <3>1, <3>3
        <5>. QED  BY <1>2, <3>1, <3>3, <4>1, <5>1
      <4>2. ASSUME promise[e] = "queued", e # i PROVE \E j \in 1..Len(batched') : batched'[j] = e
        <5>1. PICK j \in 1..Len(batched) : batched[j] = e
          BY <1>2, <4>2
        <5>2. j # k
          BY <3>1, <4>2, <5>1
        <5>3. CASE j < k
          BY <1>1, <3>1, <3>3, <5>1, <5>3
        <5>4. CASE j > k
          <6>1. j - 1 \in 1..Len(batched') /\ ~(j - 1 < k) /\ (j - 1) + 1 = j
            BY <1>1, <3>1, <3>3, <5>4
          <6>. QED  BY <3>3, <5>1, <6>1
        <5>. QED  BY <1>1, <3>1, <5>2, <5>3, <5>4
      <4>. QED  BY <4>1, <4>2
    <3>5. ASSUME NEW j \in 1..Len(batched'), NEW l \in 1..Len(batched'), batched'[j] = batched'[l]
          PROVE  j = l
      <4>. DEFINE old(n) == IF n < k THEN n ELSE n + 1
      <4>1. old(j) \in 1..Len(batched) /\ old(l) \in 1..Len(batched)
        BY <1>1, <3>1, <3>3
      <4>2. batched[old(j)] = batched[old(l)]
        BY <3>3, <3>5
      <4>3. old(j) = old(l)
        BY <1>2, <4>1, <4>2
      <4>. QED  BY <1>1, <3>1, <3>3, <4>3
    <3>6. /\ promise' = [promise EXCEPT ![i] = "aborted"] /\ sends' = sends /\ delayed' = delayed
          /\ timer' = timer /\ tasks' = tasks /\ signal' = signal \cup {i}
      BY <1>9, <2>2 DEF Batch!Abort
    <3>7. batched # <<>> /\ DOMAIN batched' = 1..Len(batched')
      BY <3>1, <3>3, LenProperties
    <3>8. Batch!TypeOK'
      BY <1>1, <1>2, <1>3, <3>3, <3>6 DEF Batch!TypeOK
    <3>9. Batch!SentOnce'
      <4>1. ASSUME NEW e \in Items
            PROVE  /\ sends'[e] = IF promise'[e] \in {"sent", "answered"} THEN 1 ELSE 0
                   /\ promise'[e] = "queued" <=> \E j \in 1..Len(batched') : batched'[j] = e
        BY <1>2, <2>2, <3>4, <3>6
      <4>. QED  BY <3>3, <4>1, BooksOf DEF Batch!SentOnce
    <3>. QED  BY <1>2, <3>5, <3>6, <3>7, <3>8, <3>9 DEF BatchInv, Batch!QueueFlushed, QueuedOnce
  <2>. QED  BY <2>1, <2>2
<1>10. ASSUME NEW i \in Items, Batch!Settle(i) PROVE BatchInv'
  BY <1>2, <1>10 DEF Batch!Settle, BatchInv, Batch!TypeOK, Batch!SentOnce, Batch!QueueFlushed,
                     QueuedOnce, Batch!Range
<1>. QED  BY <1>4, <1>5, <1>7, <1>8, <1>9, <1>10 DEF Batch!Next, Batch!Enqueue

LEMMA BatchKept == Spec => []BatchInv
<1>1. BatchInv /\ [Next]_vars => BatchInv'
  <2>1. BatchInv /\ UNCHANGED batch => BatchInv'
    BY DEF batch, BatchInv, Batch!TypeOK, Batch!SentOnce, Batch!QueueFlushed, QueuedOnce
  <2>. QED  BY <2>1, PartsMove, BatchNext DEF OnlyOf
<1>. QED  BY <1>1, BatchInit, PTL DEF Spec

----------------------------------------------------------------------------
(* Hooks that change while they run.                                       *)

\* What is in the list, in an array that is run, or called, was registered; what a run has to
\* remove has run; and a run that is over, or has not begun, awaits nothing.
Registered ==
  /\ Range(list) \subseteq added /\ added \subseteq Entries
  /\ \A r \in Runs :
       /\ spent[r] \subseteq used
       /\ walk[r] # None => Range(walk[r]) \subseteq added
       /\ inside[r] # None => inside[r] \in added /\ phase[r] = "running"

\* The manager's array has the entries that come first before the others.
EarlyFirst(s, a, b) == s = a \o b /\ Range(a) \subseteq Early /\ Range(b) \cap Early = {}

InOrder == kind = "manager" => \E a, b \in Seq(Entries) : EarlyFirst(list, a, b)

\* A run has called its copy up to the next one.
CopyWalked(r) ==
  /\ walk[r] = IF kind = "registry" THEN Hooks!Sorted(present[r]) ELSE present[r]
  /\ Len(called[r]) = next[r] - 1 /\ next[r] - 1 <= Len(walk[r])
  /\ \A j \in 1..Len(called[r]) : called[r][j] = walk[r][j]

\* The manager's run has called what was registered as it began, or comes to it.
ArrayWalked(r) ==
  \A e \in Range(present[r]) :
    \/ e \in Range(called[r])
    \/ \E j \in 1..Len(Hooks!Walked(r)) : j >= next[r] /\ Hooks!Walked(r)[j] = e

\* Where a run is, and what it has called.
OnItsWay(r) ==
  /\ phase[r] = "new" => next[r] = 1 /\ called[r] = <<>>
  /\ phase[r] = "running" => IF kind = "manager" THEN ArrayWalked(r) ELSE CopyWalked(r)
  /\ phase[r] = "done" =>
       IF kind = "manager" THEN Range(present[r]) \subseteq Range(called[r])
       ELSE called[r] = IF kind = "registry" THEN Hooks!Sorted(present[r]) ELSE present[r]

HooksInv == /\ Hooks!TypeOK /\ Hooks!RegistrationStands /\ Registered /\ InOrder
            /\ \A r \in Runs : OnItsWay(r)

LEMMA HooksAssumed == None \notin Entries /\ None \notin Seq(Entries) /\ Once \subseteq Entries
  BY QueuesAssumption DEF QueuesAssumption

LEMMA HooksInit == Init => HooksInv
<1>. SUFFICES ASSUME Hooks!Init PROVE HooksInv
  BY DEF Init
<1>. USE DEF Hooks!Init
<1>1. <<>> \in Seq(Entries) /\ Range(<<>>) = {} /\ IsInjective(<<>>)
  BY EmptySeq DEF Range, IsInjective
<1>2. Hooks!TypeOK
  BY <1>1 DEF Hooks!TypeOK
<1>3. Hooks!RegistrationStands
  BY <1>1, SameSets DEF Hooks!RegistrationStands
<1>4. InOrder
  <2>1. EarlyFirst(list, <<>>, <<>>)
    BY <1>1, ConcatEmptySeq DEF EarlyFirst
  <2>. QED  BY <1>1, <2>1 DEF InOrder
<1>. QED  BY <1>1, <1>2, <1>3, <1>4 DEF HooksInv, Registered, OnItsWay

\* What is known of a list that is sorted,
LEMMA SortedFacts ==
  ASSUME NEW s \in Seq(Entries)
  PROVE  Hooks!Sorted(s) \in Seq(Entries) /\ Range(Hooks!Sorted(s)) = Range(s)
         /\ (IsInjective(s) => IsInjective(Hooks!Sorted(s)))
<1>. DEFINE a == Hooks!Without(s, Entries \ Early)
            b == Hooks!Without(s, Early)
<1>1. /\ a \in Seq(Entries) /\ Range(a) = Range(s) \ (Entries \ Early)
      /\ IsInjective(s) => IsInjective(a)
      /\ b \in Seq(Entries) /\ Range(b) = Range(s) \ Early
      /\ IsInjective(s) => IsInjective(b)
      /\ Range(s) \subseteq Entries
  BY WithoutFacts, SetOf
<1>. HIDE DEF a, b
<1>2. /\ a \o b \in Seq(Entries) /\ Range(a \o b) = Range(a) \cup Range(b)
      /\ IsInjective(a \o b) <=> IsInjective(a) /\ IsInjective(b) /\ Range(a) \cap Range(b) = {}
  BY <1>1, SetOfConcat, ConcatProperties
<1>3. Hooks!Sorted(s) = a \o b
  BY DEF Hooks!Sorted, a, b
<1>. QED  BY <1>1, <1>2, <1>3

\* and of one in order to which an entry is added: it is in order, and an entry moves by one
\* place at most, towards its end.
LEMMA Inserted ==
  ASSUME NEW old \in Seq(Entries), NEW a \in Seq(Entries), NEW b \in Seq(Entries),
         EarlyFirst(old, a, b), NEW e \in Entries
  PROVE  /\ \E c, d \in Seq(Entries) : EarlyFirst(Hooks!Sorted(Append(old, e)), c, d)
         /\ \A j \in 1..Len(old) :
              \E k \in 1..Len(Hooks!Sorted(Append(old, e))) :
                k >= j /\ Hooks!Sorted(Append(old, e))[k] = old[j]
<1>. DEFINE new == Hooks!Sorted(Append(old, e))
            W(s, S) == Hooks!Without(s, S)
<1>1. /\ old = a \o b /\ Range(a) \subseteq Early /\ Range(b) \cap Early = {}
      /\ <<>> \in Seq(Entries)
  BY EmptySeq DEF EarlyFirst
<1>2. W(a, Entries \ Early) = a /\ W(b, Early) = b
  BY <1>1, WithoutAllOrNone
<1>3. W(a, Early) = <<>> /\ W(b, Entries \ Early) = <<>>
  <2>1. Range(b) \subseteq Entries \ Early
    BY <1>1, SetOf
  <2>. QED  BY <1>1, <2>1, WithoutAllOrNone
<1>4. W(old, Entries \ Early) = a /\ W(old, Early) = b
  <2>1. W(old, Entries \ Early) = W(a, Entries \ Early) \o W(b, Entries \ Early)
    BY <1>1, WithoutConcat, SMTT(20)
  <2>2. W(old, Early) = W(a, Early) \o W(b, Early)
    BY <1>1, WithoutConcat
  <2>. QED  BY <1>1, <1>2, <1>3, <2>1, <2>2, ConcatEmptySeq
<1>5. W(Append(old, e), Entries \ Early) = IF e \in Entries \ Early THEN a ELSE Append(a, e)
  <2>1. W(Append(old, e), Entries \ Early)
          = IF e \in Entries \ Early THEN W(old, Entries \ Early)
                                     ELSE Append(W(old, Entries \ Early), e)
    BY WithoutStep
  <2>. QED  BY <1>4, <2>1
<1>6. W(Append(old, e), Early) = IF e \in Early THEN b ELSE Append(b, e)
  <2>1. W(Append(old, e), Early)
          = IF e \in Early THEN W(old, Early) ELSE Append(W(old, Early), e)
    BY WithoutStep
  <2>. QED  BY <1>4, <2>1
<1>7. new = W(Append(old, e), Entries \ Early) \o W(Append(old, e), Early)
  BY DEF Hooks!Sorted
<1>8. /\ Append(a, e) \in Seq(Entries) /\ Range(Append(a, e)) = Range(a) \cup {e}
      /\ Append(b, e) \in Seq(Entries) /\ Range(Append(b, e)) = Range(b) \cup {e}
  BY AppendProperties, SetOfAppend
<1>9. /\ Len(a) \in Nat /\ Len(b) \in Nat /\ Len(old) = Len(a) + Len(b)
      /\ \A i \in 1..(Len(a) + Len(b)) : old[i] = IF i <= Len(a) THEN a[i] ELSE b[i - Len(a)]
  BY <1>1, LenProperties, ConcatProperties
<1>. HIDE DEF W, new
<1>10. CASE e \in Early
  <2>. DEFINE c == Append(a, e)
  <2>1. new = c \o b /\ c \in Seq(Entries) /\ Range(c) \subseteq Early
    BY <1>1, <1>5, <1>6, <1>7, <1>8, <1>10
  <2>2. Len(c) = Len(a) + 1 /\ \A i \in 1..Len(a) : c[i] = a[i]
    BY AppendProperties
  <2>. HIDE DEF c
  <2>3. /\ Len(new) = Len(c) + Len(b)
        /\ \A i \in 1..(Len(c) + Len(b)) : new[i] = IF i <= Len(c) THEN c[i] ELSE b[i - Len(c)]
    BY <2>1, ConcatProperties
  <2>4. ASSUME NEW j \in 1..Len(old) PROVE \E k \in 1..Len(new) : k >= j /\ new[k] = old[j]
    <3>1. CASE j <= Len(a)
      <4>1. j \in 1..Len(new) /\ new[j] = old[j]
        BY <1>9, <2>2, <2>3, <3>1
      <4>. QED  BY <4>1
    <3>2. CASE j > Len(a)
      <4>1. j + 1 \in 1..Len(new) /\ j + 1 >= j /\ j + 1 - Len(c) = j - Len(a) /\ ~(j + 1 <= Len(c))
        BY <1>9, <2>2, <2>3, <3>2
      <4>2. new[j + 1] = old[j]
        BY <1>9, <2>2, <2>3, <3>2, <4>1
      <4>. QED  BY <4>1, <4>2
    <3>. QED  BY <1>9, <3>1, <3>2
  <2>5. EarlyFirst(new, c, b)
    BY <1>1, <2>1 DEF EarlyFirst
  <2>. QED  BY <2>1, <2>4, <2>5 DEF new
<1>11. CASE e \notin Early
  <2>. DEFINE d == Append(b, e)
  <2>1. new = a \o d /\ d \in Seq(Entries) /\ Range(d) \cap Early = {}
    BY <1>1, <1>5, <1>6, <1>7, <1>8, <1>11
  <2>2. Len(d) = Len(b) + 1 /\ \A i \in 1..Len(b) : d[i] = b[i]
    BY AppendProperties
  <2>. HIDE DEF d
  <2>3. /\ Len(new) = Len(a) + Len(d)
        /\ \A i \in 1..(Len(a) + Len(d)) : new[i] = IF i <= Len(a) THEN a[i] ELSE d[i - Len(a)]
    BY <2>1, ConcatProperties
  <2>4. ASSUME NEW j \in 1..Len(old) PROVE \E k \in 1..Len(new) : k >= j /\ new[k] = old[j]
    <3>1. j \in 1..Len(new)
      BY <1>9, <2>2, <2>3
    <3>2. CASE j <= Len(a)
      BY <1>9, <2>2, <2>3, <3>1, <3>2
    <3>3. CASE j > Len(a)
      <4>1. j - Len(a) \in 1..Len(b) /\ ~(j <= Len(a))
        BY <1>9, <3>3
      <4>2. new[j] = d[j - Len(a)] /\ old[j] = b[j - Len(a)]
        BY <1>9, <2>2, <2>3, <4>1
      <4>. QED  BY <2>2, <3>1, <4>1, <4>2, SMTT(20)
    <3>4. j <= Len(a) \/ j > Len(a)
      BY <1>9
    <3>. QED  BY <3>1, <3>2, <3>3, <3>4
  <2>5. EarlyFirst(new, a, d)
    BY <1>1, <2>1 DEF EarlyFirst
  <2>. QED  BY <2>1, <2>4, <2>5 DEF new
<1>. QED  BY <1>10, <1>11

LEMMA RunsSkipNone == HooksInv => Hooks!NoneSkipped
  BY SameSets DEF HooksInv, OnItsWay, Hooks!NoneSkipped

LEMMA HooksTyped ==
  ASSUME HooksInv
  PROVE  /\ kind \in Hooks!Kinds /\ list \in Seq(Entries)
         /\ walk \in [Runs -> Seq(Entries) \cup {None}] /\ next \in [Runs -> Nat \ {0}]
         /\ inside \in [Runs -> Entries \cup {None}] /\ spent \in [Runs -> SUBSET Once]
         /\ phase \in [Runs -> {"new", "running", "done", "cut"}]
         /\ called \in [Runs -> Seq(Entries)] /\ present \in [Runs -> Seq(Entries)]
         /\ removed \subseteq added /\ used \subseteq added /\ added \subseteq Entries
         /\ Range(list) \subseteq added
  BY DEF HooksInv, Hooks!TypeOK, Registered

LEMMA RunRegistered ==
  ASSUME HooksInv, NEW r \in Runs
  PROVE  /\ spent[r] \subseteq used
         /\ walk[r] # None => Range(walk[r]) \subseteq added
         /\ inside[r] # None => inside[r] \in added /\ phase[r] = "running"
  BY DEF HooksInv, Registered

LEMMA Standing ==
  ASSUME HooksInv
  PROVE  /\ added \ (removed \cup used) \subseteq Range(list) /\ Range(list) \cap removed = {}
         /\ \A e \in Range(list) \cap used : \E r \in Runs : e \in spent[r]
         /\ IsInjective(list)
  BY SameSets DEF HooksInv, Hooks!RegistrationStands

\* The same of the next state, from what it has to show.
LEMMA StandsNext ==
  ASSUME list' \in Seq(Entries), IsInjective(list'), added' \subseteq Entries,
         Range(list') \subseteq added', added' \ (removed' \cup used') \subseteq Range(list'),
         Range(list') \cap removed' = {},
         \A e \in Range(list') \cap used' : \E r \in Runs : e \in spent'[r],
         \A r \in Runs : spent'[r] \subseteq used',
         \A r \in Runs : walk'[r] # None => Range(walk'[r]) \subseteq added',
         \A r \in Runs : inside'[r] # None => inside'[r] \in added' /\ phase'[r] = "running"
  PROVE  Hooks!RegistrationStands' /\ Registered'
  BY SameSets DEF Hooks!RegistrationStands, Registered

\* A run that does nothing, and whose array is the same, is where it was.
LEMMA RunRests ==
  ASSUME HooksInv, NEW r \in Runs, kind' = kind,
         phase'[r] = phase[r], next'[r] = next[r], called'[r] = called[r], present'[r] = present[r],
         kind # "manager" => walk'[r] = walk[r],
         phase[r] = "running" => Hooks!Walked(r)' = Hooks!Walked(r)
  PROVE  OnItsWay(r)'
<1>1. OnItsWay(r)
  BY DEF HooksInv
<1>2. CASE phase[r] = "running" /\ kind = "manager"
  <2>1. ArrayWalked(r)'
    BY <1>1, <1>2 DEF OnItsWay, ArrayWalked
  <2>. QED  BY <1>2, <2>1 DEF OnItsWay
<1>3. CASE phase[r] = "running" /\ kind # "manager"
  <2>1. CopyWalked(r)'
    BY <1>1, <1>3 DEF OnItsWay, CopyWalked
  <2>. QED  BY <1>3, <2>1 DEF OnItsWay
<1>4. CASE phase[r] # "running"
  BY <1>1, <1>4 DEF OnItsWay
<1>. QED  BY <1>2, <1>3, <1>4

\* What is taken out of the list while runs go on.
LEMMA Detaches ==
  ASSUME HooksInv, NEW S, list' = Hooks!Without(list, S), kind' = kind,
         walk' = IF S = {} THEN walk ELSE Hooks!Detached
  PROVE  /\ list' \in Seq(Entries) /\ Range(list') = Range(list) \ S /\ IsInjective(list')
         /\ InOrder'
         /\ walk' \in [Runs -> Seq(Entries) \cup {None}]
         /\ \A r \in Runs : walk'[r] # None => Range(walk'[r]) \subseteq added
         /\ \A r \in Runs : kind # "manager" => walk'[r] = walk[r]
         /\ \A r \in Runs : phase[r] = "running" => Hooks!Walked(r)' = Hooks!Walked(r)
<1>1. /\ list \in Seq(Entries) /\ IsInjective(list) /\ Range(list) \subseteq added
      /\ walk \in [Runs -> Seq(Entries) \cup {None}]
      /\ \A r \in Runs : walk[r] # None => Range(walk[r]) \subseteq added
  <2>1. \A r \in Runs : walk[r] # None => Range(walk[r]) \subseteq added
    BY DEF HooksInv, Registered
  <2>. QED  BY <2>1, HooksTyped, Standing
<1>2. list' \in Seq(Entries) /\ Range(list') = Range(list) \ S /\ IsInjective(list')
  BY <1>1, WithoutFacts
<1>3. InOrder'
  <2>. SUFFICES ASSUME kind = "manager"
                PROVE  \E c, d \in Seq(Entries) : EarlyFirst(list', c, d)
    BY DEF InOrder
  <2>1. PICK a, b \in Seq(Entries) : list = a \o b /\ Range(a) \subseteq Early /\ Range(b) \cap Early = {}
    BY DEF HooksInv, InOrder, EarlyFirst
  <2>. DEFINE c == Hooks!Without(a, S)
              d == Hooks!Without(b, S)
  <2>2. c \in Seq(Entries) /\ Range(c) \subseteq Early /\ d \in Seq(Entries) /\ Range(d) \cap Early = {}
    BY <2>1, WithoutFacts
  <2>3. list' = c \o d
    BY <2>1, WithoutConcat
  <2>. HIDE DEF c, d
  <2>. QED  BY <2>2, <2>3 DEF EarlyFirst
<1>4. CASE S = {}
  <2>1. list' = list /\ walk' = walk
    BY <1>1, <1>4, WithoutAllOrNone
  <2>. QED  BY <1>1, <1>2, <1>3, <2>1 DEF Hooks!Walked
<1>5. CASE S # {} /\ kind # "manager"
  <2>1. walk' = walk /\ \A r \in Runs : phase[r] = "running" => walk[r] # None
    <3>1. ASSUME NEW r \in Runs, phase[r] = "running" PROVE walk[r] \in Seq(Entries)
      <4>1. CopyWalked(r) /\ present[r] \in Seq(Entries)
        BY <1>5, <3>1, HooksTyped DEF HooksInv, OnItsWay
      <4>. QED  BY <4>1, SortedFacts DEF CopyWalked
    <3>. QED  BY <1>5, <3>1, HooksAssumed DEF Hooks!Detached
  <2>. QED  BY <1>1, <1>2, <1>3, <2>1 DEF Hooks!Walked
<1>6. CASE S # {} /\ kind = "manager"
  <2>1. walk' = [r \in Runs |-> IF phase[r] = "running" /\ walk[r] = None THEN list ELSE walk[r]]
    BY <1>6 DEF Hooks!Detached, Hooks!Ejected
  <2>2. list # None
    BY <1>1, HooksAssumed
  <2>3. walk' \in [Runs -> Seq(Entries) \cup {None}]
    BY <1>1, <2>1
  <2>4. ASSUME NEW r \in Runs PROVE walk'[r] # None => Range(walk'[r]) \subseteq added
    BY <1>1, <2>1
  <2>5. ASSUME NEW r \in Runs, phase[r] = "running" PROVE Hooks!Walked(r)' = Hooks!Walked(r)
    BY <2>1, <2>2, <2>5 DEF Hooks!Walked
  <2>. QED  BY <1>2, <1>3, <1>6, <2>3, <2>4, <2>5
<1>. QED  BY <1>4, <1>5, <1>6

\* A run that ends, however it does, and removes S.
LEMMA Leaves ==
  ASSUME HooksInv, NEW r \in Runs, NEW end \in {"done", "cut"}, NEW S, Hooks!Leave(r, end, S),
         phase[r] = "running", end = "done" => next[r] > Len(Hooks!Walked(r)),
         spent[r] \subseteq S, used \subseteq used', S \subseteq used', used' \ used \subseteq S,
         used' \subseteq added
  PROVE  HooksInv'
<1>1. /\ kind \in Hooks!Kinds /\ list \in Seq(Entries)
      /\ walk \in [Runs -> Seq(Entries) \cup {None}] /\ next \in [Runs -> Nat \ {0}]
      /\ inside \in [Runs -> Entries \cup {None}] /\ spent \in [Runs -> SUBSET Once]
      /\ phase \in [Runs -> {"new", "running", "done", "cut"}]
      /\ called \in [Runs -> Seq(Entries)] /\ present \in [Runs -> Seq(Entries)]
      /\ removed \subseteq added /\ used \subseteq added /\ added \subseteq Entries
      /\ Range(list) \subseteq added
  BY HooksTyped
<1>2. /\ \A q \in Runs : spent[q] \subseteq used
      /\ \A q \in Runs : inside[q] # None => inside[q] \in added /\ phase[q] = "running"
  BY RunRegistered
<1>3. /\ added \ (removed \cup used) \subseteq Range(list) /\ Range(list) \cap removed = {}
      /\ \A e \in Range(list) \cap used : \E q \in Runs : e \in spent[q]
  BY Standing
<1>4. /\ phase' = [phase EXCEPT ![r] = end] /\ inside' = [inside EXCEPT ![r] = None]
      /\ list' = Hooks!Without(list, S) /\ walk' = IF S = {} THEN walk ELSE Hooks!Detached
      /\ spent' = [spent EXCEPT ![r] = {}]
      /\ kind' = kind /\ next' = next /\ called' = called /\ present' = present
      /\ added' = added /\ removed' = removed
  BY DEF Hooks!Leave, Hooks!Left
<1>5. /\ list' \in Seq(Entries) /\ Range(list') = Range(list) \ S /\ IsInjective(list')
      /\ InOrder' /\ walk' \in [Runs -> Seq(Entries) \cup {None}]
      /\ \A q \in Runs : walk'[q] # None => Range(walk'[q]) \subseteq added
      /\ \A q \in Runs : kind # "manager" => walk'[q] = walk[q]
      /\ \A q \in Runs : phase[q] = "running" => Hooks!Walked(q)' = Hooks!Walked(q)
  BY <1>4, Detaches
<1>6. Hooks!TypeOK'
  BY <1>1, <1>4, <1>5 DEF Hooks!TypeOK
<1>7. Hooks!RegistrationStands' /\ Registered'
  <2>1. ASSUME NEW e \in Range(list') \cap used' PROVE \E q \in Runs : e \in spent'[q]
    <3>1. e \in Range(list) \cap used /\ e \notin spent[r]
      BY <1>5, <2>1
    <3>2. PICK q \in Runs : e \in spent[q]
      BY <1>3, <3>1
    <3>. QED  BY <1>1, <1>4, <3>1, <3>2
  <2>2. added' \ (removed' \cup used') \subseteq Range(list') /\ Range(list') \cap removed' = {}
    BY <1>3, <1>4, <1>5
  <2>3. \A q \in Runs : spent'[q] \subseteq used'
    BY <1>1, <1>2, <1>4
  <2>4. \A q \in Runs : inside'[q] # None => inside'[q] \in added' /\ phase'[q] = "running"
    BY <1>1, <1>2, <1>4
  <2>5. \A q \in Runs : walk'[q] # None => Range(walk'[q]) \subseteq added'
    BY <1>4, <1>5
  <2>6. added' \subseteq Entries /\ Range(list') \subseteq added'
    BY <1>1, <1>4, <1>5
  <2>. QED  BY <1>5, <2>1, <2>2, <2>3, <2>4, <2>5, <2>6, StandsNext
<1>8. ASSUME NEW q \in Runs, q # r PROVE OnItsWay(q)'
  <2>1. Hooks!Walked(q)' = Hooks!Walked(q) \/ phase[q] # "running"
    BY <1>5
  <2>2. kind # "manager" => walk'[q] = walk[q]
    BY <1>5
  <2>. QED  BY <1>1, <1>4, <1>8, <2>1, <2>2, RunRests
<1>9. OnItsWay(r)'
  <2>1. OnItsWay(r)
    BY DEF HooksInv
  <2>2. phase'[r] = end
    BY <1>1, <1>4
  <2>3. CASE end = "cut"
    BY <2>2, <2>3 DEF OnItsWay
  <2>4. CASE end = "done" /\ kind = "manager"
    <3>1. ArrayWalked(r) /\ next[r] > Len(Hooks!Walked(r))
      BY <2>1, <2>4 DEF OnItsWay
    <3>2. Len(Hooks!Walked(r)) \in Nat /\ next[r] \in Nat
      BY <1>1, LenProperties DEF Hooks!Walked
    <3>3. Range(present[r]) \subseteq Range(called[r])
      BY <3>1, <3>2 DEF ArrayWalked
    <3>. QED  BY <1>4, <2>2, <2>4, <3>3 DEF OnItsWay
  <2>5. CASE end = "done" /\ kind # "manager"
    <3>1. CopyWalked(r)
      BY <2>1, <2>5 DEF OnItsWay
    <3>2. walk[r] \in Seq(Entries) /\ walk[r] # None
      BY <1>1, <3>1, SortedFacts, HooksAssumed DEF CopyWalked
    <3>3. next[r] > Len(walk[r])
      BY <2>5, <3>2 DEF Hooks!Walked
    <3>4. Len(called[r]) = Len(walk[r])
      BY <1>1, <3>1, <3>2, <3>3, LenProperties DEF CopyWalked
    <3>5. called[r] = walk[r]
      BY <1>1, <3>1, <3>2, <3>4, SeqEqual DEF CopyWalked
    <3>. QED  BY <1>4, <2>2, <2>5, <3>1, <3>5 DEF OnItsWay, CopyWalked
  <2>. QED  BY <2>3, <2>4, <2>5
<1>. QED  BY <1>5, <1>6, <1>7, <1>8, <1>9 DEF HooksInv

LEMMA HooksNext == HooksInv /\ Hooks!Next => HooksInv'
<1>. SUFFICES ASSUME HooksInv, Hooks!Next PROVE HooksInv'
  OBVIOUS
<1>1. \A r \in Runs : OnItsWay(r)
  BY DEF HooksInv
<1>2. /\ kind \in Hooks!Kinds /\ list \in Seq(Entries)
      /\ walk \in [Runs -> Seq(Entries) \cup {None}] /\ next \in [Runs -> Nat \ {0}]
      /\ inside \in [Runs -> Entries \cup {None}] /\ spent \in [Runs -> SUBSET Once]
      /\ phase \in [Runs -> {"new", "running", "done", "cut"}]
      /\ called \in [Runs -> Seq(Entries)] /\ present \in [Runs -> Seq(Entries)]
      /\ removed \subseteq added /\ used \subseteq added /\ added \subseteq Entries
      /\ Range(list) \subseteq added
  BY HooksTyped
<1>3. /\ \A r \in Runs : spent[r] \subseteq used
      /\ \A r \in Runs : walk[r] # None => Range(walk[r]) \subseteq added
      /\ \A r \in Runs : inside[r] # None => inside[r] \in added /\ phase[r] = "running"
  BY RunRegistered
<1>4. /\ added \ (removed \cup used) \subseteq Range(list) /\ Range(list) \cap removed = {}
      /\ \A e \in Range(list) \cap used : \E r \in Runs : e \in spent[r]
      /\ IsInjective(list)
  BY Standing
<1>5. ASSUME NEW e \in Entries, Hooks!Register(e) PROVE HooksInv'
  <2>1. /\ e \notin added /\ added' = added \cup {e} /\ kind' = kind
        /\ list' = IF kind = "manager" THEN Hooks!Sorted(Append(list, e)) ELSE Append(list, e)
        /\ walk' = walk /\ next' = next /\ inside' = inside /\ spent' = spent /\ phase' = phase
        /\ called' = called /\ present' = present /\ removed' = removed /\ used' = used
    BY <1>5 DEF Hooks!Register, Hooks!runVars
  <2>2. /\ Append(list, e) \in Seq(Entries) /\ Range(Append(list, e)) = Range(list) \cup {e}
        /\ IsInjective(Append(list, e))
    BY <1>2, <1>4, <2>1, SetOfAppend, AppendProperties
  <2>3. list' \in Seq(Entries) /\ Range(list') = Range(list) \cup {e} /\ IsInjective(list')
    BY <2>1, <2>2, SortedFacts
  <2>4. Hooks!TypeOK'
    BY <1>2, <2>1, <2>3 DEF Hooks!TypeOK
  <2>5. Hooks!RegistrationStands' /\ Registered'
    <3>1. /\ added' \subseteq Entries /\ Range(list') \subseteq added'
          /\ added' \ (removed' \cup used') \subseteq Range(list') /\ Range(list') \cap removed' = {}
      BY <1>2, <1>4, <2>1, <2>3
    <3>2. \A x \in Range(list') \cap used' : \E r \in Runs : x \in spent'[r]
      BY <1>2, <1>4, <2>1, <2>3
    <3>3. /\ \A r \in Runs : spent'[r] \subseteq used'
          /\ \A r \in Runs : walk'[r] # None => Range(walk'[r]) \subseteq added'
          /\ \A r \in Runs : inside'[r] # None => inside'[r] \in added' /\ phase'[r] = "running"
      BY <1>3, <2>1
    <3>. QED  BY <2>3, <3>1, <3>2, <3>3, StandsNext
  <2>6. CASE kind = "manager"
    <3>1. PICK a, b \in Seq(Entries) : EarlyFirst(list, a, b)
      BY <2>6 DEF HooksInv, InOrder
    <3>2. /\ \E c, d \in Seq(Entries) : EarlyFirst(list', c, d)
          /\ \A j \in 1..Len(list) : \E k \in 1..Len(list') : k >= j /\ list'[k] = list[j]
      <4>1. list' = Hooks!Sorted(Append(list, e))
        BY <2>1, <2>6
      <4>2. \E c, d \in Seq(Entries) : EarlyFirst(Hooks!Sorted(Append(list, e)), c, d)
        BY <1>2, <3>1, Inserted
      <4>3. \A j \in 1..Len(list) : \E k \in 1..Len(Hooks!Sorted(Append(list, e))) :
                k >= j /\ Hooks!Sorted(Append(list, e))[k] = list[j]
        BY <1>2, <3>1, Inserted
      <4>. QED  BY <4>1, <4>2, <4>3
    <3>3. InOrder'
      BY <3>2 DEF InOrder
    <3>4. ASSUME NEW r \in Runs PROVE OnItsWay(r)'
      <4>1. CASE phase[r] = "running" /\ walk[r] = None
        <5>1. Hooks!Walked(r) = list /\ Hooks!Walked(r)' = list'
          BY <2>1, <4>1 DEF Hooks!Walked
        <5>2. ArrayWalked(r)
          BY <1>1, <2>6, <4>1 DEF OnItsWay
        <5>3. ASSUME NEW x \in Range(present[r])
              PROVE  \/ x \in Range(called[r])
                     \/ \E j \in 1..Len(list') : j >= next[r] /\ list'[j] = x
          <6>1. CASE \E j \in 1..Len(list) : j >= next[r] /\ list[j] = x
            <7>1. PICK j \in 1..Len(list) : j >= next[r] /\ list[j] = x
              BY <6>1
            <7>2. PICK k \in 1..Len(list') : k >= j /\ list'[k] = list[j]
              BY <3>2
            <7>3. k >= next[r]
              BY <1>2, <2>3, <7>1, <7>2, LenProperties
            <7>. QED  BY <7>1, <7>2, <7>3
          <6>. QED  BY <5>1, <5>2, <6>1 DEF ArrayWalked
        <5>4. ArrayWalked(r)'
          BY <2>1, <5>1, <5>3 DEF ArrayWalked
        <5>. QED  BY <2>1, <2>6, <4>1, <5>4 DEF OnItsWay
      <4>2. CASE ~(phase[r] = "running" /\ walk[r] = None)
        BY <2>1, <4>2, RunRests DEF Hooks!Walked
      <4>. QED  BY <4>1, <4>2
    <3>. QED  BY <2>4, <2>5, <3>3, <3>4 DEF HooksInv
  <2>7. CASE kind # "manager"
    <3>1. ASSUME NEW r \in Runs PROVE OnItsWay(r)'
      <4>1. phase[r] = "running" => walk[r] # None
        <5>. SUFFICES ASSUME phase[r] = "running" PROVE walk[r] # None
          OBVIOUS
        <5>1. CopyWalked(r) /\ present[r] \in Seq(Entries)
          BY <1>1, <1>2, <2>7 DEF OnItsWay
        <5>. QED  BY <5>1, SortedFacts, HooksAssumed DEF CopyWalked
      <4>. QED  BY <2>1, <4>1, RunRests DEF Hooks!Walked
    <3>2. InOrder'
      BY <2>1, <2>7 DEF InOrder
    <3>. QED  BY <2>4, <2>5, <3>1, <3>2 DEF HooksInv
  <2>. QED  BY <2>6, <2>7
<1>6. ASSUME NEW S, Hooks!Drop(S) PROVE HooksInv'
  <2>1. /\ S \subseteq Range(list) /\ S # {} /\ list' = Hooks!Without(list, S)
        /\ walk' = Hooks!Detached /\ removed' = removed \cup S /\ kind' = kind
        /\ next' = next /\ inside' = inside /\ spent' = spent /\ phase' = phase
        /\ called' = called /\ present' = present /\ added' = added /\ used' = used
    BY <1>6, SameSets DEF Hooks!Drop
  <2>2. /\ list' \in Seq(Entries) /\ Range(list') = Range(list) \ S /\ IsInjective(list')
        /\ InOrder' /\ walk' \in [Runs -> Seq(Entries) \cup {None}]
        /\ \A r \in Runs : walk'[r] # None => Range(walk'[r]) \subseteq added
        /\ \A r \in Runs : kind # "manager" => walk'[r] = walk[r]
        /\ \A r \in Runs : phase[r] = "running" => Hooks!Walked(r)' = Hooks!Walked(r)
    BY <2>1, Detaches
  <2>3. Hooks!TypeOK'
    BY <1>2, <2>1, <2>2 DEF Hooks!TypeOK
  <2>5. Hooks!RegistrationStands' /\ Registered'
    BY <1>2, <1>3, <1>4, <2>1, <2>2, StandsNext
  <2>6. ASSUME NEW r \in Runs PROVE OnItsWay(r)'
    <3>1. Hooks!Walked(r)' = Hooks!Walked(r) \/ phase[r] # "running"
      BY <2>2
    <3>2. kind # "manager" => walk'[r] = walk[r]
      BY <2>2
    <3>. QED  BY <2>1, <3>1, <3>2, RunRests
  <2>. QED  BY <2>2, <2>3, <2>5, <2>6 DEF HooksInv
<1>7. ASSUME NEW r \in Runs, Hooks!Begin(r) PROVE HooksInv'
  <2>1. /\ phase[r] = "new" /\ phase' = [phase EXCEPT ![r] = "running"]
        /\ walk' = [walk EXCEPT ![r] = Hooks!Taken] /\ present' = [present EXCEPT ![r] = list]
        /\ kind' = kind /\ list' = list /\ next' = next /\ inside' = inside /\ spent' = spent
        /\ called' = called /\ added' = added /\ removed' = removed /\ used' = used
    BY <1>7 DEF Hooks!Begin
  <2>2. /\ kind = "manager" => Hooks!Taken = None
        /\ kind # "manager" => Hooks!Taken = IF kind = "registry" THEN Hooks!Sorted(list) ELSE list
    BY <1>2 DEF Hooks!Taken, Hooks!Kinds
  <2>3. Hooks!Taken # None => Hooks!Taken \in Seq(Entries) /\ Range(Hooks!Taken) \subseteq added
    BY <1>2, <2>2, SortedFacts
  <2>4. Hooks!TypeOK'
    BY <1>2, <2>1, <2>3 DEF Hooks!TypeOK
  <2>5. InOrder'
    BY <2>1 DEF HooksInv, InOrder
  <2>6. Hooks!RegistrationStands' /\ Registered'
    <3>1. \A q \in Runs : walk'[q] # None => Range(walk'[q]) \subseteq added'
      BY <1>2, <1>3, <2>1, <2>3
    <3>2. \A q \in Runs : inside'[q] # None => inside'[q] \in added' /\ phase'[q] = "running"
      BY <1>2, <1>3, <2>1
    <3>. QED  BY <1>2, <1>3, <1>4, <2>1, <3>1, <3>2, StandsNext
  <2>7. ASSUME NEW q \in Runs, q # r PROVE OnItsWay(q)'
    BY <1>2, <2>1, <2>7, RunRests DEF Hooks!Walked
  <2>8. OnItsWay(r)'
    <3>1. next[r] = 1 /\ called[r] = <<>>
      BY <1>1, <2>1 DEF OnItsWay
    <3>2. phase'[r] = "running" /\ present'[r] = list /\ walk'[r] = Hooks!Taken
      BY <1>2, <2>1
    <3>3. CASE kind = "manager"
      <4>1. Hooks!Walked(r)' = list
        BY <2>1, <2>2, <3>2, <3>3 DEF Hooks!Walked
      <4>2. ArrayWalked(r)'
        BY <1>2, <2>1, <3>1, <3>2, <4>1, SetOf DEF ArrayWalked
      <4>. QED  BY <2>1, <3>2, <3>3, <4>2 DEF OnItsWay
    <3>4. CASE kind # "manager"
      <4>1. Hooks!Taken \in Seq(Entries)
        BY <1>2, <2>2, <3>4, SortedFacts
      <4>2. CopyWalked(r)'
        BY <2>1, <2>2, <3>1, <3>2, <3>4, <4>1, EmptySeq, LenProperties DEF CopyWalked
      <4>. QED  BY <2>1, <3>2, <3>4, <4>2 DEF OnItsWay
    <3>. QED  BY <3>3, <3>4
  <2>. QED  BY <2>4, <2>5, <2>6, <2>7, <2>8 DEF HooksInv
<1>8. ASSUME NEW r \in Runs, Hooks!Call(r) PROVE HooksInv'
  <2>. DEFINE array == Hooks!Walked(r)
              e == array[next[r]]
  <2>1. /\ phase[r] = "running" /\ inside[r] = None /\ next[r] <= Len(array)
        /\ inside' = [inside EXCEPT ![r] = e] /\ called' = [called EXCEPT ![r] = Append(@, e)]
        /\ next' = [next EXCEPT ![r] = @ + 1]
        /\ kind' = kind /\ list' = list /\ walk' = walk /\ spent' = spent /\ phase' = phase
        /\ present' = present /\ added' = added /\ removed' = removed /\ used' = used
    BY <1>8 DEF Hooks!Call
  <2>2. array \in Seq(Entries) /\ Range(array) \subseteq added
    BY <1>2, <1>3 DEF Hooks!Walked
  <2>3. next[r] \in 1..Len(array) /\ Len(array) \in Nat
    BY <1>2, <2>1, <2>2, LenProperties
  <2>4. e \in added /\ e \in Entries
    BY <1>2, <2>2, <2>3, SetOf
  <2>5. /\ Append(called[r], e) \in Seq(Entries) /\ Range(Append(called[r], e)) = Range(called[r]) \cup {e}
        /\ Len(Append(called[r], e)) = Len(called[r]) + 1 /\ Len(called[r]) \in Nat
        /\ \A j \in 1..Len(called[r]) : Append(called[r], e)[j] = called[r][j]
        /\ Append(called[r], e)[Len(called[r]) + 1] = e
    BY <1>2, <2>4, SetOfAppend, AppendProperties, LenProperties
  <2>6. Hooks!Walked(r)' = array
    BY <2>1 DEF Hooks!Walked
  <2>. HIDE DEF e, array
  <2>7. Hooks!TypeOK'
    BY <1>2, <2>1, <2>4, <2>5 DEF Hooks!TypeOK
  <2>8. Hooks!RegistrationStands' /\ Registered'
    <3>1. \A q \in Runs : inside'[q] # None => inside'[q] \in added' /\ phase'[q] = "running"
      BY <1>2, <1>3, <2>1, <2>4
    <3>. QED  BY <1>2, <1>3, <1>4, <2>1, <3>1, StandsNext
  <2>9. InOrder'
    BY <2>1 DEF HooksInv, InOrder
  <2>10. ASSUME NEW q \in Runs, q # r PROVE OnItsWay(q)'
    BY <1>2, <2>1, <2>10, RunRests DEF Hooks!Walked
  <2>11. OnItsWay(r)'
    <3>1. called'[r] = Append(called[r], e) /\ next'[r] = next[r] + 1
      BY <1>2, <2>1
    <3>2. CASE kind = "manager"
      <4>1. ArrayWalked(r)
        BY <1>1, <2>1, <3>2 DEF OnItsWay
      <4>2. ASSUME NEW x \in Range(present[r])
            PROVE  \/ x \in Range(called[r]) \cup {e}
                   \/ \E j \in 1..Len(array) : j >= next[r] + 1 /\ array[j] = x
        <5>1. CASE \E j \in 1..Len(array) : j >= next[r] /\ array[j] = x
          <6>1. PICK j \in 1..Len(array) : j >= next[r] /\ array[j] = x
            BY <5>1
          <6>2. j = next[r] \/ j >= next[r] + 1
            BY <2>3, <6>1
          <6>. QED  BY <6>1, <6>2 DEF e
        <5>. QED  BY <4>1, <5>1 DEF ArrayWalked, array
      <4>3. ArrayWalked(r)'
        BY <2>1, <2>5, <2>6, <3>1, <4>2 DEF ArrayWalked
      <4>. QED  BY <2>1, <3>2, <4>3 DEF OnItsWay
    <3>3. CASE kind # "manager"
      <4>1. CopyWalked(r)
        BY <1>1, <2>1, <3>3 DEF OnItsWay
      <4>2. walk[r] \in Seq(Entries) /\ walk[r] # None
        BY <1>2, <4>1, SortedFacts, HooksAssumed DEF CopyWalked
      <4>3. array = walk[r]
        BY <4>2 DEF array, Hooks!Walked
      <4>4. e = walk[r][next[r]]
        BY <4>3 DEF e
      <4>5. Len(called'[r]) = next'[r] - 1 /\ next'[r] - 1 <= Len(walk[r])
        BY <1>2, <2>3, <2>5, <3>1, <4>1, <4>3 DEF CopyWalked
      <4>6. ASSUME NEW j \in 1..Len(called'[r]) PROVE called'[r][j] = walk[r][j]
        <5>1. j \in 1..Len(called[r]) \/ (j = Len(called[r]) + 1 /\ j = next[r])
          BY <1>2, <2>5, <3>1, <4>1, <4>6 DEF CopyWalked
        <5>. QED  BY <2>5, <3>1, <4>1, <4>4, <5>1 DEF CopyWalked
      <4>7. CopyWalked(r)'
        BY <2>1, <4>1, <4>5, <4>6 DEF CopyWalked
      <4>. QED  BY <2>1, <3>3, <4>7 DEF OnItsWay
    <3>. QED  BY <3>2, <3>3
  <2>. QED  BY <2>7, <2>8, <2>9, <2>10, <2>11 DEF HooksInv
<1>9. ASSUME NEW r \in Runs, inside[r] # None
      PROVE  /\ phase[r] = "running" /\ Hooks!OneShot(r) \subseteq Once
             /\ Hooks!OneShot(r) \subseteq added
  BY <1>2, <1>3, <1>9, HooksAssumed DEF Hooks!OneShot
<1>10. ASSUME NEW r \in Runs, Hooks!Return(r) PROVE HooksInv'
  <2>. DEFINE S == IF kind = "registry" THEN Hooks!OneShot(r) ELSE {}
  <2>1. /\ inside[r] # None /\ inside' = [inside EXCEPT ![r] = None]
        /\ used' = used \cup Hooks!OneShot(r)
        /\ kind' = kind /\ walk' = walk /\ next' = next /\ phase' = phase
        /\ called' = called /\ present' = present /\ added' = added /\ removed' = removed
    BY <1>10 DEF Hooks!Return
  <2>2. kind = "registry" => list' = Hooks!Without(list, S) /\ spent' = spent
    BY <1>10 DEF Hooks!Return
  <2>3. kind # "registry" =>
          list' = list /\ spent' = [spent EXCEPT ![r] = @ \cup Hooks!OneShot(r)]
    BY <1>10 DEF Hooks!Return
  <2>4. list' = Hooks!Without(list, S) /\ walk' = IF S = {} THEN walk ELSE Hooks!Detached
    BY <1>2, <2>1, <2>2, <2>3, WithoutAllOrNone DEF Hooks!Detached
  <2>5. /\ list' \in Seq(Entries) /\ Range(list') = Range(list) \ S /\ IsInjective(list')
        /\ InOrder'
        /\ \A q \in Runs : phase[q] = "running" => Hooks!Walked(q)' = Hooks!Walked(q)
    BY <2>1, <2>4, Detaches
  <2>6. Hooks!OneShot(r) \subseteq Once /\ Hooks!OneShot(r) \subseteq added
    BY <1>9, <2>1
  <2>7. spent' \in [Runs -> SUBSET Once] /\ \A q \in Runs : spent'[q] \subseteq used'
    BY <1>2, <1>3, <2>1, <2>2, <2>3, <2>6, ZenonT(30)
  <2>8. Hooks!TypeOK'
    BY <1>2, <2>1, <2>5, <2>6, <2>7 DEF Hooks!TypeOK
  <2>9. Hooks!RegistrationStands' /\ Registered'
    <3>1. ASSUME NEW e \in Range(list') \cap used' PROVE \E q \in Runs : e \in spent'[q]
      <4>1. CASE e \in used
        <5>1. PICK q \in Runs : e \in spent[q]
          BY <1>4, <2>5, <3>1, <4>1
        <5>2. spent[q] \subseteq spent'[q]
          BY <1>2, <2>2, <2>3
        <5>. QED  BY <5>1, <5>2
      <4>2. CASE e \in Hooks!OneShot(r)
        <5>1. kind # "registry"
          BY <2>5, <3>1, <4>2
        <5>2. e \in spent'[r]
          BY <1>2, <2>3, <4>2, <5>1
        <5>. QED  BY <5>2
      <4>. QED  BY <2>1, <3>1, <4>1, <4>2
    <3>2. added' \ (removed' \cup used') \subseteq Range(list') /\ Range(list') \cap removed' = {}
      BY <1>4, <2>1, <2>5
    <3>3. \A q \in Runs : inside'[q] # None => inside'[q] \in added' /\ phase'[q] = "running"
      BY <1>2, <1>3, <2>1
    <3>4. added' \subseteq Entries /\ Range(list') \subseteq added'
      BY <1>2, <2>1, <2>5
    <3>5. \A q \in Runs : walk'[q] # None => Range(walk'[q]) \subseteq added'
      BY <1>3, <2>1
    <3>. QED  BY <2>5, <2>7, <3>1, <3>2, <3>3, <3>4, <3>5, StandsNext
  <2>10. ASSUME NEW q \in Runs PROVE OnItsWay(q)'
    <3>1. Hooks!Walked(q)' = Hooks!Walked(q) \/ phase[q] # "running"
      BY <2>5
    <3>. QED  BY <2>1, <3>1, RunRests
  <2>. QED  BY <2>5, <2>8, <2>9, <2>10 DEF HooksInv
<1>11. ASSUME NEW r \in Runs, Hooks!End(r) PROVE HooksInv'
  <2>1. /\ phase[r] = "running" /\ next[r] > Len(Hooks!Walked(r)) /\ used' = used
        /\ Hooks!Leave(r, "done", spent[r])
    BY <1>11 DEF Hooks!End
  <2>. QED  BY <1>2, <1>3, <2>1, Leaves
<1>12. ASSUME NEW r \in Runs, Hooks!Break(r) \/ Hooks!Throw(r) PROVE HooksInv'
  <2>1. phase[r] = "running" /\ used' = used /\ Hooks!Leave(r, "cut", spent[r])
    BY <1>9, <1>12 DEF Hooks!Break, Hooks!Throw
  <2>. QED  BY <1>2, <1>3, <2>1, Leaves
<1>13. ASSUME NEW r \in Runs, Hooks!Answer(r) PROVE HooksInv'
  <2>1. /\ inside[r] # None /\ used' = used \cup Hooks!OneShot(r)
        /\ Hooks!Leave(r, "cut", spent[r] \cup Hooks!OneShot(r))
    BY <1>13 DEF Hooks!Answer
  <2>2. phase[r] = "running" /\ Hooks!OneShot(r) \subseteq added /\ Hooks!OneShot(r) \subseteq Once
    BY <1>9, <2>1
  <2>. DEFINE S == spent[r] \cup Hooks!OneShot(r)
  <2>3. S \subseteq Once /\ S \subseteq used' /\ spent[r] \subseteq S
    BY <1>2, <1>3, <2>1, <2>2
  <2>4. used \subseteq used' /\ used' \subseteq used \cup S /\ used' \subseteq added
    BY <1>2, <1>3, <2>1, <2>2
  <2>5. Hooks!Leave(r, "cut", S)
    BY <2>1
  <2>. HIDE DEF S
  <2>. QED  BY <1>2, <1>3, <2>2, <2>3, <2>4, <2>5, Leaves
<1>. QED  BY <1>5, <1>6, <1>7, <1>8, <1>10, <1>11, <1>12, <1>13 DEF Hooks!Next

LEMMA HooksKept == Spec => []HooksInv
<1>1. HooksInv /\ UNCHANGED hooks => HooksInv'
  <2>. SUFFICES ASSUME HooksInv, UNCHANGED hooks PROVE HooksInv'
    OBVIOUS
  <2>1. Hooks!TypeOK' /\ Hooks!RegistrationStands' /\ Registered' /\ InOrder'
    BY DEF hooks, HooksInv, Hooks!TypeOK, Hooks!RegistrationStands, Registered, InOrder
  <2>2. ASSUME NEW r \in Runs PROVE OnItsWay(r)'
    BY RunRests DEF hooks, Hooks!Walked
  <2>. QED  BY <2>1, <2>2 DEF HooksInv
<1>2. HooksInv /\ [Next]_vars => HooksInv'
  BY <1>1, PartsMove, HooksNext DEF OnlyOf
<1>. QED  BY <1>2, HooksInit, PTL DEF Spec

\* Whatever is registered and removed while hooks run, in any of the four lists, stands, and no
\* run skips what was registered as it began.
THEOREM HooksStandCorrect == Spec => []HooksStand
<1>1. HooksInv => HooksStand
  BY RunsSkipNone DEF HooksInv, HooksStand
<1>. QED  BY <1>1, HooksKept, PTL


----------------------------------------------------------------------------
(* The pages of a listing.                                                 *)

\* The items of the first p pages of a listing, in number, and those of the page after them.
Fetched(s, p) ==
  IF s.strategy \in Pages!Counting THEN IF p * Limit < s.total THEN p * Limit ELSE s.total ELSE p
PageAfter(s, p) == [j \in 1..(Fetched(s, p + 1) - Fetched(s, p)) |-> Fetched(s, p) + j]

\* The consumer has taken d pages: the queue holds those that were fetched since, and behind
\* them what is still awaited, or what the generator ended with.
Taken(d) ==
  /\ given = [i \in 1..Fetched(setup, d) |-> i]
  /\ d <= state.pages /\ state.pages <= d + Len(queue)
  /\ \A i \in 1..Len(queue) :
       IF d + i <= state.pages THEN queue[i] = Pages!Outcome("page", PageAfter(setup, d + i - 1))
       ELSE IF gen = "ended" THEN queue[i].is \in {"end", "error"} ELSE queue[i] = Pages!Pending
  /\ gen \in {"sleeping", "fetching"} => state.pages < d + Len(queue)
  /\ gen = "ended" /\ consumer \notin {"left", "failed"} =>
       \/ ~state.more \/ stopped \/ setup.maxPages > 0
       \/ state.pages < d + Len(queue) /\ queue[state.pages - d + 1].is = "error"

\* How many calls are out, by where the consumer stands.
Waits ==
  /\ setup.lazy => IF consumer = "waiting" THEN Len(queue) = 1 ELSE Len(queue) = 0
  /\ ~setup.lazy /\ consumer \in {"waiting", "thinking"} => Len(queue) > 0 \/ gen = "ended"
  /\ consumer \in {"done", "failed"} => Len(queue) = 0 /\ gen = "ended"

\* The generator goes on only to a cursor that was not asked for, and ends a count at its total.
Follow ==
  /\ setup.strategy \in Pages!Counting /\ ~state.more => Fetched(setup, state.pages) = setup.total
  /\ gen = "sleeping" => state.more
  /\ setup.strategy \in Pages!Following =>
       /\ IsInjective(asked) /\ Range(asked) \subseteq state.seen \cup {None}
       /\ state.more => /\ state.cursor \in state.seen \cup {None}
                        /\ gen \in {"idle", "sleeping"} => state.cursor \notin Range(asked)

PagesInv == Pages!TypeOK /\ (\E d \in Nat : Taken(d)) /\ Waits /\ Follow

\* What is known of a setup.
LEMMA SetupFacts ==
  ASSUME setup \in Pages!Setups
  PROVE  /\ setup.strategy \in Pages!Counting \cup Pages!Following /\ setup.total \in Nat
         /\ setup.maxPages \in {0, 2} /\ setup.lazy \in BOOLEAN /\ setup.delayed \in BOOLEAN
         /\ setup.ahead \in Nat
         /\ Limit \in Nat \ {0} /\ None \notin Cursors
         /\ Pages!Counting \cap Pages!Following = {}
<1>1. MaxAhead \in Nat /\ MaxTotal \in Nat /\ Limit \in Nat \ {0} /\ None \notin Cursors
  BY QueuesAssumption DEF QueuesAssumption
<1>2. Pages!Counting \cap Pages!Following = {}
  BY DEF Pages!Counting, Pages!Following
<1>3. CASE setup \in [strategy : Pages!Counting, total : 0..MaxTotal, reported : BOOLEAN,
                      maxPages : {0, 2}, delayed : BOOLEAN, lazy : BOOLEAN, ahead : 0..MaxAhead]
  BY <1>1, <1>2, <1>3
<1>4. CASE setup \in [strategy : Pages!Following, total : {0}, reported : {FALSE},
                      maxPages : {0, 2}, delayed : BOOLEAN, lazy : BOOLEAN, ahead : 0..MaxAhead]
  <2>1. setup.total = 0 /\ setup.strategy \in Pages!Following
    BY <1>4
  <2>2. /\ setup.maxPages \in {0, 2} /\ setup.lazy \in BOOLEAN /\ setup.delayed \in BOOLEAN
        /\ setup.ahead \in Nat
    BY <1>1, <1>4
  <2>. QED  BY <1>1, <1>2, <2>1, <2>2
<1>. QED  BY <1>3, <1>4 DEF Pages!Setups

\* Page by page, the items are all counted.
LEMMA FetchedGrows ==
  ASSUME setup \in Pages!Setups, NEW p \in Nat
  PROVE  /\ Fetched(setup, p) \in Nat /\ Fetched(setup, 0) = 0 /\ Fetched(setup, p + 1) \in Nat
         /\ Fetched(setup, p) <= Fetched(setup, p + 1)
         /\ PageAfter(setup, p) \in Seq(Nat)
         /\ Len(PageAfter(setup, p)) = Fetched(setup, p + 1) - Fetched(setup, p)
         /\ setup.strategy \in Pages!Following => PageAfter(setup, p) = <<p + 1>>
         /\ setup.strategy \in Pages!Counting =>
              /\ PageAfter(setup, p) = Pages!ItemsOf(p)
              /\ (p + 1) * Limit >= setup.total => Fetched(setup, p + 1) = setup.total
              /\ Len(PageAfter(setup, p)) # Limit => Fetched(setup, p + 1) = setup.total
<1>. DEFINE a == p * Limit
            t == setup.total
<1>1. /\ Limit \in Nat \ {0} /\ t \in Nat /\ setup.strategy \in Pages!Counting \cup Pages!Following
      /\ Pages!Counting \cap Pages!Following = {}
  BY SetupFacts
<1>2. a \in Nat /\ (p + 1) * Limit = a + Limit /\ 0 * Limit = 0
  BY <1>1
<1>. HIDE DEF a, t
<1>3. CASE setup.strategy \in Pages!Following
  <2>1. Fetched(setup, p) = p /\ Fetched(setup, p + 1) = p + 1 /\ Fetched(setup, 0) = 0
    BY <1>1, <1>3 DEF Fetched
  <2>2. PageAfter(setup, p) = [j \in 1..1 |-> p + j]
    BY <2>1 DEF PageAfter
  <2>3. [j \in 1..1 |-> p + j] = <<p + 1>>
    BY SMT
  <2>. QED  BY <1>1, <1>3, <2>1, <2>2, <2>3
<1>4. CASE setup.strategy \in Pages!Counting
  <2>. DEFINE f == IF a < t THEN a ELSE t
              g == IF a + Limit < t THEN a + Limit ELSE t
  <2>1. Fetched(setup, p) = f /\ Fetched(setup, p + 1) = g /\ Fetched(setup, 0) = 0
    BY <1>1, <1>2, <1>4 DEF Fetched, a, t
  <2>2. f \in Nat /\ g \in Nat /\ f <= g /\ g - f \in Nat /\ f + 1 \in Nat
    BY <1>1, <1>2
  <2>3. PageAfter(setup, p) = [j \in 1..(g - f) |-> f + j]
    BY <2>1 DEF PageAfter
  <2>4. PageAfter(setup, p) \in Seq(Nat) /\ Len(PageAfter(setup, p)) = g - f
    BY <2>2, <2>3
  <2>5. Pages!ItemsOf(p) = [j \in 1..(g - f) |-> f + j]
    <3>. DEFINE u == a + 1
                v == IF u + Limit - 1 < t THEN u + Limit - 1 ELSE t
                n == IF v >= u THEN v - u + 1 ELSE 0
    <3>1. Pages!ItemsOf(p) = [i \in 1..n |-> u + i - 1]
      BY DEF Pages!ItemsOf, a, t
    <3>2. n = g - f /\ \A i \in 1..n : u + i - 1 = f + i
      BY <1>1, <1>2
    <3>. HIDE DEF n, u
    <3>. QED  BY <3>1, <3>2
  <2>6. a + Limit >= t => g = t
    BY <1>1, <1>2
  <2>7. g - f # Limit => g = t
    BY <1>1, <1>2
  <2>. HIDE DEF f, g
  <2>8. (p + 1) * Limit >= setup.total => g = setup.total
    BY <1>2, <2>6 DEF t
  <2>9. g - f # Limit => g = setup.total
    BY <2>7 DEF t
  <2>. QED  BY <1>1, <1>4, <2>1, <2>2, <2>3, <2>4, <2>5, <2>8, <2>9
<1>. QED  BY <1>1, <1>3, <1>4

\* The invariant in its parts.
LEMMA PagesTyped ==
  ASSUME PagesInv
  PROVE  /\ setup \in Pages!Setups /\ stopped \in BOOLEAN
         /\ gen \in {"idle", "sleeping", "fetching", "ended"}
         /\ state \in [pages : Nat, cursor : Cursors \cup {None}, seen : SUBSET Cursors,
                       more : BOOLEAN]
         /\ queue \in Seq([is : {"pending", "page", "end", "error"}, items : Seq(Nat)])
         /\ Len(queue) \in Nat
         /\ consumer \in {"new", "thinking", "waiting", "left", "done", "failed"}
         /\ asked \in Seq(Cursors \cup {None}) /\ given \in Seq(Nat)
BY LenProperties DEF PagesInv, Pages!TypeOK

LEMMA PagesInit == Init => PagesInv
<1>. SUFFICES ASSUME Pages!Init PROVE PagesInv
  BY DEF Init
<1>1. PICK start \in Cursors \cup {None} :
        state = [pages |-> 0, cursor |-> start, seen |-> {start} \ {None}, more |-> TRUE]
  BY DEF Pages!Init
<1>2. /\ setup \in Pages!Setups /\ (setup.lazy => setup.ahead = 0)
      /\ stopped = FALSE /\ gen = "idle" /\ queue = <<>> /\ consumer = "new"
      /\ asked = <<>> /\ given = <<>>
  BY DEF Pages!Init
<1>3. Pages!TypeOK
  BY <1>1, <1>2, EmptySeq DEF Pages!TypeOK
<1>4. Taken(0)
  <2>1. Fetched(setup, 0) = 0
    BY <1>2, FetchedGrows
  <2>2. given = [i \in 1..0 |-> i]
    BY <1>2, SMT
  <2>3. Len(queue) = 0
    BY <1>2, EmptySeq
  <2>. QED  BY <1>1, <1>2, <2>1, <2>2, <2>3 DEF Taken
<1>5. Waits
  BY <1>2, EmptySeq DEF Waits
<1>6. Follow
  <2>1. Range(asked) = {} /\ IsInjective(asked)
    BY <1>2 DEF Range, IsInjective
  <2>. QED  BY <1>1, <1>2, <2>1 DEF Follow
<1>. QED  BY <1>3, <1>4, <1>5, <1>6 DEF PagesInv

\* While something is awaited the generator has not ended, and the first call to be answered is
\* the one behind the pages that were fetched.
LEMMA FirstOf ==
  ASSUME PagesInv, NEW d \in Nat, Taken(d)
  PROVE  /\ Pages!Awaited <=> gen # "ended" /\ state.pages < d + Len(queue)
         /\ gen # "ended" /\ state.pages < d + Len(queue) =>
              Pages!First = state.pages - d + 1 /\ state.pages - d + 1 \in 1..Len(queue)
<1>1. queue \in Seq([is : {"pending", "page", "end", "error"}, items : Seq(Nat)])
      /\ Len(queue) \in Nat /\ state.pages \in Nat /\ DOMAIN queue = 1..Len(queue)
  BY PagesTyped, LenProperties
<1>2. Pages!Pending.is = "pending" /\ \A x : Pages!Outcome("page", x) # Pages!Pending
  BY DEF Pages!Pending, Pages!Outcome
<1>3. ASSUME NEW i \in 1..Len(queue)
      PROVE  queue[i] = Pages!Pending <=> gen # "ended" /\ state.pages < d + i
  <2>1. CASE d + i <= state.pages
    BY <1>1, <1>2, <2>1 DEF Taken
  <2>2. CASE ~(d + i <= state.pages) /\ gen = "ended"
    <3>1. queue[i].is \in {"end", "error"}
      BY <2>2 DEF Taken
    <3>. QED  BY <1>2, <2>2, <3>1
  <2>3. CASE ~(d + i <= state.pages) /\ gen # "ended"
    BY <1>1, <2>3 DEF Taken
  <2>. QED  BY <2>1, <2>2, <2>3
<1>4. Pages!Awaited <=> \E i \in 1..Len(queue) : queue[i] = Pages!Pending
  BY <1>1, SameSets, SetOf DEF Pages!Awaited
<1>. DEFINE k == state.pages - d + 1
            P(i) == i \in 1..Len(queue) /\ queue[i] = Pages!Pending
                    /\ \A j \in 1..(i - 1) : queue[j] # Pages!Pending
<1>5. ASSUME gen # "ended", state.pages < d + Len(queue) PROVE P(k) /\ Pages!First = k
  <2>1. k \in 1..Len(queue) /\ d <= state.pages
    BY <1>1, <1>5 DEF Taken
  <2>2. state.pages < d + k /\ \A j \in 1..(k - 1) : j \in 1..Len(queue) /\ ~(state.pages < d + j)
    <3>1. PICK m \in Nat : m = state.pages
      BY ONLY <1>1
    <3>2. PICK n \in Nat : n = Len(queue)
      BY ONLY <1>1
    <3>3. PICK l \in 1..n : l = k /\ l = m - d + 1
      BY <2>1, <3>1, <3>2
    <3>4. m < d + l /\ \A j \in 1..(l - 1) : j \in 1..n /\ ~(m < d + j)
      BY ONLY <3>3, d \in Nat
    <3>. QED  BY ONLY <3>1, <3>2, <3>3, <3>4
  <2>3. P(k)
    BY <1>3, <1>5, <2>1, <2>2
  <2>4. P(Pages!First)
    <3>1. Pages!First = CHOOSE i : P(i)
      BY <1>1 DEF Pages!First
    <3>. HIDE DEF P
    <3>. QED  BY <2>3, <3>1
  <2>5. ASSUME NEW i, P(i) PROVE i = k
    <3>1. ~(k \in 1..(i - 1)) /\ ~(i \in 1..(k - 1))
      BY <2>3, <2>5
    <3>. QED  BY <1>1, <2>1, <2>5, <3>1
  <2>. HIDE DEF P
  <2>. QED  BY <2>3, <2>4, <2>5
<1>6. (\E i \in 1..Len(queue) : queue[i] = Pages!Pending) <=> gen # "ended" /\ state.pages < d + Len(queue)
  <2>1. ASSUME NEW i \in 1..Len(queue), queue[i] = Pages!Pending
        PROVE  gen # "ended" /\ state.pages < d + Len(queue)
    BY <1>1, <1>3, <2>1
  <2>2. ASSUME gen # "ended", state.pages < d + Len(queue)
        PROVE  \E i \in 1..Len(queue) : queue[i] = Pages!Pending
    BY <1>5, <2>2
  <2>. QED  BY <2>1, <2>2
<1>. QED  BY <1>4, <1>5, <1>6

Outcomes == [is : {"pending", "page", "end", "error"}, items : Seq(Nat)]

\* The generator ends, for a reason, and the calls that are out are answered.
LEMMA Ends ==
  ASSUME PagesInv, NEW d \in Nat, Taken(d), gen # "ended",
         NEW q \in Seq(Outcomes), Len(q) = Len(queue), Pages!Ended(q),
         \A i \in 1..Len(queue) : IF d + i <= state.pages THEN q[i] = queue[i]
                                  ELSE q[i] = Pages!Pending \/ q[i].is = "error",
         \/ ~state.more \/ stopped \/ setup.maxPages > 0
         \/ state.pages < d + Len(queue) /\ q[state.pages - d + 1].is = "error",
         setup' = setup, stopped' = stopped, state' = state, consumer' = consumer,
         given' = given, asked' = asked
  PROVE  PagesInv'
<1>1. /\ Len(queue) \in Nat /\ state.pages \in Nat /\ DOMAIN q = 1..Len(queue)
      /\ \A i \in 1..Len(queue) : q[i] \in Outcomes
  BY PagesTyped, LenProperties, ElementOfSeq
<1>2. /\ Pages!Pending.is = "pending" /\ Pages!End \in Outcomes /\ Pages!End.is = "end"
      /\ \A x : Pages!Outcome("page", x) # Pages!Pending
  BY EmptySeq DEF Pages!Pending, Pages!End, Pages!Outcome, Outcomes
<1>3. gen' = "ended" /\ queue' = [i \in 1..Len(queue) |-> IF q[i] = Pages!Pending THEN Pages!End ELSE q[i]]
  BY <1>1 DEF Pages!Ended
<1>4. queue' \in Seq(Outcomes) /\ Len(queue') = Len(queue)
      /\ \A i \in 1..Len(queue) : queue'[i] = IF q[i] = Pages!Pending THEN Pages!End ELSE q[i]
  BY <1>1, <1>2, <1>3
<1>5. Pages!TypeOK'
  BY <1>3, <1>4 DEF PagesInv, Pages!TypeOK, Outcomes
<1>6. ASSUME NEW i \in 1..Len(queue)
      PROVE  IF d + i <= state.pages
             THEN queue'[i] = Pages!Outcome("page", PageAfter(setup, d + i - 1))
             ELSE queue'[i].is \in {"end", "error"}
  <2>1. CASE d + i <= state.pages
    <3>1. queue[i] = Pages!Outcome("page", PageAfter(setup, d + i - 1))
      BY <2>1 DEF Taken
    <3>2. q[i] = queue[i]
      BY <2>1
    <3>. QED  BY <1>2, <1>4, <2>1, <3>1, <3>2
  <2>2. CASE ~(d + i <= state.pages)
    BY <1>2, <1>4, <2>2
  <2>. QED  BY <2>1, <2>2
<1>7. ASSUME state.pages < d + Len(queue), q[state.pages - d + 1].is = "error"
      PROVE  queue'[state.pages - d + 1].is = "error"
  <2>1. state.pages - d + 1 \in 1..Len(queue)
    BY <1>1, <1>7 DEF Taken
  <2>. QED  BY <1>2, <1>4, <1>7, <2>1
<1>8. Taken(d)'
  BY <1>3, <1>4, <1>6, <1>7 DEF Taken
<1>9. Waits' /\ Follow'
  BY <1>3, <1>4 DEF PagesInv, Waits, Follow
<1>. QED  BY <1>5, <1>8, <1>9 DEF PagesInv

\* The generator asks for the next page.
LEMMA Fetches ==
  ASSUME PagesInv, NEW d \in Nat, Taken(d), gen \in {"idle", "sleeping"}, state.more,
         state.pages < d + Len(queue), Pages!Fetch,
         setup' = setup, stopped' = stopped, state' = state, consumer' = consumer, given' = given
  PROVE  PagesInv'
<1>1. gen' = "fetching" /\ asked' = Append(asked, state.cursor) /\ queue' = queue
  BY DEF Pages!Fetch
<1>2. state.cursor \in Cursors \cup {None} /\ asked \in Seq(Cursors \cup {None})
  BY PagesTyped
<1>3. /\ asked' \in Seq(Cursors \cup {None}) /\ Range(asked') = Range(asked) \cup {state.cursor}
      /\ IsInjective(asked') <=> IsInjective(asked) /\ state.cursor \notin Range(asked)
  BY <1>1, <1>2, SetOfAppend, AppendProperties
<1>4. Pages!TypeOK'
  BY <1>1, <1>3 DEF PagesInv, Pages!TypeOK
<1>5. Taken(d)'
  BY <1>1 DEF Taken
<1>6. Waits'
  BY <1>1 DEF PagesInv, Waits
<1>7. Follow'
  BY <1>1, <1>3 DEF PagesInv, Follow
<1>. QED  BY <1>4, <1>5, <1>6, <1>7 DEF PagesInv

\* A page comes: it goes to the call that waits first.
LEMMA Answered ==
  ASSUME PagesInv, NEW d \in Nat, Taken(d), gen = "fetching", gen' = "idle",
         queue' = Pages!Resolved(Pages!Outcome("page", PageAfter(setup, state.pages))),
         state'.pages = state.pages + 1, Follow',
         state' \in [pages : Nat, cursor : Cursors \cup {None}, seen : SUBSET Cursors,
                     more : BOOLEAN],
         setup' = setup, stopped' = stopped, consumer' = consumer, given' = given, asked' = asked
  PROVE  PagesInv'
<1>1. /\ Len(queue) \in Nat /\ state.pages \in Nat /\ DOMAIN queue = 1..Len(queue)
      /\ queue \in Seq(Outcomes) /\ setup \in Pages!Setups
      /\ \A i \in 1..Len(queue) : queue[i] \in Outcomes
  BY PagesTyped, LenProperties, ElementOfSeq DEF Outcomes
<1>. DEFINE k == state.pages - d + 1
            o == Pages!Outcome("page", PageAfter(setup, state.pages))
<1>2. k \in 1..Len(queue) /\ Pages!First = k /\ state.pages < d + Len(queue)
  <2>1. state.pages < d + Len(queue)
    BY DEF Taken
  <2>. QED  BY <2>1, FirstOf
<1>3. o \in Outcomes
  BY <1>1, FetchedGrows DEF Outcomes, Pages!Outcome
<1>4. queue' = [queue EXCEPT ![k] = o]
  BY <1>2 DEF Pages!Resolved
<1>5. k = state.pages - d + 1 /\ o = Pages!Outcome("page", PageAfter(setup, state.pages))
  OBVIOUS
<1>. HIDE DEF k, o
<1>6. queue' \in Seq(Outcomes) /\ Len(queue') = Len(queue)
      /\ \A i \in 1..Len(queue) : queue'[i] = IF i = k THEN o ELSE queue[i]
  <2>1. queue \in Seq(Outcomes) /\ k \in 1..Len(queue)
    BY <1>1, <1>2
  <2>2. /\ [queue EXCEPT ![k] = o] \in Seq(Outcomes) /\ Len([queue EXCEPT ![k] = o]) = Len(queue)
        /\ \A i \in 1..Len(queue) : [queue EXCEPT ![k] = o][i] = IF i = k THEN o ELSE queue[i]
    BY ONLY <1>3, <2>1, ExceptSeq
  <2>. QED  BY ONLY <1>4, <2>2
<1>7. Pages!TypeOK'
  BY <1>6 DEF PagesInv, Pages!TypeOK, Outcomes
<1>8. ASSUME NEW i \in 1..Len(queue)
      PROVE  IF d + i <= state.pages + 1
             THEN queue'[i] = Pages!Outcome("page", PageAfter(setup, d + i - 1))
             ELSE queue'[i] = Pages!Pending
  <2>1. CASE d + i <= state.pages
    <3>1. queue[i] = Pages!Outcome("page", PageAfter(setup, d + i - 1))
      BY <2>1 DEF Taken
    <3>2. i # k /\ d + i <= state.pages + 1
      BY <1>1, <1>5, <2>1
    <3>. QED  BY <1>6, <3>1, <3>2
  <2>2. CASE d + i = state.pages + 1
    <3>1. i = k /\ d + i - 1 = state.pages
      BY <1>1, <1>5, <2>2, SMTT(20)
    <3>. QED  BY <1>1, <1>5, <1>6, <2>2, <3>1, SMTT(20)
  <2>3. CASE d + i > state.pages + 1
    <3>1. i # k /\ ~(d + i <= state.pages + 1) /\ ~(d + i <= state.pages)
      BY <1>1, <1>5, <2>3
    <3>2. queue[i] = Pages!Pending
      BY <3>1 DEF Taken
    <3>. QED  BY <1>6, <3>1, <3>2
  <2>. QED  BY <1>1, <2>1, <2>2, <2>3
<1>9. Taken(d)'
  <2>1. d <= state'.pages /\ state'.pages <= d + Len(queue')
    BY <1>1, <1>2, <1>6 DEF Taken
  <2>2. given' = [i \in 1..Fetched(setup', d) |-> i]
    BY DEF Taken
  <2>. QED  BY <1>6, <1>8, <2>1, <2>2 DEF Taken
<1>10. Waits'
  BY <1>6 DEF PagesInv, Waits
<1>. QED  BY <1>7, <1>9, <1>10 DEF PagesInv

\* The generator waits: no call is answered.
LEMMA Sleeps ==
  ASSUME PagesInv, NEW d \in Nat, Taken(d), gen = "idle", state.more,
         state.pages < d + Len(queue), gen' = "sleeping",
         queue' = queue, setup' = setup, stopped' = stopped, state' = state,
         consumer' = consumer, given' = given, asked' = asked
  PROVE  PagesInv'
<1>1. Pages!TypeOK'
  BY DEF PagesInv, Pages!TypeOK
<1>2. Taken(d)'
  BY DEF Taken
<1>3. Waits' /\ Follow'
  BY DEF PagesInv, Waits, Follow
<1>. QED  BY <1>1, <1>2, <1>3 DEF PagesInv

\* A step of the generator.
LEMMA GeneratorNext ==
  ASSUME PagesInv, \/ Pages!Resume \/ Pages!Wake \/ Pages!AnswerCounted \/ Pages!Fail
                   \/ \E n \in Cursors \cup {None}, more \in BOOLEAN : Pages!AnswerCursor(n, more)
  PROVE  PagesInv'
<1>1. PICK d \in Nat : Taken(d)
  BY DEF PagesInv
<1>2. /\ Len(queue) \in Nat /\ state.pages \in Nat /\ DOMAIN queue = 1..Len(queue)
      /\ queue \in Seq(Outcomes) /\ setup \in Pages!Setups
      /\ state \in [pages : Nat, cursor : Cursors \cup {None}, seen : SUBSET Cursors,
                    more : BOOLEAN]
      /\ \A i \in 1..Len(queue) : queue[i] \in Outcomes
  BY PagesTyped, LenProperties, ElementOfSeq DEF Outcomes
<1>3. /\ Pages!Awaited => gen # "ended" /\ state.pages < d + Len(queue)
      /\ gen # "ended" /\ state.pages < d + Len(queue) =>
           Pages!First = state.pages - d + 1 /\ state.pages - d + 1 \in 1..Len(queue)
  BY <1>1, FirstOf
<1>4. gen \in {"sleeping", "fetching"} => state.pages < d + Len(queue)
  BY <1>1 DEF Taken
<1>5. ASSUME gen # "ended", NEW i \in 1..Len(queue), ~(d + i <= state.pages)
      PROVE  queue[i] = Pages!Pending
  BY <1>1, <1>5 DEF Taken
<1>6. CASE Pages!Resume
  <2>1. /\ gen = "idle" /\ Pages!Awaited /\ setup' = setup /\ stopped' = stopped /\ state' = state
        /\ consumer' = consumer /\ given' = given
    BY <1>6 DEF Pages!Resume
  <2>2. CASE ~Pages!MayFetch /\ Pages!Ended(queue) /\ UNCHANGED asked
    <3>1. ~state.more \/ stopped \/ setup.maxPages > 0
      BY <2>2 DEF Pages!MayFetch
    <3>2. \A i \in 1..Len(queue) : IF d + i <= state.pages THEN queue[i] = queue[i]
                                   ELSE queue[i] = Pages!Pending \/ queue[i].is = "error"
      BY <1>5, <2>1
    <3>3. gen # "ended" /\ asked' = asked /\ Pages!Ended(queue)
      BY <2>1, <2>2
    <3>. QED  BY ONLY PagesInv, <1>1, <1>2, <2>1, <3>1, <3>2, <3>3, Ends
  <2>3. CASE Pages!MayFetch /\ gen' = "sleeping" /\ UNCHANGED <<queue, asked>>
    <3>1. state.more /\ state.pages < d + Len(queue) /\ queue' = queue /\ asked' = asked
      BY <1>3, <2>1, <2>3 DEF Pages!MayFetch
    <3>. QED  BY <1>1, <2>1, <2>3, <3>1, Sleeps
  <2>4. CASE Pages!MayFetch /\ Pages!Fetch
    <3>1. state.more /\ state.pages < d + Len(queue)
      BY <1>3, <2>1, <2>4 DEF Pages!MayFetch
    <3>. QED  BY <1>1, <2>1, <2>4, <3>1, Fetches
  <2>. QED  BY <1>6, <2>2, <2>3, <2>4 DEF Pages!Resume
<1>7. CASE Pages!Wake
  <2>1. /\ gen = "sleeping" /\ Pages!Fetch /\ setup' = setup /\ stopped' = stopped
        /\ state' = state /\ consumer' = consumer /\ given' = given
    BY <1>7 DEF Pages!Wake
  <2>2. state.more
    BY <2>1 DEF PagesInv, Follow
  <2>. QED  BY <1>1, <1>4, <2>1, <2>2, Fetches
<1>8. CASE Pages!AnswerCounted
  <2>. DEFINE items == Pages!ItemsOf(state.pages)
  <2>1. /\ gen = "fetching" /\ gen' = "idle" /\ setup.strategy \in Pages!Counting
        /\ queue' = Pages!Resolved(Pages!Outcome("page", items))
        /\ state' = [state EXCEPT !.pages = @ + 1, !.more = Pages!Counted(items)]
        /\ setup' = setup /\ stopped' = stopped /\ consumer' = consumer
        /\ given' = given /\ asked' = asked
    BY <1>8 DEF Pages!AnswerCounted
  <2>2. items = PageAfter(setup, state.pages) /\ Limit \in Nat
        /\ Pages!Counting \cap Pages!Following = {} /\ setup.total \in Nat
    BY <1>2, <2>1, FetchedGrows, SetupFacts
  <2>3. Pages!Counted(items) \in BOOLEAN
    <3>1. (state.pages + 1) * Limit \in Nat
      BY <1>2, <2>2
    <3>2. ((state.pages + 1) * Limit < setup.total) \in BOOLEAN
      BY <2>2, <3>1
    <3>3. (Len(items) = Limit) \in BOOLEAN
      OBVIOUS
    <3>. QED  BY <3>2, <3>3, Zenon DEF Pages!Counted
  <2>4. /\ state'.pages = state.pages + 1 /\ state'.more = Pages!Counted(items)
        /\ state' \in [pages : Nat, cursor : Cursors \cup {None}, seen : SUBSET Cursors,
                       more : BOOLEAN]
    <3>. DEFINE m == Pages!Counted(items)
    <3>1. m \in BOOLEAN /\ state' = [state EXCEPT !.pages = @ + 1, !.more = m]
      BY <2>1, <2>3
    <3>2. m = Pages!Counted(items)
      OBVIOUS
    <3>. HIDE DEF m
    <3>3. /\ state'.pages = state.pages + 1 /\ state'.more = m
          /\ state' \in [pages : Nat, cursor : Cursors \cup {None}, seen : SUBSET Cursors,
                         more : BOOLEAN]
      <4>1. state' = [pages |-> state.pages + 1, cursor |-> state.cursor,
                      seen |-> state.seen, more |-> m]
        BY ONLY <1>2, <3>1
      <4>2. state.pages + 1 \in Nat /\ state.cursor \in Cursors \cup {None}
            /\ state.seen \in SUBSET Cursors
        BY ONLY <1>2
      <4>. QED  BY ONLY <3>1, <4>1, <4>2
    <3>. QED  BY ONLY <3>2, <3>3
  <2>5. ASSUME ~Pages!Counted(items) PROVE Fetched(setup, state.pages + 1) = setup.total
    <3>1. (state.pages + 1) * Limit \in Nat
      BY <1>2, <2>2
    <3>2. (state.pages + 1) * Limit >= setup.total \/ Len(items) # Limit
      BY <2>2, <2>5, <3>1 DEF Pages!Counted
    <3>. QED  BY <1>2, <2>1, <2>2, <3>2, FetchedGrows
  <2>. HIDE DEF items
  <2>6. Follow'
    BY <2>1, <2>2, <2>4, <2>5 DEF Follow
  <2>. QED  BY <1>1, <2>1, <2>2, <2>4, <2>6, Answered
<1>9. ASSUME NEW n \in Cursors \cup {None}, NEW more \in BOOLEAN, Pages!AnswerCursor(n, more)
      PROVE  PagesInv'
  <2>1. /\ gen = "fetching" /\ gen' = "idle" /\ setup.strategy \in Pages!Following
        /\ queue' = Pages!Resolved(Pages!Outcome("page", <<state.pages + 1>>))
        /\ state' = [pages |-> state.pages + 1, more |-> Pages!Follows(n, more),
                     cursor |-> IF n # None THEN n ELSE state.cursor,
                     seen |-> IF Pages!Follows(n, more) THEN state.seen \cup {n} ELSE state.seen]
        /\ setup' = setup /\ stopped' = stopped /\ consumer' = consumer
        /\ given' = given /\ asked' = asked
    BY <1>9 DEF Pages!AnswerCursor, Pages!Following, Pages!CursorAnswers, Pages!TokenAnswers,
                Pages!LinkAnswers, Pages!RelayAnswers, Pages!KeysetAnswers
  <2>2. <<state.pages + 1>> = PageAfter(setup, state.pages)
        /\ Pages!Counting \cap Pages!Following = {}
    BY <1>2, <2>1, FetchedGrows, SetupFacts
  <2>3. Pages!Follows(n, more) => n \in Cursors /\ n # None /\ n \notin state.seen
    BY DEF Pages!Follows
  <2>4. Pages!Follows(n, more) \in BOOLEAN
    BY DEF Pages!Follows
  <2>5. /\ state'.pages = state.pages + 1 /\ state'.more = Pages!Follows(n, more)
        /\ state'.cursor = IF n # None THEN n ELSE state.cursor
        /\ state'.seen = IF Pages!Follows(n, more) THEN state.seen \cup {n} ELSE state.seen
        /\ state' \in [pages : Nat, cursor : Cursors \cup {None}, seen : SUBSET Cursors,
                       more : BOOLEAN]
    BY <1>2, <2>1, <2>3, <2>4
  <2>6. IsInjective(asked) /\ Range(asked) \subseteq state.seen \cup {None}
    BY <2>1 DEF PagesInv, Follow
  <2>7. Follow'
    BY <2>1, <2>2, <2>3, <2>5, <2>6 DEF Follow
  <2>. QED  BY <1>1, <2>1, <2>2, <2>5, <2>7, Answered
<1>10. CASE Pages!Fail
  <2>. DEFINE q == IF stopped THEN queue ELSE Pages!Resolved(Pages!Outcome("error", <<>>))
              k == state.pages - d + 1
  <2>1. /\ gen = "fetching" /\ Pages!Ended(q) /\ setup' = setup /\ stopped' = stopped
        /\ state' = state /\ consumer' = consumer /\ given' = given /\ asked' = asked
    BY <1>10 DEF Pages!Fail
  <2>2. k \in 1..Len(queue) /\ Pages!First = k
    BY <1>3, <1>4, <2>1
  <2>3. CASE stopped
    <3>1. q = queue
      BY <2>3
    <3>2. \A i \in 1..Len(queue) : IF d + i <= state.pages THEN queue[i] = queue[i]
                                   ELSE queue[i] = Pages!Pending \/ queue[i].is = "error"
      BY <1>5, <2>1
    <3>3. gen # "ended" /\ Pages!Ended(queue)
      BY <2>1, <3>1
    <3>. QED  BY ONLY PagesInv, <1>1, <1>2, <2>1, <2>3, <3>2, <3>3, Ends
  <2>4. CASE ~stopped
    <3>. DEFINE o == Pages!Outcome("error", <<>>)
                u == [queue EXCEPT ![k] = o]
    <3>1. q = u
      BY <2>2, <2>4 DEF Pages!Resolved
    <3>2. o \in Outcomes /\ o.is = "error"
      BY EmptySeq DEF Pages!Outcome, Outcomes
    <3>. HIDE DEF o, k
    <3>3. u \in Seq(Outcomes) /\ Len(u) = Len(queue)
          /\ \A i \in 1..Len(queue) : u[i] = IF i = k THEN o ELSE queue[i]
      BY ONLY <1>2, <2>2, <3>2, ExceptSeq
    <3>. HIDE DEF q, u
    <3>4. ASSUME NEW i \in 1..Len(queue)
          PROVE  IF d + i <= state.pages THEN u[i] = queue[i]
                 ELSE u[i] = Pages!Pending \/ u[i].is = "error"
      <4>1. CASE d + i <= state.pages
        <5>1. i # k
          BY <1>2, <4>1 DEF k
        <5>. QED  BY <3>3, <4>1, <5>1
      <4>2. CASE ~(d + i <= state.pages)
        BY <1>5, <2>1, <3>2, <3>3, <4>2
      <4>. QED  BY <4>1, <4>2
    <3>5. state.pages < d + Len(queue) /\ u[state.pages - d + 1].is = "error"
      BY <1>4, <2>1, <2>2, <3>2, <3>3 DEF k
    <3>6. gen # "ended" /\ Pages!Ended(u)
      BY <2>1, <3>1
    <3>. QED  BY ONLY PagesInv, <1>1, <2>1, <3>3, <3>4, <3>5, <3>6, Ends
  <2>. QED  BY <2>3, <2>4
<1>. QED  BY <1>6, <1>7, <1>8, <1>9, <1>10

\* A page is given to the consumer: all that it was given is counted.
LEMMA Given ==
  ASSUME setup \in Pages!Setups, NEW d \in Nat, given = [i \in 1..Fetched(setup, d) |-> i]
  PROVE  given \o PageAfter(setup, d) = [i \in 1..Fetched(setup, d + 1) |-> i]
<1>. DEFINE f == Fetched(setup, d)
            g == Fetched(setup, d + 1)
            p == PageAfter(setup, d)
<1>1. /\ f \in Nat /\ g \in Nat /\ f <= g
      /\ p = [j \in 1..(g - f) |-> f + j]
      /\ given = [i \in 1..f |-> i]
  BY FetchedGrows DEF PageAfter
<1>. HIDE DEF f, g, p
<1>2. given \in Seq(Nat) /\ Len(given) = f /\ \A i \in 1..f : given[i] = i
  BY ONLY <1>1
<1>3. p \in Seq(Nat) /\ Len(p) = g - f /\ \A j \in 1..(g - f) : p[j] = f + j
  <2>1. g - f \in Nat /\ \A j \in 1..(g - f) : f + j \in Nat
    BY <1>1
  <2>. QED  BY <1>1, <2>1
<1>4. given \o p \in Seq(Nat) /\ Len(given \o p) = g
      /\ \A i \in 1..g : (given \o p)[i] = i
  <2>1. /\ given \o p \in Seq(Nat) /\ Len(given \o p) = Len(given) + Len(p)
        /\ \A i \in 1..(Len(given) + Len(p)) :
             (given \o p)[i] = IF i <= Len(given) THEN given[i] ELSE p[i - Len(given)]
    BY <1>2, <1>3, ConcatProperties, ZenonT(30)
  <2>2. Len(given) + Len(p) = g
    BY ONLY <1>1, <1>2, <1>3
  <2>3. ASSUME NEW i \in 1..g PROVE (given \o p)[i] = i
    <3>1. CASE i <= f
      <4>1. i \in 1..f /\ i \in 1..(Len(given) + Len(p)) /\ i <= Len(given)
        BY ONLY <1>1, <1>2, <2>2, <2>3, <3>1
      <4>. QED  BY <1>2, <2>1, <4>1
    <3>2. CASE ~(i <= f)
      <4>1. i - f \in 1..(g - f) /\ i \in 1..(Len(given) + Len(p)) /\ ~(i <= Len(given))
            /\ i - Len(given) = i - f /\ f + (i - f) = i
        BY ONLY <1>1, <1>2, <2>2, <2>3, <3>2
      <4>2. (given \o p)[i] = p[i - f]
        BY <2>1, <4>1
      <4>. QED  BY <1>3, <4>1, <4>2
    <3>. QED  BY <3>1, <3>2
  <2>. QED  BY <2>1, <2>2, <2>3
<1>5. [j \in 1..g |-> j] \in Seq(Nat) /\ Len([j \in 1..g |-> j]) = g
  BY <1>1
<1>6. given \o p = [j \in 1..g |-> j]
  <2>1. \A i \in 1..g : [j \in 1..g |-> j][i] = i
    OBVIOUS
  <2>. HIDE DEF g
  <2>. QED  BY <1>4, <1>5, <2>1, SeqEqual
<1>. QED  BY <1>6 DEF g, p

\* A step of the consumer, or of the signal.
LEMMA ConsumerNext ==
  ASSUME PagesInv, Pages!Ask \/ Pages!Deliver \/ Pages!Stop \/ Pages!Leave \/ Pages!Abort
  PROVE  PagesInv'
<1>1. PICK d \in Nat : Taken(d)
  BY DEF PagesInv
<1>2. /\ Len(queue) \in Nat /\ state.pages \in Nat /\ DOMAIN queue = 1..Len(queue)
      /\ queue \in Seq(Outcomes) /\ setup \in Pages!Setups
      /\ \A i \in 1..Len(queue) : queue[i] \in Outcomes
  BY PagesTyped, LenProperties, ElementOfSeq DEF Outcomes
<1>3. setup.lazy \in BOOLEAN /\ setup.ahead \in Nat
  BY <1>2, SetupFacts
<1>4. /\ Pages!Pending \in Outcomes /\ Pages!Pending.is = "pending"
      /\ Pages!End \in Outcomes /\ Pages!End.is = "end"
      /\ \A x : Pages!Outcome("page", x).is = "page" /\ Pages!Outcome("page", x).items = x
  BY EmptySeq DEF Pages!Pending, Pages!End, Pages!Outcome, Outcomes
<1>5. ASSUME NEW i \in 1..Len(queue)
      PROVE  IF d + i <= state.pages THEN queue[i] = Pages!Outcome("page", PageAfter(setup, d + i - 1))
             ELSE IF gen = "ended" THEN queue[i].is \in {"end", "error"} ELSE queue[i] = Pages!Pending
  BY <1>1 DEF Taken
<1>6. /\ given = [i \in 1..Fetched(setup, d) |-> i] /\ d <= state.pages /\ state.pages <= d + Len(queue)
      /\ gen \in {"sleeping", "fetching"} => state.pages < d + Len(queue)
  BY <1>1 DEF Taken
<1>7. gen = "ended" /\ consumer \notin {"left", "failed"} =>
        \/ ~state.more \/ stopped \/ setup.maxPages > 0
        \/ state.pages < d + Len(queue) /\ queue[state.pages - d + 1].is = "error"
  BY <1>1 DEF Taken
<1>8. /\ setup.lazy => IF consumer = "waiting" THEN Len(queue) = 1 ELSE Len(queue) = 0
      /\ ~setup.lazy /\ consumer \in {"waiting", "thinking"} => Len(queue) > 0 \/ gen = "ended"
  BY DEF PagesInv, Waits
<1>9. CASE Pages!Ask
  <2>. DEFINE e == IF gen = "ended" THEN Pages!End ELSE Pages!Pending
              c == Pages!Asking
              t == [i \in 1..c |-> e]
  <2>1. /\ consumer \in {"new", "thinking"} /\ consumer' = "waiting" /\ queue' = queue \o t
        /\ setup' = setup /\ stopped' = stopped /\ gen' = gen /\ state' = state /\ asked' = asked
        /\ given' = given
    BY <1>9 DEF Pages!Ask
  <2>2. c \in Nat /\ (setup.lazy => c = 1) /\ (~setup.lazy /\ consumer = "new" => c > 0)
    BY <1>3 DEF Pages!Asking
  <2>3. e \in Outcomes /\ IF gen = "ended" THEN e.is \in {"end", "error"} ELSE e = Pages!Pending
    BY <1>4
  <2>. HIDE DEF e, c
  <2>4. t \in Seq(Outcomes) /\ Len(t) = c /\ \A i \in 1..c : t[i] = e
    BY <2>2, <2>3
  <2>. HIDE DEF t
  <2>5. queue' \in Seq(Outcomes) /\ Len(queue') = Len(queue) + c
        /\ \A i \in 1..(Len(queue) + c) :
             queue'[i] = IF i <= Len(queue) THEN queue[i] ELSE t[i - Len(queue)]
    BY <1>2, <2>1, <2>4, ConcatProperties
  <2>6. Pages!TypeOK'
    BY <2>1, <2>5 DEF PagesInv, Pages!TypeOK, Outcomes
  <2>7. ASSUME NEW i \in 1..Len(queue')
        PROVE  IF d + i <= state.pages
               THEN queue'[i] = Pages!Outcome("page", PageAfter(setup, d + i - 1))
               ELSE IF gen = "ended" THEN queue'[i].is \in {"end", "error"}
                    ELSE queue'[i] = Pages!Pending
    <3>1. CASE i <= Len(queue)
      <4>1. i \in 1..Len(queue) /\ queue'[i] = queue[i]
        BY <1>2, <2>2, <2>5, <3>1
      <4>. QED  BY <1>5, <4>1
    <3>2. CASE ~(i <= Len(queue))
      <4>1. i - Len(queue) \in 1..c /\ queue'[i] = t[i - Len(queue)] /\ ~(d + i <= state.pages)
        BY <1>2, <1>6, <2>2, <2>5, <3>2
      <4>2. queue'[i] = e
        BY <2>4, <4>1
      <4>. QED  BY <2>3, <4>1, <4>2
    <3>. QED  BY <3>1, <3>2
  <2>8. ASSUME gen = "ended"
        PROVE  \/ ~state.more \/ stopped \/ setup.maxPages > 0
               \/ state.pages < d + Len(queue') /\ queue'[state.pages - d + 1].is = "error"
    <3>1. ASSUME state.pages < d + Len(queue)
          PROVE  state.pages < d + Len(queue')
                 /\ queue'[state.pages - d + 1] = queue[state.pages - d + 1]
      BY <1>2, <1>6, <2>2, <2>5, <3>1
    <3>. QED  BY <1>7, <2>1, <2>8, <3>1
  <2>9. Taken(d)'
    <3>1. state.pages <= d + Len(queue') /\ (state.pages < d + Len(queue) => state.pages < d + Len(queue'))
      BY <1>2, <1>6, <2>2, <2>5
    <3>. QED  BY <1>6, <2>1, <2>7, <2>8, <3>1 DEF Taken
  <2>10. Waits'
    BY <1>2, <1>8, <2>1, <2>2, <2>5 DEF Waits
  <2>11. Follow'
    BY <2>1 DEF PagesInv, Follow
  <2>. QED  BY <2>6, <2>9, <2>10, <2>11 DEF PagesInv
<1>10. CASE Pages!Deliver
  <2>1. /\ consumer = "waiting" /\ queue # <<>> /\ Head(queue).is = "page"
        /\ given' = given \o Head(queue).items /\ consumer' = "thinking"
        /\ queue' = Pages!Refilled /\ setup' = setup /\ stopped' = stopped /\ gen' = gen
        /\ state' = state /\ asked' = asked
    BY <1>10 DEF Pages!Deliver, Pages!Taken
  <2>. DEFINE t == Tail(queue)
  <2>0. PICK n \in Nat : n = Len(queue)
    BY <1>2
  <2>2. /\ n > 0 /\ Head(queue) = queue[1] /\ t \in Seq(Outcomes) /\ Len(t) = n - 1
        /\ \A i \in 1..(n - 1) : t[i] = queue[i + 1]
    <3>1. /\ Head(queue) = queue[1] /\ t \in Seq(Outcomes) /\ Len(t) = Len(queue) - 1
          /\ \A i \in 1..Len(t) : t[i] = queue[i + 1]
      BY <1>2, <2>1, HeadTailProperties
    <3>2. Len(queue) > 0
      BY <1>2, <2>1, EmptySeq
    <3>. QED  BY <2>0, <3>1, <3>2
  <2>. HIDE DEF t
  <2>3. d + 1 <= state.pages /\ queue[1] = Pages!Outcome("page", PageAfter(setup, d))
    <3>1. 1 \in 1..Len(queue) /\ d + 1 - 1 = d
      BY <2>0, <2>2
    <3>. QED  BY <1>4, <1>5, <2>1, <2>2, <3>1
  <2>4. given' = [i \in 1..Fetched(setup, d + 1) |-> i]
    <3>1. Head(queue).items = PageAfter(setup, d)
      BY ONLY <1>4, <2>2, <2>3
    <3>2. given \o PageAfter(setup, d) = [i \in 1..Fetched(setup, d + 1) |-> i]
      BY <1>2, <1>6, Given
    <3>. QED  BY ONLY <2>1, <3>1, <3>2
  <2>31. queue' = IF setup.lazy \/ gen = "ended" THEN t ELSE Append(t, Pages!Pending)
    BY <2>1 DEF Pages!Refilled, t
  <2>32. /\ Append(t, Pages!Pending) \in Seq(Outcomes) /\ Len(Append(t, Pages!Pending)) = n
         /\ Append(t, Pages!Pending)[n] = Pages!Pending
         /\ \A i \in 1..(n - 1) : Append(t, Pages!Pending)[i] = t[i]
    <3>1. /\ Append(t, Pages!Pending) \in Seq(Outcomes)
          /\ Len(Append(t, Pages!Pending)) = Len(t) + 1
          /\ Append(t, Pages!Pending)[Len(t) + 1] = Pages!Pending
          /\ \A i \in 1..Len(t) : Append(t, Pages!Pending)[i] = t[i]
      BY ONLY <1>4, <2>2, AppendProperties
    <3>2. Len(t) + 1 = n
      BY <2>2
    <3>. QED  BY <2>2, <3>1, <3>2
  <2>5. /\ queue' \in Seq(Outcomes) /\ \A i \in 1..(n - 1) : queue'[i] = queue[i + 1]
        /\ IF setup.lazy \/ gen = "ended" THEN Len(queue') = n - 1
           ELSE Len(queue') = n /\ queue'[n] = Pages!Pending
    <3>1. CASE setup.lazy \/ gen = "ended"
      BY <2>2, <2>31, <3>1
    <3>2. CASE ~(setup.lazy \/ gen = "ended")
      BY <2>2, <2>31, <2>32, <3>2
    <3>. QED  BY <3>1, <3>2
  <2>6. \A i \in 1..(n - 1) : queue'[i] = queue[i + 1]
    BY <2>5
  <2>7. Len(queue') = n => gen # "ended" /\ queue'[n] = Pages!Pending
    BY <2>5
  <2>8. Pages!TypeOK'
    <3>1. given' \in Seq(Nat)
      <4>. DEFINE g == Fetched(setup, d + 1)
      <4>1. g \in Nat /\ given' = [i \in 1..g |-> i]
        BY <1>2, <2>4, FetchedGrows
      <4>. HIDE DEF g
      <4>. QED  BY <4>1
    <3>. QED  BY <2>1, <2>5, <3>1 DEF PagesInv, Pages!TypeOK, Outcomes
  <2>9. ASSUME NEW i \in 1..Len(queue')
        PROVE  IF (d + 1) + i <= state.pages
               THEN queue'[i] = Pages!Outcome("page", PageAfter(setup, (d + 1) + i - 1))
               ELSE IF gen = "ended" THEN queue'[i].is \in {"end", "error"}
                    ELSE queue'[i] = Pages!Pending
    <3>1. CASE i \in 1..(n - 1)
      <4>1. i + 1 \in 1..Len(queue) /\ d + (i + 1) = (d + 1) + i
            /\ d + (i + 1) - 1 = (d + 1) + i - 1
        BY <2>0, <3>1
      <4>2. queue'[i] = queue[i + 1]
        BY <2>6, <3>1
      <4>. QED  BY <1>5, <4>1, <4>2
    <3>2. CASE Len(queue') = n /\ i = n
      <4>1. ~((d + 1) + i <= state.pages)
        BY <1>2, <1>6, <2>0, <3>2
      <4>. QED  BY <2>7, <3>2, <4>1
    <3>3. i \in 1..(n - 1) \/ (Len(queue') = n /\ i = n)
      BY <2>2, <2>5
    <3>. QED  BY <3>1, <3>2, <3>3
  <2>10. ASSUME state.pages < d + n
         PROVE  state.pages < (d + 1) + Len(queue')
                /\ queue'[state.pages - (d + 1) + 1] = queue[state.pages - d + 1]
    <3>1. state.pages - (d + 1) + 1 \in 1..(n - 1) /\ (state.pages - (d + 1) + 1) + 1 = state.pages - d + 1
      BY <1>2, <2>0, <2>2, <2>3, <2>10
    <3>2. state.pages < (d + 1) + Len(queue')
      BY <1>2, <2>2, <2>5, <2>10
    <3>. QED  BY <2>6, <3>1, <3>2
  <2>11. Taken(d + 1)'
    <3>1. state.pages <= (d + 1) + Len(queue')
      <4>1. Len(queue') = n - 1 \/ Len(queue') = n
        BY <2>5
      <4>2. state.pages \in Nat /\ d <= state.pages /\ state.pages <= d + n
        BY <1>2, <1>6, <2>0
      <4>. QED  BY ONLY d \in Nat, n \in Nat, <4>1, <4>2
    <3>2. gen = "ended" =>
            \/ ~state.more \/ stopped \/ setup.maxPages > 0
            \/ state.pages < (d + 1) + Len(queue') /\ queue'[state.pages - (d + 1) + 1].is = "error"
      BY <1>7, <2>0, <2>1, <2>10
    <3>3. gen \in {"sleeping", "fetching"} => state.pages < (d + 1) + Len(queue')
      BY <1>6, <2>0, <2>10
    <3>. QED  BY <2>1, <2>3, <2>4, <2>9, <3>1, <3>2, <3>3 DEF Taken
  <2>12. Waits'
    <3>1. setup.lazy => n = 1
      BY <1>8, <2>0, <2>1
    <3>2. setup.lazy => Len(queue') = 0
      BY <2>5, <3>1
    <3>3. ~setup.lazy /\ gen # "ended" => Len(queue') > 0
      BY <2>2, <2>5
    <3>. QED  BY <2>1, <3>2, <3>3 DEF Waits
  <2>13. Follow'
    BY <2>1 DEF PagesInv, Follow
  <2>14. d + 1 \in Nat
    OBVIOUS
  <2>. QED  BY <2>8, <2>11, <2>12, <2>13, <2>14 DEF PagesInv
<1>11. CASE Pages!Stop
  <2>1. /\ consumer = "waiting" /\ queue' = <<>>
        /\ queue # <<>> => Head(queue).is \in {"end", "error"}
        /\ consumer' = IF queue # <<>> /\ Head(queue).is = "error" THEN "failed" ELSE "done"
        /\ setup' = setup /\ stopped' = stopped /\ gen' = gen /\ state' = state /\ asked' = asked
        /\ given' = given
    BY <1>11 DEF Pages!Stop
  <2>2. queue # <<>> => Len(queue) > 0 /\ Head(queue) = queue[1] /\ 1 \in 1..Len(queue)
    BY <1>2, HeadTailProperties, EmptySeq
  <2>3. queue = <<>> => Len(queue) = 0
    BY EmptySeq
  <2>4. gen = "ended" /\ state.pages = d
    <3>1. CASE queue = <<>>
      BY <1>2, <1>6, <1>8, <2>1, <2>3, <3>1
    <3>2. CASE queue # <<>>
      <4>1. ~(d + 1 <= state.pages) /\ gen = "ended"
        BY <1>4, <1>5, <2>1, <2>2, <3>2
      <4>. QED  BY <1>2, <1>6, <4>1
    <3>. QED  BY <3>1, <3>2
  <2>5. queue' \in Seq(Outcomes) /\ Len(queue') = 0
    BY <2>1, EmptySeq
  <2>6. Pages!TypeOK'
    BY <2>1, <2>5 DEF PagesInv, Pages!TypeOK, Outcomes
  <2>7. consumer' # "failed" => ~state.more \/ stopped \/ setup.maxPages > 0
    <3>1. state.pages - d + 1 = 1
      BY <1>2, <2>4
    <3>2. state.pages < d + Len(queue) => queue # <<>>
      BY <1>2, <2>3, <2>4
    <3>. QED  BY <1>7, <2>1, <2>2, <2>4, <3>1, <3>2
  <2>8. Taken(d)'
    BY <1>6, <2>1, <2>4, <2>5, <2>7 DEF Taken
  <2>9. Waits' /\ Follow'
    BY <2>1, <2>4, <2>5 DEF PagesInv, Waits, Follow
  <2>. QED  BY <2>6, <2>8, <2>9 DEF PagesInv
<1>12. CASE Pages!Leave
  <2>1. /\ consumer = "thinking" /\ consumer' = "left"
        /\ gen' = (IF setup.lazy THEN "ended" ELSE gen)
        /\ setup' = setup /\ stopped' = stopped /\ queue' = queue /\ state' = state
        /\ asked' = asked /\ given' = given
    BY <1>12 DEF Pages!Leave
  <2>2. Pages!TypeOK'
    BY <1>3, <2>1 DEF PagesInv, Pages!TypeOK
  <2>3. CASE setup.lazy
    <3>1. Len(queue) = 0 /\ gen' = "ended"
      BY <1>8, <2>1, <2>3
    <3>2. Taken(d)'
      BY <1>6, <2>1, <3>1 DEF Taken
    <3>3. Waits' /\ Follow'
      BY <2>1, <2>3, <3>1 DEF PagesInv, Waits, Follow
    <3>. QED  BY <2>2, <3>2, <3>3 DEF PagesInv
  <2>4. CASE ~setup.lazy
    <3>1. gen' = gen
      BY <2>1, <2>4
    <3>2. Taken(d)'
      BY <1>5, <1>6, <2>1, <3>1 DEF Taken
    <3>3. Waits' /\ Follow'
      BY <2>1, <2>4, <3>1 DEF PagesInv, Waits, Follow
    <3>. QED  BY <2>2, <3>2, <3>3 DEF PagesInv
  <2>. QED  BY <2>3, <2>4
<1>13. CASE Pages!Abort
  <2>1. /\ stopped' = TRUE /\ setup' = setup /\ gen' = gen /\ state' = state /\ queue' = queue
        /\ consumer' = consumer /\ asked' = asked /\ given' = given
    BY <1>13 DEF Pages!Abort
  <2>2. Pages!TypeOK'
    BY <2>1 DEF PagesInv, Pages!TypeOK
  <2>3. Taken(d)'
    BY <1>5, <1>6, <2>1 DEF Taken
  <2>4. Waits' /\ Follow'
    BY <2>1 DEF PagesInv, Waits, Follow
  <2>. QED  BY <2>2, <2>3, <2>4 DEF PagesInv
<1>. QED  BY <1>9, <1>10, <1>11, <1>12, <1>13

LEMMA PagesKept == Spec => []PagesInv
<1>1. PagesInv /\ UNCHANGED pages => PagesInv'
  <2>. SUFFICES ASSUME PagesInv, UNCHANGED pages PROVE PagesInv'
    OBVIOUS
  <2>1. Pages!TypeOK' /\ Waits' /\ Follow'
    BY DEF pages, PagesInv, Pages!TypeOK, Waits, Follow
  <2>2. ASSUME NEW d \in Nat, Taken(d) PROVE Taken(d)'
    BY <2>2 DEF pages, Taken
  <2>. QED  BY <2>1, <2>2 DEF PagesInv
<1>2. PagesInv /\ Pages!Next => PagesInv'
  <2>. SUFFICES ASSUME PagesInv, Pages!Next PROVE PagesInv'
    OBVIOUS
  <2>. QED  BY GeneratorNext, ConsumerNext DEF Pages!Next
<1>3. PagesInv /\ [Next]_vars => PagesInv'
  BY <1>1, <1>2, PartsMove DEF OnlyOf
<1>. QED  BY <1>3, PagesInit, PTL DEF Spec

\* However far pages are fetched ahead, the consumer of a listing is given its items in order and
\* each once, and all of them by the time it is told the end; no cursor is asked for twice, and
\* who waits for a page waits for one that is asked for.
THEOREM PagesCompleteCorrect == Spec => []PagesComplete
<1>1. ASSUME PagesInv PROVE PagesComplete
  <2>1. PICK d \in Nat : Taken(d)
    BY <1>1 DEF PagesInv
  <2>2. /\ Len(queue) \in Nat /\ state.pages \in Nat /\ setup \in Pages!Setups
        /\ queue \in Seq(Outcomes)
    BY <1>1, PagesTyped DEF Outcomes
  <2>3. Fetched(setup, d) \in Nat /\ given = [i \in 1..Fetched(setup, d) |-> i]
    BY <2>1, <2>2, FetchedGrows DEF Taken
  <2>4. Len(given) = Fetched(setup, d)
    BY <2>3
  <2>5. ASSUME consumer = "done"
        PROVE  d = state.pages /\ (~state.more \/ stopped \/ setup.maxPages > 0)
    <3>1. Len(queue) = 0 /\ gen = "ended"
      BY <1>1, <2>5 DEF PagesInv, Waits
    <3>. QED  BY <2>1, <2>2, <2>5, <3>1 DEF Taken
  <2>6. setup.strategy \in Pages!Following => Fetched(setup, d) = d
    BY <2>2, SetupFacts DEF Fetched
  <2>7. setup.strategy \in Pages!Counting /\ ~state.more => Fetched(setup, state.pages) = setup.total
    BY <1>1 DEF PagesInv, Follow
  <2>8. Pages!PagesComplete
    <3>1. given = [i \in 1..Len(given) |-> i]
      BY <2>3, <2>4
    <3>2. ASSUME consumer = "done"
          PROVE  /\ setup.strategy \in Pages!Following => Len(given) = state.pages
                 /\ setup.strategy \in Pages!Counting /\ setup.maxPages = 0 /\ ~stopped
                      => Len(given) = setup.total
      BY <2>4, <2>5, <2>6, <2>7, <3>2
    <3>. QED  BY <3>1, <3>2 DEF Pages!PagesComplete
  <2>9. Pages!NoCursorTwice
    BY <1>1, SameSets DEF PagesInv, Follow, Pages!NoCursorTwice
  <2>10. Pages!PageComes
    <3>1. Pages!Awaited => gen # "ended"
      BY <1>1, <2>1, FirstOf
    <3>2. consumer = "waiting" => Len(queue) > 0 \/ gen = "ended"
      <4>1. CASE setup.lazy
        BY <1>1, <4>1 DEF PagesInv, Waits
      <4>2. CASE ~setup.lazy
        BY <1>1, <4>2 DEF PagesInv, Waits
      <4>. QED  BY <4>1, <4>2
    <3>3. Len(queue) > 0 => queue # <<>>
      BY EmptySeq
    <3>. QED  BY <3>1, <3>2, <3>3 DEF Pages!PageComes
  <2>. QED  BY <1>1, <2>8, <2>9, <2>10 DEF PagesComplete, PagesInv
<1>. QED  BY <1>1, PagesKept, PTL

----------------------------------------------------------------------------
(* The parts of a client.                                                  *)

\* What the chains of a client may hold, and of those what is not from a config.
Lasting   == {"parent", "hooks"} \cup Added
Chainable == {"child"} \cup Lasting \cup Range(Own) \cup Range(Childs)

\* Who makes a part is alone, as the client has none, and has left nobody waiting for nothing;
\* the client has what was made last, or nothing, and until destroy() all that was made.
OneMaker ==
  /\ \A c, d \in Calls : call[c] = "making" /\ call[d] = "making" => c = d
  /\ lock <=> \E c \in Calls : call[c] = "making"
  /\ jar \in {0, jars} /\ ("parent" \notin destroyed => jar = jars /\ jars <= 1)
  /\ wanted = "ownJar" => jars <= 1
  /\ \A c \in Calls :
       /\ call[c] = "making" => jar = 0 /\ wanted # "ownJar"
       /\ with[c] \notin {None, 0, jar} => "parent" \in destroyed
       /\ call[c] = "waiting" => lock
       /\ call[c] = "woken" => jar # 0 \/ importFailed \/ "parent" \in destroyed
       /\ with[c] = 0 => importFailed \/ "parent" \in destroyed

\* A chain has nothing twice, and that of the client nothing of its child.
Chained ==
  /\ \A k \in Life!Clients : chains[k] \in Seq(Chainable) /\ IsInjective(chains[k])
  /\ Range(chains["parent"]) \subseteq Lasting \cup Range(Own)

LifeInv == Life!TypeOK /\ OneMaker /\ Life!SocketsOwned /\ Chained

LEMMA SetOfPrepend ==
  ASSUME NEW T, NEW x \in T, NEW s \in Seq(T)
  PROVE  /\ <<x>> \o s \in Seq(T) /\ Range(<<x>> \o s) = {x} \cup Range(s)
         /\ IsInjective(s) /\ x \notin Range(s) => IsInjective(<<x>> \o s)
<1>. DEFINE a == <<x>>
<1>1. a \in Seq(T) /\ Range(a) = {x} /\ IsInjective(a)
  BY DEF Range, IsInjective
<1>. HIDE DEF a
<1>2. /\ a \o s \in Seq(T) /\ Range(a \o s) = {x} \cup Range(s)
      /\ IsInjective(a \o s) <=> IsInjective(a) /\ IsInjective(s) /\ {x} \cap Range(s) = {}
  BY <1>1, SetOfConcat, ConcatProperties
<1>3. IsInjective(s) /\ x \notin Range(s) => IsInjective(a \o s)
  BY <1>1, <1>2
<1>. QED  BY <1>2, <1>3 DEF a

\* What the configs may name.
LEMMA ChainsAssumed ==
  /\ Own \in Seq(Chainable) /\ Childs \in Seq(Chainable) /\ Own \o Childs \in Seq(Chainable)
  /\ Range(Own \o Childs) = Range(Own) \cup Range(Childs)
  /\ IsInjective(<<"parent">> \o Own) /\ IsInjective(<<"child">> \o (Own \o Childs))
  /\ (Range(Own) \cup Range(Childs)) \cap ({"parent", "child", "hooks"} \cup Added) = {}
  /\ "child" \notin Lasting
  /\ Range(<<"parent">> \o Own) = {"parent"} \cup Range(Own)
  /\ Range(<<"child">> \o (Own \o Childs)) = {"child"} \cup Range(Own) \cup Range(Childs)
<1>. DEFINE n == <<"parent", "child", "hooks">>
<1>1. /\ Own \in Seq(Range(Own)) /\ Childs \in Seq(Range(Childs))
      /\ IsInjective(n \o Own \o Childs)
      /\ Added \cap ({"parent", "child", "hooks"} \cup Range(Own) \cup Range(Childs)) = {}
  BY QueuesAssumption DEF QueuesAssumption
<1>2. Range(Own) \subseteq Chainable /\ Range(Childs) \subseteq Chainable
  BY DEF Chainable
<1>3. Own \in Seq(Chainable)
  BY <1>1, <1>2, LenProperties, ElementOfSeq, SeqDef
<1>4. Childs \in Seq(Chainable)
  BY <1>1, <1>2, LenProperties, ElementOfSeq, SeqDef
<1>5. n \in Seq(Chainable) /\ Range(n) = {"parent", "child", "hooks"}
  BY DEF Chainable, Lasting, Range
<1>. HIDE DEF n
<1>6. /\ n \o Own \in Seq(Chainable) /\ Range(n \o Own) = Range(n) \cup Range(Own)
      /\ IsInjective(n \o Own) <=>
           IsInjective(n) /\ IsInjective(Own) /\ Range(n) \cap Range(Own) = {}
  BY <1>3, <1>5, SetOfConcat, ConcatProperties
<1>7. IsInjective(n \o Own \o Childs) <=>
        IsInjective(n \o Own) /\ IsInjective(Childs) /\ Range(n \o Own) \cap Range(Childs) = {}
  BY <1>4, <1>6, SetOfConcat
<1>8. /\ IsInjective(Own) /\ IsInjective(Childs) /\ Range(Own) \cap Range(Childs) = {}
      /\ (Range(Own) \cup Range(Childs)) \cap {"parent", "child", "hooks"} = {}
  BY <1>1, <1>5, <1>6, <1>7
<1>9. /\ Own \o Childs \in Seq(Chainable) /\ Range(Own \o Childs) = Range(Own) \cup Range(Childs)
      /\ IsInjective(Own \o Childs)
  BY <1>3, <1>4, <1>8, SetOfConcat, ConcatProperties
<1>10. "parent" \in Chainable /\ "child" \in Chainable
  BY DEF Chainable, Lasting
<1>11. IsInjective(<<"parent">> \o Own) /\ Range(<<"parent">> \o Own) = {"parent"} \cup Range(Own)
  BY <1>3, <1>8, <1>10, SetOfPrepend
<1>12. /\ IsInjective(<<"child">> \o (Own \o Childs))
       /\ Range(<<"child">> \o (Own \o Childs)) = {"child"} \cup Range(Own \o Childs)
  <2>. DEFINE s == Own \o Childs
  <2>1. s \in Seq(Chainable) /\ IsInjective(s) /\ "child" \notin Range(s)
    BY <1>8, <1>9
  <2>. HIDE DEF s
  <2>2. IsInjective(<<"child">> \o s) /\ Range(<<"child">> \o s) = {"child"} \cup Range(s)
    BY <1>10, <2>1, SetOfPrepend
  <2>. QED  BY <2>2 DEF s
<1>13. "child" \notin Lasting
  BY <1>1 DEF Lasting
<1>. QED  BY <1>1, <1>3, <1>4, <1>8, <1>9, <1>11, <1>12, <1>13

\* The jars that a call may be given when n were made.
Jars(n) == 0..n \cup {None}

LEMMA JarsOf ==
  /\ \A n \in Nat : None \in Jars(n) /\ 0..n \subseteq Jars(n)
  /\ \A m, n \in Nat : m <= n => Jars(m) \subseteq Jars(n)
  /\ None # 0
<1>1. None \notin Nat
  BY QueuesAssumption DEF QueuesAssumption
<1>. QED  BY <1>1 DEF Jars

\* The invariant in its parts.
LEMMA LifeTyped ==
  ASSUME LifeInv
  PROVE  /\ wanted \in {"jar", "ownJar", "cache", "logger"}
         /\ jar \in 0..jars /\ jars \in Nat /\ jar \in Nat /\ lock \in BOOLEAN
         /\ call \in [Calls -> Life!Steps] /\ with \in [Calls -> Jars(jars)]
         /\ tracked \subseteq Calls /\ importFailed \in BOOLEAN /\ destroyed \subseteq Life!Clients
         /\ DOMAIN chains = Life!Clients /\ breakers \in [Life!Clients -> 0..2] /\ open \subseteq 1..2
<1>3. Life!TypeOK
  BY DEF LifeInv
<1>4. jar \in Nat /\ jar \in 0..jars /\ jars \in Nat
  <2>1. jar \in 0..jars /\ jars \in Nat
    BY <1>3, Zenon DEF Life!TypeOK
  <2>. QED  BY <2>1
<1>5. /\ wanted \in {"jar", "ownJar", "cache", "logger"} /\ lock \in BOOLEAN
      /\ call \in [Calls -> Life!Steps] /\ with \in [Calls -> Jars(jars)]
      /\ tracked \subseteq Calls /\ importFailed \in BOOLEAN /\ destroyed \subseteq Life!Clients
      /\ DOMAIN chains = Life!Clients /\ breakers \in [Life!Clients -> 0..2] /\ open \subseteq 1..2
  BY <1>3, Zenon DEF Life!TypeOK, Jars
<1>. QED  BY <1>4, <1>5

LEMMA LifeInit == Init => LifeInv
<1>. SUFFICES ASSUME Life!Init PROVE LifeInv
  BY DEF Init
<1>0. /\ wanted \in {"jar", "ownJar", "cache", "logger"}
      /\ jar = 0 /\ jars = 0 /\ lock = FALSE /\ importFailed = FALSE /\ destroyed = {}
      /\ call = [c \in Calls |-> "idle"] /\ with = [c \in Calls |-> None] /\ tracked = {}
      /\ DOMAIN chains = Life!Clients /\ breakers = [k \in Life!Clients |-> 0] /\ open = {}
  BY DEF Life!Init
<1>1. jar = 0 /\ jars = 0
  BY <1>0, Zenon
<1>2. Life!TypeOK
  <2>1. call \in [Calls -> Life!Steps]
    BY <1>0 DEF Life!Steps
  <2>2. with \in [Calls -> Jars(jars)]
    BY <1>0, JarsOf
  <2>3. jar \in 0..jars /\ jars \in Nat
    BY ONLY <1>1
  <2>5. open \subseteq 1..2 /\ breakers \in [Life!Clients -> 0..2]
    <3>1. open = {} /\ breakers = [k \in Life!Clients |-> 0]
      BY <1>0, Zenon
    <3>. QED  BY ONLY <3>1
  <2>4. lock \in BOOLEAN /\ importFailed \in BOOLEAN /\ tracked \subseteq Calls
        /\ destroyed \subseteq Life!Clients
    BY <1>0
  <2>. QED  BY <1>0, <2>1, <2>2, <2>3, <2>4, <2>5, Zenon DEF Life!TypeOK, Jars
<1>3. OneMaker /\ Life!SocketsOwned
  <2>1. ASSUME NEW c \in Calls PROVE call[c] = "idle" /\ with[c] = None /\ with[c] # 0 /\ call[c] \notin Life!Alive
    BY <1>0, JarsOf DEF Life!Alive
  <2>2. jars <= 1 /\ jar = jars
    BY ONLY <1>1
  <2>3. OneMaker
    BY <1>0, <2>1, <2>2 DEF OneMaker
  <2>. QED  BY <2>1, <2>3 DEF Life!SocketsOwned
<1>4. Chained
  <2>1. <<"parent">> \o Own \in Seq(Chainable)
    <3>1. <<"parent">> \in Seq(Chainable)
      BY DEF Chainable, Lasting
    <3>. QED  BY <3>1, ChainsAssumed, ConcatProperties
  <2>2. <<>> \in Seq(Chainable) /\ IsInjective(<<>>)
    BY DEF IsInjective
  <2>3. chains = [k \in Life!Clients |-> IF k = "parent" THEN <<"parent">> \o Own ELSE <<>>]
    BY DEF Life!Init, Life!Constructed
  <2>. HIDE DEF Life!Clients
  <2>4. "parent" \in Life!Clients
    BY DEF Life!Clients
  <2>5. chains["parent"] = <<"parent">> \o Own
    BY <2>3, <2>4
  <2>6. Range(<<"parent">> \o Own) \subseteq Lasting \cup Range(Own)
    BY ChainsAssumed DEF Lasting
  <2>. QED  BY <2>1, <2>2, <2>3, <2>5, <2>6, ChainsAssumed DEF Chained
<1>. QED  BY <1>2, <1>3, <1>4 DEF LifeInv

\* The chains, the breakers and the config are as they were.
KeepsChains == chains' = chains /\ breakers' = breakers /\ open' = open /\ wanted' = wanted

\* The invariant without the chains, from what is known of each call.
LEMMA CallsKept ==
  ASSUME LifeInv, KeepsChains, destroyed' = destroyed, OneMaker', Life!SocketsOwned',
         jar' \in 0..jars', jars' \in Nat, lock' \in BOOLEAN, call' \in [Calls -> Life!Steps],
         with' \in [Calls -> Jars(jars')], tracked' \subseteq Calls, importFailed' \in BOOLEAN
  PROVE  LifeInv'
<1>1. Life!TypeOK'
  <2>1. /\ wanted' \in {"jar", "ownJar", "cache", "logger"} /\ destroyed' \subseteq Life!Clients
        /\ DOMAIN chains' = Life!Clients /\ breakers' \in [Life!Clients -> 0..2]
        /\ open' \subseteq 1..2
    BY LifeTyped, Zenon DEF KeepsChains
  <2>. QED  BY <2>1, Zenon DEF Life!TypeOK, Jars
<1>2. Chained'
  BY DEF LifeInv, Chained, KeepsChains
<1>. QED  BY <1>1, <1>2 DEF LifeInv

\* The invariant as it is known of each call.
LEMMA CallsAre ==
  ASSUME LifeInv
  PROVE  /\ \A c, d \in Calls : call[c] = "making" /\ call[d] = "making" => c = d
         /\ lock => \E c \in Calls : call[c] = "making"
         /\ \A c \in Calls : call[c] = "making" => lock /\ jar = 0 /\ wanted # "ownJar"
         /\ \A c \in Calls : with[c] \notin {None, 0, jar} => "parent" \in destroyed
         /\ jar \in {0, jars} /\ (wanted = "ownJar" => jars <= 1)
         /\ \A c \in Calls : call[c] = "waiting" => lock
         /\ \A c \in Calls : call[c] = "woken" => jar # 0 \/ importFailed \/ "parent" \in destroyed
         /\ \A c \in Calls : with[c] = 0 => importFailed \/ "parent" \in destroyed
         /\ "parent" \notin destroyed => jar = jars /\ jars <= 1
         /\ \A c \in Calls : call[c] \in Life!Alive => c \in tracked
         /\ \A c \in Calls : call[c] = "closed" => c \notin tracked
BY DEF LifeInv, OneMaker, Life!SocketsOwned

\* A call is given what there is, or looks for it.
LEMMA AskNext ==
  ASSUME LifeInv, NEW c \in Calls, wanted # "ownJar", Life!Ask(c) PROVE LifeInv'
<1>1. /\ call[c] = "idle" /\ KeepsChains /\ jar' = jar /\ jars' = jars
      /\ tracked' = tracked /\ importFailed' = importFailed /\ destroyed' = destroyed
  BY DEF Life!Ask, KeepsChains
<1>2. /\ jar \in 0..jars /\ jars \in Nat /\ lock \in BOOLEAN /\ call \in [Calls -> Life!Steps]
      /\ with \in [Calls -> Jars(jars)] /\ tracked \subseteq Calls /\ importFailed \in BOOLEAN
      /\ jar \in Jars(jars)
  BY LifeTyped, JarsOf
<1>3. /\ "ready" \in Life!Steps /\ "waiting" \in Life!Steps /\ "making" \in Life!Steps
      /\ Life!Alive \cap {"ready", "waiting", "making", "idle"} = {}
  BY DEF Life!Steps, Life!Alive
<1>4. CASE jar # 0 /\ Life!Go(c, "ready") /\ Life!Given(c, jar) /\ UNCHANGED lock
  <2>1. /\ call' = [call EXCEPT ![c] = "ready"] /\ with' = [with EXCEPT ![c] = jar] /\ lock' = lock
    BY <1>4 DEF Life!Go, Life!Given
  <2>2. call' \in [Calls -> Life!Steps] /\ \A d \in Calls : call'[d] = IF d = c THEN "ready" ELSE call[d]
    BY <1>2, <1>3, <2>1
  <2>3. with' \in [Calls -> Jars(jars)] /\ \A d \in Calls : with'[d] = IF d = c THEN jar ELSE with[d]
    BY <1>2, <2>1
  <2>4. OneMaker'
    BY <1>1, <1>4, <2>1, <2>2, <2>3, CallsAre DEF OneMaker, KeepsChains
  <2>5. Life!SocketsOwned'
    BY <1>1, <1>3, <2>2, CallsAre DEF Life!SocketsOwned
  <2>. QED  BY <1>1, <1>2, <2>1, <2>2, <2>3, <2>4, <2>5, CallsKept
<1>5. CASE Life!Locked /\ Life!Go(c, "waiting") /\ UNCHANGED <<with, lock>>
  <2>1. /\ call' = [call EXCEPT ![c] = "waiting"] /\ with' = with /\ lock' = lock /\ lock
    BY <1>5 DEF Life!Go, Life!Locked
  <2>2. call' \in [Calls -> Life!Steps] /\ \A d \in Calls : call'[d] = IF d = c THEN "waiting" ELSE call[d]
    BY <1>2, <1>3, <2>1
  <2>4. OneMaker'
    BY <1>1, <2>1, <2>2, CallsAre DEF OneMaker, KeepsChains
  <2>5. Life!SocketsOwned'
    BY <1>1, <1>3, <2>2, CallsAre DEF Life!SocketsOwned
  <2>. QED  BY <1>1, <1>2, <2>1, <2>2, <2>4, <2>5, CallsKept
<1>6. CASE jar = 0 /\ ~Life!Locked /\ Life!Go(c, "making") /\ lock' = TRUE /\ UNCHANGED with
  <2>1. /\ call' = [call EXCEPT ![c] = "making"] /\ with' = with /\ lock' = TRUE /\ ~lock
    BY <1>6 DEF Life!Go, Life!Locked
  <2>2. call' \in [Calls -> Life!Steps] /\ \A d \in Calls : call'[d] = IF d = c THEN "making" ELSE call[d]
    BY <1>2, <1>3, <2>1
  <2>4. OneMaker'
    BY <1>1, <1>6, <2>1, <2>2, CallsAre DEF OneMaker, KeepsChains
  <2>5. Life!SocketsOwned'
    BY <1>1, <1>3, <2>2, CallsAre DEF Life!SocketsOwned
  <2>. QED  BY <1>1, <1>2, <2>1, <2>2, <2>4, <2>5, CallsKept
<1>. QED  BY <1>4, <1>5, <1>6 DEF Life!Ask

\* Whoever makes it is done, and the others look again.
LEMMA UnlockedNext ==
  ASSUME LifeInv, NEW c \in Calls, NEW place \in {"ready", "refused"}, call[c] = "making",
         Life!Unlocked(c, place), KeepsChains, tracked' = tracked, destroyed' = destroyed,
         jars' \in Nat, jar' \in {0, jars'}, importFailed' \in BOOLEAN,
         "parent" \notin destroyed => jar' = jars' /\ jars' <= 1, importFailed => importFailed',
         jar' # 0 \/ importFailed', with' \in [Calls -> Jars(jars')],
         \A d \in Calls : /\ with'[d] = 0 => importFailed' \/ "parent" \in destroyed
                          /\ with'[d] \notin {None, 0, jar'} => "parent" \in destroyed
  PROVE  LifeInv'
<1>1. /\ lock' = FALSE
      /\ call' = [d \in Calls |-> CASE d = c -> place [] call[d] = "waiting" -> "woken"
                                    [] OTHER -> call[d]]
  BY DEF Life!Unlocked
<1>2. call \in [Calls -> Life!Steps] /\ tracked \subseteq Calls
  BY LifeTyped
<1>3. /\ place \in Life!Steps /\ "woken" \in Life!Steps
      /\ Life!Alive \cap {"ready", "refused", "woken", "waiting", "making"} = {}
  BY DEF Life!Steps, Life!Alive
<1>4. /\ call' \in [Calls -> Life!Steps]
      /\ \A d \in Calls : call'[d] = IF d = c THEN place ELSE IF call[d] = "waiting" THEN "woken"
                                     ELSE call[d]
  BY <1>1, <1>2, <1>3
<1>5. \A d \in Calls : call[d] = "making" => d = c
  BY CallsAre
<1>6. OneMaker'
  <2>1. \A d \in Calls : call'[d] # "making" /\ call'[d] # "waiting"
    BY <1>4, <1>5
  <2>2. wanted' # "ownJar"
    BY CallsAre DEF KeepsChains
  <2>. QED  BY <1>1, <2>1, <2>2 DEF OneMaker
<1>7. Life!SocketsOwned'
  BY <1>3, <1>4, CallsAre DEF Life!SocketsOwned
<1>8. lock' \in BOOLEAN
  BY <1>1
<1>9. jars' \in Nat /\ jar' \in 0..jars'
  OBVIOUS
<1>. QED  BY <1>2, <1>4, <1>6, <1>7, <1>8, <1>9, CallsKept

LEMMA MakerNext ==
  ASSUME LifeInv, NEW c \in Calls, Life!JarMade(c) \/ Life!ImportFails(c) PROVE LifeInv'
<1>1. /\ call[c] = "making" /\ KeepsChains /\ tracked' = tracked /\ destroyed' = destroyed
  BY DEF Life!JarMade, Life!ImportFails, KeepsChains
<1>2. /\ jar \in 0..jars /\ jar \in Nat /\ jars \in Nat /\ with \in [Calls -> Jars(jars)]
      /\ importFailed \in BOOLEAN
  BY LifeTyped
<1>3. jar = 0 /\ ("parent" \notin destroyed => jars = 0)
  BY <1>1, CallsAre
<1>4. CASE Life!JarMade(c)
  <2>1. /\ Life!Unlocked(c, "ready") /\ jars' = jars + 1 /\ jar' = jars'
        /\ importFailed' = importFailed /\ with' = [with EXCEPT ![c] = jars']
    BY <1>3, <1>4 DEF Life!JarMade, Life!Given
  <2>2. jars \in Nat /\ jars' \in Nat /\ jars <= jars' /\ jars' \in 0..jars'
    BY <1>2, <2>1
  <2>3. Jars(jars) \subseteq Jars(jars') /\ jars' \in Jars(jars')
    BY <2>2, JarsOf
  <2>4. with' \in [Calls -> Jars(jars')]
    BY <1>2, <2>1, <2>3
  <2>6. /\ jars' \in Nat /\ jar' \in {0, jars'} /\ jar' = jars' /\ jar' # 0
        /\ "parent" \notin destroyed => jars' <= 1
    BY <1>2, <1>3, <2>1
  <2>5. \A d \in Calls : /\ with'[d] = 0 => importFailed' \/ "parent" \in destroyed
                         /\ with'[d] \notin {None, 0, jar'} => "parent" \in destroyed
    BY <1>2, <1>3, <2>1, <2>6, CallsAre
  <2>. QED  BY <1>1, <1>2, <2>1, <2>2, <2>4, <2>5, <2>6, UnlockedNext
<1>5. CASE Life!ImportFails(c)
  <2>1. /\ Life!Unlocked(c, "refused") /\ jars' = jars /\ jar' = jar /\ importFailed' = TRUE
        /\ with' = with
    BY <1>5 DEF Life!ImportFails
  <2>2. /\ jars' \in Nat /\ jar' \in {0, jars'}
        /\ "parent" \notin destroyed => jar' = jars' /\ jars' <= 1
    BY <1>2, <1>3, <2>1, CallsAre
  <2>3. \A d \in Calls : /\ with'[d] = 0 => importFailed' \/ "parent" \in destroyed
                         /\ with'[d] \notin {None, 0, jar'} => "parent" \in destroyed
    BY <2>1, CallsAre
  <2>. QED  BY <1>1, <1>2, <2>1, <2>2, <2>3, UnlockedNext
<1>. QED  BY <1>4, <1>5

\* A jar of the user's own.
LEMMA OwnNext ==
  ASSUME LifeInv, NEW c \in Calls, wanted = "ownJar", Life!TakeOwnJar(c) PROVE LifeInv'
<1>1. /\ call[c] = "idle" /\ KeepsChains /\ jar' = 1 /\ jars' = 1
      /\ call' = [call EXCEPT ![c] = "ready"] /\ with' = [with EXCEPT ![c] = 1] /\ lock' = lock
      /\ tracked' = tracked /\ importFailed' = importFailed /\ destroyed' = destroyed
  BY DEF Life!TakeOwnJar, KeepsChains, Life!Go, Life!Given
<1>2. /\ jars \in Nat /\ jars <= 1 /\ jar \in {0, jars} /\ lock \in BOOLEAN /\ call \in [Calls -> Life!Steps]
      /\ with \in [Calls -> Jars(jars)] /\ tracked \subseteq Calls /\ importFailed \in BOOLEAN
  BY LifeTyped, CallsAre
<1>3. "ready" \in Life!Steps /\ Life!Alive \cap {"ready", "idle"} = {}
  BY DEF Life!Steps, Life!Alive
<1>4. jars \in Nat /\ jars' \in Nat /\ jars <= jars' /\ 1 \in 0..jars' /\ jar' \in 0..jars'
  BY <1>1, <1>2
<1>5. Jars(jars) \subseteq Jars(jars') /\ 1 \in Jars(jars')
  BY <1>4, JarsOf
<1>6. call' \in [Calls -> Life!Steps] /\ \A d \in Calls : call'[d] = IF d = c THEN "ready" ELSE call[d]
  BY <1>1, <1>2, <1>3
<1>7. with' \in [Calls -> Jars(jars')] /\ \A d \in Calls : with'[d] = IF d = c THEN 1 ELSE with[d]
  BY <1>1, <1>2, <1>5
<1>8. jars' <= 1 /\ jar' = jars' /\ jar' # 0
  BY <1>1
<1>9. OneMaker'
  <2>1. \A d \in Calls : call'[d] # "making"
    BY <1>6, CallsAre
  <2>2. \A d \in Calls : call'[d] # "waiting"
    BY <1>6, CallsAre
  <2>3. ~lock'
    BY <1>1, CallsAre
  <2>4. \A d \in Calls : /\ with'[d] = 0 => importFailed' \/ "parent" \in destroyed'
                         /\ with'[d] \notin {None, 0, jar'} => "parent" \in destroyed'
    <3>. TAKE d \in Calls
    <3>1. with[d] \in {None, 0, 1}
      BY <1>2 DEF Jars
    <3>2. None # 1
      BY QueuesAssumption DEF QueuesAssumption
    <3>3. jar \in {0, 1} /\ (jar = 0 /\ with[d] = 1 => "parent" \in destroyed)
      BY <1>2, <3>2, CallsAre
    <3>. QED  BY <1>1, <1>7, <3>1, <3>3, CallsAre
  <2>. QED  BY <1>8, <2>1, <2>2, <2>3, <2>4 DEF OneMaker
<1>10. Life!SocketsOwned'
  BY <1>1, <1>3, <1>6, CallsAre DEF Life!SocketsOwned
<1>. QED  BY <1>1, <1>2, <1>4, <1>6, <1>7, <1>9, <1>10, CallsKept

\* A call that was woken, and a socket: nobody makes a part.
LEMMA SocketNext ==
  ASSUME LifeInv, NEW c \in Calls, Life!Woken(c) \/ Life!Dial(c) \/ Life!Socket(c) PROVE LifeInv'
<1>1. /\ KeepsChains /\ jar' = jar /\ jars' = jars /\ lock' = lock
      /\ importFailed' = importFailed /\ destroyed' = destroyed
  BY DEF Life!Woken, Life!Dial, Life!Socket, KeepsChains
<1>2. /\ jar \in 0..jars /\ jars \in Nat /\ lock \in BOOLEAN /\ call \in [Calls -> Life!Steps]
      /\ with \in [Calls -> Jars(jars)] /\ tracked \subseteq Calls /\ importFailed \in BOOLEAN
      /\ jar \in Jars(jars)
  BY LifeTyped, JarsOf
<1>. DEFINE Final == {"ready", "refused", "connecting", "open", "closed", "retrying", "abandoned"}
<1>3. PICK place \in Final :
        /\ call' = [call EXCEPT ![c] = place]
        /\ call[c] \in {"woken", "ready", "connecting", "open", "retrying"}
        /\ (with' = with /\ call[c] # "woken") \/ (call[c] = "woken" /\ with' = [with EXCEPT ![c] = jar])
        /\ tracked' \in {tracked, tracked \cup {c}, tracked \ {c}}
        /\ place \in Life!Alive => c \in tracked'
        /\ place = "closed" => tracked' = tracked \ {c}
        /\ tracked' = tracked \ {c} => tracked' = tracked \/ place = "closed"
        /\ tracked' = tracked \cup {c} => tracked' = tracked \/ place = "connecting"
  <2>. USE CallsAre DEF Life!Go, Life!Given, Life!Alive
  <2>1. CASE Life!Woken(c)
    BY <2>1 DEF Life!Woken
  <2>2. CASE Life!Dial(c)
    BY <2>2 DEF Life!Dial
  <2>3. CASE Life!Connected(c) /\ UNCHANGED with
    BY <2>3 DEF Life!Connected
  <2>4. CASE Life!ConnectFails(c) /\ UNCHANGED with
    BY <2>4 DEF Life!ConnectFails
  <2>5. CASE Life!Drops(c) /\ UNCHANGED with
    BY <2>5 DEF Life!Drops, Life!ForgottenWhenOver
  <2>6. CASE Life!Abandon(c) /\ UNCHANGED with
    BY <2>6 DEF Life!Abandon
  <2>. QED  BY <2>1, <2>2, <2>3, <2>4, <2>5, <2>6 DEF Life!Socket
<1>4. Final \subseteq Life!Steps /\ Final \cap {"making", "waiting", "woken"} = {}
  BY DEF Life!Steps
<1>. HIDE DEF Final
<1>5. call' \in [Calls -> Life!Steps] /\ \A d \in Calls : call'[d] = IF d = c THEN place ELSE call[d]
  BY <1>2, <1>3, <1>4
<1>6. with' \in [Calls -> Jars(jars)] /\ tracked' \subseteq Calls
  BY <1>2, <1>3
<1>7. \A d \in Calls : /\ with'[d] = 0 => importFailed' \/ "parent" \in destroyed'
                       /\ with'[d] \notin {None, 0, jar'} => "parent" \in destroyed'
  BY <1>1, <1>2, <1>3, CallsAre
<1>8. OneMaker'
  BY <1>1, <1>3, <1>4, <1>5, <1>7, CallsAre DEF OneMaker, KeepsChains
<1>9. Life!SocketsOwned'
  BY <1>3, <1>5, CallsAre DEF Life!SocketsOwned
<1>. QED  BY <1>1, <1>2, <1>5, <1>6, <1>8, <1>9, CallsKept

\* The chains are changed, and those only.
LEMMA ChainsChange ==
  ASSUME LifeInv, Chained', DOMAIN chains' = Life!Clients,
         breakers' \in [Life!Clients -> 0..2], open' \subseteq 1..2,
         wanted' = wanted, jar' = jar, jars' = jars, lock' = lock, call' = call, with' = with,
         tracked' = tracked, importFailed' = importFailed, destroyed' = destroyed
  PROVE  LifeInv'
<1>2. Life!TypeOK'
  BY DEF LifeInv, Life!TypeOK
<1>3. OneMaker'
  BY DEF LifeInv, OneMaker
<1>4. Life!SocketsOwned'
  BY DEF LifeInv, Life!SocketsOwned
<1>. QED  BY <1>2, <1>3, <1>4 DEF LifeInv

\* A chain of the client that is one of what lasts, and of its config.
LEMMA ChainOfParent ==
  ASSUME LifeInv, NEW s \in Seq(Chainable), IsInjective(s), Range(s) \subseteq Lasting \cup Range(Own),
         Life!Chain("parent", s)
  PROVE  Chained' /\ DOMAIN chains' = Life!Clients
<1>1. DOMAIN chains = Life!Clients /\ "parent" \in Life!Clients
  BY LifeTyped DEF Life!Clients
<1>2. \A k \in Life!Clients : chains[k] \in Seq(Chainable) /\ IsInjective(chains[k])
  BY DEF LifeInv, Chained
<1>3. chains' = [k \in Life!Clients |-> IF k = "parent" THEN s ELSE chains[k]]
  BY <1>1 DEF Life!Chain
<1>. HIDE DEF Life!Clients
<1>4. /\ \A k \in Life!Clients : chains'[k] = IF k = "parent" THEN s ELSE chains[k]
      /\ DOMAIN chains' = Life!Clients
  BY <1>2, <1>3
<1>. QED  BY <1>1, <1>2, <1>4 DEF Chained

LEMMA ChainOfChild ==
  ASSUME LifeInv, NEW s \in Seq(Chainable), IsInjective(s), Life!Chain("child", s)
  PROVE  Chained' /\ DOMAIN chains' = Life!Clients
<1>1. DOMAIN chains = Life!Clients /\ "parent" \in Life!Clients
  BY LifeTyped DEF Life!Clients
<1>2. \A k \in Life!Clients : chains[k] \in Seq(Chainable) /\ IsInjective(chains[k])
  BY DEF LifeInv, Chained
<1>3. chains' = [k \in Life!Clients |-> IF k = "child" THEN s ELSE chains[k]]
  BY <1>1 DEF Life!Chain
<1>. HIDE DEF Life!Clients
<1>4. /\ \A k \in Life!Clients : chains'[k] = IF k = "child" THEN s ELSE chains[k]
      /\ DOMAIN chains' = Life!Clients
  BY <1>2, <1>3
<1>5. chains'["parent"] = chains["parent"]
  BY <1>1, <1>4
<1>6. Range(chains["parent"]) \subseteq Lasting \cup Range(Own)
  BY DEF LifeInv, Chained
<1>. QED  BY <1>2, <1>4, <1>5, <1>6 DEF Chained

\* What can be configured.
LEMMA ConfigureNext ==
  ASSUME LifeInv, Life!Configure PROVE LifeInv'
<1>1. /\ wanted' = wanted /\ jar' = jar /\ jars' = jars /\ lock' = lock /\ call' = call
      /\ with' = with /\ tracked' = tracked /\ importFailed' = importFailed
      /\ destroyed' = destroyed
  BY DEF Life!Configure
<1>2. /\ breakers \in [Life!Clients -> 0..2] /\ open \subseteq 1..2 /\ DOMAIN chains = Life!Clients
      /\ "parent" \in Life!Clients /\ "child" \in Life!Clients
  BY LifeTyped DEF Life!Clients
<1>. DEFINE p == chains["parent"]
<1>3. /\ p \in Seq(Chainable) /\ IsInjective(p) /\ Range(p) \subseteq Lasting \cup Range(Own)
      /\ \A k \in Life!Clients : chains[k] \in Seq(Chainable)
  BY <1>2 DEF LifeInv, Chained
<1>4. Lasting \subseteq Chainable
  BY DEF Chainable
<1>5. ASSUME NEW f, Life!Use(f), f \in Lasting PROVE LifeInv'
  <2>1. Life!Chain("parent", Append(p, f)) /\ breakers' = breakers /\ open' = open
    BY <1>5 DEF Life!Use
  <2>2. f \notin Range(p)
    BY <1>3, <1>5, SameSets DEF Life!Use
  <2>3. /\ Append(p, f) \in Seq(Chainable) /\ Range(Append(p, f)) = Range(p) \cup {f}
        /\ IsInjective(Append(p, f))
    BY <1>3, <1>4, <1>5, <2>2, SetOfAppend, AppendProperties
  <2>4. Range(Append(p, f)) \subseteq Lasting \cup Range(Own)
    BY <1>3, <1>5, <2>3
  <2>5. Chained' /\ DOMAIN chains' = Life!Clients
    BY <2>1, <2>3, <2>4, ChainOfParent
  <2>. QED  BY <1>1, <1>2, <2>1, <2>5, ChainsChange
<1>6. ASSUME NEW f, Life!Eject(f) PROVE LifeInv'
  <2>. DEFINE s == Life!Without(p, {f})
  <2>1. Life!Chain("parent", s) /\ breakers' = breakers /\ open' = open
    BY <1>6 DEF Life!Eject
  <2>2. s \in Seq(Chainable) /\ Range(s) = Range(p) \ {f} /\ IsInjective(s)
    <3>1. s = Hooks!Without(p, {f})
      BY WithoutIs
    <3>2. Hooks!Without(p, {f}) \in Seq(Chainable)
      BY <1>3, WithoutFacts
    <3>3. Range(Hooks!Without(p, {f})) = Range(p) \ {f}
      BY <1>3, WithoutFacts
    <3>4. IsInjective(Hooks!Without(p, {f}))
      BY <1>3, WithoutFacts
    <3>. QED  BY <3>1, <3>2, <3>3, <3>4
  <2>. HIDE DEF s
  <2>3. Range(s) \subseteq Lasting \cup Range(Own)
    BY <1>3, <2>2
  <2>4. Chained' /\ DOMAIN chains' = Life!Clients
    BY <2>1, <2>2, <2>3, ChainOfParent
  <2>. QED  BY <1>1, <1>2, <2>1, <2>4, ChainsChange
<1>7. CASE Life!Extend
  <2>. DEFINE config == Own \o Childs
              a == <<"child">> \o config
              b == Life!Runtime(p, config)
  <2>1. Life!Chain("child", a \o b) /\ open' = open
        /\ breakers' = [breakers EXCEPT !["child"] = breakers["parent"]]
    BY <1>7 DEF Life!Extend, Life!Constructed
  <2>2. /\ a \in Seq(Chainable) /\ IsInjective(a) /\ Range(a) = {"child"} \cup Range(config)
        /\ Range(config) = Range(Own) \cup Range(Childs)
    <3>1. "child" \in Chainable
      BY DEF Chainable
    <3>2. config \in Seq(Chainable)
      BY ChainsAssumed
    <3>3. a \in Seq(Chainable)
      BY <3>1, <3>2, SetOfPrepend
    <3>. QED  BY <3>3, ChainsAssumed
  <2>3. /\ b \in Seq(Chainable) /\ IsInjective(b) /\ Range(b) = Range(p) \ Range(config)
    <3>1. b = Hooks!Without(p, Range(config))
      BY WithoutIs, SameSets DEF Life!Runtime
    <3>. QED  BY <1>3, <3>1, WithoutFacts
  <2>. HIDE DEF a, b, config
  <2>4. Range(a) \cap Range(b) = {}
    BY <1>3, <2>2, <2>3, ChainsAssumed
  <2>5. a \o b \in Seq(Chainable) /\ IsInjective(a \o b)
    BY <2>2, <2>3, <2>4, SetOfConcat, ConcatProperties
  <2>6. Chained' /\ DOMAIN chains' = Life!Clients
    BY <2>1, <2>5, ChainOfChild
  <2>7. breakers' \in [Life!Clients -> 0..2]
    BY <1>2, <2>1
  <2>. QED  BY <1>1, <1>2, <2>1, <2>6, <2>7, ChainsChange
<1>8. ASSUME NEW k \in Life!Clients, Life!EnableBreaker(k) \/ Life!Trip(k) \/ Life!Reset(k)
      PROVE  LifeInv'
  <2>1. chains' = chains
    BY <1>8 DEF Life!EnableBreaker, Life!Trip, Life!Reset
  <2>2. Chained'
    BY <2>1 DEF LifeInv, Chained
  <2>3. DOMAIN chains' = Life!Clients
    BY <1>2, <2>1
  <2>4. breakers' \in [Life!Clients -> 0..2] /\ open' \subseteq 1..2
    <3>1. CASE Life!EnableBreaker(k)
      <4>. DEFINE P(n) == n \in 1..2 /\ \A j \in Life!Clients : breakers[j] # n
      <4>1. \E n : P(n)
        <5>1. breakers[k] = 0
          BY <3>1 DEF Life!EnableBreaker
        <5>2. PICK n \in 1..2 : \A j \in Life!Clients : j # k => breakers[j] # n
          BY <1>2, <1>8 DEF Life!Clients
        <5>3. \A j \in Life!Clients : breakers[j] # n
          BY <5>1, <5>2
        <5>. QED  BY <5>2, <5>3
      <4>2. breakers' = [breakers EXCEPT ![k] = CHOOSE n : P(n)] /\ open' = open
        BY <3>1 DEF Life!EnableBreaker
      <4>3. (CHOOSE n : P(n)) \in 1..2
        <5>1. P(CHOOSE n : P(n))
          BY <4>1, Zenon
        <5>. QED  BY <5>1
      <4>. QED  BY <1>2, <1>8, <4>2, <4>3
    <3>2. CASE Life!Trip(k)
      <4>1. breakers' = breakers /\ breakers[k] # 0 /\ open' = open \cup {breakers[k]}
        BY <3>2 DEF Life!Trip
      <4>2. breakers[k] \in 1..2
        BY <1>2, <1>8, <4>1
      <4>. QED  BY <1>2, <4>1, <4>2
    <3>3. CASE Life!Reset(k)
      BY <1>2, <3>3 DEF Life!Reset
    <3>. QED  BY <1>8, <3>1, <3>2, <3>3
  <2>. QED  BY <1>1, <2>2, <2>3, <2>4, ChainsChange
<1>9. "hooks" \in Lasting /\ Added \subseteq Lasting
  BY DEF Lasting
<1>. QED  BY <1>5, <1>6, <1>7, <1>8, <1>9 DEF Life!Configure, Life!Attach, Life!Detach

\* A client is destroyed.
LEMMA DestroyNext ==
  ASSUME LifeInv, NEW k \in Life!Clients, Life!Destroy(k) PROVE LifeInv'
<1>1. /\ destroyed' = destroyed \cup {k} /\ Life!Chain(k, <<>>) /\ open' = open \ {breakers[k]}
      /\ wanted' = wanted /\ jars' = jars /\ lock' = lock /\ with' = with
      /\ importFailed' = importFailed /\ breakers' = breakers
  BY DEF Life!Destroy
<1>2. /\ wanted \in {"jar", "ownJar", "cache", "logger"}
      /\ jar \in 0..jars /\ jars \in Nat /\ lock \in BOOLEAN /\ call \in [Calls -> Life!Steps]
      /\ with \in [Calls -> Jars(jars)] /\ tracked \subseteq Calls /\ importFailed \in BOOLEAN
      /\ destroyed \subseteq Life!Clients /\ breakers \in [Life!Clients -> 0..2]
      /\ open \subseteq 1..2 /\ DOMAIN chains = Life!Clients
  BY LifeTyped
<1>3. Chained' /\ DOMAIN chains' = Life!Clients
  <2>1. <<>> \in Seq(Chainable) /\ IsInjective(<<>>) /\ Range(<<>>) = {}
    BY DEF IsInjective, Range
  <2>2. k = "parent" \/ k = "child"
    BY DEF Life!Clients
  <2>3. CASE k = "parent"
    BY <1>1, <2>1, <2>3, ChainOfParent
  <2>4. CASE k = "child"
    BY <1>1, <2>1, <2>4, ChainOfChild
  <2>. QED  BY <2>2, <2>3, <2>4
<1>4. /\ DOMAIN chains' = Life!Clients /\ destroyed' \subseteq Life!Clients /\ open' \subseteq 1..2
  BY <1>1, <1>2, <1>3
<1>5. CASE k = "parent"
  <2>1. /\ jar' = (IF wanted = "cache" THEN jar ELSE 0) /\ tracked' = {}
        /\ call' = [c \in Calls |-> IF c \in tracked /\ call[c] \in Life!Alive THEN "closed"
                                    ELSE call[c]]
        /\ "parent" \in destroyed'
    BY <1>1, <1>5 DEF Life!Destroy
  <2>2. jar' \in 0..jars'
    BY <1>1, <1>2, <2>1
  <2>3. "closed" \in Life!Steps /\ Life!Alive \cap {"closed", "making", "waiting", "woken"} = {}
    BY DEF Life!Steps, Life!Alive
  <2>4. /\ call' \in [Calls -> Life!Steps]
        /\ \A c \in Calls : call'[c] = IF c \in tracked /\ call[c] \in Life!Alive THEN "closed"
                                       ELSE call[c]
    BY <1>2, <2>1, <2>3
  <2>5. \A c \in Calls : \A s \in {"making", "waiting", "woken"} : call'[c] = s <=> call[c] = s
    BY <2>3, <2>4
  <2>6. OneMaker'
    BY <1>1, <2>1, <2>5, CallsAre DEF OneMaker
  <2>7. Life!SocketsOwned'
    BY <2>1, <2>3, <2>4, CallsAre DEF Life!SocketsOwned
  <2>8. Life!TypeOK'
    BY <1>1, <1>2, <1>4, <2>1, <2>2, <2>4 DEF Life!TypeOK, Jars
  <2>. QED  BY <1>3, <2>6, <2>7, <2>8 DEF LifeInv
<1>6. CASE k # "parent"
  <2>1. jar' = jar /\ tracked' = tracked /\ call' = call
    BY <1>6 DEF Life!Destroy
  <2>2. "parent" \in destroyed' <=> "parent" \in destroyed
    BY <1>1, <1>6
  <2>3. OneMaker' /\ Life!SocketsOwned'
    BY <1>1, <2>1, <2>2 DEF LifeInv, OneMaker, Life!SocketsOwned
  <2>4. Life!TypeOK'
    BY <1>1, <1>2, <1>4, <2>1 DEF Life!TypeOK, Jars
  <2>. QED  BY <1>3, <2>3, <2>4 DEF LifeInv
<1>. QED  BY <1>5, <1>6

LEMMA LifeKept == Spec => []LifeInv
<1>1. LifeInv /\ UNCHANGED life => LifeInv'
  BY DEF life, LifeInv, Life!TypeOK, OneMaker, Life!SocketsOwned, Chained
<1>2. LifeInv /\ Life!Next => LifeInv'
  <2>. SUFFICES ASSUME LifeInv, Life!Next PROVE LifeInv'
    OBVIOUS
  <2>1. ASSUME NEW c \in Calls, Life!AskForJar(c) \/ Life!AskForCache(c) \/ Life!AskForLogger(c)
        PROVE  LifeInv'
    BY <2>1, AskNext, OwnNext DEF Life!AskForJar, Life!AskForCache, Life!AskForLogger
  <2>. QED  BY <2>1, MakerNext, SocketNext, ConfigureNext, DestroyNext DEF Life!Next
<1>3. LifeInv /\ [Next]_vars => LifeInv'
  BY <1>1, <1>2, PartsMove DEF OnlyOf
<1>. QED  BY <1>3, LifeInit, PTL DEF Spec

\* At most one makes.
LEMMA LifeShows == ASSUME LifeInv PROVE Life!LifeHolds
<1>. DEFINE M == {c \in Calls : call[c] = "making"}
<1>1. Cardinality(M) <= 1
  <2>1. CASE M = {}
    BY <2>1, FS_EmptySet
  <2>2. CASE M # {}
    <3>1. PICK c \in M : TRUE
      BY <2>2
    <3>2. M = {c}
      BY <3>1, CallsAre
    <3>3. Cardinality({c}) = 1
      BY FS_Singleton
    <3>4. Cardinality(M) = 1
      BY <3>2, <3>3
    <3>. HIDE DEF M
    <3>. QED  BY <3>4
  <2>. QED  BY <2>1, <2>2
<1>2. Life!JarOnce
  <2>1. Life!Cardinality(M) = Cardinality(M)
    BY Zenon DEF Life!Cardinality, Cardinality
  <2>2. Life!Cardinality(M) <= 1
    BY <1>1, <2>1
  <2>. QED  BY <2>2 DEF LifeInv, OneMaker, Life!JarOnce
<1>3. Life!InterceptorsOnce
  BY SameSets DEF LifeInv, Chained, Life!InterceptorsOnce
<1>. QED  BY <1>2, <1>3 DEF LifeInv, Life!LifeHolds

----------------------------------------------------------------------------
(* The credentials of AWS.                                                 *)

Keyed   == [id : Nat, until : Nat]
Signers == [at : Keys!Asking \cup {"new", "signing", "signed", "refused"},
            seed : Keyed, key : Keyed, again : Nat]

\* What a caller was given was given by now, and what it signs with is what is kept, or was
\* about to expire.
Honest(r) ==
  /\ r.seed.id <= issued /\ r.key.id <= issued
  /\ r.seed = cached \/ r.seed.until <= clock + Window
  /\ r.at = "second" => r.seed.until <= r.again + Window
  /\ r.at = "signed" => /\ r.key.id >= r.seed.id
                        /\ r.key # r.seed => r.seed.until <= r.again + Window

\* A call is made when nothing kept is fresh.
AwsInv ==
  /\ clock \in 0..MaxTime /\ issued \in Nat /\ inflight \in BOOLEAN /\ fetchTimer \in BOOLEAN
  /\ cached \in Keyed /\ cached.id = issued
  /\ fetch \in {Keys!Idle} \cup ({"token", "role", "keys"} \X {"headers", "body"})
  /\ caller \in [Callers -> Signers]
  /\ Keys!OneCall
  /\ inflight => cached.until <= clock + Window
  /\ \A c \in Callers : Honest(caller[c])

aws == <<clock, issued, cached, inflight, fetch, fetchTimer, caller>>

LEMMA KeysAssumed == Lifetime \subseteq Nat /\ Window \in Nat /\ MaxTime \in Nat /\ MaxUses \in Nat
                     /\ MaxNonces \in Nat \ {0}
BY QueuesAssumption

LEMMA AwsInit == ASSUME Init PROVE AwsInv
<1>1. /\ clock = 0 /\ issued = 0 /\ cached = [id |-> 0, until |-> 0] /\ inflight = FALSE
      /\ fetch = <<"none", "none">> /\ fetchTimer = FALSE
      /\ caller = [c \in Callers |->
                     [at |-> "new", seed |-> [id |-> 0, until |-> 0],
                      key |-> [id |-> 0, until |-> 0], again |-> 0]]
  BY DEF Init, Keys!Init, Keys!Nothing, Keys!Idle
<1>2. caller \in [Callers -> Signers] /\ cached \in Keyed /\ cached.id = issued
  BY <1>1 DEF Signers, Keyed
<1>3. \A c \in Callers : Honest(caller[c]) /\ caller[c].at = "new"
  BY <1>1, KeysAssumed DEF Honest
<1>4. Keys!OneCall
  BY <1>1, <1>3 DEF Keys!OneCall, Keys!Idle, Keys!Waiting, Keys!Asking
<1>5. clock \in 0..MaxTime /\ issued \in Nat /\ fetch \in {Keys!Idle}
  BY <1>1, KeysAssumed DEF Keys!Idle
<1>. QED  BY <1>1, <1>2, <1>3, <1>4, <1>5 DEF AwsInv

LEMMA GivenIs ==
  ASSUME NEW r \in Signers, NEW creds \in Keyed
  PROVE  LET g == Keys!Given(r, creds)
         IN /\ g \in Signers /\ g.again = r.again
            /\ r.at = "first" => g.at = "signing" /\ g.seed = creds /\ g.key = r.key
            /\ r.at # "first" => g.at = "signed" /\ g.seed = r.seed /\ g.key = creds
BY DEF Keys!Given, Signers

\* A caller asks.
LEMMA AskKeys == ASSUME AwsInv, NEW c \in Callers, NEW which \in Keys!Asking, Keys!Ask(c, which)
                 PROVE  AwsInv'
<1>. DEFINE r == [caller[c] EXCEPT !.at = which, !.again = clock]
<1>1. /\ clock \in 0..MaxTime /\ issued \in Nat /\ cached \in Keyed /\ cached.id = issued
      /\ caller \in [Callers -> Signers] /\ caller[c] \in Signers /\ Window \in Nat
      /\ clock \in Nat /\ cached.until \in Nat
  BY KeysAssumed DEF AwsInv, Keyed
<1>2. /\ caller[c].at = (IF which = "first" THEN "new" ELSE "signing")
      /\ caller' = [caller EXCEPT ![c] = IF Keys!Fresh(cached) THEN Keys!Given(r, cached) ELSE r]
      /\ clock' = clock /\ issued' = issued /\ cached' = cached
  BY DEF Keys!Ask
<1>3. /\ r \in Signers /\ r.at = which /\ r.again = clock /\ r.seed = caller[c].seed
      /\ r.key = caller[c].key /\ r.seed \in Keyed /\ r.key \in Keyed
  BY <1>1 DEF Signers
<1>. HIDE DEF r
<1>4. which = "first" \/ which = "second"
  BY DEF Keys!Asking
<1>5. Honest(caller[c])
  BY DEF AwsInv
<1>6. Keys!Fresh(cached) \/ cached.until <= clock + Window
  BY <1>1 DEF Keys!Fresh, Keys!Nothing
<1>7. /\ r.seed.until \in Nat /\ r.seed.id \in Nat /\ r.key.id \in Nat
      /\ r.seed.id <= issued /\ r.key.id <= issued
      /\ r.seed = cached \/ r.seed.until <= clock + Window
  BY <1>3, <1>5 DEF Honest, Keyed
<1>8. CASE Keys!Fresh(cached)
  <2>. DEFINE g == Keys!Given(r, cached)
  <2>1. /\ g \in Signers /\ g.again = clock
        /\ which = "first" => g.at = "signing" /\ g.seed = cached /\ g.key = r.key
        /\ which # "first" => g.at = "signed" /\ g.seed = r.seed /\ g.key = cached
    BY <1>1, <1>3, GivenIs
  <2>2. caller' = [caller EXCEPT ![c] = g]
    BY <1>2, <1>8
  <2>. HIDE DEF g
  <2>3. Honest(g)
    BY <1>1, <1>4, <1>7, <2>1 DEF Honest
  <2>4. caller' \in [Callers -> Signers] /\ caller'[c] = g
        /\ \A d \in Callers \ {c} : caller'[d] = caller[d]
    BY <1>1, <2>1, <2>2
  <2>5. \A d \in Callers : Honest(caller'[d])
    BY <2>3, <2>4 DEF AwsInv
  <2>6. \A d \in Callers : Honest(caller[d])'
    BY <1>2, <2>5 DEF Honest
  <2>7. inflight' = inflight /\ fetch' = fetch /\ fetchTimer' = fetchTimer
    BY <1>8 DEF Keys!Ask
  <2>8. ~inflight
    BY <1>1, <1>8 DEF AwsInv, Keys!Fresh
  <2>9. Keys!Waiting' = {}
    <3>1. Keys!Waiting = {}
      BY <2>8 DEF AwsInv, Keys!OneCall
    <3>2. g.at \notin Keys!Asking
      BY <1>4, <2>1 DEF Keys!Asking
    <3>. QED  BY <2>4, <3>1, <3>2 DEF Keys!Waiting
  <2>10. Keys!OneCall'
    BY <2>7, <2>8, <2>9 DEF AwsInv, Keys!OneCall
  <2>. QED  BY <1>2, <2>4, <2>6, <2>7, <2>8, <2>10 DEF AwsInv
<1>9. CASE ~Keys!Fresh(cached)
  <2>1. caller' = [caller EXCEPT ![c] = r]
    BY <1>2, <1>9
  <2>2. Honest(r)
    BY <1>1, <1>3, <1>4, <1>6, <1>7, <1>9 DEF Honest
  <2>3. caller' \in [Callers -> Signers] /\ caller'[c] = r
        /\ \A d \in Callers \ {c} : caller'[d] = caller[d]
    BY <1>1, <1>3, <2>1
  <2>4. \A d \in Callers : Honest(caller'[d])
    BY <2>2, <2>3 DEF AwsInv
  <2>5. \A d \in Callers : Honest(caller[d])'
    BY <1>2, <2>4 DEF Honest
  <2>6. c \in Keys!Waiting'
    BY <1>3, <2>3 DEF Keys!Waiting
  <2>7. cached.until <= clock + Window
    BY <1>6, <1>9
  <2>8. CASE inflight
    <3>1. inflight' = inflight /\ fetch' = fetch /\ fetchTimer' = fetchTimer
      BY <2>8 DEF Keys!Ask
    <3>2. Keys!OneCall'
      BY <2>6, <2>8, <3>1 DEF AwsInv, Keys!OneCall
    <3>. QED  BY <1>2, <2>3, <2>5, <2>7, <3>1, <3>2 DEF AwsInv
  <2>9. CASE ~inflight
    <3>1. inflight' = TRUE /\ fetch' = <<"token", "headers">> /\ fetchTimer' = TRUE
      BY <1>9, <2>9 DEF Keys!Ask, Keys!Fetching
    <3>2. fetch' # Keys!Idle /\ fetch'[2] = "headers"
          /\ fetch' \in {"token", "role", "keys"} \X {"headers", "body"}
      BY <3>1 DEF Keys!Idle
    <3>3. Keys!OneCall'
      BY <2>6, <3>1, <3>2 DEF Keys!OneCall, Keys!Idle
    <3>. QED  BY <1>2, <2>3, <2>5, <2>7, <3>1, <3>2, <3>3 DEF AwsInv, Keys!Idle
  <2>. QED  BY <2>8, <2>9
<1>. QED  BY <1>8, <1>9

\* A request that is not sent in chunks is signed.
LEMMA SignedKeys == ASSUME AwsInv, NEW c \in Callers, Keys!Signed(c) PROVE AwsInv'
<1>. DEFINE r == [caller[c] EXCEPT !.at = "signed", !.key = caller[c].seed]
<1>1. /\ issued \in Nat /\ caller \in [Callers -> Signers] /\ caller[c] \in Signers
      /\ Honest(caller[c])
  BY DEF AwsInv
<1>2. /\ caller[c].at = "signing"
      /\ caller' = [caller EXCEPT ![c].at = "signed", ![c].key = caller[c].seed]
      /\ clock' = clock /\ issued' = issued /\ cached' = cached /\ inflight' = inflight
      /\ fetch' = fetch /\ fetchTimer' = fetchTimer
  BY DEF Keys!Signed
<1>3. /\ r \in Signers /\ r.at = "signed" /\ r.again = caller[c].again
      /\ r.seed = caller[c].seed /\ r.key = r.seed /\ r.seed.id \in Nat
  BY <1>1 DEF Signers, Keyed
<1>4. caller' = [caller EXCEPT ![c] = r]
  BY <1>1, <1>2
<1>. HIDE DEF r
<1>5. caller' \in [Callers -> Signers] /\ caller'[c] = r
      /\ \A d \in Callers \ {c} : caller'[d] = caller[d]
  BY <1>1, <1>3, <1>4
<1>6. Honest(r)
  BY <1>1, <1>3 DEF Honest
<1>7. \A d \in Callers : Honest(caller'[d])
  BY <1>5, <1>6 DEF AwsInv
<1>8. \A d \in Callers : Honest(caller[d])'
  BY <1>2, <1>7 DEF Honest
<1>9. Keys!Waiting' = Keys!Waiting
  BY <1>2, <1>3, <1>5 DEF Keys!Waiting, Keys!Asking
<1>10. Keys!OneCall'
  BY <1>2, <1>9 DEF AwsInv, Keys!OneCall
<1>. QED  BY <1>2, <1>5, <1>8, <1>10 DEF AwsInv

\* An answer comes: its headers, or its body and another request is sent.
LEMMA AnswerKeys == ASSUME AwsInv, Keys!Headers \/ Keys!Body PROVE AwsInv'
<1>1. /\ clock' = clock /\ issued' = issued /\ cached' = cached /\ inflight' = inflight
      /\ caller' = caller
  BY DEF Keys!Headers, Keys!Body
<1>2. fetch # Keys!Idle
  BY DEF AwsInv, Keys!OneCall, Keys!Headers, Keys!Body, Keys!Idle
<1>3. fetch[1] \in {"token", "role", "keys"}
  BY <1>2 DEF AwsInv
<1>4. \/ fetch' = <<fetch[1], "body">> /\ fetchTimer' = FALSE
      \/ fetch' = <<IF fetch[1] = "token" THEN "role" ELSE "keys", "headers">> /\ fetchTimer' = TRUE
  BY DEF Keys!Headers, Keys!Body, Keys!Fetching
<1>5. /\ fetch' \in {"token", "role", "keys"} \X {"headers", "body"}
      /\ fetch' # Keys!Idle /\ (fetchTimer' <=> fetch'[2] = "headers") /\ fetchTimer' \in BOOLEAN
  <2>1. CASE fetch' = <<fetch[1], "body">> /\ fetchTimer' = FALSE
    BY ONLY <1>3, <2>1 DEF Keys!Idle
  <2>2. CASE fetch' = <<IF fetch[1] = "token" THEN "role" ELSE "keys", "headers">>
             /\ fetchTimer' = TRUE
    <3>1. PICK what \in {"role", "keys"} : fetch' = <<what, "headers">>
      BY <2>2
    <3>. QED  BY ONLY <2>2, <3>1 DEF Keys!Idle
  <2>. QED  BY <1>4, <2>1, <2>2
<1>6. Keys!Waiting' = Keys!Waiting /\ \A c \in Callers : Honest(caller[c])'
  BY <1>1 DEF AwsInv, Honest, Keys!Waiting
<1>7. Keys!OneCall'
  BY <1>1, <1>2, <1>5, <1>6 DEF AwsInv, Keys!OneCall, Keys!Idle
<1>. QED  BY <1>1, <1>5, <1>6, <1>7 DEF AwsInv

\* The credentials come.
LEMMA IssuedKeys == ASSUME AwsInv, Keys!Issued PROVE AwsInv'
<1>1. /\ clock \in Nat /\ issued \in Nat /\ cached \in Keyed /\ cached.id = issued
      /\ caller \in [Callers -> Signers] /\ Window \in Nat /\ Lifetime \subseteq Nat
      /\ \A c \in Callers : Honest(caller[c])
  BY KeysAssumed DEF AwsInv
<1>2. PICK life0 \in Lifetime :
        LET creds == [id |-> issued + 1, until |-> clock + life0]
        IN /\ cached' = creds /\ issued' = issued + 1
           /\ caller' = [c \in Callers |-> IF c \in Keys!Waiting THEN Keys!Given(caller[c], creds)
                                           ELSE caller[c]]
  BY DEF Keys!Issued
<1>3. /\ fetch = <<"keys", "body">> /\ inflight' = FALSE /\ fetch' = Keys!Idle
      /\ clock' = clock /\ fetchTimer' = fetchTimer
  BY DEF Keys!Issued
<1>4. PICK creds \in Keyed :
        /\ creds.id = issued + 1 /\ cached' = creds /\ issued' = issued + 1
        /\ caller' = [c \in Callers |-> IF c \in Keys!Waiting THEN Keys!Given(caller[c], creds)
                                        ELSE caller[c]]
  <2>1. [id |-> issued + 1, until |-> clock + life0] \in Keyed
    BY <1>1 DEF Keyed
  <2>. QED  BY <1>2, <2>1
<1>5. inflight /\ ~fetchTimer
  BY <1>3 DEF AwsInv, Keys!OneCall, Keys!Idle
<1>6. cached.until <= clock + Window
  BY <1>5 DEF AwsInv
<1>7. ASSUME NEW c \in Callers
      PROVE  /\ caller'[c] \in Signers /\ Honest(caller[c])' /\ caller'[c].at \notin Keys!Asking
  <2>. DEFINE r == caller[c]
  <2>1. /\ r \in Signers /\ Honest(r) /\ r.seed.id \in Nat /\ r.key.id \in Nat
        /\ r.seed.until \in Nat /\ r.again \in Nat
    BY <1>1 DEF Signers, Keyed
  <2>2. r.seed.until <= clock + Window
    BY <1>6, <2>1 DEF Honest
  <2>3. CASE c \in Keys!Waiting
    <3>. DEFINE g == Keys!Given(r, creds)
    <3>1. /\ g \in Signers /\ g.again = r.again
          /\ r.at = "first" => g.at = "signing" /\ g.seed = creds /\ g.key = r.key
          /\ r.at # "first" => g.at = "signed" /\ g.seed = r.seed /\ g.key = creds
      BY <1>4, <2>1, GivenIs
    <3>2. caller'[c] = g
      BY <1>4, <2>3
    <3>3. r.at = "first" \/ r.at = "second"
      BY <2>3 DEF Keys!Waiting, Keys!Asking
    <3>. HIDE DEF g, r
    <3>4. CASE r.at = "first"
      BY <1>1, <1>3, <1>4, <2>1, <3>1, <3>2, <3>4 DEF Honest, Keys!Asking
    <3>5. CASE r.at = "second"
      BY <1>1, <1>3, <1>4, <2>1, <2>2, <3>1, <3>2, <3>5 DEF Honest, Keys!Asking
    <3>. QED  BY <3>3, <3>4, <3>5
  <2>4. CASE c \notin Keys!Waiting
    <3>1. caller'[c] = r
      BY <1>4, <2>4
    <3>2. r.at \notin Keys!Asking
      BY <2>4 DEF Keys!Waiting
    <3>. HIDE DEF r
    <3>. QED  BY <1>1, <1>3, <1>4, <2>1, <2>2, <3>1, <3>2 DEF Honest
  <2>. QED  BY <2>3, <2>4
<1>8. caller' \in [Callers -> Signers]
  BY <1>4, <1>7
<1>9. Keys!Waiting' = {}
  BY <1>7 DEF Keys!Waiting
<1>10. Keys!OneCall'
  BY <1>3, <1>5, <1>9 DEF Keys!OneCall, Keys!Idle
<1>11. issued' \in Nat /\ cached' \in Keyed /\ cached'.id = issued'
  BY <1>1, <1>4
<1>. QED  BY <1>3, <1>7, <1>8, <1>10, <1>11 DEF AwsInv, Keys!Idle

\* The call of the provider fails.
LEMMA FailsKeys == ASSUME AwsInv, Keys!Fails PROVE AwsInv'
<1>1. /\ clock' = clock /\ issued' = issued /\ cached' = cached /\ inflight' = FALSE
      /\ fetch' = Keys!Idle /\ fetchTimer' = FALSE
      /\ caller' = [c \in Callers |-> IF c \in Keys!Waiting
                                        THEN [caller[c] EXCEPT !.at = "refused"] ELSE caller[c]]
  BY DEF Keys!Fails, Keys!Settled
<1>2. ASSUME NEW c \in Callers
      PROVE  caller'[c] \in Signers /\ Honest(caller[c])' /\ caller'[c].at \notin Keys!Asking
  <2>1. caller[c] \in Signers /\ Honest(caller[c])
    BY DEF AwsInv
  <2>2. CASE c \in Keys!Waiting
    <3>. DEFINE r == [caller[c] EXCEPT !.at = "refused"]
    <3>1. /\ r \in Signers /\ r.at = "refused" /\ r.seed = caller[c].seed /\ r.key = caller[c].key
      BY <2>1 DEF Signers
    <3>2. caller'[c] = r
      BY <1>1, <2>2
    <3>. HIDE DEF r
    <3>. QED  BY <1>1, <2>1, <3>1, <3>2 DEF Honest, Keys!Asking
  <2>3. CASE c \notin Keys!Waiting
    <3>1. caller'[c] = caller[c]
      BY <1>1, <2>3
    <3>. QED  BY <1>1, <2>1, <2>3, <3>1 DEF Honest, Keys!Waiting
  <2>. QED  BY <2>2, <2>3
<1>3. caller' \in [Callers -> Signers]
  BY <1>1, <1>2
<1>4. Keys!OneCall'
  BY <1>1, <1>2 DEF Keys!OneCall, Keys!Idle, Keys!Waiting
<1>. QED  BY <1>1, <1>2, <1>3, <1>4 DEF AwsInv, Keys!Idle

\* Time passes.
LEMMA TickKeys == ASSUME AwsInv, Keys!Tick PROVE AwsInv'
<1>1. /\ clock < MaxTime /\ clock' = clock + 1 /\ issued' = issued /\ cached' = cached
      /\ inflight' = inflight /\ fetch' = fetch /\ fetchTimer' = fetchTimer /\ caller' = caller
  BY DEF Keys!Tick
<1>2. clock \in 0..MaxTime /\ clock \in Nat /\ Window \in Nat /\ MaxTime \in Nat /\ cached.until \in Nat
  BY KeysAssumed DEF AwsInv, Keyed
<1>3. ASSUME NEW c \in Callers PROVE Honest(caller[c])'
  <2>1. Honest(caller[c]) /\ caller[c].seed.until \in Nat
    BY DEF AwsInv, Signers, Keyed
  <2>. QED  BY <1>1, <1>2, <2>1 DEF Honest
<1>4. Keys!OneCall'
  BY <1>1 DEF AwsInv, Keys!OneCall, Keys!Waiting
<1>5. inflight' => cached'.until <= clock' + Window
  BY <1>1, <1>2 DEF AwsInv
<1>6. clock' \in 0..MaxTime
  BY <1>1, <1>2
<1>. QED  BY <1>1, <1>3, <1>4, <1>5, <1>6 DEF AwsInv

LEMMA AwsKept == Spec => []AwsInv
<1>1. AwsInv /\ UNCHANGED aws => AwsInv'
  BY DEF aws, AwsInv, Honest, Keys!OneCall, Keys!Waiting
<1>2. AwsInv /\ Keys!AwsNext => AwsInv'
  BY AskKeys, SignedKeys, AnswerKeys, IssuedKeys, FailsKeys, TickKeys DEF Keys!AwsNext
<1>3. Keys!DigestNext \/ UNCHANGED keys => UNCHANGED aws
  BY DEF Keys!DigestNext, Keys!Authorize, keys, aws
<1>4. AwsInv /\ [Next]_vars => AwsInv'
  BY <1>1, <1>2, <1>3, PartsMove DEF OnlyOf
<1>. QED  BY <1>4, AwsInit, PTL DEF Spec

----------------------------------------------------------------------------
(* The counts of nonces.  For each of the counters c, f says which of the  *)
(* authorizations s was the last with its nonce; they stand in the order   *)
(* of those, and all since the first of them are counted, or all at all    *)
(* while none was forgotten.                                               *)

Pairs == Nonces \X Nat

Points(c, s, f)  == f \in [1..Len(c) -> 1..Len(s)] /\ \A i \in 1..Len(c) : c[i] = s[f[i]]
Latest(c, s, f)  == \A i \in 1..Len(c), m \in 1..Len(s) : m > f[i] => s[m][1] # c[i][1]
Climbs(c, f)     == \A i, j \in 1..Len(c) : i < j => f[i] < f[j]
Known(c, s, f)   == \A m \in 1..Len(s) : (Len(c) = MaxNonces => m >= f[1]) =>
                       \E i \in 1..Len(c) : c[i][1] = s[m][1]
Placed(c, s, f)  == /\ Points(c, s, f) /\ Latest(c, s, f) /\ Climbs(c, f) /\ Known(c, s, f)
                    /\ Len(c) <= MaxNonces

Apart(s, i, j) ==
  \E k, l \in i..j : /\ k <= l /\ \A m \in k..l : s[m][1] # s[i][1]
                     /\ Keys!Cardinality({s[m][1] : m \in k..l}) >= MaxNonces
Rising(s)      ==
  \A i, j \in 1..Len(s) : i < j /\ s[i][1] = s[j][1] => s[i][2] < s[j][2] \/ Apart(s, i, j)

\* No nonce is counted by two of them.
LEMMA PlacedApart ==
  ASSUME NEW c \in Seq(Pairs), NEW s \in Seq(Pairs), NEW f, Placed(c, s, f),
         NEW i \in 1..Len(c), NEW j \in 1..Len(c), i # j
  PROVE  c[i][1] # c[j][1]
<1>1. f[i] \in 1..Len(s) /\ f[j] \in 1..Len(s) /\ c[i] = s[f[i]] /\ c[j] = s[f[j]]
  BY DEF Placed, Points
<1>2. f[i] < f[j] \/ f[j] < f[i]
  <2>1. i < j \/ j < i
    BY LenProperties
  <2>. QED  BY <2>1 DEF Placed, Climbs
<1>. QED  BY <1>1, <1>2 DEF Placed, Latest

\* The one at p goes, for the nonce counted next: it is that nonce's, or the first of too many.
LEMMA PlacedMoved ==
  ASSUME NEW c \in Seq(Pairs), NEW s \in Seq(Pairs), NEW f, Placed(c, s, f),
         NEW p \in 1..Len(c), NEW e \in Pairs, NEW d \in Seq(Pairs),
         Len(d) = Len(c), d[Len(c)] = e,
         \A i \in 1..(Len(c) - 1) : d[i] = c[IF i < p THEN i ELSE i + 1],
         \A i \in 1..Len(c) : i # p => c[i][1] # e[1],
         c[p][1] = e[1] \/ (p = 1 /\ Len(c) = MaxNonces)
  PROVE  \E g : Placed(d, Append(s, e), g)
<1>. DEFINE t == Append(s, e)
            g == [i \in 1..Len(c) |-> IF i = Len(c) THEN Len(s) + 1
                                      ELSE IF i < p THEN f[i] ELSE f[i + 1]]
<1>1. PICK N \in Nat : N = Len(c)
  BY LenProperties
<1>2. PICK L \in Nat : L = Len(s)
  BY LenProperties
<1>3. /\ Len(t) = L + 1 /\ t[L + 1] = e /\ \A m \in 1..L : t[m] = s[m]
  BY <1>2, AppendProperties
<1>4. /\ \A i \in 1..N : f[i] \in 1..L /\ c[i] = s[f[i]]
      /\ \A i \in 1..N, m \in 1..L : m > f[i] => s[m][1] # c[i][1]
      /\ \A i, j \in 1..N : i < j => f[i] < f[j]
      /\ \A m \in 1..L : (N = MaxNonces => m >= f[1]) => \E i \in 1..N : c[i][1] = s[m][1]
      /\ N <= MaxNonces
  BY <1>1, <1>2 DEF Placed, Points, Latest, Climbs, Known
<1>41. \A i \in 1..N : f[i] \in 1..L /\ c[i] = s[f[i]]
  BY ONLY <1>4
<1>42. \A i \in 1..N, m \in 1..L : m > f[i] => s[m][1] # c[i][1]
  BY ONLY <1>4
<1>43. \A m \in 1..L : (N = MaxNonces => m >= f[1]) => \E i \in 1..N : c[i][1] = s[m][1]
  BY ONLY <1>4
<1>5. /\ p \in 1..N /\ Len(d) = N /\ d[N] = e
      /\ \A i \in 1..(N - 1) : d[i] = c[IF i < p THEN i ELSE i + 1]
      /\ \A i \in 1..N : i # p => c[i][1] # e[1]
      /\ c[p][1] = e[1] \/ (p = 1 /\ N = MaxNonces)
  BY <1>1
<1>6. /\ g[N] = L + 1
      /\ \A i \in 1..(N - 1) : g[i] = f[IF i < p THEN i ELSE i + 1]
      /\ DOMAIN g = 1..N
  BY <1>1, <1>2, <1>5
<1>. HIDE DEF t, g
<1>7. \A i \in 1..(N - 1) : (IF i < p THEN i ELSE i + 1) \in 1..N /\ (IF i < p THEN i ELSE i + 1) # p
  BY <1>1, <1>5
<1>8. ASSUME NEW i \in 1..N PROVE g[i] \in 1..(L + 1) /\ d[i] = t[g[i]]
  <2>1. CASE i = N
    BY <1>2, <1>3, <1>5, <1>6, <2>1
  <2>2. CASE i # N
    <3>1. i \in 1..(N - 1)
      BY <1>1, <2>2
    <3>2. PICK k \in 1..N : k = IF i < p THEN i ELSE i + 1
      BY <1>7, <3>1
    <3>3. g[i] = f[k] /\ d[i] = c[k] /\ f[k] \in 1..L /\ c[k] = s[f[k]]
      BY <1>4, <1>5, <1>6, <3>1, <3>2
    <3>. QED  BY <1>2, <1>3, <3>3
  <2>. QED  BY <2>1, <2>2
<1>9. Points(d, t, g)
  <2>1. g = [i \in 1..N |-> g[i]]
    BY <1>1, <1>6 DEF g
  <2>2. g \in [1..N -> 1..(L + 1)]
    BY <1>8, <2>1
  <2>. QED  BY <1>3, <1>5, <1>8, <2>2 DEF Points
<1>10. ASSUME NEW i \in 1..N, NEW m \in 1..(L + 1), m > g[i] PROVE t[m][1] # d[i][1]
  <2>1. i # N
    BY <1>2, <1>6, <1>10
  <2>2. i \in 1..(N - 1)
    BY <1>1, <2>1
  <2>3. PICK k \in 1..N : k = (IF i < p THEN i ELSE i + 1) /\ k # p
    BY <1>7, <2>2
  <2>4. g[i] = f[k] /\ d[i] = c[k]
    BY <1>5, <1>6, <2>2, <2>3
  <2>5. CASE m = L + 1
    BY <1>3, <1>5, <2>3, <2>4, <2>5
  <2>6. CASE m # L + 1
    <3>1. m \in 1..L
      BY <1>2, <2>6
    <3>2. t[m] = s[m] /\ f[k] = g[i] /\ d[i] = c[k]
      BY <1>3, <2>4, <3>1
    <3>3. m > f[k]
      BY ONLY <1>10, <3>2
    <3>4. s[m][1] # c[k][1]
      BY ONLY <1>42, <3>1, <3>3, k \in 1..N
    <3>. QED  BY ONLY <3>2, <3>4
  <2>. QED  BY <2>5, <2>6
<1>11. Latest(d, t, g)
  BY <1>3, <1>5, <1>10 DEF Latest
<1>12. ASSUME NEW i \in 1..N, NEW j \in 1..N, i < j PROVE g[i] < g[j]
  <2>1. i \in 1..(N - 1)
    BY <1>1, <1>12
  <2>2. PICK k \in 1..N : k = IF i < p THEN i ELSE i + 1
    BY <1>7, <2>1
  <2>3. g[i] = f[k] /\ f[k] \in 1..L
    BY <1>4, <1>6, <2>1, <2>2
  <2>4. CASE j = N
    BY <1>2, <1>6, <2>3, <2>4
  <2>5. CASE j # N
    <3>1. j \in 1..(N - 1)
      BY <1>1, <2>5
    <3>2. PICK l \in 1..N : l = IF j < p THEN j ELSE j + 1
      BY <1>7, <3>1
    <3>3. k < l
      BY <1>5, <1>12, <2>2, <3>2
    <3>. QED  BY <1>4, <1>6, <2>3, <3>1, <3>2, <3>3
  <2>. QED  BY <2>4, <2>5
<1>13. Climbs(d, g)
  BY <1>5, <1>12 DEF Climbs
<1>14. ASSUME NEW m \in 1..(L + 1), N = MaxNonces => m >= g[1]
       PROVE  \E i \in 1..N : d[i][1] = t[m][1]
  <2>1. CASE t[m][1] = e[1]
    BY <1>1, <1>5, <2>1
  <2>2. CASE t[m][1] # e[1]
    <3>1. m \in 1..L /\ t[m] = s[m]
      BY <1>2, <1>3, <2>2
    <3>2. N >= 1 /\ 1 \in 1..N /\ f[1] \in 1..L
      BY <1>1, <1>4, <1>5
    <3>3. g[1] >= f[1]
      <4>1. CASE N = 1
        BY <1>2, <1>6, <3>2, <4>1
      <4>2. CASE N # 1
        <5>1. 1 \in 1..(N - 1) /\ 2 \in 1..N
          BY <1>1, <3>2, <4>2
        <5>2. g[1] = f[1] \/ g[1] = f[2]
          BY <1>6, <5>1
        <5>3. f[1] < f[2] /\ f[2] \in 1..L
          BY <1>4, <3>2, <5>1
        <5>. QED  BY <3>2, <5>2, <5>3
      <4>. QED  BY <4>1, <4>2
    <3>4. g[1] \in Nat /\ m \in Nat /\ f[1] \in Nat
      BY <1>8, <3>2
    <3>5. PICK k \in 1..N : c[k][1] = s[m][1]
      <4>1. N = MaxNonces => m >= f[1]
        BY ONLY <1>14, <3>3, <3>4
      <4>. QED  BY ONLY <1>43, <3>1, <4>1
    <3>6. k # p
      <4>. SUFFICES ASSUME k = p PROVE FALSE
        OBVIOUS
      <4>1. p = 1 /\ N = MaxNonces
        BY <1>5, <2>2, <3>1, <3>5
      <4>2. g[1] > f[1]
        <5>1. CASE N = 1
          BY <1>2, <1>6, <3>2, <5>1
        <5>2. CASE N # 1
          <6>1. 1 \in 1..(N - 1) /\ 2 \in 1..N
            BY <1>1, <3>2, <5>2
          <6>2. g[1] = f[2]
            BY <1>6, <4>1, <6>1
          <6>3. f[1] < f[2]
            BY <1>4, <3>2, <6>1
          <6>. QED  BY <6>2, <6>3
        <5>. QED  BY <5>1, <5>2
      <4>3. m > f[1]
        BY <1>14, <3>4, <4>1, <4>2
      <4>. QED  BY <1>4, <3>1, <3>2, <3>5, <4>1, <4>3
    <3>7. PICK i \in 1..(N - 1) : k = IF i < p THEN i ELSE i + 1
      <4>1. CASE k < p
        BY <1>1, <1>5, <4>1
      <4>2. CASE k > p
        <5>1. k - 1 \in 1..(N - 1) /\ k = IF k - 1 < p THEN k - 1 ELSE k - 1 + 1
          BY <1>1, <1>5, <4>2
        <5>. QED  BY <5>1
      <4>. QED  BY <1>5, <3>6, <4>1, <4>2
    <3>8. i \in 1..N /\ d[i] = c[k]
      BY <1>1, <1>5, <3>7
    <3>. QED  BY <3>1, <3>5, <3>8
  <2>. QED  BY <2>1, <2>2
<1>15. Known(d, t, g)
  BY <1>3, <1>5, <1>14 DEF Known
<1>16. Placed(d, t, g)
  BY <1>4, <1>5, <1>9, <1>11, <1>13, <1>15 DEF Placed
<1>. QED  BY <1>16 DEF t

\* One more is counted.
LEMMA PlacedAdded ==
  ASSUME NEW c \in Seq(Pairs), NEW s \in Seq(Pairs), NEW f, Placed(c, s, f), NEW e \in Pairs,
         Len(c) < MaxNonces, \A i \in 1..Len(c) : c[i][1] # e[1]
  PROVE  \E g : Placed(Append(c, e), Append(s, e), g)
<1>. DEFINE t == Append(s, e)
            d == Append(c, e)
            g == [i \in 1..(Len(c) + 1) |-> IF i = Len(c) + 1 THEN Len(s) + 1 ELSE f[i]]
<1>1. PICK N \in Nat : N = Len(c)
  BY LenProperties
<1>2. PICK L \in Nat : L = Len(s)
  BY LenProperties
<1>3. /\ Len(t) = L + 1 /\ t[L + 1] = e /\ \A m \in 1..L : t[m] = s[m]
      /\ Len(d) = N + 1 /\ d[N + 1] = e /\ \A i \in 1..N : d[i] = c[i]
  BY <1>1, <1>2, AppendProperties
<1>4. /\ \A i \in 1..N : f[i] \in 1..L /\ c[i] = s[f[i]]
      /\ \A i \in 1..N, m \in 1..L : m > f[i] => s[m][1] # c[i][1]
      /\ \A i, j \in 1..N : i < j => f[i] < f[j]
      /\ \A m \in 1..L : (N = MaxNonces => m >= f[1]) => \E i \in 1..N : c[i][1] = s[m][1]
      /\ N < MaxNonces /\ MaxNonces \in Nat /\ \A i \in 1..N : c[i][1] # e[1]
  BY <1>1, <1>2, KeysAssumed DEF Placed, Points, Latest, Climbs, Known
<1>41. \A i \in 1..N : f[i] \in 1..L /\ c[i] = s[f[i]]
  BY ONLY <1>4
<1>42. \A i \in 1..N, m \in 1..L : m > f[i] => s[m][1] # c[i][1]
  BY ONLY <1>4
<1>5. /\ g \in [1..(N + 1) -> 1..(L + 1)]
      /\ g[N + 1] = L + 1 /\ \A i \in 1..N : g[i] = f[i]
  <2>1. \A i \in 1..(N + 1) : i # N + 1 => i \in 1..N /\ f[i] \in 1..(L + 1)
    BY <1>1, <1>2, <1>4
  <2>. QED  BY <1>1, <1>2, <2>1
<1>. HIDE DEF t, d, g
<1>6. \A i \in 1..(N + 1) : i = N + 1 \/ i \in 1..N
  BY <1>1
<1>7. \A m \in 1..(L + 1) : m = L + 1 \/ m \in 1..L
  BY <1>2
<1>8. N + 1 \in 1..(N + 1) /\ \A i \in 1..N : i \in 1..(N + 1)
  BY <1>1
<1>9. Points(d, t, g)
  <2>1. ASSUME NEW i \in 1..(N + 1) PROVE d[i] = t[g[i]]
    <3>1. CASE i = N + 1
      BY <1>3, <1>5, <3>1
    <3>2. CASE i \in 1..N
      <4>1. d[i] = c[i] /\ f[i] \in 1..L /\ c[i] = s[f[i]] /\ g[i] = f[i]
        BY ONLY <1>3, <1>41, <1>5, <3>2
      <4>. QED  BY ONLY <1>3, <4>1
    <3>. QED  BY <1>6, <3>1, <3>2
  <2>. QED  BY <1>3, <1>5, <2>1 DEF Points
<1>10. Latest(d, t, g)
  <2>1. ASSUME NEW i \in 1..(N + 1), NEW m \in 1..(L + 1), m > g[i] PROVE t[m][1] # d[i][1]
    <3>1. CASE i = N + 1
      BY <1>2, <1>5, <2>1, <3>1
    <3>2. CASE i \in 1..N /\ m = L + 1
      BY <1>3, <1>4, <3>2
    <3>3. CASE i \in 1..N /\ m \in 1..L
      <4>1. t[m] = s[m] /\ d[i] = c[i] /\ g[i] = f[i]
        BY ONLY <1>3, <1>5, <3>3
      <4>2. m > f[i]
        BY ONLY <2>1, <4>1
      <4>3. s[m][1] # c[i][1]
        BY ONLY <1>42, <3>3, <4>2
      <4>. QED  BY ONLY <4>1, <4>3
    <3>. QED  BY <1>6, <1>7, <3>1, <3>2, <3>3
  <2>. QED  BY <1>3, <2>1 DEF Latest
<1>11. Climbs(d, g)
  <2>1. ASSUME NEW i \in 1..(N + 1), NEW j \in 1..(N + 1), i < j PROVE g[i] < g[j]
    <3>1. i \in 1..N
      BY <1>1, <2>1
    <3>2. CASE j = N + 1
      <4>1. g[i] = f[i] /\ f[i] \in 1..L /\ g[j] = L + 1
        BY ONLY <1>41, <1>5, <3>1, <3>2
      <4>. QED  BY ONLY <1>2, <4>1
    <3>3. CASE j \in 1..N
      BY <1>4, <1>5, <2>1, <3>1, <3>3
    <3>. QED  BY <1>6, <3>2, <3>3
  <2>. QED  BY <1>3, <2>1 DEF Climbs
<1>12. Known(d, t, g)
  <2>1. ASSUME NEW m \in 1..(L + 1) PROVE \E i \in 1..(N + 1) : d[i][1] = t[m][1]
    <3>1. CASE m = L + 1
      BY <1>3, <1>8, <3>1
    <3>2. CASE m \in 1..L
      <4>1. PICK i \in 1..N : c[i][1] = s[m][1]
        BY <1>4, <3>2
      <4>. QED  BY <1>3, <1>8, <3>2, <4>1
    <3>. QED  BY <1>7, <3>1, <3>2
  <2>. QED  BY <1>3, <2>1 DEF Known
<1>13. Len(d) <= MaxNonces
  BY <1>1, <1>3, <1>4
<1>14. Placed(d, t, g)
  BY <1>9, <1>10, <1>11, <1>12, <1>13 DEF Placed
<1>. QED  BY <1>14 DEF t, d

LEMMA KeysCardinality == ASSUME NEW S PROVE Keys!Cardinality(S) = Cardinality(S)
BY Zenon DEF Keys!Cardinality, Cardinality

\* What is apart stays so as more is authorized, and is no nearer to what comes later.
LEMMA ApartLater ==
  ASSUME NEW s \in Seq(Pairs), NEW e \in Pairs, NEW i \in 1..Len(s), NEW j \in 1..Len(s),
         Apart(s, i, j), NEW n \in Nat, j <= n
  PROVE  Apart(Append(s, e), i, n)
<1>. DEFINE t == Append(s, e)
<1>1. Len(s) \in Nat /\ \A m \in 1..Len(s) : t[m] = s[m]
  BY LenProperties, AppendProperties
<1>. HIDE DEF t
<1>2. PICK k \in i..j, l \in i..j :
        /\ k <= l /\ \A m \in k..l : s[m][1] # s[i][1]
        /\ Keys!Cardinality({s[m][1] : m \in k..l}) >= MaxNonces
  BY Zenon DEF Apart
<1>3. \A m \in k..l : m \in 1..Len(s)
  BY <1>1
<1>4. \A m \in k..l : t[m] = s[m]
  BY <1>1, <1>3
<1>5. {t[m][1] : m \in k..l} = {s[m][1] : m \in k..l}
  BY <1>4
<1>6. k \in i..n /\ l \in i..n
  BY <1>1
<1>7. t[i] = s[i]
  BY <1>1
<1>8. \A m \in k..l : t[m][1] # t[i][1]
  BY <1>2, <1>4, <1>7
<1>9. Keys!Cardinality({t[m][1] : m \in k..l}) >= MaxNonces
  BY <1>2, <1>5
<1>10. Apart(t, i, n)
  BY <1>2, <1>6, <1>8, <1>9 DEF Apart
<1>. QED  BY <1>10 DEF t

\* While as many are counted as may be, that many nonces were used since the first of them.
LEMMA ManySince ==
  ASSUME NEW c \in Seq(Pairs), NEW s \in Seq(Pairs), NEW f, Placed(c, s, f),
         Len(c) = MaxNonces
  PROVE  Keys!Cardinality({s[m][1] : m \in f[1]..Len(s)}) = MaxNonces
<1>. DEFINE S == {s[m][1] : m \in f[1]..Len(s)}
            h == [i \in 1..Len(c) |-> c[i][1]]
<1>1. Len(c) \in Nat /\ Len(s) \in Nat /\ 1 \in 1..Len(c) /\ f[1] \in 1..Len(s)
  BY LenProperties, KeysAssumed DEF Placed, Points
<1>2. ASSUME NEW i \in 1..Len(c) PROVE f[i] \in f[1]..Len(s) /\ c[i] = s[f[i]]
  <2>1. f[i] \in 1..Len(s) /\ c[i] = s[f[i]]
    BY DEF Placed, Points
  <2>2. f[1] <= f[i]
    <3>1. CASE i = 1
      BY <1>1, <3>1
    <3>2. CASE i # 1
      <4>1. 1 < i
        BY <1>1, <3>2
      <4>2. f[1] < f[i]
        BY <1>1, <4>1 DEF Placed, Climbs
      <4>. QED  BY <1>1, <2>1, <4>2
    <3>. QED  BY <3>1, <3>2
  <2>. QED  BY <1>1, <2>1, <2>2
<1>3. ASSUME NEW i \in 1..Len(c) PROVE c[i][1] \in S
  BY <1>2
<1>4. ASSUME NEW x \in S PROVE \E i \in 1..Len(c) : c[i][1] = x
  <2>1. PICK m \in f[1]..Len(s) : x = s[m][1]
    OBVIOUS
  <2>2. m \in 1..Len(s) /\ m >= f[1]
    BY <1>1
  <2>. QED  BY <2>1, <2>2 DEF Placed, Known
<1>5. \A i, j \in 1..Len(c) : c[i][1] = c[j][1] => i = j
  BY PlacedApart
<1>. HIDE DEF S
<1>6. h \in [1..Len(c) -> S] /\ \A i \in 1..Len(c) : h[i] = c[i][1]
  BY <1>3
<1>. HIDE DEF h
<1>7. h \in Injection(1..Len(c), S)
  BY <1>5, <1>6, Zenon DEF Injection, IsInjective
<1>8. h \in Surjection(1..Len(c), S)
  BY <1>4, <1>6, Zenon DEF Surjection
<1>9. ExistsBijection(1..Len(c), S)
  BY <1>7, <1>8 DEF ExistsBijection, Bijection
<1>10. Cardinality(S) = Len(c)
  BY <1>1, <1>9, FS_CountingElements
<1>11. Keys!Cardinality(S) = Cardinality(S)
  BY KeysCardinality
<1>. QED  BY <1>10, <1>11 DEF S

\* The next count of a nonce is above the others, or far from them.
LEMMA RisingNext ==
  ASSUME NEW c \in Seq(Pairs), NEW s \in Seq(Pairs), NEW f, Placed(c, s, f), Rising(s),
         NEW e \in Pairs,
         \/ \E p \in 1..Len(c) : c[p][1] = e[1] /\ e[2] = c[p][2] + 1
         \/ \A p \in 1..Len(c) : c[p][1] # e[1]
  PROVE  Rising(Append(s, e))
<1>. DEFINE t == Append(s, e)
<1>1. PICK L \in Nat : L = Len(s)
  BY LenProperties
<1>2. /\ Len(t) = L + 1 /\ t[L + 1] = e /\ \A m \in 1..L : t[m] = s[m] /\ s[m][2] \in Nat
  BY <1>1, AppendProperties, ElementOfSeq DEF Pairs
<1>3. \A i, j \in 1..L : Apart(s, i, j) => \A n \in Nat : j <= n => Apart(t, i, n)
  BY <1>1, ApartLater
<1>. HIDE DEF t
<1>4. ASSUME NEW i \in 1..L, NEW j \in 1..L, i < j, t[i][1] = t[j][1]
      PROVE  t[i][2] < t[j][2] \/ Apart(t, i, j)
  <2>1. t[i] = s[i] /\ t[j] = s[j]
    BY <1>2
  <2>2. s[i][2] < s[j][2] \/ Apart(s, i, j)
    BY <1>1, <1>4, <2>1 DEF Rising
  <2>3. j \in Nat /\ j <= j
    OBVIOUS
  <2>. QED  BY <1>3, <2>1, <2>2, <2>3
<1>5. ASSUME NEW i \in 1..L, s[i][1] = e[1]
      PROVE  s[i][2] < e[2] \/ Apart(t, i, L + 1)
  <2>1. CASE \E p \in 1..Len(c) : c[p][1] = e[1] /\ e[2] = c[p][2] + 1
    <3>1. PICK p \in 1..Len(c) : c[p][1] = e[1] /\ e[2] = c[p][2] + 1
      BY <2>1
    <3>2. f[p] \in 1..L /\ c[p] = s[f[p]] /\ c[p][2] \in Nat
      BY <1>1, <1>2 DEF Placed, Points
    <3>3. ~(i > f[p])
      BY <1>1, <1>5, <3>1 DEF Placed, Latest
    <3>4. CASE i = f[p]
      BY <3>1, <3>2, <3>4
    <3>5. CASE i < f[p]
      <4>1. s[i][1] = s[f[p]][1]
        BY <1>5, <3>1, <3>2
      <4>2. s[i][2] < s[f[p]][2] \/ Apart(s, i, f[p])
        BY <1>1, <3>2, <3>5, <4>1 DEF Rising
      <4>3. CASE s[i][2] < s[f[p]][2]
        <5>1. PICK a \in Nat : a = s[i][2]
          BY <1>2
        <5>2. PICK b \in Nat : b = c[p][2]
          BY <3>2
        <5>3. a < b /\ e[2] = b + 1
          BY ONLY <3>1, <3>2, <4>3, <5>1, <5>2
        <5>. QED  BY ONLY <5>1, <5>2, <5>3
      <4>4. CASE Apart(s, i, f[p])
        <5>1. L + 1 \in Nat /\ f[p] <= L + 1
          BY <3>2
        <5>. QED  BY <1>3, <3>2, <4>4, <5>1
      <4>. QED  BY <4>2, <4>3, <4>4
    <3>. QED  BY <3>2, <3>3, <3>4, <3>5
  <2>2. CASE \A p \in 1..Len(c) : c[p][1] # e[1]
    <3>1. \A m \in 1..L : (Len(c) = MaxNonces => m >= f[1]) => s[m][1] # e[1]
      BY <1>1, <2>2 DEF Placed, Known
    <3>2. Len(c) = MaxNonces /\ ~(i >= f[1])
      BY <1>5, <3>1
    <3>3. 1 \in 1..Len(c) /\ f[1] \in 1..L
      BY <1>1, <3>2, KeysAssumed DEF Placed, Points
    <3>4. Keys!Cardinality({s[m][1] : m \in f[1]..L}) = MaxNonces
      BY <1>1, <3>2, ManySince
    <3>5. \A m \in f[1]..L : m \in 1..L /\ m >= f[1]
      BY <3>3
    <3>6. \A m \in f[1]..L : t[m] = s[m] /\ t[m][1] # t[i][1]
      BY <1>2, <1>5, <3>1, <3>5
    <3>7. {t[m][1] : m \in f[1]..L} = {s[m][1] : m \in f[1]..L}
      BY <3>6
    <3>8. Keys!Cardinality({t[m][1] : m \in f[1]..L}) >= MaxNonces
      <4>1. Keys!Cardinality({t[m][1] : m \in f[1]..L}) = MaxNonces
        BY ONLY <3>4, <3>7
      <4>. QED  BY ONLY <4>1, KeysAssumed
    <3>9. f[1] \in i..(L + 1) /\ L \in i..(L + 1) /\ f[1] <= L
      BY <3>2, <3>3
    <3>10. Apart(t, i, L + 1)
      BY <3>6, <3>8, <3>9 DEF Apart
    <3>. QED  BY <3>10
  <2>. QED  BY <2>1, <2>2
<1>6. ASSUME NEW i \in 1..(L + 1), NEW j \in 1..(L + 1), i < j, t[i][1] = t[j][1]
      PROVE  t[i][2] < t[j][2] \/ Apart(t, i, j)
  <2>1. i \in 1..L
    BY <1>6
  <2>2. CASE j = L + 1
    <3>1. t[i] = s[i] /\ t[j] = e
      BY <1>2, <2>1, <2>2
    <3>2. s[i][2] < e[2] \/ Apart(t, i, L + 1)
      BY <1>5, <1>6, <2>1, <3>1
    <3>. QED  BY <2>2, <3>1, <3>2
  <2>3. CASE j # L + 1
    <3>1. j \in 1..L
      BY <2>3
    <3>. QED  BY <1>4, <1>6, <2>1, <3>1
  <2>. QED  BY <2>2, <2>3
<1>7. Rising(t)
  BY <1>2, <1>6 DEF Rising
<1>. QED  BY <1>7 DEF t

\* The counters are those of the latest authorizations.
CountsInv ==
  /\ counters \in Seq(Pairs) /\ uses \in Seq(Pairs) /\ Len(uses) <= MaxUses
  /\ \A m \in 1..Len(uses) : uses[m][1] \in Nonces /\ uses[m][2] \in 1..m
  /\ \E f : Placed(counters, uses, f)
  /\ Rising(uses)

LEMMA CountsInit == ASSUME Init PROVE CountsInv
<1>1. counters = <<>> /\ uses = <<>>
  BY DEF Init, Keys!Init
<1>2. counters \in Seq(Pairs) /\ uses \in Seq(Pairs) /\ Len(counters) = 0 /\ Len(uses) = 0
  BY <1>1, EmptySeq
<1>3. Placed(counters, uses, [i \in 1..0 |-> 1])
  BY <1>2, KeysAssumed DEF Placed, Points, Latest, Climbs, Known
<1>4. Rising(uses)
  BY <1>2 DEF Rising
<1>. QED  BY <1>2, <1>3, <1>4, KeysAssumed DEF CountsInv

\* A request is authorized.
LEMMA AuthorizeNext == ASSUME CountsInv, NEW n \in Nonces, Keys!Authorize(n) PROVE CountsInv'
<1>1. PICK f : Placed(counters, uses, f)
  BY DEF CountsInv
<1>2. /\ counters \in Seq(Pairs) /\ uses \in Seq(Pairs) /\ Len(counters) \in Nat
      /\ Len(uses) \in Nat /\ MaxNonces \in Nat \ {0} /\ MaxUses \in Nat
      /\ \A m \in 1..Len(uses) : uses[m][1] \in Nonces /\ uses[m][2] \in 1..m
  BY KeysAssumed, LenProperties DEF CountsInv
<1>3. DOMAIN counters = 1..Len(counters)
  BY <1>2, LenProperties
<1>4. \A i \in 1..Len(counters) : /\ f[i] \in 1..Len(uses) /\ counters[i] = uses[f[i]]
                                  /\ counters[i][2] \in 1..Len(uses)
  <2>1. ASSUME NEW i \in 1..Len(counters)
        PROVE  f[i] \in 1..Len(uses) /\ counters[i] = uses[f[i]]
    BY <1>1 DEF Placed, Points
  <2>2. ASSUME NEW m \in 1..Len(uses) PROVE uses[m][2] \in 1..Len(uses)
    BY <1>2
  <2>. QED  BY <2>1, <2>2
<1>5. ASSUME NEW k \in 1..(Len(uses) + 1), Len(uses) < MaxUses,
             NEW d \in Seq(Pairs), NEW e, e = <<n, k>>,
             counters' = d, uses' = Append(uses, e),
             \E g : Placed(d, Append(uses, e), g), Rising(Append(uses, e))
      PROVE  CountsInv'
  <2>1. e \in Pairs /\ e[1] = n /\ e[2] = k
    BY <1>2, <1>5 DEF Pairs
  <2>2. /\ uses' \in Seq(Pairs) /\ Len(uses') = Len(uses) + 1 /\ uses'[Len(uses) + 1] = e
        /\ \A m \in 1..Len(uses) : uses'[m] = uses[m]
    BY <1>2, <1>5, <2>1, AppendProperties
  <2>3. ASSUME NEW m \in 1..Len(uses') PROVE uses'[m][1] \in Nonces /\ uses'[m][2] \in 1..m
    <3>1. CASE m = Len(uses) + 1
      BY <2>1, <2>2, <3>1
    <3>2. CASE m # Len(uses) + 1
      <4>1. m \in 1..Len(uses)
        BY <1>2, <2>2, <3>2
      <4>. QED  BY <1>2, <2>2, <4>1
    <3>. QED  BY <3>1, <3>2
  <2>4. Len(uses') <= MaxUses
    BY <1>2, <1>5, <2>2
  <2>. QED  BY <1>5, <2>2, <2>3, <2>4 DEF CountsInv
<1>6. Len(uses) < MaxUses
  BY Zenon DEF Keys!Authorize
<1>7. Rising(uses)
  BY DEF CountsInv
<1>8. CASE Keys!Counted(n)
  <2>. DEFINE p == Keys!PlaceOf(n)
              k == counters[p][2] + 1
              e == <<n, k>>
              d == Append(RemoveAt(counters, p), e)
  <2>1. p \in DOMAIN counters /\ counters[p][1] = n
    BY <1>8, Zenon DEF Keys!Counted, Keys!PlaceOf
  <2>2. p \in 1..Len(counters)
    BY <1>3, <2>1
  <2>3. k \in 1..(Len(uses) + 1)
    BY <1>2, <1>4, <2>2
  <2>4. /\ RemoveAt(counters, p) \in Seq(Pairs) /\ Len(RemoveAt(counters, p)) = Len(counters) - 1
        /\ \A i \in 1..(Len(counters) - 1) :
             RemoveAt(counters, p)[i] = counters[IF i < p THEN i ELSE i + 1]
    BY <1>2, <2>2, Removed
  <2>5. Keys!AllBut(p) = RemoveAt(counters, p)
    BY Zenon DEF Keys!AllBut, RemoveAt
  <2>6. /\ uses' = Append(uses, e)
        /\ counters' = IF Len(d) > MaxNonces THEN Tail(d) ELSE d
    BY <1>8, <2>5, Zenon DEF Keys!Authorize
  <2>7. n = e[1] /\ k = e[2]
    OBVIOUS
  <2>. HIDE DEF p, k
  <2>8. e \in Pairs
    BY <1>2, <2>3 DEF Pairs
  <2>. HIDE DEF e
  <2>9. /\ d \in Seq(Pairs) /\ Len(d) = Len(counters) /\ d[Len(counters)] = e
        /\ \A i \in 1..(Len(counters) - 1) : d[i] = counters[IF i < p THEN i ELSE i + 1]
    <3>. DEFINE r == RemoveAt(counters, p)
    <3>. HIDE DEF r
    <3>1. /\ r \in Seq(Pairs) /\ Len(r) = Len(counters) - 1
          /\ \A i \in 1..(Len(counters) - 1) : r[i] = counters[IF i < p THEN i ELSE i + 1]
      BY <2>4 DEF r
    <3>2. /\ Append(r, e) \in Seq(Pairs) /\ Len(Append(r, e)) = Len(r) + 1
          /\ Append(r, e)[Len(r) + 1] = e /\ \A i \in 1..Len(r) : Append(r, e)[i] = r[i]
      BY <2>8, <3>1, AppendProperties
    <3>3. d = Append(r, e)
      BY DEF r
    <3>. HIDE DEF d
    <3>4. Len(r) + 1 = Len(counters)
      BY <1>2, <3>1
    <3>. QED  BY <3>1, <3>2, <3>3, <3>4
  <2>. HIDE DEF d
  <2>10. Len(counters) <= MaxNonces
    BY <1>1 DEF Placed
  <2>11. counters' = d
    BY <1>2, <2>6, <2>9, <2>10
  <2>12. \A i \in 1..Len(counters) : i # p => counters[i][1] # e[1]
    BY <1>1, <1>2, <2>1, <2>2, <2>7, PlacedApart
  <2>13. counters[p][1] = e[1]
    BY <2>1, <2>7
  <2>14. \E g : Placed(d, Append(uses, e), g)
    <3>1. Placed(counters, uses, f) /\ counters \in Seq(Pairs) /\ uses \in Seq(Pairs)
      BY ONLY <1>1, <1>2
    <3>2. d \in Seq(Pairs) /\ Len(d) = Len(counters) /\ d[Len(counters)] = e
      BY ONLY <2>9
    <3>3. \A i \in 1..(Len(counters) - 1) : d[i] = counters[IF i < p THEN i ELSE i + 1]
      BY ONLY <2>9
    <3>4. counters[p][1] = e[1] \/ (p = 1 /\ Len(counters) = MaxNonces)
      BY ONLY <2>13
    <3>5. PICK q \in 1..Len(counters), h \in Pairs, x \in Seq(Pairs) : q = p /\ h = e /\ x = d
      BY ONLY <2>2, <2>8, <3>2
    <3>6. \A i \in 1..(Len(counters) - 1) : x[i] = counters[IF i < q THEN i ELSE i + 1]
      BY ONLY <3>3, <3>5
    <3>7. \A i \in 1..Len(counters) : i # q => counters[i][1] # h[1]
      BY ONLY <2>12, <3>5
    <3>8. Len(x) = Len(counters) /\ x[Len(counters)] = h
          /\ (counters[q][1] = h[1] \/ (q = 1 /\ Len(counters) = MaxNonces))
      BY ONLY <3>2, <3>4, <3>5
    <3>9. \E g : Placed(x, Append(uses, h), g)
      BY ONLY <3>1, <3>6, <3>7, <3>8, PlacedMoved, q \in 1..Len(counters), h \in Pairs,
              x \in Seq(Pairs)
    <3>. QED  BY ONLY <3>5, <3>9
  <2>15. e[2] = counters[p][2] + 1
    BY <2>7 DEF k
  <2>16. Rising(Append(uses, e))
    BY <1>1, <1>2, <1>7, <2>2, <2>8, <2>13, <2>15, RisingNext
  <2>17. e = <<n, k>>
    BY DEF e
  <2>. QED  BY <1>5, <1>6, <2>3, <2>6, <2>9, <2>11, <2>14, <2>16, <2>17
<1>9. CASE ~Keys!Counted(n)
  <2>. DEFINE e == <<n, 1>>
              d == Append(counters, e)
  <2>1. \A i \in 1..Len(counters) : counters[i][1] # e[1]
    BY <1>3, <1>9 DEF Keys!Counted
  <2>2. uses' = Append(uses, e) /\ counters' = IF Len(d) > MaxNonces THEN Tail(d) ELSE d
    BY <1>9, Zenon DEF Keys!Authorize
  <2>3. e \in Pairs /\ 1 \in 1..(Len(uses) + 1)
    BY <1>2 DEF Pairs
  <2>4. e = <<n, 1>>
    OBVIOUS
  <2>. HIDE DEF e
  <2>5. /\ d \in Seq(Pairs) /\ Len(d) = Len(counters) + 1 /\ d[Len(counters) + 1] = e
        /\ \A i \in 1..Len(counters) : d[i] = counters[i]
    BY <1>2, <2>3, AppendProperties
  <2>6. Rising(Append(uses, e))
    BY <1>1, <1>2, <1>7, <2>1, <2>3, RisingNext
  <2>7. CASE Len(counters) < MaxNonces
    <3>1. counters' = d
      BY <1>2, <2>2, <2>5, <2>7
    <3>2. \E g : Placed(d, Append(uses, e), g)
      BY <1>1, <1>2, <2>1, <2>3, <2>7, PlacedAdded
    <3>. HIDE DEF d
    <3>. QED  BY <1>5, <1>6, <2>2, <2>3, <2>4, <2>5, <2>6, <3>1, <3>2
  <2>8. CASE ~(Len(counters) < MaxNonces)
    <3>. HIDE DEF d
    <3>1. Len(counters) = MaxNonces
      BY <1>1, <1>2, <2>8 DEF Placed
    <3>2. counters' = Tail(d)
      BY <1>2, <2>2, <2>5, <3>1
    <3>3. d # <<>>
      BY <1>2, <2>5, EmptySeq
    <3>4. /\ Tail(d) \in Seq(Pairs) /\ Len(Tail(d)) = Len(d) - 1
          /\ \A i \in 1..Len(Tail(d)) : Tail(d)[i] = d[i + 1]
      BY <2>5, <3>3, HeadTailProperties
    <3>5. PICK r \in Seq(Pairs) : r = Tail(d)
      BY <3>4
    <3>6. Len(r) = Len(counters) /\ \A i \in 1..Len(counters) : r[i] = d[i + 1]
      BY <1>2, <2>5, <3>4, <3>5
    <3>7. r[Len(counters)] = e
      BY <1>2, <2>5, <3>1, <3>6
    <3>8. \A i \in 1..(Len(counters) - 1) : r[i] = counters[IF i < 1 THEN i ELSE i + 1]
      <4>. SUFFICES ASSUME NEW i \in 1..(Len(counters) - 1) PROVE r[i] = counters[i + 1]
        BY <1>2
      <4>1. i \in 1..Len(counters) /\ i + 1 \in 1..Len(counters)
        BY <1>2
      <4>. QED  BY <2>5, <3>6, <4>1
    <3>9. 1 \in 1..Len(counters)
      BY <1>2, <3>1
    <3>10. \A i \in 1..Len(counters) : i # 1 => counters[i][1] # e[1]
      BY <2>1
    <3>11. \E g : Placed(r, Append(uses, e), g)
      <4>1. Placed(counters, uses, f) /\ counters \in Seq(Pairs) /\ uses \in Seq(Pairs)
        BY ONLY <1>1, <1>2
      <4>2. e \in Pairs /\ r \in Seq(Pairs) /\ Len(r) = Len(counters)
        BY ONLY <2>3, <3>6, r \in Seq(Pairs)
      <4>3. PICK q \in 1..Len(counters) : q = 1
        BY ONLY <3>9
      <4>4. \A i \in 1..(Len(counters) - 1) : r[i] = counters[IF i < q THEN i ELSE i + 1]
        BY ONLY <3>8, <4>3
      <4>5. \A i \in 1..Len(counters) : i # q => counters[i][1] # e[1]
        BY ONLY <3>10, <4>3
      <4>6. counters[q][1] = e[1] \/ (q = 1 /\ Len(counters) = MaxNonces)
        BY ONLY <3>1, <4>3
      <4>. QED  BY ONLY <3>7, <4>1, <4>2, <4>4, <4>5, <4>6, PlacedMoved, q \in 1..Len(counters)
    <3>. QED  BY <1>5, <1>6, <2>2, <2>3, <2>4, <2>6, <3>2, <3>5, <3>11
  <2>. QED  BY <2>7, <2>8
<1>. QED  BY <1>8, <1>9

LEMMA CountsKept == Spec => []CountsInv
<1>1. CountsInv /\ UNCHANGED <<counters, uses>> => CountsInv'
  BY DEF CountsInv
<1>2. CountsInv /\ Keys!DigestNext => CountsInv'
  BY AuthorizeNext DEF Keys!DigestNext
<1>3. Keys!AwsNext \/ UNCHANGED keys => UNCHANGED <<counters, uses>>
  BY DEF Keys!AwsNext, Keys!Ask, Keys!Signed, Keys!Headers, Keys!Body, Keys!Issued, Keys!Fails,
         Keys!Tick, keys
<1>4. CountsInv /\ [Next]_vars => CountsInv'
  BY <1>1, <1>2, <1>3, PartsMove DEF OnlyOf
<1>. QED  BY <1>4, CountsInit, PTL DEF Spec

LEMMA KeysShow == ASSUME AwsInv, CountsInv PROVE Keys!CredentialsHold
<1>1. \A c \in Callers : caller[c] \in Signers /\ Honest(caller[c])
  BY DEF AwsInv
<1>2. \A c \in Callers : /\ caller[c].at \in Keys!Asking \cup {"new", "signing", "signed", "refused"}
                         /\ caller[c].seed.id \in 0..issued /\ caller[c].key.id \in 0..issued
  BY <1>1 DEF AwsInv, Honest, Signers, Keyed
<1>3. cached.id \in 0..issued
  BY DEF AwsInv
<1>4. Keys!KeyFollowsSeed
  BY <1>1 DEF Honest, Keys!KeyFollowsSeed
<1>5. counters \in Seq(Nonces \X (1..MaxUses)) /\ uses \in Seq(Nonces \X (1..MaxUses))
  <2>1. /\ counters \in Seq(Pairs) /\ uses \in Seq(Pairs) /\ Len(uses) \in Nat /\ MaxUses \in Nat
        /\ Len(uses) <= MaxUses
        /\ \A m \in 1..Len(uses) : uses[m][1] \in Nonces /\ uses[m][2] \in 1..m
    BY KeysAssumed, LenProperties DEF CountsInv
  <2>2. ASSUME NEW m \in 1..Len(uses) PROVE uses[m] \in Nonces \X (1..MaxUses)
    <3>1. uses[m] \in Pairs
      BY <2>1, ElementOfSeq
    <3>2. uses[m][2] \in 1..MaxUses
      BY <2>1
    <3>. QED  BY <2>1, <3>1, <3>2 DEF Pairs
  <2>3. \A i \in 1..Len(counters) : counters[i] \in Nonces \X (1..MaxUses)
    BY <2>2 DEF CountsInv, Placed, Points
  <2>4. counters = [i \in 1..Len(counters) |-> counters[i]] /\ Len(counters) \in Nat
    BY <2>1, LenProperties
  <2>5. uses = [i \in 1..Len(uses) |-> uses[i]]
    BY <2>1, LenProperties
  <2>6. counters \in [1..Len(counters) -> Nonces \X (1..MaxUses)]
    BY ONLY <2>3, <2>4
  <2>7. uses \in [1..Len(uses) -> Nonces \X (1..MaxUses)]
    BY ONLY <2>2, <2>5
  <2>. QED  BY ONLY <2>1, <2>4, <2>6, <2>7, SeqDef, SMTT(20)
<1>6. Keys!TypeOK
  BY <1>2, <1>3, <1>5 DEF AwsInv, Keys!TypeOK
<1>7. Keys!CountsFresh
  <2>1. DOMAIN uses = 1..Len(uses) /\ uses \in Seq(Pairs)
    BY LenProperties DEF CountsInv
  <2>. SUFFICES ASSUME NEW i \in 1..Len(uses), NEW j \in 1..Len(uses), i < j, uses[i] = uses[j]
                PROVE  Apart(uses, i, j)
    BY <2>1 DEF Keys!CountsFresh, Apart
  <2>2. uses[i][2] < uses[j][2] \/ Apart(uses, i, j)
    BY DEF CountsInv, Rising
  <2>3. uses[i][2] \in Nat /\ uses[j][2] = uses[i][2]
    BY DEF CountsInv
  <2>. QED  BY <2>2, <2>3
<1>. QED  BY <1>4, <1>6, <1>7 DEF AwsInv, Keys!CredentialsHold

----------------------------------------------------------------------------
(* The hashes of queries, and the calls that send them.                    *)

Hashes == [text : Texts, old : BOOLEAN]

\* The texts of a sequence of hashes, and that it has each of them once.
TextsOf(s)    == {s[i].text : i \in 1..Len(s)}
TextsApart(s) == \A i, j \in 1..Len(s) : s[i].text = s[j].text => i = j

Hashed == TextsApart(hashes) /\ Len(hashes) <= MaxHashes /\ texts = TextsOf(hashes)

\* Without a timer there are only texts that were being hashed as all was cleared.
Dropped ==
  ~sweeping => /\ texts \subseteq orphans
               /\ \A c \in Queriers : step[c] = "digest" => asks[c].text \in orphans

\* What a call has sent in its attempt, by where it is; and who is sent once does not try again.
Said(c) ==
  /\ posted[c].full <= IF Query!Persisted(c) THEN posted[c].hash ELSE 1
  /\ posted[c].hash <= IF Query!Persisted(c) THEN 1 ELSE 0
  /\ step[c] = "digest" \/ full[c] => Query!Persisted(c)
  /\ step[c] \in {"headers", "digest"} =>
       posted[c].hash = (IF full[c] THEN 1 ELSE 0) /\ posted[c].full = 0
  /\ step[c] \in {"flight", "body"} /\ Query!Persisted(c) /\ ~full[c] =>
       posted[c].hash = 1 /\ posted[c].full = 0
  /\ asks[c].kind = "upload" => tries[c] = Query!Fresh /\ step[c] \notin {"pause", "linkPause"}
  /\ step[c] = "pause" => tries[c].client < Retries
  /\ step[c] = "linkPause" => tries[c].link < LinkRetries

QueryInv ==
  /\ Query!TypeOK /\ Hashed /\ Dropped /\ Query!FlightOnly
  /\ \A c \in Queriers : Said(c)

LEMMA QueryAssumed == MaxHashes \in Nat \ {0} /\ Retries \in Nat /\ LinkRetries \in Nat
  BY QueuesAssumption DEF QueuesAssumption

\* What an injective sequence is the length of.
LEMMA LenIsSize ==
  ASSUME NEW T, NEW s \in Seq(T), IsInjective(s)
  PROVE  IsFiniteSet(Range(s)) /\ Cardinality(Range(s)) = Len(s)
<1>1. /\ Len(s) \in Nat /\ s = [i \in 1..Len(s) |-> s[i]]
      /\ \A x : x \in Range(s) <=> \E i \in 1..Len(s) : s[i] = x
      /\ \A i, j \in 1..Len(s) : s[i] = s[j] => i = j
  BY LenProperties, SetOf
<1>2. s \in [1..Len(s) -> Range(s)]
  BY ONLY <1>1
<1>3. s \in Injection(1..Len(s), Range(s))
  BY <1>1, <1>2, Zenon DEF Injection, IsInjective
<1>4. s \in Surjection(1..Len(s), Range(s))
  BY <1>1, <1>2, Zenon DEF Surjection
<1>5. ExistsBijection(1..Len(s), Range(s))
  BY <1>3, <1>4 DEF ExistsBijection, Bijection
<1>6. Cardinality(Range(s)) = Len(s)
  BY <1>1, <1>5, FS_CountingElements
<1>7. IsFiniteSet(1..Len(s))
  <2>1. 1 \in Int /\ Len(s) \in Int
    BY <1>1
  <2>. QED  BY <2>1, FS_Interval
<1>8. IsFiniteSet(Range(s))
  BY <1>4, <1>7, FS_Surjection
<1>. QED  BY <1>6, <1>8

\* A sequence of hashes that has each text once has each hash once, and what it has not lost it
\* still has once.
LEMMA HashesOnce ==
  ASSUME NEW s \in Seq(Hashes), TextsApart(s)
  PROVE  /\ IsInjective(s) /\ TextsOf(s) = {e.text : e \in Range(s)}
         /\ \A d, e \in Range(s) : d.text = e.text => d = e
         /\ Len(s) \in Nat /\ Range(s) \subseteq Hashes /\ TextsOf(s) \subseteq Texts
<1>1. /\ \A x : x \in Range(s) <=> \E i \in 1..Len(s) : s[i] = x
      /\ Range(s) \subseteq Hashes /\ Len(s) \in Nat
      /\ IsInjective(s) <=> \A i, j \in 1..Len(s) : s[i] = s[j] => i = j
  BY SetOf, LenProperties
<1>2. IsInjective(s)
  BY <1>1 DEF TextsApart
<1>3. TextsOf(s) = {e.text : e \in Range(s)}
  BY <1>1 DEF TextsOf
<1>4. \A d, e \in Range(s) : d.text = e.text => d = e
  BY <1>1 DEF TextsApart
<1>. QED  BY <1>1, <1>2, <1>3, <1>4 DEF Hashes

LEMMA HashesOf ==
  ASSUME NEW s \in Seq(Hashes), IsInjective(s), \A d, e \in Range(s) : d.text = e.text => d = e
  PROVE  TextsApart(s)
<1>1. /\ \A i \in 1..Len(s) : s[i] \in Range(s)
      /\ \A i, j \in 1..Len(s) : s[i] = s[j] => i = j
  BY SetOf
<1>. QED  BY <1>1 DEF TextsApart

LEMMA HashesWithout ==
  ASSUME NEW s \in Seq(Hashes), TextsApart(s), NEW S
  PROVE  LET w == Query!Without(s, S)
         IN /\ w \in Seq(Hashes) /\ TextsApart(w) /\ Len(w) <= Len(s)
            /\ TextsOf(w) = {e.text : e \in Range(s) \ S}
<1>. DEFINE w == Query!Without(s, S)
<1>1. w \in Seq(Hashes) /\ Range(w) = Range(s) \ S /\ IsInjective(w)
  BY HashesOnce, WithoutIs, WithoutFacts
<1>. HIDE DEF w
<1>2. TextsApart(w)
  BY <1>1, HashesOf, HashesOnce
<1>3. TextsOf(w) = {e.text : e \in Range(s) \ S}
  BY <1>1, <1>2, HashesOnce
<1>4. Len(w) <= Len(s)
  <2>1. /\ IsFiniteSet(Range(s)) /\ Cardinality(Range(s)) = Len(s)
        /\ Cardinality(Range(w)) = Len(w)
    BY <1>1, HashesOnce, LenIsSize
  <2>2. Cardinality(Range(w)) <= Cardinality(Range(s))
    BY <1>1, <2>1, FS_Subset
  <2>. QED  BY <2>1, <2>2
<1>. QED  BY <1>1, <1>2, <1>3, <1>4 DEF w

LEMMA HashesAppended ==
  ASSUME NEW s \in Seq(Hashes), TextsApart(s), NEW t \in Texts, t \notin TextsOf(s)
  PROVE  LET a == Append(s, [text |-> t, old |-> FALSE])
         IN /\ a \in Seq(Hashes) /\ TextsApart(a) /\ Len(a) = Len(s) + 1
            /\ TextsOf(a) = TextsOf(s) \cup {t}
<1>. DEFINE e == [text |-> t, old |-> FALSE]
            a == Append(s, e)
<1>1. e \in Hashes /\ e.text = t
  BY DEF Hashes
<1>2. a \in Seq(Hashes) /\ Len(a) = Len(s) + 1
  BY <1>1, AppendProperties
<1>. HIDE DEF e
<1>3. Range(a) = Range(s) \cup {e} /\ (IsInjective(a) <=> IsInjective(s) /\ e \notin Range(s))
  BY <1>1, SetOfAppend
<1>4. \A d \in Range(s) : d.text # t
  BY HashesOnce
<1>. HIDE DEF a
<1>5. IsInjective(a) /\ \A c, d \in Range(a) : c.text = d.text => c = d
  BY <1>1, <1>3, <1>4, HashesOnce
<1>6. TextsApart(a)
  BY <1>2, <1>5, HashesOf
<1>7. TextsOf(a) = TextsOf(s) \cup {t}
  <2>1. TextsOf(a) = {c.text : c \in Range(a)}
    BY <1>2, <1>6, HashesOnce
  <2>2. TextsOf(s) = {c.text : c \in Range(s)}
    BY HashesOnce
  <2>. QED  BY <1>1, <1>3, <2>1, <2>2
<1>. QED  BY <1>2, <1>6, <1>7 DEF a, e

\* The oldest text is the one that goes.
LEMMA HashesTail ==
  ASSUME NEW s \in Seq(Hashes), TextsApart(s), Len(s) > 0
  PROVE  /\ Tail(s) \in Seq(Hashes) /\ TextsApart(Tail(s)) /\ Len(Tail(s)) = Len(s) - 1
         /\ TextsOf(Tail(s)) = TextsOf(s) \ {s[1].text}
<1>1. s # <<>> /\ Len(s) \in Nat
  BY EmptySeq, LenProperties
<1>2. /\ Tail(s) \in Seq(Hashes) /\ Len(Tail(s)) = Len(s) - 1
      /\ \A i \in 1..(Len(s) - 1) : Tail(s)[i] = s[i + 1]
  BY <1>1, HeadTailProperties
<1>. DEFINE u == Tail(s)
<1>. HIDE DEF u
<1>3. \A i \in 1..(Len(s) - 1) : i + 1 \in 1..Len(s) /\ i + 1 # 1 /\ u[i] = s[i + 1]
  BY <1>1, <1>2 DEF u
<1>4. \A i \in 1..Len(s) : i = 1 \/ (i - 1 \in 1..(Len(s) - 1) /\ u[i - 1] = s[i])
  <2>. SUFFICES ASSUME NEW i \in 1..Len(s), i # 1 PROVE i - 1 \in 1..(Len(s) - 1) /\ u[i - 1] = s[i]
    OBVIOUS
  <2>1. i - 1 \in 1..(Len(s) - 1) /\ (i - 1) + 1 = i
    BY <1>1
  <2>. QED  BY <1>3, <2>1
<1>5. TextsApart(u)
  <2>. SUFFICES ASSUME NEW i \in 1..(Len(s) - 1), NEW j \in 1..(Len(s) - 1), u[i].text = u[j].text
                PROVE  i = j
    BY <1>2 DEF TextsApart, u
  <2>1. i + 1 = j + 1
    BY <1>3 DEF TextsApart
  <2>. QED  BY <1>1, <2>1
<1>6. ASSUME NEW t \in TextsOf(u) PROVE t \in TextsOf(s) \ {s[1].text}
  <2>1. PICK i \in 1..(Len(s) - 1) : t = u[i].text
    BY <1>2 DEF TextsOf, u
  <2>2. i + 1 \in 1..Len(s) /\ i + 1 # 1 /\ 1 \in 1..Len(s) /\ t = s[i + 1].text
    BY <1>1, <1>3, <2>1
  <2>. QED  BY <2>2 DEF TextsOf, TextsApart
<1>7. ASSUME NEW t \in TextsOf(s) \ {s[1].text} PROVE t \in TextsOf(u)
  <2>1. PICK i \in 1..Len(s) : t = s[i].text /\ i # 1
    BY DEF TextsOf
  <2>2. i - 1 \in 1..Len(u) /\ t = u[i - 1].text
    BY <1>2, <1>4, <2>1 DEF u
  <2>. QED  BY <2>2 DEF TextsOf
<1>8. TextsOf(u) = TextsOf(s) \ {s[1].text}
  BY <1>6, <1>7
<1>. QED  BY <1>2, <1>5, <1>8 DEF u


Caching == hashes \in Seq(Hashes) /\ sweeping \in BOOLEAN /\ orphans \subseteq Texts /\ Hashed

\* A call leaves the cache alone or changes it in one of two ways.
LEMMA CacheForgets ==
  ASSUME QueryInv, NEW c \in Queriers, Query!Persisted(c),
         hashes' = Query!Without(hashes, Query!Of(asks[c].text)),
         texts' = IF hashes' = hashes THEN texts ELSE texts \ {asks[c].text},
         sweeping' = TRUE, orphans' = orphans
  PROVE  Caching' /\ Dropped'
<1>. DEFINE t == asks[c].text
<1>1. /\ t \in Texts /\ hashes \in Seq(Hashes) /\ TextsApart(hashes) /\ Len(hashes) <= MaxHashes
      /\ texts = TextsOf(hashes) /\ orphans \subseteq Texts
  BY DEF QueryInv, Query!TypeOK, Hashed, Hashes
<1>2. /\ hashes' \in Seq(Hashes) /\ TextsApart(hashes') /\ Len(hashes') <= Len(hashes)
      /\ TextsOf(hashes') = {e.text : e \in Range(hashes) \ Query!Of(t)}
  BY <1>1, HashesWithout
<1>3. \A e \in Range(hashes) : e \in Query!Of(t) <=> e.text = t
  BY <1>1, HashesOnce DEF Query!Of, Hashes
<1>4. TextsOf(hashes) = {e.text : e \in Range(hashes)}
  BY <1>1, HashesOnce
<1>5. TextsOf(hashes') = TextsOf(hashes) \ {t}
  BY <1>2, <1>3, <1>4
<1>6. texts' = TextsOf(hashes')
  BY <1>1, <1>5
<1>7. Len(hashes') \in Nat /\ Len(hashes) \in Nat /\ TextsOf(hashes') \subseteq Texts
  BY <1>1, <1>2, HashesOnce
<1>. QED  BY <1>1, <1>2, <1>6, <1>7, QueryAssumed DEF Caching, Hashed, Dropped

LEMMA CacheRemembers ==
  ASSUME QueryInv, NEW t \in Texts, Query!Remembered(t)
  PROVE  /\ hashes' \in Seq(Hashes) /\ Hashed' /\ texts' \subseteq texts \cup {t}
<1>. DEFINE o == Query!Oldest(hashes)
            w == Query!Without(o, Query!Of(t))
<1>1. /\ hashes \in Seq(Hashes) /\ TextsApart(hashes) /\ Len(hashes) <= MaxHashes
      /\ texts = TextsOf(hashes) /\ Len(hashes) \in Nat /\ MaxHashes \in Nat \ {0}
  BY QueryAssumed, HashesOnce DEF QueryInv, Query!TypeOK, Hashed, Hashes
<1>2. /\ o \in Seq(Hashes) /\ TextsApart(o) /\ Len(o) < MaxHashes
      /\ TextsOf(o) = IF Len(hashes) >= MaxHashes THEN texts \ {hashes[1].text} ELSE texts
  <2>1. CASE Len(hashes) >= MaxHashes
    <3>1. o = Tail(hashes) /\ Len(hashes) > 0 /\ Len(hashes) = MaxHashes
      BY <1>1, <2>1 DEF Query!Oldest
    <3>2. /\ o \in Seq(Hashes) /\ TextsApart(o) /\ Len(o) = Len(hashes) - 1
          /\ TextsOf(o) = TextsOf(hashes) \ {hashes[1].text}
      BY <1>1, <3>1, HashesTail
    <3>. QED  BY <1>1, <2>1, <3>1, <3>2
  <2>2. CASE ~(Len(hashes) >= MaxHashes)
    <3>1. o = hashes
      BY <2>2 DEF Query!Oldest
    <3>. QED  BY <1>1, <2>2, <3>1
  <2>. QED  BY <2>1, <2>2
<1>. HIDE DEF o
<1>3. /\ w \in Seq(Hashes) /\ TextsApart(w) /\ Len(w) <= Len(o) /\ Len(w) \in Nat /\ Len(o) \in Nat
      /\ TextsOf(w) = {e.text : e \in Range(o) \ Query!Of(t)}
  BY <1>2, HashesWithout, HashesOnce
<1>4. \A e \in Range(o) : e \in Query!Of(t) <=> e.text = t
  BY <1>2, HashesOnce DEF Query!Of, Hashes
<1>5. TextsOf(o) = {e.text : e \in Range(o)}
  BY <1>2, HashesOnce
<1>6. TextsOf(w) = TextsOf(o) \ {t}
  BY <1>3, <1>4, <1>5
<1>7. hashes' = Append(w, [text |-> t, old |-> FALSE])
  BY DEF Query!Remembered, Query!Renewed, o
<1>. HIDE DEF w
<1>8. /\ hashes' \in Seq(Hashes) /\ TextsApart(hashes') /\ Len(hashes') = Len(w) + 1
      /\ TextsOf(hashes') = TextsOf(w) \cup {t}
  BY <1>3, <1>6, <1>7, HashesAppended
<1>9. texts' = TextsOf(hashes')
  BY <1>2, <1>6, <1>8 DEF Query!Remembered
<1>10. texts' \subseteq texts \cup {t}
  BY DEF Query!Remembered
<1>11. Len(hashes') <= MaxHashes
  BY <1>1, <1>2, <1>3, <1>8
<1>. QED  BY <1>8, <1>9, <1>10, <1>11 DEF Hashed

\* The timer, clearAPQCache() and age.
LEMMA CacheSwept == ASSUME QueryInv, Query!Sweep PROVE Caching' /\ Dropped'
<1>. DEFINE S == [text : Texts, old : {TRUE}]
<1>1. /\ hashes \in Seq(Hashes) /\ TextsApart(hashes) /\ Len(hashes) <= MaxHashes
      /\ orphans \subseteq Texts /\ sweeping
  BY DEF QueryInv, Query!TypeOK, Hashed, Hashes, Query!Sweep
<1>2. /\ hashes' \in Seq(Hashes) /\ TextsApart(hashes') /\ Len(hashes') <= Len(hashes)
      /\ Len(hashes) \in Nat /\ Len(hashes') \in Nat
  BY <1>1, HashesWithout, HashesOnce DEF Query!Sweep
<1>3. DOMAIN hashes' = 1..Len(hashes')
  BY <1>2, LenProperties
<1>4. texts' = TextsOf(hashes')
  BY <1>3 DEF Query!Sweep, TextsOf
<1>5. Len(hashes') <= MaxHashes
  BY <1>1, <1>2, QueryAssumed
<1>. QED  BY <1>1, <1>2, <1>4, <1>5 DEF Caching, Hashed, Dropped, Query!Sweep

LEMMA CacheCleared == ASSUME QueryInv, Query!Clear PROVE Caching' /\ Dropped'
<1>1. /\ hashes' = <<>> /\ texts' = {} /\ sweeping' = FALSE /\ step' = step /\ asks' = asks
      /\ orphans' = {asks[c].text : c \in {d \in Queriers : step[d] = "digest"}}
      /\ asks \in [Queriers -> [kind : Query!Kinds, text : Texts]]
  BY DEF Query!Clear, QueryInv, Query!TypeOK
<1>2. hashes' \in Seq(Hashes) /\ Len(hashes') = 0
  BY <1>1, EmptySeq
<1>3. TextsOf(hashes') = {} /\ TextsApart(hashes')
  BY <1>2 DEF TextsOf, TextsApart
<1>4. orphans' \subseteq Texts
  BY <1>1
<1>5. \A c \in Queriers : step'[c] = "digest" => asks'[c].text \in orphans'
  BY <1>1
<1>6. Len(hashes') <= MaxHashes
  BY <1>2, QueryAssumed
<1>. QED  BY <1>1, <1>2, <1>3, <1>4, <1>5, <1>6 DEF Caching, Hashed, Dropped

LEMMA CacheAges == ASSUME QueryInv, Query!Age PROVE Caching' /\ Dropped'
<1>1. /\ hashes \in Seq(Hashes) /\ TextsApart(hashes) /\ Len(hashes) <= MaxHashes
      /\ texts = TextsOf(hashes)
      /\ orphans \subseteq Texts /\ sweeping \in BOOLEAN
  BY DEF QueryInv, Query!TypeOK, Hashed, Hashes
<1>2. PICK i \in DOMAIN hashes :
        /\ hashes' = [j \in DOMAIN hashes |-> [hashes[j] EXCEPT !.old = @ \/ j <= i]]
        /\ UNCHANGED <<asks, texts, sweeping, orphans, step>>
  BY DEF Query!Age
<1>3. Len(hashes) \in Nat /\ DOMAIN hashes = 1..Len(hashes) /\ \A j \in 1..Len(hashes) : hashes[j] \in Hashes
  BY <1>1, LenProperties, ElementOfSeq
<1>4. \A j \in 1..Len(hashes) :
        hashes'[j].text = hashes[j].text /\ hashes'[j] \in Hashes
  BY <1>2, <1>3 DEF Hashes
<1>5. hashes' \in [1..Len(hashes) -> Hashes]
  BY <1>2, <1>3, <1>4
<1>6. hashes' \in Seq(Hashes) /\ Len(hashes') = Len(hashes)
  BY <1>3, <1>5, IsASeq, LenProperties
<1>7. TextsOf(hashes') = TextsOf(hashes) /\ TextsApart(hashes')
  BY <1>1, <1>4, <1>6 DEF TextsOf, TextsApart
<1>. QED  BY <1>1, <1>2, <1>6, <1>7 DEF Caching, Hashed, Dropped, QueryInv

\* The calls by themselves: what is known of one, where it is.
Calling ==
  /\ asks \in [Queriers -> [kind : Query!Kinds, text : Texts]]
  /\ step \in [Queriers -> {"headers", "digest", "flight", "body", "failed", "pause",
                            "linkPause", "answered", "rejected"}]
  /\ tries \in [Queriers -> [client : 0..Retries, link : 0..LinkRetries]]
  /\ full \in [Queriers -> BOOLEAN] /\ deadline \subseteq Queriers /\ heard \subseteq Queriers
  /\ aborters \subseteq Queriers /\ posted \in [Queriers -> [hash : Nat, full : Nat]]
  /\ Query!FlightOnly
  /\ \A c \in Queriers : Said(c)

LEMMA QueryIs == QueryInv <=> Calling /\ Caching /\ Dropped
<1>1. ASSUME Hashed, hashes \in Seq(Hashes) PROVE texts \subseteq Texts
  BY <1>1, HashesOnce DEF Hashed
<1>. QED  BY <1>1 DEF QueryInv, Query!TypeOK, Calling, Caching, Hashes

LEMMA QueryFrom == ASSUME Calling', Caching', Dropped' PROVE QueryInv'
<1>1. texts' \subseteq Texts
  BY HashesOnce DEF Caching, Hashed
<1>. QED  BY <1>1 DEF QueryInv, Query!TypeOK, Calling, Caching, Hashes

LEMMA QueryInit == ASSUME Init PROVE QueryInv
<1>1. Query!Init
  BY DEF Init
<1>2. hashes \in Seq(Hashes) /\ Len(hashes) = 0
  BY <1>1, EmptySeq DEF Query!Init
<1>3. TextsOf(hashes) = {} /\ TextsApart(hashes)
  BY <1>2 DEF TextsOf, TextsApart
<1>4. Len(hashes) <= MaxHashes
  BY <1>2, QueryAssumed
<1>5. Caching /\ Dropped
  BY <1>1, <1>2, <1>3, <1>4 DEF Query!Init, Caching, Hashed, Dropped
<1>6. Calling
  BY <1>1, QueryAssumed DEF Query!Init, Query!Fresh, Query!Persisted, Query!FlightOnly, Calling, Said
<1>. QED  BY <1>5, <1>6, QueryIs

\* A request goes out.
LEMMA CallSends ==
  ASSUME QueryInv, NEW c \in Queriers, Query!Sent(c), step[c] \in {"headers", "digest"},
         UNCHANGED <<asks, tries, full, aborters>>
  PROVE  Calling'
<1>1. Calling
  BY QueryIs
<1>2. /\ step' = [step EXCEPT ![c] = "flight"] /\ asks' = asks /\ tries' = tries /\ full' = full
      /\ aborters' = aborters
      /\ deadline' \subseteq Queriers /\ heard' \subseteq Queriers
      /\ \A d \in Queriers : d \in deadline' \cup heard' => d = c \/ d \in deadline \cup heard
  BY <1>1 DEF Calling, Query!Sent
<1>3. /\ posted' \in [Queriers -> [hash : Nat, full : Nat]]
      /\ \A d \in Queriers \ {c} : posted'[d] = posted[d]
      /\ Query!Persisted(c) /\ ~full[c] =>
           posted'[c].hash = posted[c].hash + 1 /\ posted'[c].full = posted[c].full
      /\ ~(Query!Persisted(c) /\ ~full[c]) =>
           posted'[c].full = posted[c].full + 1 /\ posted'[c].hash = posted[c].hash
  BY <1>1 DEF Calling, Query!Sent
<1>4. Said(c)'
  BY <1>1, <1>2, <1>3 DEF Calling, Said, Query!Persisted
<1>5. \A d \in Queriers \ {c} : Said(d)'
  BY <1>1, <1>2, <1>3 DEF Calling, Said, Query!Persisted
<1>6. Query!FlightOnly'
  BY <1>1, <1>2 DEF Calling, Query!FlightOnly
<1>. QED  BY <1>1, <1>2, <1>3, <1>4, <1>5, <1>6 DEF Calling

\* What a call does otherwise it does not send.
LEMMA CallSettles ==
  ASSUME QueryInv, NEW c \in Queriers,
         NEW to \in {"digest", "body", "failed", "pause", "linkPause", "answered", "rejected"},
         step' = [step EXCEPT ![c] = to],
         \/ step[c] = "headers" /\ Query!Persisted(c) /\ to = "digest"
         \/ to \in {"body", "failed", "answered", "rejected"}
            /\ (to = "body" => step[c] = "flight")
         \/ step[c] = "failed" /\ asks[c].kind # "upload"
            /\ \/ to = "linkPause" /\ tries[c].link < LinkRetries
               \/ to = "pause" /\ tries[c].client < Retries,
         deadline' \subseteq deadline \ {c}, heard' \subseteq heard \ {c},
         aborters' \subseteq Queriers,
         UNCHANGED <<asks, tries, full, posted>>
  PROVE  Calling'
<1>1. Calling
  BY QueryIs
<1>2. \A d \in Queriers : step'[d] = IF d = c THEN to ELSE step[d]
  BY <1>1 DEF Calling
<1>3. Said(c)'
  BY <1>1, <1>2 DEF Calling, Said, Query!Persisted
<1>4. \A d \in Queriers \ {c} : Said(d)'
  BY <1>1, <1>2 DEF Calling, Said, Query!Persisted
<1>5. Query!FlightOnly'
  BY <1>1, <1>2 DEF Calling, Query!FlightOnly
<1>6. step' \in [Queriers -> {"headers", "digest", "flight", "body", "failed", "pause",
                              "linkPause", "answered", "rejected"}]
  BY <1>1 DEF Calling
<1>. QED  BY <1>1, <1>3, <1>4, <1>5, <1>6 DEF Calling

\* The query is asked for, or the next attempt begins.
LEMMA CallAgain ==
  ASSUME QueryInv, NEW c \in Queriers, Query!NotFound(c) \/ Query!Wake(c)
  PROVE  Calling'
<1>1. Calling
  BY QueryIs
<1>2. /\ step' = [step EXCEPT ![c] = "headers"] /\ asks' = asks /\ deadline' = deadline
      /\ heard' = heard /\ aborters' = aborters
      /\ full' \in [Queriers -> BOOLEAN] /\ \A d \in Queriers \ {c} : full'[d] = full[d]
      /\ posted' \in [Queriers -> [hash : Nat, full : Nat]]
      /\ \A d \in Queriers \ {c} : posted'[d] = posted[d]
  <2>1. CASE Query!NotFound(c)
    BY <1>1, <2>1 DEF Calling, Query!NotFound
  <2>2. CASE Query!Wake(c)
    BY <1>1, <2>2 DEF Calling, Query!Wake
  <2>. QED  BY <2>1, <2>2
<1>3. /\ tries' \in [Queriers -> [client : 0..Retries, link : 0..LinkRetries]]
      /\ \A d \in Queriers \ {c} : tries'[d] = tries[d]
  <2>1. CASE Query!NotFound(c)
    BY <1>1, <2>1 DEF Calling, Query!NotFound
  <2>2. CASE Query!Wake(c)
    <3>. DEFINE n == IF step[c] = "pause" THEN [client |-> tries[c].client + 1, link |-> 0]
                     ELSE [client |-> tries[c].client, link |-> tries[c].link + 1]
    <3>1. tries' = [tries EXCEPT ![c] = n]
      BY <2>2 DEF Query!Wake
    <3>2. /\ \/ step[c] = "pause" /\ tries[c].client < Retries
             \/ step[c] = "linkPause" /\ tries[c].link < LinkRetries
          /\ tries[c].client \in 0..Retries /\ tries[c].link \in 0..LinkRetries
      BY <1>1, <2>2 DEF Query!Wake, Calling, Said
    <3>3. n \in [client : 0..Retries, link : 0..LinkRetries]
      BY <3>2, QueryAssumed
    <3>. HIDE DEF n
    <3>. QED  BY <1>1, <3>1, <3>3 DEF Calling
  <2>. QED  BY <2>1, <2>2
<1>4. step'[c] = "headers" /\ tries'[c] \in [client : 0..Retries, link : 0..LinkRetries]
  BY <1>1, <1>2, <1>3 DEF Calling
<1>5. ASSUME Query!NotFound(c) PROVE Said(c)'
  <2>1. full'[c] = TRUE /\ posted' = posted /\ tries' = tries /\ Query!Persisted(c)
        /\ posted[c].hash = 1 /\ posted[c].full = 0
    BY <1>1, <1>5 DEF Calling, Said, Query!NotFound
  <2>. QED  BY <1>2, <1>4, <2>1 DEF Said, Query!Persisted
<1>6. ASSUME Query!Wake(c) PROVE Said(c)'
  <2>1. full'[c] = FALSE /\ posted'[c] = [hash |-> 0, full |-> 0] /\ asks[c].kind # "upload"
    BY <1>1, <1>6 DEF Calling, Said, Query!Wake
  <2>. QED  BY <1>2, <1>4, <2>1 DEF Said, Query!Persisted
<1>7. Said(c)'
  BY <1>5, <1>6
<1>8. \A d \in Queriers \ {c} : Said(d)'
  BY <1>1, <1>2, <1>3 DEF Calling, Said, Query!Persisted
<1>9. Query!FlightOnly'
  <2>1. c \notin deadline \cup heard
    BY <1>1 DEF Calling, Query!FlightOnly, Query!NotFound, Query!Wake
  <2>. QED  BY <1>1, <1>2, <2>1 DEF Calling, Query!FlightOnly
<1>. QED  BY <1>1, <1>2, <1>3, <1>7, <1>8, <1>9 DEF Calling

\* The headers are there, and the hash is.
LEMMA QueryWritten == ASSUME QueryInv, NEW c \in Queriers, Query!Written(c) PROVE QueryInv'
<1>. DEFINE t == asks[c].text
<1>1. Calling /\ Caching /\ Dropped
  BY QueryIs
<1>2. step[c] = "headers" /\ UNCHANGED <<asks, orphans, tries, full, aborters>>
  BY DEF Query!Written
<1>3. CASE ~Query!Persisted(c) \/ (Query!Persisted(c) /\ Query!Cached(t))
  <2>1. /\ Query!Sent(c) /\ hashes' = hashes /\ texts' = texts
        /\ sweeping' = sweeping \/ sweeping' = TRUE
    BY <1>3 DEF Query!Written
  <2>2. Calling'
    BY <1>2, <2>1, CallSends
  <2>3. Caching'
    BY <1>1, <1>2, <2>1 DEF Caching, Hashed
  <2>4. \A d \in Queriers : step'[d] = "digest" => step[d] = "digest"
    BY <1>1, <2>1 DEF Query!Sent, Calling
  <2>5. Dropped'
    BY <1>1, <1>2, <2>1, <2>4 DEF Dropped
  <2>. QED  BY <2>2, <2>3, <2>5, QueryFrom
<1>4. CASE Query!Persisted(c) /\ ~Query!Cached(t)
  <2>1. /\ hashes' = Query!Without(hashes, Query!Of(t)) /\ sweeping' = TRUE
        /\ texts' = IF hashes' = hashes THEN texts ELSE texts \ {t}
        /\ step' = [step EXCEPT ![c] = "digest"]
        /\ UNCHANGED <<deadline, heard, posted>>
    BY <1>4 DEF Query!Written
  <2>2. Caching' /\ Dropped'
    BY <1>2, <1>4, <2>1, CacheForgets
  <2>3. /\ deadline' \subseteq deadline \ {c} /\ heard' \subseteq heard \ {c}
        /\ aborters' \subseteq Queriers
    BY <1>1, <1>2, <2>1 DEF Calling, Query!FlightOnly
  <2>4. Calling'
    BY <1>2, <1>4, <2>1, <2>3, CallSettles
  <2>. QED  BY <2>2, <2>4, QueryFrom
<1>. QED  BY <1>3, <1>4

LEMMA QueryDigested == ASSUME QueryInv, NEW c \in Queriers, Query!Digested(c) PROVE QueryInv'
<1>1. Calling /\ Caching /\ Dropped
  BY QueryIs
<1>2. /\ step[c] = "digest" /\ Query!Remembered(asks[c].text) /\ Query!Sent(c)
      /\ UNCHANGED <<asks, sweeping, orphans, tries, full, aborters>>
  BY DEF Query!Digested
<1>3. Calling'
  BY <1>2, CallSends
<1>4. hashes' \in Seq(Hashes) /\ Hashed' /\ texts' \subseteq texts \cup {asks[c].text}
  BY <1>1, <1>2, CacheRemembers DEF Calling
<1>5. Caching'
  BY <1>1, <1>2, <1>4 DEF Caching
<1>6. \A d \in Queriers : step'[d] = "digest" => step[d] = "digest"
  BY <1>1, <1>2 DEF Query!Sent, Calling
<1>7. Dropped'
  BY <1>1, <1>2, <1>4, <1>6 DEF Dropped
<1>. QED  BY <1>3, <1>5, <1>7, QueryFrom

\* The steps of a call that have nothing to do with the cache.
LEMMA QuerySettled ==
  ASSUME QueryInv, NEW c \in Queriers,
         \/ Query!Answered(c) \/ Query!FetchFails(c) \/ Query!TimesOut(c) \/ Query!Abort(c)
         \/ Query!Read(c) \/ Query!NotFound(c) \/ Query!Retry(c) \/ Query!Wake(c)
  PROVE  QueryInv'
<1>1. Calling /\ Caching /\ Dropped
  BY QueryIs
<1>2. UNCHANGED <<asks, hashes, texts, sweeping, orphans>>
  BY DEF Query!Answered, Query!FetchFails, Query!TimesOut, Query!Rejected, Query!Abort, Query!Read,
         Query!NotFound, Query!Retry, Query!Wake
<1>3. \A d \in Queriers : d \in deadline \cup heard => step[d] = "flight"
  BY <1>1 DEF Calling, Query!FlightOnly
<1>4. ASSUME step' = step \/ \E to : to # "digest" /\ step' = [step EXCEPT ![c] = to],
             Calling'
      PROVE  QueryInv'
  <2>1. \A d \in Queriers : step'[d] = "digest" => step[d] = "digest"
    BY <1>1, <1>4 DEF Calling
  <2>2. Dropped'
    BY <1>1, <1>2, <2>1 DEF Dropped
  <2>3. Caching'
    BY <1>1, <1>2 DEF Caching, Hashed
  <2>. QED  BY <1>4, <2>2, <2>3, QueryFrom
<1>5. CASE Query!Answered(c)
  <2>1. /\ step[c] = "flight" /\ step' = [step EXCEPT ![c] = "body"]
        /\ deadline' \subseteq deadline \ {c} /\ heard' \subseteq heard \ {c}
        /\ aborters' \subseteq Queriers /\ UNCHANGED <<asks, tries, full, posted>>
    BY <1>1, <1>5 DEF Query!Answered, Query!Released, Calling
  <2>. QED  BY <1>4, <2>1, CallSettles
<1>6. CASE Query!FetchFails(c) \/ Query!TimesOut(c)
  <2>1. /\ step' = [step EXCEPT ![c] = "failed"]
        /\ deadline' \subseteq deadline \ {c} /\ heard' \subseteq heard \ {c}
        /\ aborters' \subseteq Queriers /\ UNCHANGED <<asks, tries, full, posted>>
    BY <1>1, <1>6 DEF Query!FetchFails, Query!TimesOut, Query!Rejected, Query!Released, Calling
  <2>. QED  BY <1>4, <2>1, CallSettles
<1>7. CASE Query!Abort(c)
  <2>1. aborters' \subseteq Queriers /\ UNCHANGED <<asks, tries, full, posted>>
    BY <1>1, <1>7 DEF Query!Abort, Calling
  <2>2. CASE c \in heard
    <3>1. /\ step' = [step EXCEPT ![c] = "failed"]
          /\ deadline' \subseteq deadline \ {c} /\ heard' \subseteq heard \ {c}
      BY <1>7, <2>2 DEF Query!Abort, Query!Released
    <3>. QED  BY <1>4, <2>1, <3>1, CallSettles
  <2>3. CASE c \notin heard
    <3>1. UNCHANGED <<step, deadline, heard>>
      BY <1>7, <2>3 DEF Query!Abort
    <3>2. \A d \in Queriers : Said(d)'
      BY <1>1, <2>1, <3>1 DEF Calling, Said, Query!Persisted
    <3>3. Query!FlightOnly'
      BY <1>1, <3>1 DEF Calling, Query!FlightOnly
    <3>4. Calling'
      BY <1>1, <2>1, <3>1, <3>2, <3>3 DEF Calling
    <3>. QED  BY <1>4, <3>1, <3>4
  <2>. QED  BY <2>2, <2>3
<1>8. CASE Query!Read(c)
  <2>1. PICK to \in {"answered", "failed"} : step' = [step EXCEPT ![c] = to]
    BY <1>8 DEF Query!Read
  <2>2. /\ deadline' \subseteq deadline \ {c} /\ heard' \subseteq heard \ {c}
        /\ aborters' \subseteq Queriers /\ UNCHANGED <<asks, tries, full, posted>>
    BY <1>1, <1>3, <1>8 DEF Query!Read, Calling
  <2>. QED  BY <1>4, <2>1, <2>2, CallSettles
<1>9. CASE Query!NotFound(c) \/ Query!Wake(c)
  <2>1. step' = [step EXCEPT ![c] = "headers"]
    BY <1>9 DEF Query!NotFound, Query!Wake
  <2>. QED  BY <1>4, <1>9, <2>1, CallAgain
<1>10. CASE Query!Retry(c)
  <2>. DEFINE to == CASE asks[c].kind # "upload" /\ tries[c].link < LinkRetries -> "linkPause"
                      [] asks[c].kind # "upload" /\ tries[c].link >= LinkRetries
                           /\ tries[c].client < Retries /\ c \notin aborters -> "pause"
                      [] OTHER -> "rejected"
  <2>1. /\ step[c] = "failed" /\ step' = [step EXCEPT ![c] = to]
        /\ UNCHANGED <<asks, tries, full, posted, deadline, heard, aborters>>
    BY <1>10 DEF Query!Retry
  <2>2. \/ to = "rejected"
        \/ asks[c].kind # "upload" /\ to = "linkPause" /\ tries[c].link < LinkRetries
        \/ asks[c].kind # "upload" /\ to = "pause" /\ tries[c].client < Retries
    <3>1. CASE asks[c].kind # "upload" /\ tries[c].link < LinkRetries
      BY <3>1
    <3>2. CASE ~(asks[c].kind # "upload" /\ tries[c].link < LinkRetries)
      BY <3>2
    <3>. QED  BY <3>1, <3>2
  <2>. HIDE DEF to
  <2>3. /\ deadline' \subseteq deadline \ {c} /\ heard' \subseteq heard \ {c}
        /\ aborters' \subseteq Queriers
    BY <1>1, <1>3, <2>1 DEF Calling
  <2>. QED  BY <1>4, <2>1, <2>2, <2>3, CallSettles
<1>. QED  BY <1>5, <1>6, <1>7, <1>8, <1>9, <1>10

LEMMA QueryKept == Spec => []QueryInv
<1>1. ASSUME QueryInv, [Next]_vars PROVE QueryInv'
  <2>1. CASE Query!Next
    <3>1. CASE Query!Sweep \/ Query!Clear \/ Query!Age
      <4>1. Caching' /\ Dropped'
        BY <1>1, <3>1, CacheSwept, CacheCleared, CacheAges
      <4>2. UNCHANGED <<asks, step, tries, full, deadline, heard, aborters, posted>>
        BY <3>1 DEF Query!Sweep, Query!Clear, Query!Age
      <4>3. Calling
        BY <1>1, QueryIs
      <4>4. (\A c \in Queriers : Said(c))'
        BY <4>2, <4>3 DEF Calling, Said, Query!Persisted
      <4>5. Calling'
        BY <4>2, <4>3, <4>4 DEF Calling, Query!FlightOnly
      <4>. QED  BY <4>1, <4>5, QueryFrom
    <3>. QED  BY <1>1, <2>1, <3>1, QueryWritten, QueryDigested, QuerySettled DEF Query!Next
  <2>2. CASE UNCHANGED query
    <3>1. Calling' /\ Caching' /\ Dropped'
      BY <1>1, <2>2, QueryIs
      DEF query, Calling, Caching, Hashed, Dropped, Query!FlightOnly, Said, Query!Persisted
    <3>. QED  BY <3>1, QueryFrom
  <2>. QED  BY <1>1, <2>1, <2>2, PartsMove DEF OnlyOf
<1>. QED  BY <1>1, QueryInit, PTL DEF Spec

\* The sizes of the two maps agree, as each text is in the cache once.
LEMMA QueryShows ==
  ASSUME QueryInv
  PROVE  Query!TypeOK /\ Query!CacheMirrored /\ Query!TextOnRequest /\ Query!FlightOnly
<1>1. /\ hashes \in Seq(Hashes) /\ TextsApart(hashes) /\ Len(hashes) <= MaxHashes
      /\ texts = TextsOf(hashes) /\ Len(hashes) \in Nat
  BY HashesOnce DEF QueryInv, Query!TypeOK, Hashed, Hashes
<1>2. DOMAIN hashes = 1..Len(hashes)
  BY <1>1, LenProperties
<1>3. texts = {hashes[i].text : i \in DOMAIN hashes}
  BY <1>1, <1>2 DEF TextsOf
<1>4. Query!Cardinality(texts) = Len(hashes)
  <2>. DEFINE s == [i \in 1..Len(hashes) |-> hashes[i].text]
  <2>1. \A i \in 1..Len(hashes) : hashes[i].text \in Texts
    <3>1. \A i \in 1..Len(hashes) : hashes[i] \in Hashes
      BY <1>1, ElementOfSeq
    <3>. QED  BY <3>1 DEF Hashes
  <2>2. s \in [1..Len(hashes) -> Texts]
    BY <2>1
  <2>3. s \in Seq(Texts) /\ Len(s) = Len(hashes)
    BY <1>1, <2>2, IsASeq, LenProperties
  <2>4. \A i, j \in 1..Len(s) : s[i] = s[j] => i = j
    BY <1>1, <2>3 DEF TextsApart
  <2>5. \A x : x \in TextsOf(hashes) <=> \E i \in 1..Len(s) : s[i] = x
    BY <2>3 DEF TextsOf
  <2>. HIDE DEF s
  <2>6. IsInjective(s) /\ \A x : x \in Range(s) <=> \E i \in 1..Len(s) : s[i] = x
    BY <2>3, <2>4, SetOf
  <2>7. Range(s) = texts
    BY <1>1, <2>5, <2>6
  <2>8. Cardinality(texts) = Len(hashes)
    BY <2>3, <2>6, <2>7, LenIsSize
  <2>9. Query!Cardinality(texts) = Cardinality(texts)
    BY Zenon DEF Query!Cardinality, Cardinality
  <2>. QED  BY <2>8, <2>9
<1>5. Query!CacheMirrored
  BY <1>1, <1>3, <1>4 DEF Query!CacheMirrored, QueryInv, Dropped
<1>6. Query!TextOnRequest
  BY DEF Query!TextOnRequest, QueryInv, Said
<1>. QED  BY <1>5, <1>6 DEF QueryInv

----------------------------------------------------------------------------
(* The cookies of a jar.                                                   *)

Cookies == [expires : Nat \cup {None}, used : Nat, hostOnly : BOOLEAN]

JarInv == Jar!TypeOK /\ Jar!JarExact

LEMMA JarAssumed ==
  /\ IsFiniteSet(Jar!Keys) /\ None \notin Cookies /\ None \notin Domains /\ Lives \subseteq Nat
  /\ JarLimits \cup {JarDefaults} \subseteq [total : Nat \ {0}, perDomain : Nat \ {0}]
  /\ MaxDays \in Nat
<1>1. IsFiniteSet(Jar!Keys)
  BY QueuesAssumption, FS_Product DEF QueuesAssumption, Jar!Keys
<1>. QED  BY <1>1, QueuesAssumption DEF QueuesAssumption, Cookies

LEMMA JarCardinality == ASSUME NEW S PROVE Jar!Cardinality(S) = Cardinality(S)
BY Zenon DEF Jar!Cardinality, Cardinality

\* What is stored is a finite set of which a domain has its part.
LEMMA JarCounted ==
  ASSUME Jar!TypeOK
  PROVE  /\ Jar!Stored \subseteq Jar!Keys /\ IsFiniteSet(Jar!Stored)
         /\ \A k \in Jar!Stored : dm[k] \in Cookies
         /\ \A d : Jar!OfDomain(d) \subseteq Jar!Stored /\ IsFiniteSet(Jar!OfDomain(d))
<1>1. Jar!Stored \subseteq Jar!Keys /\ \A d : Jar!OfDomain(d) \subseteq Jar!Stored
  BY DEF Jar!Stored, Jar!OfDomain
<1>2. IsFiniteSet(Jar!Stored)
  BY <1>1, JarAssumed, FS_Subset
<1>3. \A d : IsFiniteSet(Jar!OfDomain(d))
  BY <1>1, <1>2, FS_Subset
<1>4. \A k \in Jar!Stored : dm[k] \in Cookies
  BY DEF Jar!TypeOK, Jar!Jars, Jar!Stored, Cookies
<1>. QED  BY <1>1, <1>2, <1>3, <1>4

\* The limits in terms of what is stored afterwards.
LEMMA JarWithin ==
  ASSUME dm' \in [Jar!Keys -> {None} \cup Cookies], total' \in Nat, today' \in 0..MaxDays,
         loading' \in [Jar!Keys -> {None} \cup Cookies],
         [total |-> maxTotal', perDomain |-> maxPerDomain'] \in JarLimits \cup {JarDefaults},
         total' = Cardinality(Jar!Stored'), total' <= maxTotal',
         \A d \in Domains : Cardinality(Jar!OfDomain(d)') <= maxPerDomain'
  PROVE  JarInv'
<1>1. Jar!JarExact'
  BY JarCardinality DEF Jar!JarExact
<1>. QED  BY <1>1 DEF JarInv, Jar!TypeOK, Jar!Jars, Cookies

LEMMA JarNow ==
  ASSUME JarInv
  PROVE  /\ total \in Nat /\ today \in Nat /\ today \in 0..MaxDays
         /\ dm \in [Jar!Keys -> {None} \cup Cookies]
         /\ loading \in [Jar!Keys -> {None} \cup Cookies]
         /\ [total |-> maxTotal, perDomain |-> maxPerDomain] \in JarLimits \cup {JarDefaults}
         /\ maxTotal \in Nat \ {0} /\ maxPerDomain \in Nat \ {0}
         /\ total = Cardinality(Jar!Stored) /\ total <= maxTotal
         /\ \A d \in Domains : /\ Cardinality(Jar!OfDomain(d)) <= maxPerDomain
                               /\ Cardinality(Jar!OfDomain(d)) \in Nat
<1>1. \A d : Cardinality(Jar!OfDomain(d)) \in Nat
  BY JarCounted, FS_CardinalityType DEF JarInv
<1>2. [total |-> maxTotal, perDomain |-> maxPerDomain] \in JarLimits \cup {JarDefaults}
  BY DEF JarInv, Jar!TypeOK
<1>3. maxTotal \in Nat \ {0} /\ maxPerDomain \in Nat \ {0}
  BY <1>2, JarAssumed
<1>4. total \in Nat /\ today \in 0..MaxDays
  BY DEF JarInv, Jar!TypeOK
<1>5. today \in Nat
  BY <1>4, JarAssumed
<1>6. /\ dm \in [Jar!Keys -> {None} \cup Cookies]
      /\ loading \in [Jar!Keys -> {None} \cup Cookies]
  BY DEF JarInv, Jar!TypeOK, Jar!Jars, Cookies
<1>. QED  BY <1>1, <1>2, <1>3, <1>4, <1>5, <1>6, JarCardinality DEF JarInv, Jar!JarExact

LEMMA JarInit == ASSUME Init PROVE JarInv
<1>1. /\ today = 0 /\ total = 0 /\ dm = [k \in Jar!Keys |-> None]
      /\ loading = [k \in Jar!Keys |-> None]
      /\ \E limits \in JarLimits : maxTotal = limits.total /\ maxPerDomain = limits.perDomain
  BY DEF Init, Jar!Init, Jar!Empty
<1>1a. /\ [total |-> maxTotal, perDomain |-> maxPerDomain] \in JarLimits
       /\ maxTotal \in Nat /\ maxPerDomain \in Nat
  <2>1. PICK limits \in JarLimits : maxTotal = limits.total /\ maxPerDomain = limits.perDomain
    BY <1>1
  <2>2. limits \in [total : Nat \ {0}, perDomain : Nat \ {0}]
    BY JarAssumed
  <2>3. limits = [total |-> maxTotal, perDomain |-> maxPerDomain]
    BY <2>1, <2>2
  <2>. QED  BY <2>1, <2>2, <2>3
<1>2. Jar!Stored = {} /\ \A d : Jar!OfDomain(d) = {}
  BY <1>1 DEF Jar!Stored, Jar!OfDomain
<1>3. Jar!Cardinality(Jar!Stored) = 0 /\ \A d : Jar!Cardinality(Jar!OfDomain(d)) = 0
  BY <1>2, JarCardinality, FS_EmptySet
<1>. QED  BY <1>1, <1>1a, <1>3, JarAssumed DEF JarInv, Jar!TypeOK, Jar!Jars, Jar!JarExact

\* Cookies go.
LEMMA JarLoses ==
  ASSUME JarInv, NEW S, Jar!Delete(S)
  PROVE  JarInv' /\ \A k \in Jar!Keys \ Jar!Stored : dm'[k] = None
<1>. DEFINE gone == S \cap Jar!Stored
<1>1. /\ total \in Nat /\ today \in 0..MaxDays /\ dm \in [Jar!Keys -> {None} \cup Cookies]
      /\ total = Cardinality(Jar!Stored) /\ total <= maxTotal /\ maxTotal \in Nat
      /\ maxPerDomain \in Nat /\ IsFiniteSet(Jar!Stored)
      /\ loading \in [Jar!Keys -> {None} \cup Cookies]
      /\ [total |-> maxTotal, perDomain |-> maxPerDomain] \in JarLimits \cup {JarDefaults}
  BY JarNow, JarCounted, JarAssumed DEF JarInv
<1>2. /\ dm' = [k \in Jar!Keys |-> IF k \in S THEN None ELSE dm[k]] /\ today' = today
      /\ total' = total - Cardinality(gone)
      /\ maxTotal' = maxTotal /\ maxPerDomain' = maxPerDomain /\ loading' = loading
  BY JarCardinality DEF Jar!Delete
<1>3. dm' \in [Jar!Keys -> {None} \cup Cookies]
  BY <1>1, <1>2
<1>4. Jar!Stored' = Jar!Stored \ gone /\ \A d : Jar!OfDomain(d)' \subseteq Jar!OfDomain(d)
  BY <1>2 DEF Jar!Stored, Jar!OfDomain
<1>5. \A k \in Jar!Keys \ Jar!Stored : dm'[k] = None
  BY <1>2 DEF Jar!Stored
<1>6. /\ IsFiniteSet(gone) /\ Cardinality(gone) \in Nat /\ Cardinality(gone) <= total
      /\ Cardinality(Jar!Stored \ gone) = total - Cardinality(gone)
  <2>1. gone \subseteq Jar!Stored /\ Jar!Stored \cap gone = gone
    OBVIOUS
  <2>. HIDE DEF gone
  <2>2. IsFiniteSet(gone) /\ Cardinality(gone) <= total
    BY <1>1, <2>1, FS_Subset
  <2>3. Cardinality(Jar!Stored \ gone) = Cardinality(Jar!Stored) - Cardinality(Jar!Stored \cap gone)
    BY <1>1, FS_Difference
  <2>. QED  BY <1>1, <2>1, <2>2, <2>3, FS_CardinalityType
<1>. HIDE DEF gone
<1>7. ASSUME NEW d \in Domains PROVE Cardinality(Jar!OfDomain(d)') <= maxPerDomain
  <2>1. /\ IsFiniteSet(Jar!OfDomain(d)) /\ Cardinality(Jar!OfDomain(d)) <= maxPerDomain
        /\ Cardinality(Jar!OfDomain(d)) \in Nat
    BY JarNow, JarCounted DEF JarInv
  <2>2. /\ IsFiniteSet(Jar!OfDomain(d)')
        /\ Cardinality(Jar!OfDomain(d)') <= Cardinality(Jar!OfDomain(d))
    BY <1>4, <2>1, FS_Subset
  <2>3. Cardinality(Jar!OfDomain(d)') \in Nat
    BY <2>2, FS_CardinalityType
  <2>. QED  BY <1>1, <2>1, <2>2, <2>3
<1>8. total' \in Nat /\ total' <= maxTotal /\ total' = Cardinality(Jar!Stored')
  BY <1>1, <1>2, <1>4, <1>6
<1>9. JarInv'
  BY <1>1, <1>2, <1>3, <1>7, <1>8, JarWithin
<1>. QED  BY <1>5, <1>9

\* Cookies are used, or one is renewed.
LEMMA JarKeeps ==
  ASSUME JarInv, dm' \in [Jar!Keys -> {None} \cup Cookies], Jar!Stored' = Jar!Stored,
         UNCHANGED <<today, total, maxTotal, maxPerDomain, loading>>
  PROVE  JarInv' /\ \A k \in Jar!Keys \ Jar!Stored : dm'[k] = None
<1>1. \A d : Jar!OfDomain(d)' = Jar!OfDomain(d)
  BY DEF Jar!OfDomain
<1>2. JarInv'
  BY <1>1, JarNow, JarWithin
<1>3. \A k \in Jar!Keys \ Jar!Stored' : dm'[k] = None
  BY DEF Jar!Stored
<1>. QED  BY <1>2, <1>3

\* What makes room among S is one at most, of those the longest unused.
LEMMA RoomMade ==
  ASSUME NEW S, IsFiniteSet(S), NEW limit \in Nat \ {0}, Cardinality(S) <= limit,
         NEW out \in Jar!Room(S, limit)
  PROVE  /\ \/ out = {} /\ Cardinality(S) < limit
            \/ /\ Cardinality(S) = limit
               /\ \E k \in S : out = {k} /\ \A j \in S : dm[k].used <= dm[j].used
         /\ out \subseteq S /\ IsFiniteSet(S \ out) /\ Cardinality(S \ out) < limit
         /\ Cardinality(out) \in Nat /\ Cardinality(S \ out) = Cardinality(S) - Cardinality(out)
         /\ Cardinality(S \ out) \in Nat
<1>1. Cardinality(S) \in Nat
  BY FS_CardinalityType
<1>2. CASE Cardinality(S) >= limit
  <2>1. out \in {{k} : k \in Jar!LeastUsed(S)}
    BY <1>2, JarCardinality DEF Jar!Room, Jar!Overfull
  <2>2. PICK k \in S : out = {k} /\ \A j \in S : dm[k].used <= dm[j].used
    BY <2>1 DEF Jar!LeastUsed
  <2>3. Cardinality(out) = 1
    BY <2>2, FS_Singleton
  <2>4. IsFiniteSet(S \ out) /\ Cardinality(S \ out) = Cardinality(S) - 1
    BY <2>2, FS_RemoveElement
  <2>. QED  BY <1>1, <1>2, <2>2, <2>3, <2>4
<1>3. CASE ~(Cardinality(S) >= limit)
  <2>1. out = {}
    BY <1>3, JarCardinality DEF Jar!Room, Jar!Overfull
  <2>2. Cardinality(out) = 0 /\ S \ out = S
    BY <2>1, FS_EmptySet
  <2>. QED  BY <1>1, <1>3, <2>1, <2>2
<1>. QED  BY <1>2, <1>3

\* Who goes for a new cookie k: one at most, of a full domain or jar, the longest unused there.
Goes(k, gone) ==
  LET crowded == Cardinality(Jar!OfDomain(k[1])) = maxPerDomain
  IN /\ gone # {} => crowded \/ total = maxTotal
     /\ Cardinality(gone) <= 1
     /\ \A g \in gone, j \in (IF crowded THEN Jar!OfDomain(k[1]) ELSE Jar!Stored) :
          dm[g].used <= dm[j].used

\* A new cookie comes, and another goes for it.
LEMMA JarGains ==
  ASSUME JarInv, NEW k \in Jar!Keys, NEW cookie \in Cookies, Jar!PutNew(k, cookie), today' = today,
         maxTotal' = maxTotal, maxPerDomain' = maxPerDomain,
         loading' \in [Jar!Keys -> {None} \cup Cookies]
  PROVE  /\ JarInv' /\ \A j \in Jar!Keys \ Jar!Stored : j # k => dm'[j] = None
         /\ Goes(k, {j \in Jar!Stored : dm'[j] = None})
<1>. DEFINE S == Jar!Stored
            O == Jar!OfDomain(k[1])
<1>1. /\ total \in Nat /\ today \in 0..MaxDays /\ dm \in [Jar!Keys -> {None} \cup Cookies]
      /\ [total |-> maxTotal, perDomain |-> maxPerDomain] \in JarLimits \cup {JarDefaults}
      /\ total = Cardinality(S) /\ total <= maxTotal /\ maxTotal \in Nat \ {0}
      /\ maxPerDomain \in Nat \ {0} /\ IsFiniteSet(S) /\ None \notin Cookies
      /\ S \subseteq Jar!Keys
  BY JarNow, JarCounted, JarAssumed DEF JarInv
<1>2. /\ k[1] \in Domains /\ IsFiniteSet(O) /\ Cardinality(O) <= maxPerDomain
      /\ Cardinality(O) \in Nat /\ O \subseteq S
  BY JarNow, JarCounted DEF JarInv, Jar!Keys
<1>3. dm[k] = None
  BY DEF Jar!PutNew
<1>4. PICK near \in Jar!Room(O, maxPerDomain) :
        \E far \in Jar!Room(S \ near, maxTotal) :
          /\ dm' = [j \in Jar!Keys |-> IF j = k THEN cookie
                                       ELSE IF j \in near \cup far THEN None ELSE dm[j]]
          /\ total' = total - Cardinality(near \cup far) + 1
  BY JarCardinality DEF Jar!PutNew
<1>4a. PICK far \in Jar!Room(S \ near, maxTotal) :
        /\ dm' = [j \in Jar!Keys |-> IF j = k THEN cookie
                                     ELSE IF j \in near \cup far THEN None ELSE dm[j]]
        /\ total' = total - Cardinality(near \cup far) + 1
  BY <1>4
<1>5. /\ \A j : j \in S <=> j \in Jar!Keys /\ dm[j] # None
      /\ \A j : j \in O <=> j \in S /\ j[1] = k[1]
  BY DEF Jar!Stored, Jar!OfDomain
<1>. HIDE DEF S, O
<1>6. /\ \/ near = {} /\ Cardinality(O) < maxPerDomain
         \/ /\ Cardinality(O) = maxPerDomain
            /\ \E g \in O : near = {g} /\ \A j \in O : dm[g].used <= dm[j].used
      /\ near \subseteq O /\ IsFiniteSet(O \ near) /\ Cardinality(O \ near) < maxPerDomain
      /\ Cardinality(O \ near) \in Nat
  BY <1>1, <1>2, RoomMade
<1>. DEFINE G == near \cup far
<1>7. /\ G \subseteq S /\ IsFiniteSet(S \ G) /\ Cardinality(S \ G) < maxTotal
      /\ Cardinality(S \ G) = total - Cardinality(G)
      /\ Cardinality(S \ G) \in Nat /\ Cardinality(G) \in Nat /\ Cardinality(G) <= 1
      /\ G # {} => Cardinality(O) = maxPerDomain \/ total = maxTotal
      /\ \A g \in G, j \in (IF Cardinality(O) = maxPerDomain THEN O ELSE S) : dm[g].used <= dm[j].used
  <2>1. CASE near = {}
    <3>1. S \ near = S /\ G = far
      BY <2>1
    <3>2. /\ \/ far = {} /\ Cardinality(S) < maxTotal
             \/ /\ Cardinality(S) = maxTotal
                /\ \E g \in S : far = {g} /\ \A j \in S : dm[g].used <= dm[j].used
          /\ far \subseteq S /\ IsFiniteSet(S \ far) /\ Cardinality(S \ far) < maxTotal
          /\ Cardinality(far) \in Nat /\ Cardinality(S \ far) = Cardinality(S) - Cardinality(far)
          /\ Cardinality(S \ far) \in Nat
      BY <1>1, <1>4a, <3>1, RoomMade
    <3>3. Cardinality(far) <= 1
      <4>1. CASE far = {}
        BY <4>1, FS_EmptySet
      <4>2. CASE \E g \in S : far = {g}
        <5>1. PICK g \in S : far = {g}
          BY <4>2
        <5>2. Cardinality({g}) = 1
          BY FS_Singleton
        <5>. QED  BY <5>1, <5>2
      <4>. QED  BY <3>2, <4>1, <4>2
    <3>4. Cardinality(O) < maxPerDomain
      BY <1>6, <2>1
    <3>. HIDE DEF G
    <3>. QED  BY <1>1, <1>2, <3>1, <3>2, <3>3, <3>4
  <2>2. CASE near # {}
    <3>1. PICK g \in O : near = {g} /\ \A j \in O : dm[g].used <= dm[j].used
      BY <1>6, <2>2
    <3>2. g \in S /\ Cardinality(O) = maxPerDomain
      BY <1>2, <1>6, <2>2
    <3>3. IsFiniteSet(S \ near) /\ Cardinality(S \ near) = total - 1
      BY <1>1, <3>1, <3>2, FS_RemoveElement
    <3>4. Cardinality(S \ near) < maxTotal /\ Cardinality(S \ near) \in Nat
      BY <1>1, <3>3, FS_CardinalityType
    <3>5. far = {}
      <4>. DEFINE rest == S \ near
      <4>1. /\ IsFiniteSet(rest) /\ Cardinality(rest) \in Nat /\ Cardinality(rest) < maxTotal
            /\ far \in Jar!Room(rest, maxTotal) /\ maxTotal \in Nat \ {0}
        BY <1>1, <1>4a, <3>3, <3>4
      <4>. HIDE DEF rest
      <4>2. Cardinality(rest) <= maxTotal
        BY <4>1
      <4>3. far = {} \/ Cardinality(rest) = maxTotal
        BY <4>1, <4>2, RoomMade
      <4>. QED  BY <4>1, <4>3
    <3>6. G = near /\ Cardinality(near) = 1
      BY <3>1, <3>5, FS_Singleton
    <3>. HIDE DEF G
    <3>. QED  BY <3>1, <3>2, <3>3, <3>4, <3>6
  <2>. QED  BY <2>1, <2>2
<1>8. /\ dm' = [j \in Jar!Keys |-> IF j = k THEN cookie ELSE IF j \in G THEN None ELSE dm[j]]
      /\ total' = Cardinality(S \ G) + 1
      /\ G \cap O = {} => near = {}
  BY <1>1, <1>4a, <1>6, <1>7
<1>9. near \subseteq G
  OBVIOUS
<1>. HIDE DEF G
<1>10. k \notin S /\ dm'[k] = cookie /\ dm'[k] # None
       /\ \A j \in Jar!Keys : j # k => dm'[j] = (IF j \in G THEN None ELSE dm[j])
  BY <1>1, <1>3, <1>5, <1>8
<1>11. Jar!Stored' = (S \ G) \cup {k}
  <2>1. \A j : j \in Jar!Stored' <=> j \in Jar!Keys /\ dm'[j] # None
    BY DEF Jar!Stored
  <2>. QED  BY <1>1, <1>5, <1>10, <2>1
<1>12. total' = Cardinality(Jar!Stored') /\ total' \in Nat /\ total' <= maxTotal
  <2>1. Cardinality((S \ G) \cup {k}) = Cardinality(S \ G) + 1
    BY <1>7, <1>10, FS_AddElement
  <2>. QED  BY <1>1, <1>7, <1>8, <1>11, <2>1
<1>13. ASSUME NEW d \in Domains PROVE Cardinality(Jar!OfDomain(d)') <= maxPerDomain
  <2>1. \A j : j \in Jar!OfDomain(d)' <=> j \in Jar!Stored' /\ j[1] = d
    BY DEF Jar!OfDomain
  <2>2. CASE d = k[1]
    <3>1. Jar!OfDomain(d)' = (O \ G) \cup {k}
      BY <1>2, <1>5, <1>11, <2>1, <2>2
    <3>2. /\ IsFiniteSet(O \ G) /\ Cardinality(O \ G) <= Cardinality(O \ near)
      BY <1>6, <1>9, FS_Subset
    <3>3. Cardinality((O \ G) \cup {k}) = Cardinality(O \ G) + 1
      BY <1>2, <1>10, <3>2, FS_AddElement
    <3>4. Cardinality(O \ G) \in Nat
      BY <3>2, FS_CardinalityType
    <3>. QED  BY <1>1, <1>6, <3>1, <3>2, <3>3, <3>4
  <2>3. CASE d # k[1]
    <3>1. \A j : j \in Jar!OfDomain(d) <=> j \in S /\ j[1] = d
      BY DEF Jar!OfDomain, S
    <3>2. Jar!OfDomain(d)' \subseteq Jar!OfDomain(d)
      BY <1>11, <2>1, <2>3, <3>1
    <3>3. /\ IsFiniteSet(Jar!OfDomain(d)) /\ Cardinality(Jar!OfDomain(d)) <= maxPerDomain
          /\ Cardinality(Jar!OfDomain(d)) \in Nat
      BY JarNow, JarCounted DEF JarInv
    <3>4. /\ IsFiniteSet(Jar!OfDomain(d)')
          /\ Cardinality(Jar!OfDomain(d)') <= Cardinality(Jar!OfDomain(d))
      BY <3>2, <3>3, FS_Subset
    <3>5. Cardinality(Jar!OfDomain(d)') \in Nat
      BY <3>4, FS_CardinalityType
    <3>. QED  BY <1>1, <3>3, <3>4, <3>5
  <2>. QED  BY <2>2, <2>3
<1>14. dm' \in [Jar!Keys -> {None} \cup Cookies] /\ today' \in 0..MaxDays
  BY <1>1, <1>8
<1>15. JarInv'
  BY <1>1, <1>12, <1>13, <1>14, JarWithin
<1>16. {j \in S : dm'[j] = None} = G
  BY <1>1, <1>5, <1>7, <1>10
<1>17. \A j \in Jar!Keys \ S : j # k => dm'[j] = None
  BY <1>5, <1>7, <1>10
<1>18. Goes(k, {j \in S : dm'[j] = None})
  BY <1>7, <1>16 DEF Goes, O, S
<1>. QED  BY <1>15, <1>17, <1>18 DEF S

\* Every step keeps the count and the limits, and only room for a new cookie is made of others.
LEMMA JarStep ==
  ASSUME JarInv, Jar!Next
  PROVE  /\ JarInv'
         /\ \A k \in Jar!Keys \ Jar!Stored : dm'[k] # None =>
              Goes(k, {j \in Jar!Stored : dm'[j] = None})
<1>1. ASSUME NEW S, Jar!Delete(S) PROVE JarInv' /\ \A k \in Jar!Keys \ Jar!Stored : dm'[k] = None
  BY <1>1, JarLoses
<1>2. CASE \/ \E k \in Jar!Keys : Jar!RemoveCookie(k)
           \/ \E d \in Domains : Jar!ClearForDomain(d)
           \/ Jar!Clear \/ Jar!ClearExpired \/ Jar!ClearSession
  BY <1>1, <1>2 DEF Jar!RemoveCookie, Jar!ClearForDomain, Jar!Clear, Jar!ClearExpired,
                    Jar!ClearSession
<1>3. CASE Jar!Tick
  <2>1. /\ dm' = dm /\ total' = total /\ today' \in 0..MaxDays
        /\ maxTotal' = maxTotal /\ maxPerDomain' = maxPerDomain /\ loading' = loading
    BY <1>3, JarNow, JarAssumed DEF Jar!Tick
  <2>2. Jar!Stored' = Jar!Stored /\ \A d : Jar!OfDomain(d)' = Jar!OfDomain(d)
    BY <2>1 DEF Jar!Stored, Jar!OfDomain
  <2>3. JarInv'
    BY <2>1, <2>2, JarNow, JarWithin
  <2>. QED  BY <2>1, <2>3 DEF Jar!Stored
<1>4. ASSUME NEW h, NEW barred, Jar!GetCookies(h, barred) PROVE JarInv' /\ \A k \in Jar!Keys \ Jar!Stored : dm'[k] = None
  <2>. DEFINE S == Jar!Sent(h, barred)
  <2>1. /\ dm' = [k \in Jar!Keys |-> IF k \in S THEN [dm[k] EXCEPT !.used = today] ELSE dm[k]]
        /\ UNCHANGED <<today, total, maxTotal, maxPerDomain, loading>>
    BY <1>4 DEF Jar!GetCookies
  <2>2. S \subseteq Jar!Stored
    BY DEF Jar!Sent
  <2>. HIDE DEF S
  <2>3. \A k \in S : [dm[k] EXCEPT !.used = today] \in Cookies
    BY <2>2, JarCounted, JarNow DEF JarInv, Cookies
  <2>4. None \notin Cookies /\ dm \in [Jar!Keys -> {None} \cup Cookies] /\ S \subseteq Jar!Keys
    BY <2>2, JarAssumed, JarNow, JarCounted DEF JarInv
  <2>5. dm' \in [Jar!Keys -> {None} \cup Cookies]
    BY <2>1, <2>3, <2>4
  <2>6. \A k \in Jar!Keys : dm'[k] # None <=> dm[k] # None
    BY <2>1, <2>2, <2>3, <2>4 DEF Jar!Stored
  <2>7. Jar!Stored' = Jar!Stored
    BY <2>6 DEF Jar!Stored
  <2>. QED  BY <2>1, <2>5, <2>7, JarKeeps
<1>5. ASSUME NEW h \in Domains, NEW n \in Names, NEW d \in Domains \cup {None},
             NEW l \in Lives \cup {None}, Jar!SetCookie(h, d, n, l)
      PROVE  /\ JarInv'
             /\ \A k \in Jar!Keys \ Jar!Stored : dm'[k] # None =>
                  Goes(k, {j \in Jar!Stored : dm'[j] = None})
  <2>. DEFINE k == <<IF d = None THEN h ELSE d, n>>
              expires == IF l = None THEN None ELSE today + l
              cookie == [expires |-> expires, used |-> today, hostOnly |-> d = None]
  <2>1. k \in Jar!Keys
    BY DEF Jar!Keys
  <2>2. cookie \in Cookies
    <3>1. today \in Nat /\ (l # None => l \in Nat)
      BY JarNow, JarAssumed
    <3>2. expires \in Nat \cup {None} /\ (d = None) \in BOOLEAN
      BY <3>1
    <3>. QED  BY <3>1, <3>2 DEF Cookies
  <2>3. IF l = 0 THEN Jar!Delete({k})
                 ELSE /\ Jar!PutNew(k, cookie) \/ Jar!PutAgain(k, cookie)
                      /\ UNCHANGED <<today, maxTotal, maxPerDomain, loading>>
    BY <1>5 DEF Jar!SetCookie
  <2>. HIDE DEF k, cookie
  <2>4. CASE l = 0
    BY <1>1, <2>3, <2>4
  <2>5. CASE l # 0 /\ Jar!PutNew(k, cookie)
    BY <2>1, <2>2, <2>3, <2>5, JarNow, JarGains
  <2>6. CASE l # 0 /\ Jar!PutAgain(k, cookie)
    <3>1. /\ dm[k] # None /\ dm' = [dm EXCEPT ![k] = cookie]
          /\ UNCHANGED <<today, total, maxTotal, maxPerDomain, loading>>
      BY <2>3, <2>6 DEF Jar!PutAgain
    <3>2. dm \in [Jar!Keys -> {None} \cup Cookies] /\ None \notin Cookies
      BY JarNow, JarAssumed
    <3>3. dm' \in [Jar!Keys -> {None} \cup Cookies]
          /\ \A j \in Jar!Keys : dm'[j] # None <=> dm[j] # None
      BY <2>1, <2>2, <3>1, <3>2
    <3>4. Jar!Stored' = Jar!Stored
      BY <3>3 DEF Jar!Stored
    <3>. QED  BY <3>1, <3>3, <3>4, JarKeeps
  <2>. QED  BY <2>3, <2>4, <2>5, <2>6
<1>6. ASSUME Jar!Reload PROVE JarInv' /\ \A k \in Jar!Keys : dm'[k] = None
  <2>1. /\ dm' = [k \in Jar!Keys |-> None] /\ total' = 0 /\ today' = today
        /\ maxTotal' = JarDefaults.total /\ maxPerDomain' = JarDefaults.perDomain
        /\ loading' = [k \in Jar!Keys |-> IF k \in Jar!Stored /\ ~Jar!Expired(k) THEN dm[k]
                                                                             ELSE None]
    BY <1>6 DEF Jar!Reload, Jar!Empty
  <2>2. Jar!Stored' = {} /\ \A d : Jar!OfDomain(d)' = {}
    BY <2>1 DEF Jar!Stored, Jar!OfDomain
  <2>3. Cardinality(Jar!Stored') = 0 /\ \A d : Cardinality(Jar!OfDomain(d)') = 0
    BY <2>2, FS_EmptySet
  <2>4. JarDefaults \in [total : Nat \ {0}, perDomain : Nat \ {0}]
    BY JarAssumed
  <2>5. [total |-> maxTotal', perDomain |-> maxPerDomain'] = JarDefaults
    BY <2>1, <2>4
  <2>6. maxTotal' \in Nat /\ maxPerDomain' \in Nat
    BY <2>1, <2>4
  <2>7. /\ dm' \in [Jar!Keys -> {None} \cup Cookies]
        /\ loading' \in [Jar!Keys -> {None} \cup Cookies]
    BY <2>1, JarNow
  <2>8. today' \in 0..MaxDays
    BY <2>1, JarNow
  <2>9. JarInv'
    BY <2>1, <2>3, <2>5, <2>6, <2>7, <2>8, JarWithin
  <2>. QED  BY <2>1, <2>9
<1>7. ASSUME NEW c \in Jar!Keys, Jar!Load(c)
      PROVE  /\ JarInv'
             /\ \A k \in Jar!Keys \ Jar!Stored : dm'[k] # None =>
                  Goes(k, {j \in Jar!Stored : dm'[j] = None})
  <2>1. /\ loading[c] # None /\ Jar!PutNew(c, loading[c])
        /\ loading' = [loading EXCEPT ![c] = None]
        /\ UNCHANGED <<today, maxTotal, maxPerDomain>>
    BY <1>7 DEF Jar!Load
  <2>2. loading[c] \in Cookies /\ loading' \in [Jar!Keys -> {None} \cup Cookies]
    BY <2>1, JarNow
  <2>. QED  BY <2>1, <2>2, JarGains
<1>. QED  BY <1>2, <1>3, <1>4, <1>5, <1>6, <1>7 DEF Jar!Next

LEMMA JarMoves ==
  ASSUME JarInv, [Next]_vars
  PROVE  /\ JarInv'
         /\ [\A k \in Jar!Keys \ Jar!Stored : dm'[k] # None =>
               Goes(k, {j \in Jar!Stored : dm'[j] = None})]_kept
<1>1. ASSUME UNCHANGED kept PROVE JarInv'
  BY <1>1 DEF kept, JarInv, Jar!TypeOK, Jar!Jars, Jar!JarExact, Jar!Stored, Jar!OfDomain
<1>. QED  BY <1>1, PartsMove, JarStep DEF OnlyOf

LEMMA JarHolds == Spec => []JarInv
<1>. QED  BY JarInit, JarMoves, PTL DEF Spec

\* The jar is counted and within its limits, and a cookie goes only for a new one when its
\* domain or the jar is full, and then one that was used the longest ago of those
\* (cookie-store.ts:932-1040); a jar filled from data has the default limits and holds to them
\* (cookie-store.ts:842-876).
THEOREM JarKeptCorrect == Spec => JarKept
<1>1. JarInv /\ [Next]_vars =>
        [\A k \in Jar!Keys \ Jar!Stored : dm'[k] # None =>
           LET gone == {j \in Jar!Stored : dm'[j] = None}
               crowded == Jar!Cardinality(Jar!OfDomain(k[1])) = maxPerDomain
           IN /\ gone # {} => crowded \/ total = maxTotal
              /\ Jar!Cardinality(gone) <= 1
              /\ \A g \in gone, j \in (IF crowded THEN Jar!OfDomain(k[1]) ELSE Jar!Stored) :
                   dm[g].used <= dm[j].used]_(Jar!jarVars)
  BY JarMoves, JarCardinality DEF Goes, kept, Jar!jarVars
<1>2. JarInv => Jar!TypeOK /\ Jar!JarExact
  BY DEF JarInv
<1>. QED  BY <1>1, <1>2, JarHolds, PTL DEF Spec, JarKept, Jar!LeastUsedGoes

\* What must not be repeated is not, and what waits in a queue is flushed without another call,
\* for any configuration of retries, any requests and limit of a batch, and any queries,
\* retries and caches of a GraphQL client.
THEOREM SentOnceCorrect == Spec => []SentOnce
<1>1. RetryInv /\ BatchInv /\ QueryInv => SentOnce
  BY RetryShows, QueryShows DEF BatchInv, SentOnce
<1>. QED  BY <1>1, RetryKept, BatchKept, QueryKept, PTL

\* However many ask at once, a part of a client is made once and credentials are fetched once,
\* a socket or a caller is not forgotten, no nonce is counted twice, and the two maps of the
\* hashes of queries are each other's inverse (client.ts:1904-2030, 2560-2590,
\* aws-sigv4.ts:259-290, digest.ts:828-889, graphql.ts:890-951).
THEOREM OneForAllCorrect == Spec => []OneForAll
<1>1. LifeInv /\ AwsInv /\ CountsInv /\ QueryInv => OneForAll
  BY LifeShows, KeysShow, QueryShows DEF OneForAll
<1>. QED  BY <1>1, LifeKept, AwsKept, CountsKept, QueryKept, PTL
=============================================================================
