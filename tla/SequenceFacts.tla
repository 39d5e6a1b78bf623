---------------------------- MODULE SequenceFacts ----------------------------
(***************************************************************************)
(* What the proofs need to know of sequences whose elements have no type   *)
(* in common, and of functions on numbers that are defined by recursion.   *)
(***************************************************************************)
EXTENDS Integers, SequencesExt, SequenceTheorems, FiniteSetTheorems, WellFoundedInduction, TLAPS

(* s is a sequence, of whatever its elements are. *)
Sequence(s) == s \in Seq(ToSet(s))

-----------------------------------------------------------------------------
(***************************************************************************)
(* Sequences                                                               *)
(***************************************************************************)
(* A typed sequence is a sequence. *)
LEMMA TypedSequence ==
  ASSUME NEW S, NEW s \in Seq(S)
  PROVE  Sequence(s) /\ \A k \in 1 .. Len(s) : s[k] \in S
<1>1. DOMAIN s = 1 .. Len(s) /\ Len(s) \in Nat /\ \A k \in 1 .. Len(s) : s[k] \in S
  BY LenProperties, ElementOfSeq
<1>2. s \in [1 .. Len(s) -> ToSet(s)]
  BY <1>1, LenProperties DEF ToSet
<1>3. QED
  BY <1>1, <1>2, SeqDef DEF Sequence

(* The elements of a sequence stand at 1 .. Len(s). *)
LEMMA SequenceFacts1 ==
  ASSUME NEW s, Sequence(s)
  PROVE  /\ Len(s) \in Nat /\ DOMAIN s = 1 .. Len(s)
         /\ s = <<>> <=> Len(s) = 0
         /\ \A k \in 1 .. Len(s) : s[k] \in ToSet(s)
         /\ \A e : e \in ToSet(s) <=> \E k \in 1 .. Len(s) : s[k] = e
         /\ s # <<>> => Len(s) \in 1 .. Len(s)
<1>1. Len(s) \in Nat /\ DOMAIN s = 1 .. Len(s)
  BY LenProperties DEF Sequence
<1>2. s = <<>> <=> Len(s) = 0
  BY <1>1, EmptySeq DEF Sequence
<1>3. ToSet(s) = {s[k] : k \in 1 .. Len(s)}
  BY <1>1 DEF ToSet
<1>4. QED
  BY <1>1, <1>2, <1>3

(* A sequence whose elements are of a type is one of that type. *)
LEMMA SequenceTyped ==
  ASSUME NEW s, Sequence(s), NEW S, \A k \in 1 .. Len(s) : s[k] \in S
  PROVE  s \in Seq(S)
<1>1. ToSet(s) \subseteq S
  BY SequenceFacts1
<1>2. QED
  BY <1>1, SeqMonotonic DEF Sequence

(* Two sequences with the same elements in the same places are one. *)
LEMMA SequenceEqual ==
  ASSUME NEW s, NEW t, Sequence(s), Sequence(t), Len(s) = Len(t),
         \A k \in 1 .. Len(s) : s[k] = t[k]
  PROVE  s = t
<1>1. t \in Seq(ToSet(s))
  BY SequenceTyped, SequenceFacts1
<1>2. QED
  BY <1>1, SeqEqual DEF Sequence

(* Append, Front and concatenation. *)
LEMMA AppendSequence ==
  ASSUME NEW s, Sequence(s), NEW e
  PROVE  /\ Sequence(Append(s, e))
         /\ Len(Append(s, e)) = Len(s) + 1
         /\ \A k \in 1 .. Len(s) : Append(s, e)[k] = s[k]
         /\ Append(s, e)[Len(s) + 1] = e
         /\ Append(s, e) # <<>>
         /\ Last(Append(s, e)) = e
         /\ Front(Append(s, e)) = s
<1> DEFINE S == ToSet(s) \cup {e}
           n == Append(s, e)
<1>1. s \in Seq(S)
  BY SeqMonotonic DEF Sequence
<1>2. /\ n \in Seq(S) /\ Len(n) = Len(s) + 1 /\ Len(s) \in Nat
      /\ \A k \in 1 .. Len(s) : n[k] = s[k]
      /\ n[Len(s) + 1] = e
  BY <1>1
<1>3. Sequence(n) /\ n # <<>> /\ Last(n) = e
  <2> HIDE DEF n, S
  <2>1. Sequence(n)
    BY <1>2, TypedSequence
  <2>2. Len(n) # 0 /\ Last(n) = e
    BY <1>2 DEF Last
  <2>3. QED
    BY <2>1, <2>2, SequenceFacts1
<1>4. Front(n) = s
  <2>1. \A k \in 1 .. Len(n) - 1 : n[k] \in S
    BY <1>2, ElementOfSeq
  <2>2. /\ Front(n) \in Seq(S)
        /\ Len(Front(n)) = IF 1 <= Len(n) - 1 THEN Len(n) - 1 - 1 + 1 ELSE 0
        /\ \A k \in 1 .. Len(n) - 1 - 1 + 1 : Front(n)[k] = n[1 + k - 1]
    <3>1. 1 \in Int /\ Len(n) - 1 \in Int
      BY <1>2
    <3> HIDE DEF n
    <3>2. QED
      BY <2>1, <3>1, SubSeqProperties DEF Front
  <2> HIDE DEF n, S
  <2>3. Len(Front(n)) = Len(s)
    BY <1>2, <2>2
  <2>4. \A k \in 1 .. Len(s) : Front(n)[k] = n[k]
    BY <1>2, <2>2
  <2>5. QED
    BY <1>1, <1>2, <2>2, <2>3, <2>4, SeqEqual
<1>5. QED
  BY <1>2, <1>3, <1>4

(* Front takes the last element off.                                       *)
LEMMA FrontSequence ==
  ASSUME NEW s, Sequence(s), s # <<>>
  PROVE  /\ Sequence(Front(s))
         /\ Len(Front(s)) = Len(s) - 1 /\ Len(s) - 1 \in Nat
         /\ \A k \in 1 .. Len(s) - 1 : Front(s)[k] = s[k]
         /\ Last(s) = s[Len(s)]
         /\ s = Append(Front(s), Last(s))
<1>1. Len(s) \in Nat \ {0} /\ \A k \in 1 .. Len(s) : s[k] \in ToSet(s)
  BY SequenceFacts1
<1> DEFINE n == Len(s) - 1
           S == ToSet(s)
<1>2. 1 \in Int /\ n \in Nat /\ n \in Int /\ \A k \in 1 .. n : s[k] \in S
  BY <1>1
<1> HIDE DEF n, S
<1>3. /\ SubSeq(s, 1, n) \in Seq(S)
      /\ Len(SubSeq(s, 1, n)) = IF 1 <= n THEN n - 1 + 1 ELSE 0
      /\ \A k \in 1 .. n - 1 + 1 : SubSeq(s, 1, n)[k] = s[1 + k - 1]
  BY <1>2, SubSeqProperties
<1>4. Front(s) = SubSeq(s, 1, n)
  BY DEF Front, n
<1>4a. Front(s) \in Seq(S) /\ Len(Front(s)) = n /\ \A k \in 1 .. n : Front(s)[k] = s[k]
  BY <1>2, <1>3, <1>4
<1>5. Sequence(Front(s))
  BY <1>4a, TypedSequence
<1>6. Last(s) = s[Len(s)]
  BY DEF Last
<1>7. \A k \in 1 .. Len(s) : k \in 1 .. n \/ k = n + 1
  BY <1>1 DEF n
<1>8. s = Append(Front(s), Last(s))
  <2> DEFINE t == Append(Front(s), Last(s))
  <2>1. /\ Sequence(t) /\ Len(t) = Len(Front(s)) + 1
        /\ \A k \in 1 .. Len(Front(s)) : t[k] = Front(s)[k]
        /\ t[Len(Front(s)) + 1] = Last(s)
    BY <1>5, AppendSequence
  <2> HIDE DEF t
  <2>2. Len(s) = n + 1
    BY <1>1 DEF n
  <2>3. Len(t) = Len(s) /\ \A k \in 1 .. Len(s) : t[k] = s[k]
    BY <1>2, <1>6, <1>7, <1>4a, <2>1, <2>2
  <2>4. s = t
    BY <2>1, <2>3, SequenceEqual
  <2>5. QED
    BY <2>4 DEF t
<1>9. QED
  BY <1>2, <1>5, <1>6, <1>8, <1>4a DEF n

(* Concatenation has the elements of both.                                 *)
LEMMA ConcatSequence ==
  ASSUME NEW s, NEW t, Sequence(s), Sequence(t)
  PROVE  /\ Sequence(s \o t)
         /\ Len(s \o t) = Len(s) + Len(t)
         /\ \A k \in 1 .. Len(s) : (s \o t)[k] = s[k]
         /\ \A k \in 1 .. Len(t) : (s \o t)[Len(s) + k] = t[k]
         /\ t = <<>> => s \o t = s
         /\ s = <<>> => s \o t = t
<1> DEFINE S == ToSet(s) \cup ToSet(t)
<1>1. s \in Seq(S) /\ t \in Seq(S) /\ Len(s) \in Nat /\ Len(t) \in Nat
  BY SeqMonotonic, SequenceFacts1 DEF Sequence
<1> HIDE DEF S
<1>2. s \o t \in Seq(S) /\ Len(s \o t) = Len(s) + Len(t)
  BY <1>1, ConcatProperties
<1>3. \A i \in 1 .. Len(s) + Len(t) : (s \o t)[i] = IF i <= Len(s) THEN s[i] ELSE t[i - Len(s)]
  BY <1>1, ConcatProperties
<1>4. \A k \in 1 .. Len(s) : (s \o t)[k] = s[k]
  BY <1>1, <1>3
<1>5. ASSUME NEW k \in 1 .. Len(t) PROVE (s \o t)[Len(s) + k] = t[k]
  <2>1. Len(s) + k \in 1 .. Len(s) + Len(t) /\ ~ (Len(s) + k <= Len(s)) /\ Len(s) + k - Len(s) = k
    BY <1>1
  <2>2. QED
    BY <1>3, <2>1
<1>6. (t = <<>> => s \o t = s) /\ (s = <<>> => s \o t = t)
  BY <1>1, ConcatEmptySeq
<1>7. QED
  BY <1>2, <1>4, <1>5, <1>6, TypedSequence

(* Short tuples. *)
LEMMA ShortSequences ==
  /\ Sequence(<<>>) /\ Len(<<>>) = 0
  /\ \A a : Sequence(<<a>>) /\ Len(<<a>>) = 1 /\ <<a>>[1] = a /\ ToSet(<<a>>) = {a}
  /\ \A a, b : Sequence(<<a, b>>) /\ Len(<<a, b>>) = 2 /\ <<a, b>>[1] = a /\ <<a, b>>[2] = b
               /\ ToSet(<<a, b>>) = {a, b}
<1>1. Sequence(<<>>) /\ Len(<<>>) = 0
  BY EmptySeq, TypedSequence
<1>2. ASSUME NEW a PROVE Sequence(<<a>>) /\ Len(<<a>>) = 1 /\ <<a>>[1] = a /\ ToSet(<<a>>) = {a}
  <2>1. <<a>> \in Seq({a}) /\ Len(<<a>>) = 1 /\ <<a>>[1] = a
    OBVIOUS
  <2>2. Sequence(<<a>>)
    BY <2>1, TypedSequence
  <2>3. \A e : e \in ToSet(<<a>>) <=> \E k \in 1 .. 1 : <<a>>[k] = e
    BY <2>1, <2>2, SequenceFacts1
  <2>4. QED
    BY <2>1, <2>2, <2>3
<1>3. ASSUME NEW a, NEW b
      PROVE  Sequence(<<a, b>>) /\ Len(<<a, b>>) = 2 /\ <<a, b>>[1] = a /\ <<a, b>>[2] = b
             /\ ToSet(<<a, b>>) = {a, b}
  <2>1. <<a, b>> \in Seq({a, b}) /\ Len(<<a, b>>) = 2 /\ <<a, b>>[1] = a /\ <<a, b>>[2] = b
    OBVIOUS
  <2>2. Sequence(<<a, b>>)
    BY <2>1, TypedSequence
  <2>3. \A e : e \in ToSet(<<a, b>>) <=> \E k \in 1 .. 2 : <<a, b>>[k] = e
    BY <2>1, <2>2, SequenceFacts1
  <2>4. QED
    BY <2>1, <2>2, <2>3
<1>4. QED
  BY <1>1, <1>2, <1>3

(* A function on 1 .. n is a sequence. *)
LEMMA FunctionSequence ==
  ASSUME NEW n \in Nat, NEW S, NEW f \in [1 .. n -> S]
  PROVE  /\ Sequence(f) /\ Len(f) = n
         /\ \A e : e \in ToSet(f) <=> \E k \in 1 .. n : f[k] = e
<1>1. f \in Seq(S) /\ Len(f) = n
  OBVIOUS
<1>2. Sequence(f)
  BY <1>1, TypedSequence
<1>3. QED
  BY <1>1, <1>2, SequenceFacts1

(* A sequence without repetitions is as long as its set is large. *)
LEMMA DistinctLength ==
  ASSUME NEW s, Sequence(s), \A j, k \in 1 .. Len(s) : s[j] = s[k] => j = k
  PROVE  IsFiniteSet(ToSet(s)) /\ Cardinality(ToSet(s)) = Len(s)
<1>1. Len(s) \in Nat /\ s \in [1 .. Len(s) -> ToSet(s)]
  BY SequenceFacts1, LenProperties DEF Sequence
<1>2. s \in Injection(1 .. Len(s), ToSet(s))
  BY <1>1 DEF Injection, IsInjective
<1>3. s \in Surjection(1 .. Len(s), ToSet(s))
  BY <1>1, SequenceFacts1 DEF Surjection
<1>4. ExistsBijection(1 .. Len(s), ToSet(s))
  BY <1>2, <1>3 DEF ExistsBijection, Bijection
<1>5. IsFiniteSet(1 .. Len(s)) /\ Cardinality(1 .. Len(s)) = Len(s)
  <2>1. /\ IsFiniteSet(1 .. Len(s))
        /\ Cardinality(1 .. Len(s)) = IF 1 > Len(s) THEN 0 ELSE Len(s) - 1 + 1
    BY <1>1, FS_Interval
  <2>2. QED
    BY <1>1, <2>1
<1>6. QED
  BY <1>4, <1>5, FS_Bijection

(* Two lists with nothing in common make one that names nothing twice. *)
LEMMA ConcatDistinct ==
  ASSUME NEW s, NEW t, Sequence(s), Sequence(t), ToSet(s) \cap ToSet(t) = {},
         \A j, k \in 1 .. Len(s) : s[j] = s[k] => j = k,
         \A j, k \in 1 .. Len(t) : t[j] = t[k] => j = k
  PROVE  /\ Sequence(s \o t) /\ ToSet(s \o t) = ToSet(s) \cup ToSet(t)
         /\ \A j, k \in 1 .. Len(s \o t) : (s \o t)[j] = (s \o t)[k] => j = k
<1> DEFINE u == s \o t
<1>1. /\ Sequence(u) /\ Len(u) = Len(s) + Len(t)
      /\ \A k \in 1 .. Len(s) : u[k] = s[k]
      /\ \A k \in 1 .. Len(t) : u[Len(s) + k] = t[k]
  BY ConcatSequence
<1>2. /\ Len(s) \in Nat /\ \A k \in 1 .. Len(s) : s[k] \in ToSet(s)
      /\ \A e : e \in ToSet(s) <=> \E k \in 1 .. Len(s) : s[k] = e
  BY SequenceFacts1
<1>3. /\ Len(t) \in Nat /\ \A k \in 1 .. Len(t) : t[k] \in ToSet(t)
      /\ \A e : e \in ToSet(t) <=> \E k \in 1 .. Len(t) : t[k] = e
  BY SequenceFacts1
<1> HIDE DEF u
<1>4. \A e : e \in ToSet(u) <=> \E k \in 1 .. Len(u) : u[k] = e
  <2>1. Sequence(u)
    BY <1>1
  <2>2. QED
    BY <2>1, SequenceFacts1
<1>5. ASSUME NEW k \in 1 .. Len(u)
      PROVE  \/ k \in 1 .. Len(s) /\ u[k] = s[k]
             \/ k - Len(s) \in 1 .. Len(t) /\ u[k] = t[k - Len(s)]
  <2>1. CASE k <= Len(s)
    BY <1>1, <1>2, <2>1
  <2>2. CASE ~ (k <= Len(s))
    <3>1. k - Len(s) \in 1 .. Len(t) /\ Len(s) + (k - Len(s)) = k
      BY <1>1, <1>2, <1>3, <2>2
    <3>2. QED
      BY <1>1, <3>1
  <2>3. QED
    BY <2>1, <2>2
<1>6. ToSet(u) = ToSet(s) \cup ToSet(t)
  <2>1. ASSUME NEW e \in ToSet(s) PROVE e \in ToSet(u)
    <3>1. PICK k \in 1 .. Len(s) : s[k] = e
      BY <1>2
    <3>2. k \in 1 .. Len(u) /\ u[k] = e
      BY <1>1, <1>2, <1>3, <3>1
    <3>3. QED
      BY <1>4, <3>2
  <2>2. ASSUME NEW e \in ToSet(t) PROVE e \in ToSet(u)
    <3>1. PICK k \in 1 .. Len(t) : t[k] = e
      BY <1>3
    <3>2. Len(s) + k \in 1 .. Len(u) /\ u[Len(s) + k] = e
      BY <1>1, <1>2, <1>3, <3>1
    <3>3. QED
      BY <1>4, <3>2
  <2>3. ASSUME NEW e \in ToSet(u) PROVE e \in ToSet(s) \cup ToSet(t)
    <3>1. PICK k \in 1 .. Len(u) : u[k] = e
      BY <1>4
    <3>2. QED
      BY <1>2, <1>3, <1>5, <3>1
  <2>4. QED
    BY <2>1, <2>2, <2>3
<1>7. ASSUME NEW j \in 1 .. Len(u), NEW k \in 1 .. Len(u), u[j] = u[k]
      PROVE  j = k
  <2>1. CASE j \in 1 .. Len(s) /\ u[j] = s[j] /\ k \in 1 .. Len(s) /\ u[k] = s[k]
    BY <1>7, <2>1
  <2>2. CASE /\ j - Len(s) \in 1 .. Len(t) /\ u[j] = t[j - Len(s)]
             /\ k - Len(s) \in 1 .. Len(t) /\ u[k] = t[k - Len(s)]
    <3>1. j - Len(s) = k - Len(s)
      BY <1>7, <2>2
    <3>2. QED
      BY <1>2, <3>1
  <2>3. ~ (u[j] \in ToSet(s) /\ u[k] \in ToSet(t)) /\ ~ (u[j] \in ToSet(t) /\ u[k] \in ToSet(s))
    BY <1>7
  <2>4. QED
    BY <1>2, <1>3, <1>5, <2>1, <2>2, <2>3
<1>8. QED
  BY <1>1, <1>6, <1>7 DEF u

(* A function on a finite set has finitely many values. *)
LEMMA ImageFinite ==
  ASSUME NEW S, IsFiniteSet(S), NEW f, DOMAIN f = S
  PROVE  IsFiniteSet({f[x] : x \in S})
<1> DEFINE I == {f[x] : x \in S}
           g == [x \in S |-> f[x]]
<1>1. g \in Surjection(S, I)
  BY DEF Surjection
<1>2. QED
  BY <1>1, FS_Surjection

(* The numbers of a finite set, in order: the n-th is the one that n are   *)
(* not above.                                                              *)
LEMMA RankFacts ==
  ASSUME NEW S \in SUBSET Nat, IsFiniteSet(S)
  PROVE  LET nth(n) == CHOOSE k \in S : Cardinality({j \in S : j <= k}) = n
         IN  /\ Cardinality(S) \in Nat
             /\ \A n \in 1 .. Cardinality(S) : nth(n) \in S
             /\ \A m, n \in 1 .. Cardinality(S) : nth(m) = nth(n) => m = n
             /\ \A k \in S : \E n \in 1 .. Cardinality(S) : nth(n) = k
<1> DEFINE upto(k) == {j \in S : j <= k}
           nth(n) == CHOOSE k \in S : Cardinality(upto(k)) = n
           c == Cardinality(S)
           r == [k \in S |-> Cardinality(upto(k))]
<1>1. c \in Nat /\ IsFiniteSet(1 .. c) /\ Cardinality(1 .. c) = c
  <2>1. c \in Nat
    BY FS_CardinalityType
  <2>2. IsFiniteSet(1 .. c) /\ Cardinality(1 .. c) = IF 1 > c THEN 0 ELSE c - 1 + 1
    BY <2>1, FS_Interval
  <2>3. QED
    BY <2>1, <2>2
<1>2. ASSUME NEW k \in S PROVE IsFiniteSet(upto(k)) /\ Cardinality(upto(k)) \in 1 .. c
  <2>1. IsFiniteSet(upto(k)) /\ Cardinality(upto(k)) <= c
    BY FS_Subset
  <2>2. Cardinality(upto(k)) \in Nat
    BY <2>1, FS_CardinalityType
  <2>3. k \in upto(k)
    OBVIOUS
  <2>4. Cardinality(upto(k)) # 0
    BY <2>1, <2>3, FS_EmptySet
  <2>5. QED
    BY <1>1, <2>1, <2>2, <2>4
<1>3. ASSUME NEW k \in S, NEW l \in S, k < l PROVE Cardinality(upto(k)) # Cardinality(upto(l))
  <2>1. /\ \A j \in S : j <= k => j <= l
        /\ l <= l /\ ~ (l <= k)
    BY <1>3
  <2>2. upto(k) \in SUBSET upto(l) /\ upto(k) # upto(l)
    BY <2>1
  <2>3. QED
    BY <1>2, <2>2, FS_Subset
<1>4. \A k, l \in S : Cardinality(upto(k)) = Cardinality(upto(l)) => k = l
  <2>1. \A k, l \in S : k < l \/ l < k \/ k = l
    OBVIOUS
  <2>2. QED
    BY <1>3, <2>1
<1>5. r \in [S -> 1 .. c] /\ \A k \in S : r[k] = Cardinality(upto(k))
  BY <1>2
<1>6. r \in Injection(S, 1 .. c)
  BY <1>4, <1>5 DEF Injection, IsInjective
<1>7. r \in Surjection(S, 1 .. c)
  BY <1>1, <1>6, FS_Injection
<1>8. ASSUME NEW n \in 1 .. c PROVE nth(n) \in S /\ Cardinality(upto(nth(n))) = n
  <2>1. \E k \in S : Cardinality(upto(k)) = n
    BY <1>5, <1>7 DEF Surjection
  <2>2. QED
    BY <2>1
<1>9. ASSUME NEW k \in S PROVE \E n \in 1 .. c : nth(n) = k
  <2>1. Cardinality(upto(k)) \in 1 .. c
    BY <1>2
  <2>2. nth(Cardinality(upto(k))) = k
    BY <1>4
  <2>3. QED
    BY <2>1, <2>2
<1> HIDE DEF c, upto
<1>10. \A m, n \in 1 .. c : nth(m) = nth(n) => m = n
  BY <1>8
<1>11. QED
  BY <1>1, <1>8, <1>9, <1>10 DEF c, upto

-----------------------------------------------------------------------------
(***************************************************************************)
(* Numbers                                                                 *)
(***************************************************************************)
(* A set of numbers has a least one: the intervals below its elements are  *)
(* finite sets, among which inclusion is well-founded.                     *)
LEMMA LeastElement ==
  ASSUME NEW T \in SUBSET Nat, T # {}
  PROVE  \E m \in T : \A k \in T : m <= k
<1> DEFINE Below(n) == 0 .. n
           J == {Below(n) : n \in T}
           R == StrictSubsetOrdering(Nat)
<1>1. IsWellFoundedOn(R, FiniteSubsetsOf(Nat))
  BY FS_StrictSubsetOrderingWellFounded
<1>2. J \subseteq FiniteSubsetsOf(Nat) /\ J # {}
  <2>1. \A n \in T : IsFiniteSet(0 .. n) /\ 0 .. n \in SUBSET Nat
    BY FS_Interval
  <2>2. QED
    BY <2>1 DEF FiniteSubsetsOf
<1> HIDE DEF R
<1>3. PICK X \in J : \A Y \in J : ~ (<<Y, X>> \in R)
  <2> HIDE DEF J
  <2>1. QED
    BY <1>1, <1>2, WFMin
<1>4. PICK m \in T : X = Below(m)
  OBVIOUS
<1>5. ASSUME NEW k \in T, k < m PROVE FALSE
  <2>1. Below(k) \in SUBSET Nat /\ Below(m) \in SUBSET Nat /\ Below(k) \in J
    OBVIOUS
  <2>2. Below(k) \subseteq Below(m)
    BY <1>5
  <2>3. m \in Below(m) /\ m \notin Below(k)
    BY <1>5
  <2> HIDE DEF Below
  <2>4. <<Below(k), Below(m)>> \in R
    BY <2>1, <2>2, <2>3 DEF R, StrictSubsetOrdering
  <2>5. QED
    BY <1>3, <1>4, <2>1, <2>4
<1>6. QED
  BY <1>5

(* Induction, for a set of numbers. *)
LEMMA Induction ==
  ASSUME NEW S \in SUBSET Nat, 0 \in S, \A n \in S : n + 1 \in S
  PROVE  S = Nat
<1> SUFFICES ASSUME Nat \ S # {} PROVE FALSE
  OBVIOUS
<1> DEFINE T == Nat \ S
<1>1. PICK m \in T : \A k \in T : m <= k
  <2>1. T \in SUBSET Nat /\ T # {}
    OBVIOUS
  <2> HIDE DEF T
  <2>2. QED
    BY <2>1, LeastElement
<1>2. m # 0 /\ m - 1 \in Nat
  OBVIOUS
<1>3. m - 1 \in S
  BY <1>1, <1>2
<1>4. QED
  BY <1>3

(* f is defined by recursion from a, step by step. *)
Recursive(f, D, a, step) ==
  /\ f \in [Nat -> D] /\ f[0] = a
  /\ \A n \in Nat : f[n + 1] = step[<<f[n], n + 1>>]

(* There is such a function ... *)
LEMMA RecursiveExists ==
  ASSUME NEW D, NEW a \in D, NEW step \in [D \X Nat -> D]
  PROVE  \E f : Recursive(f, D, a, step)
<1> DEFINE Upto(g, n) == /\ g \in [0 .. n -> D] /\ g[0] = a
                         /\ \A k \in 0 .. n - 1 : g[k + 1] = step[<<g[k], k + 1>>]
           S == {n \in Nat : \E g : Upto(g, n)}
<1>1. 0 \in S
  <2>1. Upto([k \in 0 .. 0 |-> a], 0)
    OBVIOUS
  <2>2. QED
    BY <2>1
<1>2. ASSUME NEW n \in S PROVE n + 1 \in S
  <2>1. PICK g : Upto(g, n)
    OBVIOUS
  <2> DEFINE h == [k \in 0 .. n + 1 |-> IF k = n + 1 THEN step[<<g[n], n + 1>>] ELSE g[k]]
  <2>2. n \in 0 .. n /\ g[n] \in D /\ n + 1 \in Nat
    BY <2>1
  <2>3. step[<<g[n], n + 1>>] \in D
    BY <2>2
  <2>4. h \in [0 .. n + 1 -> D]
    BY <2>1, <2>3
  <2>5. h[0] = a
    BY <2>1
  <2>6. ASSUME NEW k \in 0 .. n PROVE h[k + 1] = step[<<h[k], k + 1>>]
    <3>1. h[k] = g[k]
      OBVIOUS
    <3>2. CASE k = n
      <4>1. h[n + 1] = step[<<g[n], n + 1>>]
        BY <2>2
      <4> HIDE DEF h
      <4>2. QED
        BY <3>1, <3>2, <4>1
    <3>3. CASE k \in 0 .. n - 1
      <4>1. h[k + 1] = g[k + 1]
        BY <3>3
      <4>2. QED
        BY <2>1, <3>1, <3>3, <4>1
    <3>4. QED
      BY <3>2, <3>3
  <2>7. Upto(h, n + 1)
    <3>1. 0 .. n + 1 - 1 = 0 .. n
      BY <2>2
    <3> HIDE DEF h
    <3>2. QED
      BY <2>4, <2>5, <2>6, <3>1
  <2> HIDE DEF h
  <2>8. QED
    BY <2>2, <2>7
<1>3. S = Nat
  <2> HIDE DEF S
  <2>1. S \in SUBSET Nat
    BY DEF S
  <2>2. QED
    BY <1>1, <1>2, <2>1, Induction
<1>4. ASSUME NEW n \in Nat, NEW g, NEW h, NEW i \in Nat, Upto(g, n), Upto(h, i), n <= i
      PROVE  g[n] = h[n]
  <2> DEFINE A == {k \in Nat : k <= n => g[k] = h[k]}
  <2>1. 0 \in A
    BY <1>4
  <2>2. ASSUME NEW k \in A PROVE k + 1 \in A
    <3>1. CASE k + 1 <= n
      <4>1. k \in 0 .. n - 1 /\ k \in 0 .. i - 1 /\ g[k] = h[k]
        BY <1>4, <3>1
      <4>2. g[k + 1] = step[<<g[k], k + 1>>] /\ h[k + 1] = step[<<h[k], k + 1>>]
        BY <1>4, <4>1
      <4>3. QED
        BY <4>1, <4>2
    <3>2. CASE ~ (k + 1 <= n)
      BY <3>2
    <3>3. QED
      BY <3>1, <3>2
  <2>3. A = Nat
    <3> HIDE DEF A
    <3>1. A \in SUBSET Nat
      BY DEF A
    <3>2. QED
      BY <2>1, <2>2, <3>1, Induction
  <2>4. QED
    BY <2>3
<1> DEFINE G == [n \in Nat |-> CHOOSE g : Upto(g, n)]
           f == [n \in Nat |-> G[n][n]]
<1>5. ASSUME NEW n \in Nat PROVE Upto(G[n], n)
  <2>1. \E g : Upto(g, n)
    BY <1>3
  <2> HIDE DEF Upto
  <2>2. QED
    BY <2>1
<1> HIDE DEF G
<1>6. f \in [Nat -> D]
  <2>1. ASSUME NEW n \in Nat PROVE G[n][n] \in D
    BY <1>5
  <2>2. QED
    BY <2>1
<1>7. f[0] = a
  BY <1>5
<1>8. ASSUME NEW n \in Nat PROVE f[n + 1] = step[<<f[n], n + 1>>]
  <2>1. n + 1 \in Nat /\ n \in 0 .. n + 1 - 1
    OBVIOUS
  <2>1a. Upto(G[n], n) /\ Upto(G[n + 1], n + 1)
    <3> HIDE DEF Upto
    <3>1. QED
      BY <1>5, <2>1
  <2>2. G[n][n] = G[n + 1][n]
    <3> HIDE DEF Upto
    <3>1. n <= n + 1
      OBVIOUS
    <3>2. QED
      BY <1>4, <2>1, <2>1a, <3>1
  <2>3. G[n + 1][n + 1] = step[<<G[n + 1][n], n + 1>>]
    BY <2>1, <2>1a
  <2>4. QED
    BY <2>1, <2>2, <2>3
<1>9. QED
  BY <1>6, <1>7, <1>8 DEF Recursive
(* The iterates of a step from a are a function of that kind. *)
LEMMA IteratesExist ==
  ASSUME NEW D, NEW a \in D, NEW step \in [D -> D]
  PROVE  \E f \in [Nat -> D] : f = [n \in Nat |-> IF n = 0 THEN a ELSE step[f[n - 1]]]
<1> DEFINE st == [d \in D \X Nat |-> step[d[1]]]
<1>1. st \in [D \X Nat -> D]
  OBVIOUS
<1>2. PICK f : Recursive(f, D, a, st)
  <2> HIDE DEF st
  <2>1. QED
    BY <1>1, RecursiveExists
<1>3. f \in [Nat -> D] /\ f[0] = a
  BY <1>2 DEF Recursive
<1>4. ASSUME NEW n \in Nat \ {0} PROVE f[n] = step[f[n - 1]]
  <2>1. n - 1 \in Nat /\ n - 1 + 1 = n
    OBVIOUS
  <2>2. f[n] = st[<<f[n - 1], n>>]
    <3> HIDE DEF st
    <3>1. QED
      BY <1>2, <2>1 DEF Recursive
  <2>3. f[n - 1] \in D
    BY <1>3, <2>1
  <2>4. QED
    BY <2>2, <2>3
<1>5. f = [n \in Nat |-> IF n = 0 THEN a ELSE step[f[n - 1]]]
  BY <1>3, <1>4
<1>6. QED
  BY <1>3, <1>5

(* Sets that grow, of a finite set, and stop growing once they stay the    *)
(* same: they do by the time there is a step for every element.            *)
LEMMA Saturates ==
  ASSUME NEW S, IsFiniteSet(S), NEW f \in [Nat -> SUBSET S],
         \A n \in Nat : f[n] \subseteq f[n + 1],
         \A n \in Nat : f[n + 1] = f[n] => f[n + 1 + 1] = f[n + 1]
  PROVE  f[0] \subseteq f[Cardinality(S)] /\ f[Cardinality(S) + 1] = f[Cardinality(S)]
<1> DEFINE c == Cardinality(S)
           size(n) == Cardinality(f[n])
<1>1. c \in Nat /\ \A n \in Nat : size(n) \in Nat /\ size(n) <= c
  BY FS_CardinalityType, FS_Subset
<1>2. ASSUME NEW n \in Nat, f[n + 1] # f[n] PROVE size(n) + 1 <= size(n + 1)
  <2>1. n + 1 \in Nat
    OBVIOUS
  <2>2. IsFiniteSet(f[n + 1])
    BY <2>1, FS_Subset
  <2>3. size(n) <= size(n + 1) /\ size(n) # size(n + 1)
    BY <1>2, <2>2, FS_Subset
  <2>4. size(n) \in Nat /\ size(n + 1) \in Nat
    BY <1>1, <2>1
  <2> HIDE DEF size
  <2>5. QED
    BY <2>3, <2>4
<1> HIDE DEF size, c
<1>3. \A n \in Nat : f[0] \subseteq f[n]
  <2> DEFINE T == {n \in Nat : f[0] \subseteq f[n]}
  <2>1. T \in SUBSET Nat /\ 0 \in T /\ \A n \in T : n + 1 \in T
    OBVIOUS
  <2> HIDE DEF T
  <2>2. T = Nat
    BY <2>1, Induction
  <2>3. QED
    BY <2>2 DEF T
<1>4. \A n \in Nat : f[n + 1] = f[n] \/ n + 1 <= size(n + 1)
  <2> DEFINE T == {n \in Nat : f[n + 1] = f[n] \/ n + 1 <= size(n + 1)}
  <2>1. 0 \in T
    BY <1>1, <1>2
  <2>2. ASSUME NEW n \in T PROVE n + 1 \in T
    <3>1. n \in Nat /\ n + 1 \in Nat /\ n + 1 + 1 \in Nat
      OBVIOUS
    <3>2. CASE f[n + 1 + 1] = f[n + 1]
      BY <3>1, <3>2
    <3>3. CASE f[n + 1 + 1] # f[n + 1]
      <4>1. f[n + 1] # f[n]
        BY <3>1, <3>3
      <4>2. n + 1 <= size(n + 1)
        BY <4>1
      <4>3. size(n + 1) + 1 <= size(n + 1 + 1)
        BY <1>2, <3>1, <3>3
      <4>4. size(n + 1) \in Nat /\ size(n + 1 + 1) \in Nat
        BY <1>1, <3>1
      <4>5. n + 1 + 1 <= size(n + 1 + 1)
        BY <3>1, <4>2, <4>3, <4>4
      <4>6. QED
        BY <3>1, <4>5
    <3>4. QED
      BY <3>2, <3>3
  <2>3. T \in SUBSET Nat
    OBVIOUS
  <2> HIDE DEF T
  <2>4. T = Nat
    BY <2>1, <2>2, <2>3, Induction
  <2>5. QED
    BY <2>4 DEF T
<1>5. f[c + 1] = f[c]
  <2>1. c + 1 \in Nat /\ size(c + 1) \in Nat /\ size(c + 1) <= c
    BY <1>1
  <2>2. ~ (c + 1 <= size(c + 1))
    BY <1>1, <2>1
  <2>3. QED
    BY <1>1, <1>4, <2>2
<1>6. QED
  BY <1>1, <1>3, <1>5 DEF c

=============================================================================
