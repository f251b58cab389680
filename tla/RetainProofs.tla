----------------------------- MODULE RetainProofs -----------------------------
(***************************************************************************)
(* What retain does to a sequence of any length.                           *)
(***************************************************************************)
EXTENDS Retain, Integers, Functions, SequenceTheorems, WellFoundedInduction, TLAPS

\* A set of numbers that is not empty has a least one.
LEMMA LeastNumber ==
    ASSUME NEW N \in SUBSET Nat, N # {}
    PROVE  \E m \in N : \A k \in N : m <= k
<1>1. PICK m \in N : \A k \in N : ~(<<k, m>> \in OpToRel(<, Nat))
  BY NatLessThanWellFounded, WFMin, Zenon
<1>2. \A k \in N : ~(k < m)
  BY <1>1, Zenon DEF OpToRel
<1> QED
  BY <1>2

\* One more element of the sequence.
Step(s, keep, f, n) ==
    IF n = 0 THEN <<>>
    ELSE IF s[n] \in keep THEN Append(f[n-1], s[n]) ELSE f[n-1]

\* The elements are looked at one after the other.
LEMMA KeptSteps ==
    ASSUME NEW T, NEW s \in Seq(T), NEW keep
    PROVE  Kept(s, keep) = [n \in 0..Len(s) |-> Step(s, keep, Kept(s, keep), n)]
<1> DEFINE Stepwise(f, m) == f = [n \in 0..m |-> Step(s, keep, f, n)]
           Bad == {m \in 0..Len(s) : ~\E f : Stepwise(f, m)}
<1>0. Len(s) \in Nat
  BY LenProperties
<1>1. Bad = {}
  <2> SUFFICES ASSUME Bad # {} PROVE FALSE
    OBVIOUS
  <2>1. PICK m \in Bad : \A k \in Bad : m <= k
    <3>1. Bad \in SUBSET Nat
      BY <1>0
    <3> HIDE DEF Bad
    <3> QED
      BY <3>1, LeastNumber
  <2>2. m # 0
    <3> DEFINE f == [n \in 0..0 |-> <<>>]
    <3>1. Stepwise(f, 0)
      BY DEF Step
    <3> QED
      BY <3>1
  <2>3. m - 1 \in 0..Len(s) /\ m - 1 \notin Bad
    BY <2>1, <2>2, <1>0
  <2>4. PICK f : Stepwise(f, m - 1)
    BY <2>3
  <2> DEFINE g == [n \in 0..m |-> IF n = m THEN Step(s, keep, f, m) ELSE f[n]]
  <2>5. \A n \in 0..m : g[n] = Step(s, keep, g, n)
    <3> SUFFICES ASSUME NEW n \in 0..m PROVE g[n] = Step(s, keep, g, n)
      OBVIOUS
    <3>1. n # 0 => g[n-1] = f[n-1]
      BY <2>3
    <3>2. Step(s, keep, g, n) = Step(s, keep, f, n)
      BY <3>1 DEF Step
    <3>3. n # m => f[n] = Step(s, keep, f, n)
      <4> SUFFICES ASSUME n # m PROVE f[n] = Step(s, keep, f, n)
        OBVIOUS
      <4>1. n \in 0..(m-1)
        BY <2>3
      <4> QED
        BY <2>4, <4>1
    <3> QED
      BY <3>2, <3>3
  <2>6. Stepwise(g, m)
    BY <2>5
  <2> QED
    BY <2>1, <2>6
<1>2. \E f : Stepwise(f, Len(s))
  BY <1>0, <1>1
<1>3. Kept(s, keep) = CHOOSE f : Stepwise(f, Len(s))
  BY DEF Kept, Step
<1> HIDE DEF Stepwise
<1>4. Stepwise(Kept(s, keep), Len(s))
  BY <1>2, <1>3
<1> QED
  BY <1>4 DEF Stepwise
LEMMA AppendRange ==
    ASSUME NEW T, NEW q \in Seq(T), NEW e \in T
    PROVE  /\ Append(q, e) \in Seq(T) /\ Range(Append(q, e)) = Range(q) \cup {e}
           /\ IsInjective(q) /\ e \notin Range(q) => IsInjective(Append(q, e))
<1> DEFINE a == Append(q, e)
<1>1. /\ a \in Seq(T) /\ Len(a) = Len(q) + 1 /\ Len(q) \in Nat
      /\ DOMAIN a = 1..Len(a) /\ DOMAIN q = 1..Len(q)
      /\ \A i \in 1..Len(q) : a[i] = q[i]
      /\ a[Len(q) + 1] = e
  BY AppendProperties, LenProperties
<1> HIDE DEF a
<1>2. \A i \in 1..Len(a) : i \in 1..Len(q) \/ i = Len(q) + 1
  BY <1>1
<1>3. Range(a) = Range(q) \cup {e}
  BY <1>1, <1>2 DEF Range
<1>4. ASSUME IsInjective(q), e \notin Range(q) PROVE IsInjective(a)
  BY <1>1, <1>2, <1>4 DEF IsInjective, Range
<1> QED
  BY <1>1, <1>3, <1>4 DEF a

\* What is retained are the elements of the sequence that are in the set, and
\* none of them twice if none was there twice.
LEMMA RetainedProperties ==
    ASSUME NEW T, NEW s \in Seq(T), NEW keep
    PROVE  /\ Retained(s, keep) \in Seq(T)
           /\ Range(Retained(s, keep)) = Range(s) \cap keep
           /\ IsInjective(s) => IsInjective(Retained(s, keep))
<1> DEFINE kept == Kept(s, keep)
           First(n) == {s[i] : i \in 1..n}
           Good(n) == /\ kept[n] \in Seq(T) /\ Range(kept[n]) = First(n) \cap keep
                      /\ IsInjective(s) => IsInjective(kept[n])
           Bad == {n \in 0..Len(s) : ~Good(n)}
<1>1. Len(s) \in Nat /\ DOMAIN s = 1..Len(s)
  BY LenProperties
<1>2. \A n \in 0..Len(s) : kept[n] = Step(s, keep, kept, n)
  BY KeptSteps
<1> HIDE DEF kept
<1>3. Bad = {}
  <2> SUFFICES ASSUME Bad # {} PROVE FALSE
    OBVIOUS
  <2>1. PICK m \in Bad : \A k \in Bad : m <= k
    <3>1. Bad \in SUBSET Nat
      BY <1>1
    <3> HIDE DEF Bad
    <3> QED
      BY <3>1, LeastNumber
  <2>2. m # 0
    <3>1. kept[0] = <<>>
      BY <1>1, <1>2 DEF Step
    <3>2. First(0) = {}
      OBVIOUS
    <3>3. <<>> \in Seq(T) /\ Range(<<>>) = {} /\ IsInjective(<<>>)
      BY EmptySeq DEF Range, IsInjective
    <3>4. Good(0)
      BY <3>1, <3>2, <3>3
    <3> QED
      BY <3>4
  <2>3. m - 1 \in 0..Len(s) /\ m \in 1..Len(s)
    BY <2>1, <2>2, <1>1
  <2>4. Good(m - 1)
    <3> HIDE DEF Good
    <3> QED
      BY <1>1, <2>1, <2>3
  <2>5. s[m] \in T
    BY <2>3, ElementOfSeq
  <2>6. First(m) = First(m - 1) \cup {s[m]}
    <3>1. 1..m = 1..(m-1) \cup {m}
      BY <2>3
    <3> QED
      BY <3>1
  <2>7. IsInjective(s) => s[m] \notin First(m - 1)
    BY <1>1, <2>3 DEF IsInjective
  <2> HIDE DEF First
  <2>8. CASE s[m] \in keep
    <3>1. kept[m] = Append(kept[m-1], s[m])
      BY <1>2, <2>2, <2>3, <2>8 DEF Step
    <3>2. Good(m)
      BY <2>4, <2>5, <2>6, <2>7, <2>8, <3>1, AppendRange
    <3> QED
      BY <2>1, <3>2
  <2>9. CASE s[m] \notin keep
    <3>1. kept[m] = kept[m-1]
      BY <1>2, <2>2, <2>3, <2>9 DEF Step
    <3>2. Good(m)
      BY <2>4, <2>6, <2>9, <3>1
    <3> QED
      BY <2>1, <3>2
  <2> QED
    BY <2>8, <2>9
<1>4. Good(Len(s))
  <2> HIDE DEF Good
  <2> QED
    BY <1>1, <1>3
<1>5. First(Len(s)) = Range(s)
  BY <1>1 DEF Range
<1> QED
  BY <1>4, <1>5 DEF Retained, kept

\* If the set holds what comes from some place on, that is what is retained.
LEMMA RetainedSuffix ==
    ASSUME NEW T, NEW s \in Seq(T), NEW keep, NEW k \in 1..Len(s) + 1,
           \A i \in 1..Len(s) : s[i] \in keep <=> k <= i
    PROVE  Retained(s, keep) = SubSeq(s, k, Len(s))
<1> DEFINE kept == Kept(s, keep)
           Good(n) == kept[n] = SubSeq(s, k, n)
           Bad == {n \in 0..Len(s) : ~Good(n)}
<1>1. Len(s) \in Nat
  BY LenProperties
<1>2. \A n \in 0..Len(s) : kept[n] = Step(s, keep, kept, n)
  BY KeptSteps
<1> HIDE DEF kept
<1>3. Bad = {}
  <2> SUFFICES ASSUME Bad # {} PROVE FALSE
    OBVIOUS
  <2>1. PICK m \in Bad : \A j \in Bad : m <= j
    <3>1. Bad \in SUBSET Nat
      BY <1>1
    <3> HIDE DEF Bad
    <3> QED
      BY <3>1, LeastNumber
  <2>2. m # 0
    <3>1. kept[0] = <<>>
      BY <1>1, <1>2 DEF Step
    <3>2. SubSeq(s, k, 0) = <<>>
      BY <1>1, SubSeqEmpty
    <3> QED
      BY <3>1, <3>2, <2>1
  <2>3. m - 1 \in 0..Len(s) /\ m \in 1..Len(s)
    BY <2>1, <2>2, <1>1
  <2>4. Good(m - 1)
    <3> HIDE DEF Good
    <3> QED
      BY <1>1, <2>1, <2>3
  <2>5. CASE k <= m
    <3>1. kept[m] = Append(SubSeq(s, k, m-1), s[m])
      BY <1>2, <2>2, <2>3, <2>4, <2>5 DEF Step
    <3>2. SubSeq(s, k, m-1) \in Seq(T)
      <4>1. \A i \in k..(m-1) : s[i] \in T
        BY <1>1, <2>3, ElementOfSeq
      <4> QED
        BY <1>1, <2>3, <4>1, SubSeqProperties
    <3>3. s[m] \in T
      BY <2>3, ElementOfSeq
    <3>4. Append(SubSeq(s, k, m-1), s[m]) = SubSeq(s, k, m-1) \o <<s[m]>>
      BY <3>2, <3>3, AppendIsConcat
    <3>5. k \in 1..Len(s) /\ m \in k..Len(s)
      BY <1>1, <2>3, <2>5
    <3>6. SubSeq(s, k, m) = SubSeq(s, k, m-1) \o <<s[m]>>
      BY <3>5, SubSeqRecursiveSecond
    <3> QED
      BY <2>1, <3>1, <3>4, <3>6
  <2>6. CASE m < k
    <3>1. kept[m] = SubSeq(s, k, m-1)
      BY <1>2, <2>2, <2>3, <2>4, <2>6, <1>1 DEF Step
    <3>2. SubSeq(s, k, m-1) = <<>> /\ SubSeq(s, k, m) = <<>>
      BY <1>1, <2>3, <2>6, SubSeqEmpty
    <3> QED
      BY <2>1, <3>1, <3>2
  <2> QED
    BY <1>1, <2>3, <2>5, <2>6
<1> QED
  BY <1>1, <1>3 DEF Retained, kept
=============================================================================
