------------------------------ MODULE DataLemmas ------------------------------
(***************************************************************************)
(* Facts about finite sets, sequences and sums that the proofs about       *)
(* several components use.  The induction that they need is stated over    *)
(* sets: a set of subsets of a finite set has a smallest member.           *)
(***************************************************************************)
EXTENDS Integers, Sequences, FiniteSets, SequencesExt, FiniteSetTheorems, TLAPS

LEMMA SmallestSubset ==
    ASSUME NEW S, IsFiniteSet(S), NEW B \in SUBSET SUBSET S, B # {}
    PROVE  \E T \in B : \A U \in SUBSET T : U # T => U \notin B
<1>1. IsWellFoundedOn(StrictSubsetOrdering(S), SUBSET S)
  BY FS_StrictSubsetOrderingWellFounded, FS_FiniteSubsetsOfFinite
<1>2. PICK T \in B : \A U \in B : ~(<<U, T>> \in StrictSubsetOrdering(S))
  BY <1>1, WFMin
<1> QED BY <1>2 DEF StrictSubsetOrdering

-----------------------------------------------------------------------------
(* Sequences. *)

(* A list of a finite set in any order is a sequence of its elements, all  *)
(* of them.                                                                *)
LEMMA OrderOfSet ==
    ASSUME NEW S, IsFiniteSet(S), NEW q \in SetToSeqs(S)
    PROVE  q \in Seq(S) /\ ToSet(q) = S
<1> DEFINE D == 1..Cardinality(S)
<1>1. Cardinality(S) \in Nat
  BY FS_CardinalityType
<1>2. q \in [D -> S] /\ \A i, j \in D : i # j => q[i] # q[j]
  BY DEF SetToSeqs
<1>3. q \in Injection(D, S)
  BY <1>2 DEF Injection, IsInjective
<1>4. IsFiniteSet(D) /\ Cardinality(D) = Cardinality(S)
  BY <1>1, FS_Interval
<1>5. q \in Surjection(D, S)
  BY <1>3, <1>4, FS_Injection
<1>6. \A s \in S : \E i \in D : q[i] = s
  BY <1>5 DEF Surjection
<1>7. ToSet(q) = S
  BY <1>2, <1>6 DEF ToSet
<1>8. q \in Seq(S)
  BY <1>1, <1>2
<1> QED BY <1>7, <1>8

LEMMA OneElement == ASSUME NEW S, NEW e \in S PROVE <<e>> \in Seq(S)
  OBVIOUS

LEMMA SeqOfItsElements ==
    ASSUME NEW S, NEW q \in Seq(S), NEW T, ToSet(q) \subseteq T
    PROVE  q \in Seq(T)
<1>1. \A i \in 1..Len(q) : q[i] \in T
  BY DEF ToSet
<1> QED BY <1>1

(* Appending adds the element. *)
LEMMA ToSetAppend ==
    ASSUME NEW S, NEW q \in Seq(S), NEW e \in S
    PROVE  Append(q, e) \in Seq(S) /\ ToSet(Append(q, e)) = ToSet(q) \cup {e}
<1>1. Append(q, e) \in Seq(S) /\ Len(Append(q, e)) = Len(q) + 1
  OBVIOUS
<1>2. \A i \in 1..Len(q) : Append(q, e)[i] = q[i]
  OBVIOUS
<1>3. Append(q, e)[Len(q) + 1] = e
  OBVIOUS
<1>4. DOMAIN q = 1..Len(q) /\ DOMAIN Append(q, e) = 1..(Len(q) + 1)
  BY <1>1
<1>5. Len(q) \in Nat
  OBVIOUS
<1> QED BY <1>1, <1>2, <1>3, <1>4, <1>5 DEF ToSet

(* Taking the head leaves the others. *)
LEMMA ToSetTail ==
    ASSUME NEW S, NEW q \in Seq(S), q # <<>>
    PROVE  /\ Head(q) \in S
           /\ Tail(q) \in Seq(S)
           /\ ToSet(q) = {Head(q)} \cup ToSet(Tail(q))
<1>1. Head(q) = q[1] /\ Head(q) \in S /\ Tail(q) \in Seq(S)
  OBVIOUS
<1>2. Len(q) \in Nat \ {0} /\ Len(Tail(q)) = Len(q) - 1
  OBVIOUS
<1>3. \A i \in 1..(Len(q) - 1) : Tail(q)[i] = q[i + 1]
  OBVIOUS
<1>4. DOMAIN q = 1..Len(q) /\ DOMAIN Tail(q) = 1..(Len(q) - 1)
  BY <1>1, <1>2
<1>5. \A i \in 1..Len(q) : i = 1 \/ (i - 1 \in 1..(Len(q) - 1) /\ q[i] = Tail(q)[i - 1])
  BY <1>2, <1>3
<1>6. ToSet(q) \subseteq {Head(q)} \cup ToSet(Tail(q))
  BY <1>1, <1>4, <1>5 DEF ToSet
<1>7. ToSet(Tail(q)) \subseteq ToSet(q)
  BY <1>2, <1>3, <1>4 DEF ToSet
<1>8. Head(q) \in ToSet(q)
  BY <1>1, <1>2, <1>4 DEF ToSet
<1> QED BY <1>1, <1>6, <1>7, <1>8

(* Concatenating unites the elements. *)
LEMMA ToSetConcat ==
    ASSUME NEW S, NEW p \in Seq(S), NEW q \in Seq(S)
    PROVE  p \o q \in Seq(S) /\ ToSet(p \o q) = ToSet(p) \cup ToSet(q)
<1>1. /\ p \o q \in Seq(S)
      /\ Len(p \o q) = Len(p) + Len(q)
      /\ Len(p) \in Nat /\ Len(q) \in Nat
  OBVIOUS
<1>2. \A i \in 1..Len(p) : (p \o q)[i] = p[i]
  OBVIOUS
<1>3. \A i \in 1..Len(q) : (p \o q)[Len(p) + i] = q[i]
  OBVIOUS
<1>4. /\ DOMAIN p = 1..Len(p) /\ DOMAIN q = 1..Len(q)
      /\ DOMAIN (p \o q) = 1..(Len(p) + Len(q))
  BY <1>1
<1>5. \A i \in 1..(Len(p) + Len(q)) :
          i \in 1..Len(p) \/ (i - Len(p) \in 1..Len(q) /\ (p \o q)[i] = q[i - Len(p)])
  BY <1>1, <1>3
<1>6. ToSet(p \o q) \subseteq ToSet(p) \cup ToSet(q)
  BY <1>2, <1>4, <1>5 DEF ToSet
<1>7. ToSet(p) \subseteq ToSet(p \o q)
  BY <1>1, <1>2, <1>4 DEF ToSet
<1>8. ToSet(q) \subseteq ToSet(p \o q)
  <2>1. \A i \in 1..Len(q) : Len(p) + i \in 1..(Len(p) + Len(q))
    BY <1>1
  <2> QED BY <1>3, <1>4, <2>1 DEF ToSet
<1> QED BY <1>1, <1>6, <1>7, <1>8

LEMMA Concatenation ==
    ASSUME NEW S, NEW p \in Seq(S), NEW q \in Seq(S)
    PROVE  /\ p \o q \in Seq(S) /\ Len(p \o q) = Len(p) + Len(q)
           /\ \A k \in 1..(Len(p) + Len(q)) :
                (p \o q)[k] = IF k <= Len(p) THEN p[k] ELSE q[k - Len(p)]
  OBVIOUS

LEMMA ConcatenationHas ==
    ASSUME NEW S, NEW p \in Seq(S), NEW q \in Seq(S), NEW k \in DOMAIN (p \o q)
    PROVE  \/ k \in DOMAIN p /\ (p \o q)[k] = p[k]
           \/ (p \o q)[k] \in ToSet(q)
<1>1. /\ Len(p) \in Nat /\ Len(q) \in Nat /\ k \in 1..(Len(p) + Len(q))
      /\ DOMAIN p = 1..Len(p) /\ DOMAIN q = 1..Len(q)
      /\ (p \o q)[k] = IF k <= Len(p) THEN p[k] ELSE q[k - Len(p)]
  BY Concatenation
<1>2. CASE k <= Len(p)
  BY <1>1, <1>2
<1>3. CASE ~(k <= Len(p))
  <2>1. k - Len(p) \in DOMAIN q /\ (p \o q)[k] = q[k - Len(p)]
    BY <1>1, <1>3
  <2> QED BY <2>1 DEF ToSet
<1> QED BY <1>2, <1>3

(* One element of a list of two parts is replaced: the head of the second  *)
(* part, where it stands or at the end of the first part.                  *)
LEMMA HeadReplaced ==
    ASSUME NEW S, NEW p \in Seq(S), NEW q \in Seq(S), q # <<>>, NEW e \in S
    PROVE  /\ [q EXCEPT ![1] = e] \in Seq(S)
           /\ Append(p, e) \in Seq(S) /\ Tail(q) \in Seq(S)
           /\ (p \o q)[Len(p) + 1] = Head(q) /\ Len(p) + 1 \in 1..Len(p \o q)
           /\ \A r \in {p \o [q EXCEPT ![1] = e], Append(p, e) \o Tail(q)} :
                /\ r \in Seq(S) /\ Len(r) = Len(p \o q)
                /\ \A k \in 1..Len(p \o q) :
                    r[k] = IF k = Len(p) + 1 THEN e ELSE (p \o q)[k]
<1>1. /\ Len(p) \in Nat /\ Len(q) \in Nat \ {0} /\ p \o q \in Seq(S)
      /\ Len(p \o q) = Len(p) + Len(q) /\ Head(q) = q[1]
      /\ \A k \in 1..(Len(p) + Len(q)) :
            (p \o q)[k] = IF k <= Len(p) THEN p[k] ELSE q[k - Len(p)]
  OBVIOUS
<1> DEFINE r == [q EXCEPT ![1] = e]
           t == Tail(q)
           a == Append(p, e)
<1>2. /\ r \in Seq(S) /\ Len(r) = Len(q)
      /\ \A k \in 1..Len(q) : r[k] = IF k = 1 THEN e ELSE q[k]
  <2>1. q \in [1..Len(q) -> S]
    OBVIOUS
  <2>2. r \in [1..Len(q) -> S] /\ \A k \in 1..Len(q) : r[k] = IF k = 1 THEN e ELSE q[k]
    BY <1>1, <2>1
  <2> HIDE DEF r
  <2> QED BY <1>1, <2>2
<1>3. /\ t \in Seq(S) /\ Len(t) = Len(q) - 1
      /\ \A k \in 1..(Len(q) - 1) : t[k] = q[k + 1]
  BY <1>1
<1>4. /\ a \in Seq(S) /\ Len(a) = Len(p) + 1
      /\ \A k \in 1..(Len(p) + 1) : a[k] = IF k = Len(p) + 1 THEN e ELSE p[k]
  BY <1>1
<1> HIDE DEF r, t, a
<1>5. /\ p \o r \in Seq(S) /\ Len(p \o r) = Len(p) + Len(q)
      /\ \A k \in 1..(Len(p) + Len(q)) :
            (p \o r)[k] = IF k <= Len(p) THEN p[k] ELSE r[k - Len(p)]
  <2>1. r \in Seq(S) /\ Len(r) = Len(q)
    BY <1>2
  <2>2. /\ p \o r \in Seq(S) /\ Len(p \o r) = Len(p) + Len(r)
        /\ \A k \in 1..(Len(p) + Len(r)) :
                (p \o r)[k] = IF k <= Len(p) THEN p[k] ELSE r[k - Len(p)]
    BY <2>1, Concatenation
  <2> QED BY <2>1, <2>2
<1>6. /\ a \o t \in Seq(S) /\ Len(a \o t) = Len(p) + Len(q)
      /\ \A k \in 1..(Len(p) + Len(q)) :
            (a \o t)[k] = IF k <= Len(p) + 1 THEN a[k] ELSE t[k - (Len(p) + 1)]
  <2>1. /\ a \o t \in Seq(S) /\ Len(a \o t) = Len(a) + Len(t)
        /\ \A k \in 1..(Len(a) + Len(t)) :
                (a \o t)[k] = IF k <= Len(a) THEN a[k] ELSE t[k - Len(a)]
    BY <1>3, <1>4, Concatenation
  <2>2. Len(a) = Len(p) + 1 /\ Len(a) + Len(t) = Len(p) + Len(q)
    BY <1>1, <1>3, <1>4
  <2> QED BY <2>1, <2>2
<1>7. \A k \in 1..(Len(p) + Len(q)) :
        (p \o r)[k] = IF k = Len(p) + 1 THEN e ELSE (p \o q)[k]
  BY <1>1, <1>2, <1>5
<1>8. ASSUME NEW k \in 1..(Len(p) + Len(q))
      PROVE  (a \o t)[k] = IF k = Len(p) + 1 THEN e ELSE (p \o q)[k]
  <2>1. CASE k <= Len(p) + 1
    BY <1>1, <1>4, <1>6, <2>1
  <2>2. CASE k > Len(p) + 1
    <3>1. k - (Len(p) + 1) \in 1..(Len(q) - 1) /\ k - (Len(p) + 1) + 1 = k - Len(p)
      BY <1>1, <2>2
    <3>2. (a \o t)[k] = q[k - Len(p)]
      BY <1>1, <1>3, <1>6, <2>2, <3>1
    <3> QED BY <1>1, <2>2, <3>2
  <2>3. k <= Len(p) + 1 \/ k > Len(p) + 1
    BY <1>1
  <2> QED BY <2>1, <2>2, <2>3
<1>9. (p \o q)[Len(p) + 1] = Head(q) /\ Len(p) + 1 \in 1..Len(p \o q)
  BY <1>1
<1> QED BY <1>1, <1>2, <1>3, <1>4, <1>5, <1>6, <1>7, <1>8, <1>9 DEF r, t, a

-----------------------------------------------------------------------------
(* Sums of the values of a function over a finite set. *)

(* The recursion behind a sum, on the subsets of T. *)
Chosen(s) == CHOOSE x \in s : TRUE
Sums(f, T, g) ==
    g = [s \in SUBSET T |->
            IF s = {} THEN 0 ELSE f[Chosen(s)] + g[s \ {Chosen(s)}]]

LEMMA SumsUnfold ==
    ASSUME NEW f, NEW T, NEW g, Sums(f, T, g), NEW s \in SUBSET T
    PROVE  g[s] = IF s = {} THEN 0 ELSE f[Chosen(s)] + g[s \ {Chosen(s)}]
<1> DEFINE h == [r \in SUBSET T |->
                    IF r = {} THEN 0 ELSE f[Chosen(r)] + g[r \ {Chosen(r)}]]
<1>1. g = h
  BY DEF Sums
<1>2. h[s] = IF s = {} THEN 0 ELSE f[Chosen(s)] + g[s \ {Chosen(s)}]
  OBVIOUS
<1> HIDE DEF h
<1> QED BY <1>1, <1>2

LEMMA ChosenIn == ASSUME NEW s, s # {} PROVE Chosen(s) \in s
  BY DEF Chosen

(* Two such functions agree where both are defined. *)
LEMMA SumsAgree ==
    ASSUME NEW f, NEW T, IsFiniteSet(T), NEW U \in SUBSET T,
           NEW g, Sums(f, T, g), NEW h, Sums(f, U, h)
    PROVE  g[U] = h[U]
<1> DEFINE B == {s \in SUBSET U : g[s] # h[s]}
<1>1. SUFFICES ASSUME B # {} PROVE FALSE
  OBVIOUS
<1>2. IsFiniteSet(U)
  BY FS_Subset
<1>3. PICK s \in B : \A r \in SUBSET s : r # s => r \notin B
  <2>1. B \in SUBSET SUBSET U
    OBVIOUS
  <2> HIDE DEF B
  <2> QED BY <1>1, <1>2, <2>1, SmallestSubset
<1>4. g[s] = IF s = {} THEN 0 ELSE f[Chosen(s)] + g[s \ {Chosen(s)}]
  BY SumsUnfold
<1>5. h[s] = IF s = {} THEN 0 ELSE f[Chosen(s)] + h[s \ {Chosen(s)}]
  BY SumsUnfold
<1>6. s # {}
  BY <1>4, <1>5
<1>7. s \ {Chosen(s)} # s
  BY <1>6, ChosenIn
<1>8. g[s \ {Chosen(s)}] = h[s \ {Chosen(s)}]
  BY <1>3, <1>7
<1> QED BY <1>4, <1>5, <1>6, <1>8

LEMMA SumsExist ==
    ASSUME NEW f, NEW S, IsFiniteSet(S)
    PROVE  \E g : Sums(f, S, g)
<1> DEFINE B == {T \in SUBSET S : ~\E g : Sums(f, T, g)}
<1>1. SUFFICES ASSUME B # {} PROVE FALSE
  OBVIOUS
<1>2. PICK T \in B : \A U \in SUBSET T : U # T => U \notin B
  <2>1. B \in SUBSET SUBSET S
    OBVIOUS
  <2> HIDE DEF B
  <2> QED BY <1>1, <2>1, SmallestSubset
<1>3. \A U \in SUBSET T : U # T => IsFiniteSet(U) /\ \E g : Sums(f, U, g)
  BY <1>2, FS_Subset
<1> DEFINE G(U) == CHOOSE g : Sums(f, U, g)
<1>4. \A U \in SUBSET T : U # T => Sums(f, U, G(U))
  BY <1>3
<1> HIDE DEF G
<1> DEFINE sum(s) == IF s = {} THEN 0
                     ELSE f[Chosen(s)] + G(s \ {Chosen(s)})[s \ {Chosen(s)}]
           g == [s \in SUBSET T |-> sum(s)]
<1>5. ASSUME NEW s \in SUBSET T, s # {}
      PROVE  g[s \ {Chosen(s)}] = G(s \ {Chosen(s)})[s \ {Chosen(s)}]
  <2> DEFINE r == s \ {Chosen(s)}
  <2>1. r \in SUBSET T /\ r # T
    BY <1>5, ChosenIn
  <2>2. Sums(f, r, G(r)) /\ IsFiniteSet(r)
    BY <1>3, <1>4, <2>1
  <2>3. r = {} => G(r)[r] = 0
    BY <2>2, SumsUnfold
  <2>4. CASE r # {}
    <3> DEFINE q == r \ {Chosen(r)}
    <3>1. q \in SUBSET T /\ q # T /\ q \in SUBSET r
      BY <2>1
    <3>2. Sums(f, q, G(q))
      BY <1>4, <3>1
    <3>3. G(r)[q] = G(q)[q]
      BY <2>2, <3>1, <3>2, SumsAgree
    <3>4. G(r)[r] = f[Chosen(r)] + G(r)[q]
      <4>1. r \in SUBSET r
        OBVIOUS
      <4> HIDE DEF r
      <4> QED BY <2>2, <2>4, <4>1, SumsUnfold
    <3> QED BY <2>1, <2>4, <3>3, <3>4
  <2> QED BY <2>1, <2>3, <2>4
<1>6. Sums(f, T, g)
  <2>1. \A s \in SUBSET T :
          sum(s) = IF s = {} THEN 0 ELSE f[Chosen(s)] + g[s \ {Chosen(s)}]
    BY <1>5
  <2> HIDE DEF sum
  <2> QED BY <2>1 DEF Sums
<1> QED BY <1>2, <1>6

(* A sum over T is a value of T, picked anyhow, plus the sum over the rest.*)
LEMMA SumUnfolds ==
    ASSUME NEW f, NEW T, IsFiniteSet(T)
    PROVE  SumFunctionOnSet(f, T) =
               IF T = {} THEN 0
               ELSE f[Chosen(T)] + SumFunctionOnSet(f, T \ {Chosen(T)})
<1>1. \A s : SumFunctionOnSet(f, s) = (CHOOSE g : Sums(f, s, g))[s]
  BY DEF SumFunctionOnSet, FoldFunctionOnSet, MapThenFoldSet, Sums, Chosen
<1> DEFINE U == T \ {Chosen(T)}
           g == CHOOSE h : Sums(f, T, h)
           k == CHOOSE h : Sums(f, U, h)
<1>2. IsFiniteSet(U) /\ U \in SUBSET T
  BY FS_Subset
<1>3. Sums(f, T, g) /\ Sums(f, U, k)
  BY <1>2, SumsExist
<1>4. SumFunctionOnSet(f, T) = g[T] /\ SumFunctionOnSet(f, U) = k[U]
  BY <1>1
<1> HIDE DEF g, k
<1>5. g[U] = k[U]
  BY <1>2, <1>3, SumsAgree
<1>6. T \in SUBSET T
  OBVIOUS
<1>7. g[T] = IF T = {} THEN 0 ELSE f[Chosen(T)] + g[U]
  BY <1>3, <1>6, SumsUnfold
<1> QED BY <1>4, <1>5, <1>7

LEMMA SumOnType ==
    ASSUME NEW S, IsFiniteSet(S), NEW f \in [S -> Int], NEW T \in SUBSET S
    PROVE  SumFunctionOnSet(f, T) \in Int
<1> DEFINE B == {s \in SUBSET T : SumFunctionOnSet(f, s) \notin Int}
<1>1. SUFFICES ASSUME B # {} PROVE FALSE
  OBVIOUS
<1>2. IsFiniteSet(T)
  BY FS_Subset
<1>3. PICK s \in B : \A r \in SUBSET s : r # s => r \notin B
  <2>1. B \in SUBSET SUBSET T
    OBVIOUS
  <2> HIDE DEF B
  <2> QED BY <1>1, <1>2, <2>1, SmallestSubset
<1>4. IsFiniteSet(s)
  BY <1>2, FS_Subset
<1>5. SumFunctionOnSet(f, s) = IF s = {} THEN 0
          ELSE f[Chosen(s)] + SumFunctionOnSet(f, s \ {Chosen(s)})
  BY <1>4, SumUnfolds
<1>6. s # {}
  BY <1>5
<1>7. Chosen(s) \in s /\ s \ {Chosen(s)} # s
  BY <1>6, ChosenIn
<1>8. SumFunctionOnSet(f, s \ {Chosen(s)}) \in Int
  BY <1>3, <1>7
<1>9. f[Chosen(s)] \in Int
  BY <1>7
<1> QED BY <1>5, <1>6, <1>8, <1>9

LEMMA SumType ==
    ASSUME NEW S, IsFiniteSet(S), NEW f \in [S -> Int]
    PROVE  SumFunction(f) \in Int
<1>1. DOMAIN f = S /\ S \in SUBSET S
  OBVIOUS
<1> QED BY <1>1, SumOnType DEF SumFunction

(* What relates two values each relates the sums. *)
LEMMA SumCompares ==
    ASSUME NEW S, IsFiniteSet(S),
           NEW f \in [S -> Int], NEW g \in [S -> Int],
           NEW h \in [S -> Int], NEW k \in [S -> Int],
           \A p \in S : f[p] + g[p] <= h[p] + k[p]
    PROVE  SumFunction(f) + SumFunction(g) <= SumFunction(h) + SumFunction(k)
<1> DEFINE Less(s) ==
        SumFunctionOnSet(f, s) + SumFunctionOnSet(g, s)
            <= SumFunctionOnSet(h, s) + SumFunctionOnSet(k, s)
    B == {s \in SUBSET S : ~Less(s)}
<1>1. SUFFICES ASSUME B # {} PROVE FALSE
  <2>1. Less(S) => SumFunction(f) + SumFunction(g) <= SumFunction(h) + SumFunction(k)
    BY DEF SumFunction
  <2> QED BY <2>1
<1>2. PICK s \in B : \A r \in SUBSET s : r # s => r \notin B
  <2>1. B \in SUBSET SUBSET S
    OBVIOUS
  <2> HIDE DEF B
  <2> QED BY <1>1, <2>1, SmallestSubset
<1>3. IsFiniteSet(s)
  BY FS_Subset
<1> DEFINE c == Chosen(s)
           r == s \ {Chosen(s)}
<1>4. /\ SumFunctionOnSet(f, s) =
             IF s = {} THEN 0 ELSE f[c] + SumFunctionOnSet(f, r)
      /\ SumFunctionOnSet(g, s) =
             IF s = {} THEN 0 ELSE g[c] + SumFunctionOnSet(g, r)
      /\ SumFunctionOnSet(h, s) =
             IF s = {} THEN 0 ELSE h[c] + SumFunctionOnSet(h, r)
      /\ SumFunctionOnSet(k, s) =
             IF s = {} THEN 0 ELSE k[c] + SumFunctionOnSet(k, r)
  BY <1>3, SumUnfolds
<1>5. s # {}
  BY <1>4
<1>6. c \in s /\ c \in S /\ r # s /\ r \in SUBSET s /\ r \in SUBSET S
  BY <1>5, ChosenIn
<1>7. Less(r)
  BY <1>2, <1>6
<1>8. /\ SumFunctionOnSet(f, r) \in Int
      /\ SumFunctionOnSet(g, r) \in Int
      /\ SumFunctionOnSet(h, r) \in Int
      /\ SumFunctionOnSet(k, r) \in Int
  BY <1>6, SumOnType
<1>9. /\ f[c] \in Int /\ g[c] \in Int /\ h[c] \in Int /\ k[c] \in Int
      /\ f[c] + g[c] <= h[c] + k[c]
  BY <1>6
<1>10. ~Less(s)
  OBVIOUS
<1> HIDE DEF c, r
<1> QED BY <1>4, <1>5, <1>7, <1>8, <1>9, <1>10

(* Zeros add nothing. *)
LEMMA SumOfOne ==
    ASSUME NEW S, IsFiniteSet(S), NEW f \in [S -> Int], NEW p \in S,
           \A q \in S \ {p} : f[q] = 0
    PROVE  SumFunction(f) = f[p]
<1> DEFINE Only(s) == SumFunctionOnSet(f, s) = IF p \in s THEN f[p] ELSE 0
           B == {s \in SUBSET S : ~Only(s)}
<1>1. SUFFICES ASSUME B # {} PROVE FALSE
  <2>1. Only(S) => SumFunction(f) = f[p]
    BY DEF SumFunction
  <2> QED BY <2>1
<1>2. PICK s \in B : \A r \in SUBSET s : r # s => r \notin B
  <2>1. B \in SUBSET SUBSET S
    OBVIOUS
  <2> HIDE DEF B
  <2> QED BY <1>1, <2>1, SmallestSubset
<1>3. IsFiniteSet(s)
  BY FS_Subset
<1> DEFINE c == Chosen(s)
           r == s \ {Chosen(s)}
<1>4. SumFunctionOnSet(f, s) = IF s = {} THEN 0 ELSE f[c] + SumFunctionOnSet(f, r)
  BY <1>3, SumUnfolds
<1>5. s # {}
  BY <1>4
<1>6. c \in s /\ c \in S /\ r # s /\ r \in SUBSET s /\ r \in SUBSET S
  BY <1>5, ChosenIn
<1>7. Only(r)
  BY <1>2, <1>6
<1>8. p \in r <=> p \in s /\ p # c
  OBVIOUS
<1>9. /\ f[c] \in Int /\ f[p] \in Int
      /\ c # p => f[c] = 0
  BY <1>6
<1>10. ~Only(s)
  OBVIOUS
<1> HIDE DEF c, r
<1> QED BY <1>4, <1>5, <1>6, <1>7, <1>8, <1>9, <1>10

LEMMA SumOfZeros ==
    ASSUME NEW S, IsFiniteSet(S), NEW f \in [S -> Int], \A p \in S : f[p] = 0
    PROVE  SumFunction(f) = 0
<1>1. CASE S = {}
  <2>1. DOMAIN f = {} /\ IsFiniteSet({})
    BY <1>1
  <2> QED BY <2>1, SumUnfolds DEF SumFunction
<1>2. CASE S # {}
  <2>1. PICK p \in S : TRUE
    BY <1>2
  <2> QED BY <2>1, SumOfOne
<1> QED BY <1>1, <1>2

LEMMA SumOfNaturals ==
    ASSUME NEW S, IsFiniteSet(S), NEW f \in [S -> Nat]
    PROVE  SumFunction(f) \in Nat
<1> DEFINE z == [p \in S |-> 0]
<1>1. z \in [S -> Int] /\ f \in [S -> Int]
  OBVIOUS
<1>2. \A p \in S : z[p] + z[p] <= f[p] + z[p]
  OBVIOUS
<1>3. SumFunction(z) = 0
  BY <1>1, SumOfZeros
<1> HIDE DEF z
<1>4. SumFunction(z) + SumFunction(z) <= SumFunction(f) + SumFunction(z)
  BY <1>1, <1>2, SumCompares
<1>5. SumFunction(f) \in Int
  BY <1>1, SumType
<1> QED BY <1>3, <1>4, <1>5

(* One value changes. *)
LEMMA SumOfChange ==
    ASSUME NEW S, IsFiniteSet(S), NEW f \in [S -> Int], NEW h \in [S -> Int],
           NEW p \in S, \A q \in S \ {p} : h[q] = f[q]
    PROVE  SumFunction(h) = SumFunction(f) + h[p] - f[p]
<1> DEFINE d == [q \in S |-> IF q = p THEN h[p] - f[p] ELSE 0]
           z == [q \in S |-> 0]
<1>1. d \in [S -> Int] /\ z \in [S -> Int]
  OBVIOUS
<1>2. \A q \in S : h[q] + z[q] = f[q] + d[q]
  OBVIOUS
<1>3. d[p] = h[p] - f[p] /\ \A q \in S \ {p} : d[q] = 0
  OBVIOUS
<1>4. \A q \in S : z[q] = 0
  OBVIOUS
<1> HIDE DEF d, z
<1>5. SumFunction(d) = h[p] - f[p] /\ SumFunction(z) = 0
  BY <1>1, <1>3, <1>4, SumOfOne, SumOfZeros
<1>6. \A q \in S : /\ h[q] + z[q] <= f[q] + d[q]
                   /\ f[q] + d[q] <= h[q] + z[q]
  BY <1>1, <1>2
<1>7. /\ SumFunction(h) + SumFunction(z) <= SumFunction(f) + SumFunction(d)
      /\ SumFunction(f) + SumFunction(d) <= SumFunction(h) + SumFunction(z)
  BY <1>1, <1>6, SumCompares
<1>8. /\ SumFunction(h) \in Int /\ SumFunction(f) \in Int
      /\ h[p] \in Int /\ f[p] \in Int
  BY SumType
<1> QED BY <1>5, <1>7, <1>8
=============================================================================
