-------------------------- MODULE ReleaseCacheProofs --------------------------
(***************************************************************************)
(* Proofs about ReleaseCache for any providers, versions, TTL and bounds:  *)
(* its types, and that no release is overlooked for longer than the TTL.   *)
(***************************************************************************)
EXTENDS ReleaseCache, TLAPS

Metadata == [release : Versions, age : 0..TTL]
Conditions == [is : {"True", "False", "Unknown"}, version : Nat, missed : BOOLEAN]

Types ==
    /\ age \in [Providers -> [Versions -> 0..TTL \cup {Nil}]]
    /\ running \in [Providers -> Versions]
    /\ cache \in [Providers -> Metadata \cup {Nil}]
    /\ condition \in [Providers -> Conditions]

(* Versions come out one after the other. *)
InTurn == \A p \in Providers : \E k \in Versions : Out(p) = 1..k

(* What the cached metadata does not know is not older than they are. *)
Reflected ==
    \A p \in Providers : cache[p] # Nil =>
        \A v \in Out(p) : v > cache[p].release => age[p][v] <= cache[p].age

IInv == Types /\ InTurn /\ Reflected /\ NothingMissed

-----------------------------------------------------------------------------
(* The release is the last version that is out. *)
LEMMA ReleaseIsLast ==
    ASSUME NEW p \in Providers, NEW k \in Versions, Out(p) = 1..k
    PROVE  Release(p) = k
<1>1. k \in Nat /\ k >= 1
  BY ReleaseAssumption DEF Versions
<1>2. k \in Out(p) /\ \A w \in Out(p) : w <= k
  BY <1>1
<1>3. /\ Release(p) \in Out(p)
      /\ \A w \in Out(p) : w <= Release(p)
  BY <1>2 DEF Release
<1>4. Release(p) \in 1..k /\ k <= Release(p)
  BY <1>2, <1>3
<1> QED BY <1>1, <1>4

LEMMA OlderType ==
    ASSUME NEW a \in 0..TTL, NEW b \in 0..TTL, a <= b
    PROVE  Older(a) \in 0..TTL /\ Older(b) \in 0..TTL /\ Older(a) <= Older(b)
  BY ReleaseAssumption DEF Older

LEMMA ComparedType ==
    ASSUME NEW p \in Providers, NEW v \in Versions
    PROVE  /\ Compared(p, v) \in Conditions
           /\ Compared(p, v).missed <=> Missed(p, v)
  BY ReleaseAssumption DEF Compared, Conditions, Missed, Versions

LEMMA InitIInv == Init => IInv
<1> SUFFICES ASSUME Init PROVE IInv
  OBVIOUS
<1> USE ReleaseAssumption
<1>1. 1 \in Versions /\ TTL \in 0..TTL
  BY DEF Versions
<1>2. Types
  BY <1>1 DEF Init, Types, Conditions, Unknown
<1>3. \A p \in Providers : Out(p) = 1..1
  <2>1. TTL # Nil
    BY <1>1
  <2>2. ASSUME NEW p \in Providers
        PROVE  \A v \in Versions : age[p][v] # Nil <=> v = 1
    BY <2>1 DEF Init
  <2>3. \A p \in Providers : Out(p) = {1}
    BY <1>1, <2>2 DEF Out
  <2>4. 1..1 = {1}
    OBVIOUS
  <2> QED BY <2>3, <2>4
<1> QED BY <1>1, <1>2, <1>3
        DEF IInv, Init, InTurn, Reflected, NothingMissed, Unknown

LEMMA ReleasedIInv ==
    ASSUME IInv, NEW p \in Providers, Released(p)
    PROVE  IInv'
<1> USE ReleaseAssumption
<1>1. PICK k \in Versions : Out(p) = 1..k
  BY DEF IInv, InTurn
<1>2. Release(p) = k
  BY <1>1, ReleaseIsLast
<1>3. k + 1 \in Versions /\ k \in Nat
  BY <1>2 DEF Released, Versions
<1>4. /\ age'[p][k + 1] = 0
      /\ \A v \in Versions \ {k + 1} : age'[p][v] = age[p][v]
      /\ \A q \in Providers \ {p} : age'[q] = age[q]
  BY <1>2, <1>3 DEF Released, IInv, Types
<1>5. Types'
  <2>1. age' \in [Providers -> [Versions -> 0..TTL \cup {Nil}]]
    BY <1>2, <1>3 DEF Released, IInv, Types
  <2> QED BY <2>1 DEF Released, IInv, Types
<1>6. Out(p)' = Out(p) \cup {k + 1} /\ \A q \in Providers \ {p} : Out(q)' = Out(q)
  <2>1. 0 # Nil
    BY DEF Versions
  <2>2. \A v \in Versions : age'[p][v] # Nil <=> age[p][v] # Nil \/ v = k + 1
    BY <1>4, <2>1
  <2>3. Out(p)' = Out(p) \cup {k + 1}
    BY <1>3, <2>2 DEF Out
  <2>4. \A q \in Providers \ {p} : Out(q)' = Out(q)
    BY <1>4 DEF Out
  <2> QED BY <2>3, <2>4
<1>7. InTurn'
  <2>1. Out(p)' = 1..(k + 1)
    BY <1>1, <1>3, <1>6
  <2> QED BY <1>3, <1>6, <2>1 DEF IInv, InTurn
<1>8. Reflected'
  <2>1. \A q \in Providers : cache[q] # Nil => cache[q].age \in Nat
    BY DEF IInv, Types, Metadata
  <2>2. k + 1 \notin Out(p)
    BY <1>1, <1>3
  <2> QED BY <1>4, <1>6, <2>1, <2>2 DEF IInv, Reflected, Released, Out
<1> QED BY <1>5, <1>7, <1>8 DEF IInv, NothingMissed, Released

LEMMA TimePassesIInv ==
    ASSUME IInv, TimePasses
    PROVE  IInv'
<1> USE ReleaseAssumption
<1>1. \A p \in Providers, v \in Versions :
          /\ v \in Out(p) => /\ age[p][v] \in 0..TTL
                             /\ age'[p][v] = Older(age[p][v])
                             /\ age'[p][v] \in 0..TTL
          /\ v \notin Out(p) => age'[p][v] = Nil
  BY OlderType DEF IInv, Types, TimePasses, Out
<1>2. \A p \in Providers : Out(p)' = Out(p)
  BY <1>1 DEF Out
<1>3. \A p \in Providers :
          /\ cache[p] = Nil => cache'[p] = Nil
          /\ cache[p] # Nil => /\ cache[p] \in Metadata
                               /\ cache'[p] \in Metadata
                               /\ cache'[p].release = cache[p].release
                               /\ cache'[p].age = Older(cache[p].age)
  BY OlderType DEF IInv, Types, TimePasses, Metadata
<1>4. Types'
  <2>1. age' \in [Providers -> [Versions -> 0..TTL \cup {Nil}]]
    BY <1>1 DEF TimePasses, Out
  <2>2. cache' \in [Providers -> Metadata \cup {Nil}]
    BY <1>3 DEF TimePasses
  <2> QED BY <2>1, <2>2 DEF IInv, Types, TimePasses
<1>5. Reflected'
  <2> SUFFICES ASSUME NEW p \in Providers, cache'[p] # Nil,
                      NEW v \in Out(p), v > cache[p].release
               PROVE  age'[p][v] <= cache'[p].age
    BY <1>2, <1>3 DEF Reflected
  <2>1. v \in Versions /\ cache[p] # Nil
    BY <1>3 DEF Out
  <2>2. age[p][v] <= cache[p].age /\ age[p][v] \in 0..TTL /\ cache[p].age \in 0..TTL
    BY <1>1, <1>3, <2>1 DEF IInv, Reflected, Metadata
  <2> QED BY <1>1, <1>3, <2>1, <2>2, OlderType
<1> QED BY <1>2, <1>4, <1>5 DEF IInv, InTurn, NothingMissed, TimePasses

(* A round: what was fetched now, or is fresh, knows all old versions. *)
LEMMA CheckIInv ==
    ASSUME IInv, NEW p \in Providers, checkVersionUpgrade(p) \/ CheckFails(p)
    PROVE  IInv'
<1> USE ReleaseAssumption
<1>1. CASE CheckCached(p)
  <2>1. cache[p] # Nil /\ cache[p].age < TTL /\ cache[p] \in Metadata
    BY <1>1 DEF CheckCached, Fresh, IInv, Types
  <2>2. ~Missed(p, cache[p].release)
    BY <2>1 DEF Missed, IInv, Reflected, Metadata, Types, Out
  <2>3. condition' \in [Providers -> Conditions] /\ ~condition'[p].missed
        /\ \A q \in Providers \ {p} : condition'[q] = condition[q]
    BY <1>1, <2>1, <2>2, ComparedType DEF CheckCached, IInv, Types, Metadata
  <2> QED BY <1>1, <2>3
          DEF CheckCached, IInv, Types, InTurn, Reflected, NothingMissed, Out
<1>2. CASE CheckFetched(p)
  <2>1. PICK k \in Versions : Out(p) = 1..k
    BY DEF IInv, InTurn
  <2>2. Release(p) = k
    BY <2>1, ReleaseIsLast
  <2>3. /\ cache' = [cache EXCEPT ![p] = [release |-> k, age |-> 0]]
        /\ cache'[p].release = k
    BY <1>2, <2>2 DEF CheckFetched, Fetched, IInv, Types
  <2>4. cache' \in [Providers -> Metadata \cup {Nil}]
    BY <2>3 DEF IInv, Types, Metadata
  <2>5. ~Missed(p, k)
    BY <2>1 DEF Missed, Versions
  <2>6. condition' \in [Providers -> Conditions] /\ ~condition'[p].missed
        /\ \A q \in Providers \ {p} : condition'[q] = condition[q]
    BY <1>2, <2>3, <2>5, ComparedType DEF CheckFetched, IInv, Types
  <2>7. Reflected'
    <3>1. \A v \in Out(p) : ~(v > k)
      BY <2>1 DEF Versions
    <3> QED BY <1>2, <2>3, <3>1 DEF CheckFetched, IInv, Types, Reflected, Out
  <2> QED BY <1>2, <2>4, <2>6, <2>7
          DEF CheckFetched, IInv, Types, InTurn, NothingMissed, Out
<1>3. CASE CheckFails(p)
  <2>1. Unknown \in Conditions /\ ~Unknown.missed
    BY DEF Unknown, Conditions
  <2> QED BY <1>3, <2>1
          DEF CheckFails, IInv, Types, InTurn, Reflected, NothingMissed, Out
<1> QED BY <1>1, <1>2, <1>3 DEF checkVersionUpgrade

LEMMA StepIInv ==
    ASSUME IInv, [Next]_vars
    PROVE  IInv'
<1>1. ASSUME NEW p \in Providers, NEW v \in Versions, ApplicationChanges(p, v)
      PROVE  IInv'
  BY <1>1 DEF ApplicationChanges, IInv, Types, InTurn, Reflected, NothingMissed, Out
<1>2. CASE Restart
  BY <1>2 DEF Restart, IInv, Types, InTurn, Reflected, NothingMissed, Out
<1>3. CASE UNCHANGED vars
  BY <1>3 DEF vars, IInv, Types, InTurn, Reflected, NothingMissed, Out
<1> QED BY <1>1, <1>2, <1>3, CheckIInv, ReleasedIInv, TimePassesIInv DEF Next

(* For any TTL, and any number of providers, releases, failed fetches and  *)
(* restarts: a release that has been out for the TTL is not overlooked.    *)
THEOREM NoReleaseMissed == Spec => []NothingMissed
<1>1. IInv => NothingMissed
  BY DEF IInv
<1> QED BY <1>1, InitIInv, StepIInv, PTL DEF Spec
=============================================================================
