-------------------------- MODULE ExchangeRateProofs --------------------------
(***************************************************************************)
(* Proofs about ExchangeRate for any finite set of pods, any thresholds,   *)
(* any number of exchanges, rounds and changes of pods.                    *)
(***************************************************************************)
EXTENDS ExchangeRate, DataLemmas

Counters == {"total", "failed", "last"}
Living == {w \in [ready : BOOLEAN, total : Nat, failed : Nat, last : Nat] :
              w.failed <= w.total}
Found == [total : Nat, failed : Nat, last : Nat]
Infos == [Pods -> Found \cup {Nil}]
Rate == [perc : [total : Int, failed : Int] \cup {Nil},
         total : Nat, failed : Nat, last : Nat,
         level : {"", "Success", "Warning", "Error"}]
Versions == [pods : Infos, rate : Rate]

Types ==
    /\ series \in Nat \ {0}
    /\ source \in Percentages
    /\ pod \in [Pods -> Living \cup {Nil}]
    /\ statuses \in Seq(Versions) /\ statuses # <<>>
    /\ processed \in Nat
    /\ failures \in Nat
    /\ sampled \in Nat

(* The versions of the status from the cached one to the server's.         *)
Known == ToSet(statuses)

(* The counters now, and what an observer of a version takes them for.     *)
Now(c) == Counted(pod, c)

InRange(perc) == perc # Nil => 0 <= perc.failed /\ perc.failed <= perc.total
Quiet(rate) ==
    /\ 0 <= WarnPerc /\ 0 <= ErrPerc => rate.level \in {"", "Success"}
    /\ rate.failed = 0

(* An exchange is sampled, or ahead of what the server's status counts.    *)
Accounted ==
    churn \cap {"unscraped", "stale"} = {} =>
        /\ sampled <= processed
        /\ (\E p \in Pods : Server.pods[p] # Nil) =>
              sampled + SumFunction(Now("total"))
                      - SumFunction(Counted(Server.pods, "total")) <= processed

(* A pod has failed no more than it has exchanged since infos were found.  *)
JoinedSince(infos, p) ==
    /\ Counted(infos, "failed")[p] <= Now("failed")[p]
    /\ Now("failed")[p] + Counted(infos, "total")[p]
           <= Now("total")[p] + Counted(infos, "failed")[p]

(* Pods that only join fail no more than they exchange, since any version. *)
Joining ==
    churn \cap {"restart", "stop", "unscraped"} = {} =>
        \A s \in Known : /\ \A p \in Pods : JoinedSince(s.pods, p)
                         /\ InRange(s.rate.perc)

(* Without a failed exchange no counter of failures has moved. *)
NoFailures ==
    failures = 0 =>
        /\ \A p \in Pods : Now("failed")[p] = 0
        /\ \A s \in Known : /\ \A p \in Pods : Counted(s.pods, "failed")[p] = 0
                            /\ Quiet(s.rate)

(* No pod, and no version of the status, is ahead of the clock. *)
NothingAhead ==
    /\ \A p \in Pods : Now("last")[p] <= processed
    /\ series = 1 =>
        \A s \in Known : /\ \A p \in Pods : Counted(s.pods, "last")[p] <= processed
                         /\ s.rate.last <= processed

IInv == Types /\ Accounted /\ Joining /\ NoFailures /\ NothingAhead

-----------------------------------------------------------------------------
(* Operators. *)

LEMMA CountedType ==
    ASSUME NEW c \in Counters
    PROVE  /\ \A infos \in [Pods -> Living \cup {Nil}] :
                 Counted(infos, c) \in [Pods -> Nat]
           /\ \A infos \in Infos : Counted(infos, c) \in [Pods -> Nat]
  BY DEF Counted, Counters, Living, Found, Infos

(* Of any number of series of a counter one is read. *)
LEMMA CounterIs ==
    ASSUME Types, NEW v
    PROVE  getCounter(Samples(v)) = v
<1>1. 1 \in 1..series
  BY DEF Types
<1>2. Samples(v)[1] = v /\ DOMAIN Samples(v) # {}
  BY <1>1 DEF Samples
<1>3. Samples(v) # <<>>
  BY <1>2
<1> QED BY <1>2, <1>3 DEF getCounter

LEMMA GaugeIs ==
    ASSUME Types, NEW v \in Nat
    PROVE  /\ getGauge(Samples(v)) \in Nat
           /\ series = 1 => getGauge(Samples(v)) = v
<1>1. Samples(v) \in [1..series -> Nat]
  BY DEF Samples
<1>2. IsFiniteSet(1..series)
  BY FS_Interval DEF Types
<1>3. SumFunction(Samples(v)) \in Nat
  BY <1>1, <1>2, SumOfNaturals
<1>4. ASSUME series = 1 PROVE SumFunction(Samples(v)) = v
  <2> DEFINE D == 1..series
             f == Samples(v)
  <2>1. 1 \in D /\ D \ {1} = {} /\ f[1] = v
    BY <1>4 DEF Samples
  <2>2. IsFiniteSet(D) /\ f \in [D -> Int]
    BY <1>1, <1>2
  <2> HIDE DEF D, f
  <2>3. \A q \in D \ {1} : f[q] = 0
    BY <2>1
  <2>4. SumFunction(f) = f[1]
    BY <2>1, <2>2, <2>3, SumOfOne
  <2> QED BY <2>1, <2>4 DEF f
<1> QED BY <1>3, <1>4 DEF getGauge

(* A scrape finds the pods that it reaches as they are. *)
LEMMA ScrapeIs ==
    ASSUME Types, NEW missed \in SUBSET Pods
    PROVE  /\ Scrape(missed) \in Infos
           /\ \A p \in Pods :
                /\ Scraped(p, missed) =>
                    /\ Scrape(missed)[p] # Nil
                    /\ Scrape(missed)[p].total = pod[p].total
                    /\ Scrape(missed)[p].failed = pod[p].failed
                    /\ series = 1 => Scrape(missed)[p].last = pod[p].last
                /\ ~Scraped(p, missed) => Scrape(missed)[p] = Nil
<1>1. ASSUME NEW p \in Pods, pod[p] # Nil
      PROVE  /\ pod[p].total \in Nat /\ pod[p].failed \in Nat /\ pod[p].last \in Nat
             /\ pod[p].ready \in BOOLEAN
  BY <1>1 DEF Types, Living, Scraped
<1>2. ASSUME NEW p \in Pods, Scraped(p, missed)
      PROVE  /\ Scrape(missed)[p] = [total |-> pod[p].total, failed |-> pod[p].failed,
                             last |-> getGauge(Samples(pod[p].last))]
             /\ getGauge(Samples(pod[p].last)) \in Nat
             /\ series = 1 => getGauge(Samples(pod[p].last)) = pod[p].last
  <2>1. /\ getCounter(Samples(pod[p].total)) = pod[p].total
        /\ getCounter(Samples(pod[p].failed)) = pod[p].failed
    BY CounterIs
  <2>2. /\ getGauge(Samples(pod[p].last)) \in Nat
        /\ series = 1 => getGauge(Samples(pod[p].last)) = pod[p].last
    BY <1>1, <1>2, GaugeIs DEF Scraped
  <2> QED BY <1>2, <2>1, <2>2 DEF Scrape
<1>3. ASSUME NEW p \in Pods, ~Scraped(p, missed)
      PROVE  Scrape(missed)[p] = Nil
  BY <1>3 DEF Scrape
<1>4. DOMAIN Scrape(missed) = Pods /\ Scrape(missed) = [p \in Pods |-> Scrape(missed)[p]]
  BY DEF Scrape
<1>5. ASSUME NEW p \in Pods, Scraped(p, missed)
      PROVE  /\ Scrape(missed)[p] \in Found
             /\ Scrape(missed)[p].total = pod[p].total
             /\ Scrape(missed)[p].failed = pod[p].failed
             /\ series = 1 => Scrape(missed)[p].last = pod[p].last
  <2> DEFINE g == getGauge(Samples(pod[p].last))
  <2>1. /\ pod[p].total \in Nat /\ pod[p].failed \in Nat /\ g \in Nat
        /\ series = 1 => g = pod[p].last
        /\ Scrape(missed)[p] = [total |-> pod[p].total, failed |-> pod[p].failed, last |-> g]
    BY <1>1, <1>2, <1>5 DEF Scraped
  <2> HIDE DEF g
  <2> QED BY <2>1 DEF Found
<1>6. \A p \in Pods : Scrape(missed)[p] \in Found \cup {Nil}
  BY <1>3, <1>5
<1>7. Nil \notin Found
  BY RateAssumption DEF Found
<1> QED BY <1>3, <1>4, <1>5, <1>6, <1>7 DEF Infos

(* The last exchange of a status is not ahead of a time that no pod in it  *)
(* is ahead of.                                                            *)
LEMMA GreatestIs ==
    ASSUME NEW S \in SUBSET Nat, IsFiniteSet(S), S # {}
    PROVE  Max(S) \in S
<1> DEFINE Below(x) == {y \in S : y <= x}
           B == {Below(x) : x \in S}
           C == {S \ Below(x) : x \in S}
<1>1. PICK T \in C : \A U \in SUBSET T : U # T => U \notin C
  <2>1. C \in SUBSET SUBSET S /\ C # {}
    OBVIOUS
  <2> HIDE DEF C
  <2> QED BY <2>1, SmallestSubset
<1>2. PICK x \in S : T = S \ Below(x)
  OBVIOUS
<1>3. \A y \in S : x >= y
  <2>1. SUFFICES ASSUME NEW y \in S, ~(x >= y) PROVE FALSE
    OBVIOUS
  <2>2. y \in T /\ y \notin S \ Below(y)
    BY <1>2, <2>1
  <2>3. \A z \in S : z \notin Below(y) => z \notin Below(x)
    BY <2>1
  <2>4. S \ Below(y) \in SUBSET T
    BY <1>2, <2>3
  <2> QED BY <1>1, <2>2, <2>4
<1>4. \E m \in S : \A y \in S : m >= y
  BY <1>3
<1> QED BY <1>4 DEF Max

LEMMA LatestIs ==
    ASSUME NEW infos \in Infos
    PROVE  LET found == {p \in Pods : infos[p] # Nil} IN
           /\ Latest(infos, found) \in Nat
           /\ \A n \in Nat : (\A p \in found : infos[p].last <= n)
                                => Latest(infos, found) <= n
<1> DEFINE found == {p \in Pods : infos[p] # Nil}
           times == {infos[p].last : p \in found} \cup {0}
<1>1. times \in SUBSET Nat /\ times # {}
  BY DEF Found, Infos
<1>2. IsFiniteSet(times)
  <2>1. IsFiniteSet(found)
    BY FS_Subset, RateAssumption
  <2>2. IsFiniteSet({infos[p].last : p \in found})
    <3> DEFINE f == [p \in found |-> infos[p].last]
               T == {infos[p].last : p \in found}
    <3>1. f \in Surjection(found, T)
      BY DEF Surjection
    <3> QED BY <2>1, <3>1, FS_Surjection
  <2> QED BY <2>2, FS_AddElement
<1>3. Max(times) \in times
  <2> HIDE DEF times
  <2> QED BY <1>1, <1>2, GreatestIs
<1>4. \A p \in found : infos[p].last \in Nat
  BY DEF Found, Infos
<1>5. Latest(infos, found) = Max(times)
  BY DEF Latest
<1>6. \/ Max(times) = 0
      \/ \E p \in found : Max(times) = infos[p].last
  BY <1>3
<1> HIDE DEF times
<1> QED BY <1>4, <1>5, <1>6

(* What a status tells, unless it tells nothing. *)
LEMMA InfoIs ==
    ASSUME NEW infos \in Infos, getInfo(infos) # Nil
    PROVE  /\ getInfo(infos).total = SumFunction(Counted(infos, "total"))
           /\ getInfo(infos).failed = SumFunction(Counted(infos, "failed"))
           /\ getInfo(infos).last = Latest(infos, {p \in Pods : infos[p] # Nil})
  BY DEF getInfo

LEMMA SumsAreNatural ==
    ASSUME Types, NEW c \in Counters
    PROVE  /\ Now(c) \in [Pods -> Nat] /\ SumFunction(Now(c)) \in Nat
           /\ \A infos \in Infos : /\ Counted(infos, c) \in [Pods -> Nat]
                                   /\ SumFunction(Counted(infos, c)) \in Nat
<1>1. Now(c) \in [Pods -> Nat]
  BY CountedType DEF Types, Now
<1>2. \A infos \in Infos : Counted(infos, c) \in [Pods -> Nat]
  BY CountedType
<1> QED BY <1>1, <1>2, SumOfNaturals, RateAssumption

(* A status that tells something has found a pod. *)
LEMMA InfoHasPods ==
    ASSUME NEW infos \in Infos, getInfo(infos) # Nil
    PROVE  \E p \in Pods : infos[p] # Nil
<1> SUFFICES ASSUME \A p \in Pods : infos[p] = Nil PROVE FALSE
  OBVIOUS
<1>1. Counted(infos, "total") \in [Pods -> Int]
  BY CountedType DEF Counters
<1>2. \A p \in Pods : Counted(infos, "total")[p] = 0
  BY DEF Counted
<1>3. SumFunction(Counted(infos, "total")) = 0
  BY <1>1, <1>2, SumOfZeros, RateAssumption
<1>4. {p \in Pods : infos[p] # Nil} = {}
  OBVIOUS
<1> QED BY <1>3, <1>4 DEF getInfo

(* The thresholds are integers. *)
LEMMA ThresholdType == ASSUME Types PROVE ErrPerc \in Int
<1>1. {source.annotation, source.env} \subseteq Int \cup {Unset, Garbage}
  BY RateAssumption DEF Types
<1> QED BY <1>1 DEF ErrPerc, Platform!getSLIExchangeErrorThreshold,
                    Platform!getOperatorEnvAsInt, Platform!DefaultErrorPercentage

(* A rate, from the sums of two statuses. *)
LEMMA RateIs ==
    ASSUME Types, NEW old \in Infos, NEW infos \in Infos,
           getInfo(old) # Nil, getInfo(infos) # Nil
    PROVE  LET r == getSLIExchangeSuccessRate(getInfo(old), getInfo(infos))
               total == SumFunction(Counted(infos, "total"))
                            - SumFunction(Counted(old, "total"))
               failed == SumFunction(Counted(infos, "failed"))
                            - SumFunction(Counted(old, "failed"))
           IN  /\ r \in Rate
               /\ total \in Int /\ failed \in Int
               /\ r.perc # Nil => r.perc.total = total /\ r.perc.failed = failed
               /\ r.total = AtLeastZero(total)
               /\ r.last = Latest(infos, {p \in Pods : infos[p] # Nil})
               /\ failed = 0 => Quiet(r)
<1> DEFINE r == getSLIExchangeSuccessRate(getInfo(old), getInfo(infos))
           i == Interval(getInfo(old), getInfo(infos))
<1>1. /\ Counted(infos, "total") \in [Pods -> Nat]
      /\ Counted(infos, "failed") \in [Pods -> Nat]
      /\ Counted(old, "total") \in [Pods -> Nat]
      /\ Counted(old, "failed") \in [Pods -> Nat]
  BY CountedType DEF Counters
<1>2. /\ SumFunction(Counted(infos, "total")) \in Nat
      /\ SumFunction(Counted(infos, "failed")) \in Nat
      /\ SumFunction(Counted(old, "total")) \in Nat
      /\ SumFunction(Counted(old, "failed")) \in Nat
  BY <1>1, SumOfNaturals, RateAssumption
<1>3. /\ i.total = SumFunction(Counted(infos, "total"))
                       - SumFunction(Counted(old, "total"))
      /\ i.failed = SumFunction(Counted(infos, "failed"))
                       - SumFunction(Counted(old, "failed"))
  BY InfoIs DEF Interval
<1>4. i \in [total : Int, failed : Int]
  <2>1. i = [total |-> i.total, failed |-> i.failed]
    BY DEF Interval
  <2> HIDE DEF i
  <2> QED BY <1>2, <1>3, <2>1
<1>5. r = [perc |-> IF i.total > 0 THEN i ELSE Nil,
           last |-> getInfo(infos).last,
           total |-> AtLeastZero(i.total),
           failed |-> AtLeastZero(i.failed),
           level |-> r.level]
  BY DEF getSLIExchangeSuccessRate
<1>6. r.level = CASE Exceeds(i, WarnPerc) -> "Error"
                  [] ~Exceeds(i, WarnPerc) /\ Exceeds(i, ErrPerc) -> "Warning"
                  [] ~Exceeds(i, WarnPerc) /\ ~Exceeds(i, ErrPerc) /\ i.total > 0 ->
                         "Success"
                  [] OTHER -> ""
  BY DEF getSLIExchangeSuccessRate
<1>7. ASSUME i.failed = 0, NEW n \in Int, 0 <= n
      PROVE  ~Exceeds(i, n)
  <2> DEFINE t == i.total
  <2>1. t \in Int /\ (Exceeds(i, n) <=> IF t > 0 THEN 0 > n * t ELSE 0 > n)
    BY <1>4, <1>7 DEF Exceeds
  <2> HIDE DEF t
  <2>2. t > 0 => n * t >= 0
    BY <1>7, <2>1
  <2>3. n * t \in Int
    BY <2>1
  <2> HIDE DEF i
  <2> QED BY <1>7, <2>1, <2>2, <2>3
<1>8. ASSUME i.failed = 0, 0 <= WarnPerc, 0 <= ErrPerc
      PROVE  r.level \in {"", "Success"}
  <2>1. ~Exceeds(i, WarnPerc) /\ ~Exceeds(i, ErrPerc)
    BY <1>7, <1>8, ThresholdType, RateAssumption
  <2> HIDE DEF i, r
  <2> QED BY <1>6, <2>1
<1>9. r.level \in {"", "Success", "Warning", "Error"}
  <2> HIDE DEF i, r
  <2> QED BY <1>6
<1>10. getInfo(infos).last \in Nat
       /\ getInfo(infos).last = Latest(infos, {p \in Pods : infos[p] # Nil})
  BY InfoIs, LatestIs
<1> DEFINE g == getInfo(infos).last
           l == r.level
<1> HIDE DEF i, r
<1>11. i.total \in Int /\ i.failed \in Int
  BY <1>4
<1>12. r \in Rate
  <2>1. AtLeastZero(i.total) \in Nat /\ AtLeastZero(i.failed) \in Nat
    BY <1>11 DEF AtLeastZero
  <2>2. g \in Nat /\ l \in {"", "Success", "Warning", "Error"}
    BY <1>9, <1>10
  <2>3. r = [perc |-> IF i.total > 0 THEN i ELSE Nil, last |-> g,
             total |-> AtLeastZero(i.total), failed |-> AtLeastZero(i.failed),
             level |-> l]
    BY <1>5
  <2> HIDE DEF g, l
  <2> QED BY <1>4, <2>1, <2>2, <2>3 DEF Rate
<1>13. /\ r.perc = IF i.total > 0 THEN i ELSE Nil
       /\ r.last = g /\ r.total = AtLeastZero(i.total)
       /\ r.failed = AtLeastZero(i.failed)
  <2> HIDE DEF g, l
  <2> QED BY <1>5 DEF g
<1>14. i.failed = 0 => Quiet(r)
  BY <1>8, <1>13 DEF Quiet, AtLeastZero
<1>15. /\ r.perc # Nil => r.perc.total = i.total /\ r.perc.failed = i.failed
       /\ r.last = Latest(infos, {p \in Pods : infos[p] # Nil})
  BY <1>10, <1>13
<1> HIDE DEF g, l
<1> QED BY <1>3, <1>11, <1>12, <1>13, <1>14, <1>15 DEF r

-----------------------------------------------------------------------------
(* The versions of the status. *)

LEMMA VersionsKnown ==
    ASSUME Types
    PROVE  /\ Known \in SUBSET Versions
           /\ Cached \in Known /\ Server \in Known
           /\ \A s \in Known : s.pods \in Infos /\ s.rate \in Rate
<1>1. statuses \in Seq(Versions) /\ Len(statuses) \in Nat /\ Len(statuses) > 0
  BY DEF Types
<1>2. Cached = statuses[1] /\ Server = statuses[Len(statuses)]
  BY <1>1 DEF Cached, Server, Last
<1>3. \A v \in 1..Len(statuses) : statuses[v] \in Versions
  BY <1>1
<1>4. Known = {statuses[v] : v \in 1..Len(statuses)}
  BY <1>1 DEF Known, ToSet
<1> QED BY <1>1, <1>2, <1>3, <1>4 DEF Versions

(* Of a patched version every part is the server's, or the round's.        *)
LEMMA PatchIs ==
    ASSUME Types, NEW pods \in Infos, NEW rate \in Rate, Patch(pods, rate)
    PROVE  \E new \in Versions :
              /\ statuses' \in Seq(Versions) /\ statuses' # <<>>
              /\ Known' \subseteq Known \cup {new}
              /\ Server' = new
              /\ new.pods \in {pods, Server.pods}
              /\ new.rate.perc \in {rate.perc, Server.rate.perc}
              /\ new.rate.failed \in {rate.failed, Server.rate.failed}
              /\ new.rate.last \in {rate.last, Server.rate.last}
              /\ new.rate.level \in {rate.level, Server.rate.level}
              /\ Len(statuses) = 1 => new.pods = pods
<1> DEFINE base == Cached
           server == Server
<1>1. PICK merged \in PatchedPods(base.pods, pods, server.pods) :
          LET new == [pods |-> merged,
                      rate |-> PatchedRate(base.rate, rate, server.rate)]
          IN  statuses' = IF new = server THEN statuses ELSE Append(statuses, new)
  BY DEF Patch
<1>2. /\ statuses \in Seq(Versions) /\ statuses # <<>>
      /\ server \in Known /\ base \in Known /\ server \in Versions
      /\ server.pods \in Infos /\ server.rate \in Rate
      /\ Len(statuses) = 1 => server = base
  <2>1. Len(statuses) = 1 => server = base
    BY DEF Types, Cached, Server, Last
  <2> QED BY <2>1, VersionsKnown DEF Types
<1>3. server = Server
  OBVIOUS
<1> HIDE DEF base, server
<1>4. /\ merged \in {pods, server.pods}
      /\ Len(statuses) = 1 => merged = pods
  BY <1>1, <1>2 DEF PatchedPods, Merge
<1> DEFINE q == PatchedRate(base.rate, rate, server.rate)
           new == [pods |-> merged, rate |-> q]
<1>5. /\ q.perc \in {rate.perc, server.rate.perc}
      /\ q.total \in {rate.total, server.rate.total}
      /\ q.failed \in {rate.failed, server.rate.failed}
      /\ q.last \in {rate.last, server.rate.last}
      /\ q.level \in {rate.level, server.rate.level}
      /\ q = [perc |-> q.perc, total |-> q.total, failed |-> q.failed,
              last |-> q.last, level |-> q.level]
  BY DEF PatchedRate, Merge
<1>6. statuses' = IF new = server THEN statuses ELSE Append(statuses, new)
  BY <1>1
<1> HIDE DEF q
<1>7. q \in Rate
  <2>1. /\ q.perc \in [total : Int, failed : Int] \cup {Nil}
        /\ q.total \in Nat /\ q.failed \in Nat /\ q.last \in Nat
        /\ q.level \in {"", "Success", "Warning", "Error"}
    BY <1>2, <1>5 DEF Rate
  <2> QED BY <1>5, <2>1 DEF Rate
<1>8. new \in Versions /\ new.pods = merged /\ new.rate = q
  BY <1>2, <1>4, <1>7 DEF Versions
<1> HIDE DEF new
<1>9. /\ statuses' \in Seq(Versions) /\ statuses' # <<>>
      /\ Known' \subseteq Known \cup {new}
      /\ Server' = new
  <2>1. CASE new = server
    BY <1>2, <1>3, <1>6, <2>1 DEF Known, Server
  <2>2. CASE new # server
    <3>1. statuses' = Append(statuses, new)
      BY <1>6, <2>2
    <3>2. /\ Append(statuses, new) \in Seq(Versions)
          /\ ToSet(Append(statuses, new)) = ToSet(statuses) \cup {new}
      BY <1>2, <1>8, ToSetAppend
    <3>3. /\ Append(statuses, new) # <<>>
          /\ Last(Append(statuses, new)) = new
      BY <1>2, <1>8 DEF Last
    <3> QED BY <3>1, <3>2, <3>3 DEF Known, Server
  <2> QED BY <2>1, <2>2
<1> QED BY <1>3, <1>4, <1>5, <1>8, <1>9

-----------------------------------------------------------------------------
(* The induction. *)

LEMMA InitInv == Init => IInv
<1> SUFFICES ASSUME Init PROVE IInv
  OBVIOUS
<1> DEFINE first == [pods |-> NoPods, rate |-> NoRate]
<1>1. Fresh \in Living /\ Fresh.total = 0 /\ Fresh.failed = 0 /\ Fresh.last = 0
  BY DEF Fresh, Living
<1>2. first \in Versions /\ first.pods = NoPods /\ first.rate = NoRate
  BY DEF Versions, Infos, Rate, NoPods, NoRate
<1>3. statuses = <<first>>
  BY DEF Init
<1> HIDE DEF first
<1>4. Known = {first} /\ Server = first /\ statuses \in Seq(Versions)
      /\ statuses # <<>>
  BY <1>2, <1>3 DEF Known, ToSet, Server, Last
<1>5. Types
  BY <1>1, <1>4, RateAssumption DEF Init, Types
<1>6. /\ \A c \in Counters, p \in Pods : Now(c)[p] = 0 /\ Counted(NoPods, c)[p] = 0
      /\ {"total", "failed", "last"} = Counters
  BY <1>1 DEF Init, Now, Counted, Counters, NoPods
<1>7. Accounted
  <2>1. ~\E p \in Pods : Server.pods[p] # Nil
    BY <1>2, <1>4 DEF NoPods
  <2> QED BY <2>1 DEF Init, Accounted
<1>8. /\ InRange(NoRate.perc) /\ Quiet(NoRate) /\ NoRate.last = 0
  BY DEF NoRate, InRange, Quiet
<1>9. Joining /\ NoFailures /\ NothingAhead
  BY <1>2, <1>4, <1>6, <1>8
  DEF Init, Joining, JoinedSince, NoFailures, NothingAhead
<1> QED BY <1>5, <1>7, <1>9 DEF IInv

(* A pod's counters become those of w: what has been counted of the other  *)
(* pods stays.                                                             *)
Shown(w, c) == IF w = Nil THEN 0 ELSE w[c]

LEMMA PodChanges ==
    ASSUME Types, NEW p \in Pods, NEW w \in Living \cup {Nil},
           pod' = [pod EXCEPT ![p] = w], NEW c \in Counters
    PROVE  /\ Now(c)' \in [Pods -> Nat]
           /\ Now(c)'[p] = Shown(w, c)
           /\ \A q \in Pods \ {p} : Now(c)'[q] = Now(c)[q]
           /\ SumFunction(Now(c)') = SumFunction(Now(c)) + Now(c)'[p] - Now(c)[p]
<1>1. pod' \in [Pods -> Living \cup {Nil}]
  BY DEF Types
<1>2. Now(c)' \in [Pods -> Nat]
  BY <1>1, CountedType DEF Now
<1>3. /\ Now(c)'[p] = Shown(w, c)
      /\ \A q \in Pods \ {p} : Now(c)'[q] = Now(c)[q]
  <2>1. /\ pod'[p] = w
        /\ \A q \in Pods \ {p} : pod'[q] = pod[q]
    BY DEF Types
  <2>2. Now(c)' = Counted(pod', c) /\ Now(c) = Counted(pod, c)
    BY DEF Now
  <2> QED BY <2>1, <2>2 DEF Counted, Shown
<1>4. /\ Now(c) \in [Pods -> Int]
      /\ Now(c)' \in [Pods -> Int]
  BY <1>2, SumsAreNatural
<1>5. SumFunction(Now(c)') = SumFunction(Now(c)) + Now(c)'[p] - Now(c)[p]
  BY <1>3, <1>4, SumOfChange, RateAssumption
<1> QED BY <1>2, <1>3, <1>5

LEMMA ExchangeStep ==
    ASSUME IInv, NEW p \in Pods, NEW failed \in BOOLEAN, Exchange(p, failed)
    PROVE  IInv'
<1> USE DEF Counters
<1> DEFINE w == [ready |-> pod[p].ready, total |-> pod[p].total + 1,
                 failed |-> IF failed THEN pod[p].failed + 1 ELSE pod[p].failed,
                 last |-> processed + 1]
<1>1. Types
  BY DEF IInv
<1>2. pod[p] \in Living /\ pod[p] # Nil /\ processed \in Nat /\ failures \in Nat
  BY <1>1 DEF Exchange, Types
<1>3. w \in Living
  BY <1>2 DEF Living
<1>4. pod' = [pod EXCEPT ![p] = w]
  BY DEF Exchange
<1>5. /\ UNCHANGED <<series, source, statuses, sampled, churn>>
      /\ processed' = processed + 1
      /\ failures' = IF failed THEN failures + 1 ELSE failures
  BY DEF Exchange
<1>6. /\ w # Nil /\ w.total = pod[p].total + 1 /\ w.last = processed + 1
      /\ w.failed = IF failed THEN pod[p].failed + 1 ELSE pod[p].failed
  BY <1>3, RateAssumption DEF Living
<1>7. /\ Now("total")[p] = pod[p].total /\ Now("failed")[p] = pod[p].failed
      /\ Now("last")[p] = pod[p].last
  BY <1>2 DEF Now, Counted
<1> HIDE DEF w
<1>8. \A c \in Counters :
        /\ Now(c) \in [Pods -> Nat] /\ SumFunction(Now(c)) \in Nat
        /\ Now(c)' \in [Pods -> Nat]
        /\ Now(c)'[p] = w[c]
        /\ \A q \in Pods \ {p} : Now(c)'[q] = Now(c)[q]
        /\ SumFunction(Now(c)') = SumFunction(Now(c)) + Now(c)'[p] - Now(c)[p]
        /\ \A infos \in Infos : /\ Counted(infos, c) \in [Pods -> Nat]
                                /\ SumFunction(Counted(infos, c)) \in Nat
  BY <1>1, <1>3, <1>4, <1>6, PodChanges, SumsAreNatural DEF Shown
<1>9. /\ Known' = Known /\ Server' = Server /\ Server \in Known
      /\ \A s \in Known : s.pods \in Infos /\ s.rate \in Rate
  BY <1>1, <1>5, VersionsKnown DEF Known, Server
<1>10. Types'
  BY <1>1, <1>2, <1>3, <1>4, <1>5 DEF Types
<1>11. Accounted'
  <2>1. SumFunction(Now("total")') = SumFunction(Now("total")) + 1
    BY <1>2, <1>6, <1>7, <1>8 DEF Living
  <2>2. SumFunction(Counted(Server.pods, "total")) \in Nat
    BY <1>8, <1>9
  <2> SUFFICES ASSUME churn \cap {"unscraped", "stale"} = {}
               PROVE  /\ sampled <= processed + 1
                      /\ (\E q \in Pods : Server.pods[q] # Nil) =>
                            sampled + (SumFunction(Now("total")) + 1)
                                - SumFunction(Counted(Server.pods, "total"))
                                    <= processed + 1
    BY <1>5, <1>9, <2>1 DEF Accounted
  <2>3. /\ sampled <= processed
        /\ (\E q \in Pods : Server.pods[q] # Nil) =>
              sampled + SumFunction(Now("total"))
                  - SumFunction(Counted(Server.pods, "total")) <= processed
    BY DEF IInv, Accounted
  <2>4. sampled \in Nat /\ SumFunction(Now("total")) \in Nat
    BY <1>1, <1>8 DEF Types
  <2> QED BY <1>2, <2>2, <2>3, <2>4
<1>12. Joining'
  <2>1. ASSUME NEW s \in Known, NEW q \in Pods, JoinedSince(s.pods, q)
        PROVE  JoinedSince(s.pods, q)'
    <3> DEFINE F == Counted(s.pods, "failed")
               T == Counted(s.pods, "total")
    <3>1. F[q] <= Now("failed")[q] /\ Now("failed")[q] + T[q] <= Now("total")[q] + F[q]
      BY <2>1 DEF JoinedSince
    <3>2. /\ Now("failed")[q] \in Nat /\ F[q] \in Nat
          /\ Now("total")[q] \in Nat /\ T[q] \in Nat
      BY <1>8, <1>9
    <3> HIDE DEF F, T
    <3>3. CASE q = p
      <4>1. Now("total")'[q] = Now("total")[q] + 1
        BY <1>6, <1>7, <1>8, <3>3
      <4>2. Now("failed")'[q] \in {Now("failed")[q], Now("failed")[q] + 1}
        BY <1>6, <1>7, <1>8, <3>3
      <4>3. F[q] <= Now("failed")'[q] /\ Now("failed")'[q] + T[q] <= Now("total")'[q] + F[q]
        BY <3>1, <3>2, <4>1, <4>2
      <4> QED BY <4>3 DEF F, T, JoinedSince
    <3>4. CASE q # p
      <4>1. /\ Now("total")'[q] = Now("total")[q]
            /\ Now("failed")'[q] = Now("failed")[q]
        BY <1>8, <3>4
      <4> QED BY <3>1, <4>1 DEF F, T, JoinedSince
    <3> QED BY <3>3, <3>4
  <2> QED BY <1>5, <1>9, <2>1 DEF IInv, Joining
<1>13. NoFailures'
  <2> SUFFICES ASSUME failures' = 0 PROVE NoFailures'
    BY DEF NoFailures
  <2>1. failures = 0 /\ ~failed
    BY <1>2, <1>5
  <2>2. \A q \in Pods : Now("failed")'[q] = 0
    BY <1>6, <1>7, <1>8, <2>1 DEF IInv, NoFailures
  <2>3. ErrPerc' = ErrPerc
    BY <1>5 DEF ErrPerc
  <2> QED BY <1>9, <2>1, <2>2, <2>3 DEF IInv, NoFailures, Quiet
<1>14. NothingAhead'
  <2>1. ASSUME NEW q \in Pods
        PROVE  Now("last")'[q] <= processed'
    <3>1. Now("last")[q] <= processed /\ Now("last")[q] \in Nat
      BY <1>8 DEF IInv, NothingAhead
    <3>2. Now("last")'[q] \in {Now("last")[q], processed + 1}
      BY <1>6, <1>8
    <3> QED BY <1>2, <1>5, <3>1, <3>2
  <2>2. ASSUME series = 1, NEW s \in Known
        PROVE  /\ \A q \in Pods : Counted(s.pods, "last")[q] <= processed'
               /\ s.rate.last <= processed'
    <3>1. /\ \A q \in Pods : Counted(s.pods, "last")[q] <= processed
          /\ s.rate.last <= processed
      BY <2>2 DEF IInv, NothingAhead
    <3>2. /\ \A q \in Pods : Counted(s.pods, "last")[q] \in Nat
          /\ s.rate.last \in Nat
      BY <1>8, <1>9 DEF Rate
    <3> QED BY <1>2, <1>5, <3>1, <3>2
  <2> QED BY <1>5, <1>9, <2>1, <2>2 DEF NothingAhead
<1> QED BY <1>10, <1>11, <1>12, <1>13, <1>14 DEF IInv

(* Whatever happens to a pod, no counter of it grows, and none changes     *)
(* unless it restarts or stops.                                            *)
LEMMA ChangedStep ==
    ASSUME IInv, NEW p \in Pods, NEW w \in Living \cup {Nil}, Changed(p, w),
           churn \subseteq churn',
           \A c \in Counters : Shown(w, c) <= Now(c)[p],
           churn' \cap {"restart", "stop", "unscraped"} = {} =>
               \A c \in Counters : Shown(w, c) = Now(c)[p]
    PROVE  IInv'
<1> USE DEF Counters
<1>1. Types
  BY DEF IInv
<1>2. /\ UNCHANGED <<series, source, statuses, processed, failures, sampled>>
      /\ pod' = [pod EXCEPT ![p] = w]
  BY DEF Changed
<1>3. processed \in Nat /\ failures \in Nat /\ sampled \in Nat
  BY <1>1 DEF Types
<1>4. \A c \in Counters :
        /\ Now(c) \in [Pods -> Nat] /\ SumFunction(Now(c)) \in Nat
        /\ Now(c)' \in [Pods -> Nat]
        /\ Now(c)'[p] = Shown(w, c)
        /\ \A q \in Pods \ {p} : Now(c)'[q] = Now(c)[q]
        /\ SumFunction(Now(c)') = SumFunction(Now(c)) + Now(c)'[p] - Now(c)[p]
        /\ \A infos \in Infos : SumFunction(Counted(infos, c)) \in Nat
  BY <1>1, <1>2, PodChanges, SumsAreNatural
<1>5. /\ Known' = Known /\ Server' = Server /\ Server.pods \in Infos
  BY <1>1, <1>2, VersionsKnown DEF Known, Server
<1>6. Types'
  BY <1>1, <1>2 DEF Types
<1>7. Accounted'
  <2>1. SumFunction(Now("total")') <= SumFunction(Now("total"))
    BY <1>4
  <2>2. SumFunction(Now("total")') \in Int /\ SumFunction(Now("total")) \in Int
        /\ SumFunction(Counted(Server.pods, "total")) \in Int
    BY <1>4, <1>5
  <2> QED BY <1>2, <1>3, <1>5, <2>1, <2>2 DEF IInv, Accounted
<1>8. Joining'
  <2> SUFFICES ASSUME churn' \cap {"restart", "stop", "unscraped"} = {}
               PROVE  Joining'
    BY DEF Joining
  <2>1. \A c \in Counters, q \in Pods : Now(c)'[q] = Now(c)[q]
    BY <1>4
  <2>2. churn \cap {"restart", "stop", "unscraped"} = {}
    OBVIOUS
  <2> QED BY <1>5, <2>1, <2>2 DEF IInv, Joining, JoinedSince
<1>9. NoFailures'
  <2>1. ASSUME failures = 0, NEW q \in Pods
        PROVE  Now("failed")'[q] = 0
    <3>1. Now("failed")[q] = 0
      BY <2>1 DEF IInv, NoFailures
    <3>2. Now("failed")'[q] \in Nat /\ Now("failed")'[q] <= Now("failed")[q]
      BY <1>4
    <3> QED BY <3>1, <3>2
  <2>2. ErrPerc' = ErrPerc
    BY <1>2 DEF ErrPerc
  <2> QED BY <1>2, <1>5, <2>1, <2>2 DEF IInv, NoFailures, Quiet
<1>10. NothingAhead'
  <2>1. ASSUME NEW q \in Pods
        PROVE  Now("last")'[q] <= processed
    <3>1. Now("last")[q] <= processed
      BY DEF IInv, NothingAhead
    <3>2. /\ Now("last")'[q] \in Nat /\ Now("last")[q] \in Nat
          /\ Now("last")'[q] <= Now("last")[q]
      BY <1>4
    <3> QED BY <1>3, <3>1, <3>2
  <2> QED BY <1>2, <1>5, <2>1 DEF IInv, NothingAhead
<1> QED BY <1>6, <1>7, <1>8, <1>9, <1>10 DEF IInv

LEMMA FreshShown == Fresh \in Living /\ \A c \in Counters : Shown(Fresh, c) = 0
<1>1. Fresh \in Living
  BY DEF Fresh, Living
<1> QED BY <1>1, RateAssumption DEF Fresh, Living, Shown, Counters

LEMMA PodStep ==
    ASSUME IInv, NEW p \in Pods,
           PodStarts(p) \/ PodStops(p) \/ PodRestarts(p) \/ PodReady(p)
    PROVE  IInv'
<1>1. Types
  BY DEF IInv
<1>2. pod[p] \in Living \cup {Nil}
  BY <1>1 DEF Types
<1>3. \A c \in Counters : /\ Now(c)[p] = Shown(pod[p], c)
                          /\ Now(c)[p] \in Nat
  BY <1>1, SumsAreNatural DEF Now, Counted, Shown
<1>4. \A c \in Counters : Shown(Nil, c) = 0
  BY DEF Shown
<1>5. CASE PodStarts(p)
  <2>1. Changed(p, Fresh) /\ churn' = churn /\ pod[p] = Nil
    BY <1>5 DEF PodStarts
  <2> QED BY <1>3, <1>4, <2>1, FreshShown, ChangedStep
<1>6. CASE PodStops(p)
  <2>1. Changed(p, Nil) /\ churn' = churn \cup {"stop"}
    BY <1>6 DEF PodStops, Disturbed
  <2> QED BY <1>3, <1>4, <2>1, ChangedStep
<1>7. CASE PodRestarts(p)
  <2>1. Changed(p, Fresh) /\ churn' = churn \cup {"restart"}
    BY <1>7 DEF PodRestarts, Disturbed
  <2> QED BY <1>3, <2>1, FreshShown, ChangedStep
<1>8. CASE PodReady(p)
  <2> DEFINE w == [pod[p] EXCEPT !.ready = ~@]
  <2>1. Changed(p, w) /\ churn' = churn /\ pod[p] # Nil
    BY <1>8 DEF PodReady
  <2>2. w \in Living
    BY <1>2, <2>1 DEF Living
  <2>3. \A c \in Counters : w[c] = pod[p][c]
    BY <1>2, <2>1 DEF Living, Counters
  <2>4. w # Nil
    BY <2>2, RateAssumption DEF Living
  <2> HIDE DEF w
  <2>5. \A c \in Counters : Shown(w, c) = Now(c)[p]
    BY <1>3, <2>1, <2>3, <2>4 DEF Shown
  <2>6. \A c \in Counters : Shown(w, c) <= Now(c)[p]
    BY <1>3, <2>5
  <2> QED BY <2>1, <2>2, <2>5, <2>6, ChangedStep
<1> QED BY <1>5, <1>6, <1>7, <1>8

(* A patch preserves the invariant if what it patches satisfies it.        *)
LEMMA PatchStep ==
    ASSUME IInv, NEW pods \in Infos, NEW rate \in Rate, Patch(pods, rate),
           UNCHANGED <<series, source, pod, processed, failures>>,
           churn \subseteq churn', sampled' \in Nat, Accounted',
           churn' \cap {"restart", "stop", "unscraped"} = {} =>
               (\A p \in Pods : JoinedSince(pods, p)) /\ InRange(rate.perc),
           failures = 0 =>
               (\A p \in Pods : Counted(pods, "failed")[p] = 0) /\ Quiet(rate),
           series = 1 =>
               /\ \A p \in Pods : Counted(pods, "last")[p] <= processed
               /\ rate.last <= processed
    PROVE  IInv'
<1>1. Types
  BY DEF IInv
<1>2. PICK new \in Versions :
          /\ statuses' \in Seq(Versions) /\ statuses' # <<>>
          /\ Known' \subseteq Known \cup {new}
          /\ new.pods \in {pods, Server.pods}
          /\ new.rate.perc \in {rate.perc, Server.rate.perc}
          /\ new.rate.failed \in {rate.failed, Server.rate.failed}
          /\ new.rate.last \in {rate.last, Server.rate.last}
          /\ new.rate.level \in {rate.level, Server.rate.level}
  BY <1>1, PatchIs
<1>3. Server \in Known
  BY <1>1, VersionsKnown
<1>4. \A c : Now(c)' = Now(c)
  BY DEF Now, Counted
<1>5. ErrPerc' = ErrPerc
  BY DEF ErrPerc
<1>6. Types'
  BY <1>1, <1>2 DEF Types
<1>7. Joining'
  <2> SUFFICES ASSUME churn' \cap {"restart", "stop", "unscraped"} = {}
               PROVE  Joining'
    BY DEF Joining
  <2>1. \A s \in Known : /\ \A p \in Pods : JoinedSince(s.pods, p)
                         /\ InRange(s.rate.perc)
    BY DEF IInv, Joining
  <2>2. InRange(new.rate.perc)
    BY <1>2, <1>3, <2>1
  <2>3. \A p \in Pods : JoinedSince(new.pods, p)
    BY <1>2, <1>3, <2>1
  <2>4. \A s \in Known' : /\ \A p \in Pods : JoinedSince(s.pods, p)
                          /\ InRange(s.rate.perc)
    BY <1>2, <2>1, <2>2, <2>3
  <2>5. ASSUME NEW s, NEW p, JoinedSince(s.pods, p)
        PROVE  JoinedSince(s.pods, p)'
    BY <1>4, <2>5 DEF JoinedSince
  <2> QED BY <2>4, <2>5 DEF Joining
<1>8. NoFailures'
  <2> SUFFICES ASSUME failures = 0 PROVE NoFailures'
    BY DEF NoFailures
  <2>1. \A s \in Known : /\ \A p \in Pods : Counted(s.pods, "failed")[p] = 0
                         /\ Quiet(s.rate)
    BY DEF IInv, NoFailures
  <2>2. \A p \in Pods : Counted(new.pods, "failed")[p] = 0
    BY <1>2, <1>3, <2>1
  <2>3. Quiet(new.rate)
    BY <1>2, <1>3, <2>1 DEF Quiet
  <2>4. \A s \in Known' : /\ \A p \in Pods : Counted(s.pods, "failed")[p] = 0
                          /\ Quiet(s.rate)
    BY <1>2, <2>1, <2>2, <2>3
  <2>5. \A p \in Pods : Now("failed")'[p] = 0
    BY <1>4 DEF IInv, NoFailures
  <2> QED BY <1>5, <2>4, <2>5 DEF NoFailures, Quiet
<1>9. NothingAhead'
  <2>1. ASSUME series = 1, NEW s \in Known'
        PROVE  /\ \A p \in Pods : Counted(s.pods, "last")[p] <= processed
               /\ s.rate.last <= processed
    <3>1. \A t \in Known : /\ \A p \in Pods : Counted(t.pods, "last")[p] <= processed
                           /\ t.rate.last <= processed
      BY <2>1 DEF IInv, NothingAhead
    <3> QED BY <1>2, <1>3, <2>1, <3>1
  <2> QED BY <1>4, <2>1 DEF IInv, NothingAhead
<1> QED BY <1>6, <1>7, <1>8, <1>9 DEF IInv

(* What a round has counted: all there is if it misses no pod that has     *)
(* processed exchanges.                                                    *)
LEMMA RoundCounts ==
    ASSUME Types, NEW missed \in SUBSET Pods, NEW c \in {"total", "failed"}
    PROVE  /\ \A p \in Pods : Counted(Scrape(missed), c)[p] \in {Now(c)[p], 0}
           /\ ~Unscraped(missed) => Counted(Scrape(missed), c) = Now(c)
<1>1. Counted(Scrape(missed), c) \in [Pods -> Nat] /\ Now(c) \in [Pods -> Nat]
  BY ScrapeIs, CountedType, SumsAreNatural DEF Counters
<1>2. ASSUME NEW p \in Pods, Scraped(p, missed)
      PROVE  Counted(Scrape(missed), c)[p] = Now(c)[p]
  <2>1. pod[p] # Nil
    BY <1>2 DEF Scraped
  <2> QED BY <1>2, <2>1, ScrapeIs DEF Counted, Now
<1>3. ASSUME NEW p \in Pods, ~Scraped(p, missed)
      PROVE  Counted(Scrape(missed), c)[p] = 0
  BY <1>3, ScrapeIs DEF Counted
<1>4. ASSUME NEW p \in Pods, ~Scraped(p, missed), ~Unscraped(missed)
      PROVE  Now(c)[p] = 0
  <2>1. CASE pod[p] = Nil
    BY <2>1 DEF Now, Counted
  <2>2. CASE pod[p] # Nil
    <3>1. pod[p] \in Living /\ ~(pod[p].total > 0)
      BY <1>4, <2>2 DEF Types, Unscraped
    <3>2. pod[p].total = 0 /\ pod[p].failed = 0
      BY <3>1 DEF Living
    <3> QED BY <2>2, <3>2 DEF Now, Counted
  <2> QED BY <2>1, <2>2
<1>5. ASSUME ~Unscraped(missed)
      PROVE  Counted(Scrape(missed), c) = Now(c)
  <2>1. \A p \in Pods : Counted(Scrape(missed), c)[p] = Now(c)[p]
    BY <1>2, <1>3, <1>4, <1>5
  <2> QED BY <1>1, <2>1
<1> QED BY <1>2, <1>3, <1>5

(* The sums of two counters of pods that only join.                        *)
LEMMA IntervalInRange ==
    ASSUME Types, NEW infos \in Infos, \A p \in Pods : JoinedSince(infos, p)
    PROVE  LET total == SumFunction(Now("total")) - SumFunction(Counted(infos, "total"))
               failed == SumFunction(Now("failed")) - SumFunction(Counted(infos, "failed"))
           IN  0 <= failed /\ failed <= total
<1> DEFINE F == Counted(infos, "failed")
           T == Counted(infos, "total")
           NF == Now("failed")
           NT == Now("total")
<1>1. /\ F \in [Pods -> Nat] /\ T \in [Pods -> Nat]
      /\ NF \in [Pods -> Nat] /\ NT \in [Pods -> Nat]
      /\ SumFunction(F) \in Nat /\ SumFunction(T) \in Nat
      /\ SumFunction(NF) \in Nat /\ SumFunction(NT) \in Nat
  BY SumsAreNatural DEF Counters
<1>2. \A p \in Pods : F[p] <= NF[p] /\ NF[p] + T[p] <= NT[p] + F[p]
  BY DEF JoinedSince
<1> HIDE DEF F, T, NF, NT
<1>3. F \in [Pods -> Int] /\ T \in [Pods -> Int]
      /\ NF \in [Pods -> Int] /\ NT \in [Pods -> Int]
  BY <1>1
<1>4. SumFunction(NF) + SumFunction(T) <= SumFunction(NT) + SumFunction(F)
  BY <1>2, <1>3, SumCompares, RateAssumption
<1>5. SumFunction(F) + SumFunction(F) <= SumFunction(NF) + SumFunction(F)
  <2>1. \A p \in Pods : F[p] + F[p] <= NF[p] + F[p]
    BY <1>1, <1>2
  <2> QED BY <1>3, <2>1, SumCompares, RateAssumption
<1>6. /\ 0 <= SumFunction(NF) - SumFunction(F)
      /\ SumFunction(NF) - SumFunction(F) <= SumFunction(NT) - SumFunction(T)
  BY <1>1, <1>4, <1>5
<1> QED BY <1>6 DEF F, T, NF, NT

LEMMA RoundStep ==
    ASSUME IInv, NEW missed \in SUBSET Pods, Round(missed)
    PROVE  IInv'
<1> DEFINE base == Cached.pods
           found == Scrape(missed)
           app == getInfo(base)
           target == getInfo(found)
           rated == app # Nil /\ target # Nil
           rate == IF rated THEN getSLIExchangeSuccessRate(app, target)
                            ELSE Cached.rate
           total == SumFunction(Counted(found, "total"))
                        - SumFunction(Counted(base, "total"))
           failed == SumFunction(Counted(found, "failed"))
                        - SumFunction(Counted(base, "failed"))
<1>1. Types
  BY DEF IInv
<1>2. /\ UNCHANGED <<series, source, pod, processed, failures>>
      /\ Patch(found, rate)
      /\ sampled' = IF rated THEN sampled + rate.total ELSE sampled
      /\ churn \subseteq churn'
      /\ Unscraped(missed) => "unscraped" \in churn'
      /\ Len(statuses) > 1 => "stale" \in churn'
  BY DEF Round, Previous
<1>3. /\ Cached \in Known /\ Server \in Known
      /\ base \in Infos /\ Cached.rate \in Rate /\ Server.pods \in Infos
      /\ found \in Infos
  BY <1>1, VersionsKnown, ScrapeIs
<1>4. ASSUME rated
      PROVE  /\ rate \in Rate
             /\ total \in Int /\ failed \in Int
             /\ rate.perc # Nil => rate.perc.total = total /\ rate.perc.failed = failed
             /\ rate.total = AtLeastZero(total)
             /\ rate.last = Latest(found, {p \in Pods : found[p] # Nil})
             /\ failed = 0 => Quiet(rate)
  BY <1>1, <1>3, <1>4, RateIs
<1>5. ~rated => rate = Cached.rate
  OBVIOUS
<1>6. app # Nil => \E p \in Pods : base[p] # Nil
  BY <1>3, InfoHasPods
<1>7. /\ \A c \in {"total", "failed"}, p \in Pods : Counted(found, c)[p] \in {Now(c)[p], 0}
      /\ ~Unscraped(missed) => /\ Counted(found, "total") = Now("total")
                               /\ Counted(found, "failed") = Now("failed")
  BY <1>1, RoundCounts
<1>8. ASSUME NEW p \in Pods, series = 1, found[p] # Nil
      PROVE  found[p].last <= processed
  <2>1. Scraped(p, missed) /\ found[p].last = pod[p].last /\ pod[p] # Nil
    BY <1>1, <1>8, ScrapeIs DEF Scraped
  <2>2. Now("last")[p] <= processed /\ Now("last")[p] = pod[p].last
    BY <2>1 DEF IInv, NothingAhead, Now, Counted
  <2> QED BY <2>1, <2>2
<1>9. /\ processed \in Nat /\ sampled \in Nat
      /\ SumFunction(Now("total")) \in Nat
      /\ \A c \in {"total", "failed"} : /\ SumFunction(Counted(found, c)) \in Nat
                                        /\ SumFunction(Counted(base, c)) \in Nat
                                        /\ Counted(base, c) \in [Pods -> Nat]
                                        /\ Counted(found, c) \in [Pods -> Nat]
  BY <1>1, <1>3, SumsAreNatural DEF Types, Counters
<1> HIDE DEF app, target, rate, found
<1>10. rate \in Rate
  BY <1>3, <1>4, <1>5
<1>11. sampled' \in Nat
  <2>1. rate.total \in Nat
    BY <1>10 DEF Rate
  <2> QED BY <1>2, <1>9, <2>1
<1>12. ASSUME churn' \cap {"restart", "stop", "unscraped"} = {}
       PROVE  (\A p \in Pods : JoinedSince(found, p)) /\ InRange(rate.perc)
  <2>1. ~Unscraped(missed) /\ churn \cap {"restart", "stop", "unscraped"} = {}
    BY <1>2, <1>12
  <2>2. /\ Counted(found, "total") = Now("total")
        /\ Counted(found, "failed") = Now("failed")
    BY <1>7, <2>1
  <2>3. \A p \in Pods : JoinedSince(found, p)
    BY <1>9, <2>2 DEF JoinedSince
  <2>4. (\A p \in Pods : JoinedSince(base, p)) /\ InRange(Cached.rate.perc)
    BY <1>3, <2>1 DEF IInv, Joining
  <2>5. 0 <= failed /\ failed <= total
    BY <1>1, <1>3, <2>2, <2>4, IntervalInRange
  <2> HIDE DEF total, failed, base
  <2>6. InRange(rate.perc)
    BY <1>4, <1>5, <2>4, <2>5 DEF InRange
  <2> QED BY <2>3, <2>6
<1>13. ASSUME failures = 0
       PROVE  (\A p \in Pods : Counted(found, "failed")[p] = 0) /\ Quiet(rate)
  <2>1. \A p \in Pods : Counted(found, "failed")[p] = 0
    BY <1>7, <1>13 DEF IInv, NoFailures
  <2>2. /\ \A p \in Pods : Counted(base, "failed")[p] = 0
        /\ Quiet(Cached.rate)
    BY <1>3, <1>13 DEF IInv, NoFailures
  <2>3. Counted(found, "failed") \in [Pods -> Int] /\ Counted(base, "failed") \in [Pods -> Int]
    BY <1>9
  <2>4. SumFunction(Counted(found, "failed")) = 0 /\ SumFunction(Counted(base, "failed")) = 0
    BY <2>1, <2>2, <2>3, SumOfZeros, RateAssumption
  <2>5. failed = 0
    BY <2>4
  <2> HIDE DEF failed
  <2> QED BY <1>4, <1>5, <2>1, <2>2, <2>5
<1>14. ASSUME series = 1
       PROVE  /\ \A p \in Pods : Counted(found, "last")[p] <= processed
              /\ rate.last <= processed
  <2>1. \A p \in Pods : Counted(found, "last")[p] <= processed
    BY <1>8, <1>9, <1>14 DEF Counted
  <2>2. Latest(found, {p \in Pods : found[p] # Nil}) <= processed
    BY <1>3, <1>8, <1>9, <1>14, LatestIs
  <2>3. Cached.rate.last <= processed
    BY <1>3, <1>14 DEF IInv, NothingAhead
  <2> QED BY <1>4, <1>5, <2>1, <2>2, <2>3
<1>15. Accounted'
  <2> SUFFICES ASSUME churn' \cap {"unscraped", "stale"} = {} PROVE Accounted'
    BY DEF Accounted
  <2>1. /\ ~Unscraped(missed) /\ Len(statuses) = 1
        /\ churn \cap {"unscraped", "stale"} = {}
    <3>1. Len(statuses) \in Nat /\ Len(statuses) > 0
      BY <1>1 DEF Types
    <3>2. "unscraped" \notin churn' /\ "stale" \notin churn'
      OBVIOUS
    <3>3. ~Unscraped(missed) /\ ~(Len(statuses) > 1)
      BY <1>2, <3>2
    <3>4. churn \cap {"unscraped", "stale"} = {}
      BY <1>2
    <3>5. \A n \in Nat : n > 0 /\ ~(n > 1) => n = 1
      OBVIOUS
    <3>6. Len(statuses) = 1
      BY <3>1, <3>3, <3>5, Zenon
    <3>7. ~Unscraped(missed)
      BY <3>3
    <3> QED BY <3>4, <3>6, <3>7, Zenon
  <2>2. Server = Cached
    BY <2>1 DEF Server, Cached, Last
  <2>3. Server'.pods = found
    BY <1>1, <1>2, <1>3, <1>10, <2>1, PatchIs
  <2>4. Now("total")' = Now("total")
    BY <1>2 DEF Now
  <2>5. SumFunction(Counted(found, "total")) = SumFunction(Now("total"))
    BY <1>7, <2>1
  <2>6. sampled' <= processed
    <3>1. CASE rated
      <4>1. /\ sampled <= processed
            /\ sampled + SumFunction(Now("total")) - SumFunction(Counted(base, "total"))
                   <= processed
        BY <1>6, <2>1, <2>2, <3>1 DEF IInv, Accounted
      <4>2. sampled + total <= processed /\ total \in Int
        BY <1>9, <2>5, <4>1
      <4>3. sampled' = sampled + AtLeastZero(total)
        BY <1>2, <1>4, <3>1
      <4> HIDE DEF total
      <4> QED BY <1>9, <4>1, <4>2, <4>3 DEF AtLeastZero
    <3>2. CASE ~rated
      BY <1>2, <2>1, <3>2 DEF IInv, Accounted
    <3> QED BY <3>1, <3>2
  <2>7. sampled' + SumFunction(Now("total")') - SumFunction(Counted(Server'.pods, "total"))
            <= processed
    BY <1>9, <1>11, <2>3, <2>4, <2>5, <2>6
  <2> QED BY <1>2, <2>6, <2>7 DEF Accounted
<1> QED BY <1>2, <1>3, <1>10, <1>11, <1>12, <1>13, <1>14, <1>15, PatchStep

LEMMA ListFailsStep ==
    ASSUME IInv, ListFails
    PROVE  IInv'
<1>1. Types
  BY DEF IInv
<1>2. /\ UNCHANGED <<series, source, pod, processed, failures, sampled, churn>>
      /\ Patch(NoPods, Cached.rate)
  BY DEF ListFails
<1>3. /\ Cached \in Known /\ Server \in Known /\ Cached.rate \in Rate
      /\ NoPods \in Infos
  BY <1>1, VersionsKnown DEF NoPods, Infos
<1>4. /\ \A c \in Counters, p \in Pods : Counted(NoPods, c)[p] = 0
      /\ {"total", "failed", "last"} = Counters
  BY DEF Counted, NoPods, Counters
<1>5. sampled \in Nat /\ processed \in Nat
  BY <1>1 DEF Types
<1>6. \A p \in Pods : /\ Now("failed")[p] \in Nat /\ Now("total")[p] \in Nat
                      /\ Now("failed")[p] <= Now("total")[p]
  <2> SUFFICES ASSUME NEW p \in Pods
               PROVE  /\ Now("failed")[p] \in Nat /\ Now("total")[p] \in Nat
                      /\ Now("failed")[p] <= Now("total")[p]
    OBVIOUS
  <2>1. CASE pod[p] = Nil
    BY <2>1 DEF Now, Counted
  <2>2. CASE pod[p] # Nil
    <3>1. pod[p] \in Living
      BY <1>1, <2>2 DEF Types
    <3> QED BY <2>2, <3>1 DEF Living, Now, Counted
  <2> QED BY <2>1, <2>2
<1>7. ASSUME churn \cap {"restart", "stop", "unscraped"} = {}
      PROVE  (\A p \in Pods : JoinedSince(NoPods, p)) /\ InRange(Cached.rate.perc)
  <2>1. \A p \in Pods : JoinedSince(NoPods, p)
    BY <1>4, <1>6 DEF JoinedSince
  <2> QED BY <1>3, <1>7, <2>1 DEF IInv, Joining
<1>8. ASSUME failures = 0
      PROVE  (\A p \in Pods : Counted(NoPods, "failed")[p] = 0) /\ Quiet(Cached.rate)
  BY <1>3, <1>4, <1>8 DEF IInv, NoFailures
<1>9. ASSUME series = 1
      PROVE  /\ \A p \in Pods : Counted(NoPods, "last")[p] <= processed
             /\ Cached.rate.last <= processed
  BY <1>3, <1>4, <1>5, <1>9 DEF IInv, NothingAhead
<1>10. Accounted'
  <2>1. Server'.pods \in {NoPods, Server.pods}
    BY <1>1, <1>2, <1>3, PatchIs
  <2>2. Now("total")' = Now("total")
    BY <1>2 DEF Now
  <2>3. \A p \in Pods : NoPods[p] = Nil
    BY DEF NoPods
  <2> QED BY <1>2, <2>1, <2>2, <2>3 DEF IInv, Accounted
<1> QED BY <1>2, <1>3, <1>5, <1>7, <1>8, <1>9, <1>10, PatchStep

LEMMA CacheUpdateStep ==
    ASSUME IInv, CacheUpdate
    PROVE  IInv'
<1>1. Types /\ statuses \in Seq(Versions) /\ Len(statuses) > 1
  BY DEF IInv, Types, CacheUpdate
<1>2. /\ statuses' = Tail(statuses)
      /\ UNCHANGED <<series, source, pod, processed, failures, sampled, churn>>
  BY DEF CacheUpdate
<1>3. statuses' \in Seq(Versions) /\ statuses' # <<>>
  <2>1. Tail(statuses) \in Seq(Versions) /\ Len(Tail(statuses)) = Len(statuses) - 1
    BY <1>1
  <2>2. Len(Tail(statuses)) # 0
    BY <1>1, <2>1
  <2>3. Len(<<>>) = 0
    OBVIOUS
  <2>4. Tail(statuses) # <<>>
    BY <2>2, <2>3, Zenon
  <2> QED BY <1>2, <2>1, <2>4
<1>4. Known' \subseteq Known
  BY <1>1, <1>2, ToSetTail DEF Known
<1>5. Server' = Server
  BY <1>1, <1>2 DEF Server, Last
<1>6. \A c : Now(c)' = Now(c)
  BY <1>2 DEF Now
<1>7. ErrPerc' = ErrPerc
  BY <1>2 DEF ErrPerc
<1>8. Types'
  BY <1>1, <1>2, <1>3 DEF Types
<1>9. Accounted'
  BY <1>2, <1>5, <1>6 DEF IInv, Accounted
<1>10. Joining'
  BY <1>2, <1>4, <1>6 DEF IInv, Joining, JoinedSince
<1>11. NoFailures'
  BY <1>2, <1>4, <1>6, <1>7 DEF IInv, NoFailures, Quiet
<1>12. NothingAhead'
  BY <1>2, <1>4, <1>6 DEF IInv, NothingAhead
<1> QED BY <1>8, <1>9, <1>10, <1>11, <1>12 DEF IInv

(* Nothing that the invariant speaks of changes. *)
LEMMA StutterStep ==
    ASSUME IInv, UNCHANGED <<series, source, pod, statuses, processed,
                             failures, sampled, churn>>
    PROVE  IInv'
<1>1. /\ Known' = Known /\ Server' = Server /\ ErrPerc' = ErrPerc
      /\ \A c : Now(c)' = Now(c)
  BY DEF Known, Server, ErrPerc, Now
<1> QED BY <1>1 DEF IInv, Types, Accounted, Joining, JoinedSince, NoFailures,
                    Quiet, NothingAhead

LEMMA StepInv == IInv /\ [Next]_vars => IInv'
<1> SUFFICES ASSUME IInv, [Next]_vars PROVE IInv'
  OBVIOUS
<1>1. CASE \E p \in Pods, failed \in BOOLEAN : Exchange(p, failed)
  BY <1>1, ExchangeStep
<1>2. CASE \E p \in Pods : PodStarts(p) \/ PodStops(p) \/ PodRestarts(p) \/ PodReady(p)
  BY <1>2, PodStep
<1>3. CASE \E missed \in SUBSET Pods : Round(missed)
  BY <1>3, RoundStep
<1>4. CASE ListFails
  BY <1>4, ListFailsStep
<1>5. CASE CacheUpdate
  BY <1>5, CacheUpdateStep
<1>6. CASE RoundLost
  BY <1>6, StutterStep DEF RoundLost
<1>7. CASE UNCHANGED vars
  BY <1>7, StutterStep DEF vars
<1> QED BY <1>1, <1>2, <1>3, <1>4, <1>5, <1>6, <1>7 DEF Next

-----------------------------------------------------------------------------
(* The theorems. *)

LEMMA SpecInv == Spec => []IInv
<1>1. Init => IInv
  BY InitInv
<1>2. IInv /\ [Next]_vars => IInv'
  BY StepInv
<1> QED BY <1>1, <1>2, PTL DEF Spec

(* The success rate raises no alarm without a failed exchange, whatever    *)
(* pods do, whichever are missed, however many rounds are lost and however *)
(* old the cached status is (getSLIExchangeSuccessRate).                   *)
THEOREM NeverAFalseAlarm == Spec => []NoFalseAlarm
<1>1. IInv => NoFalseAlarm
  BY DEF IInv, NoFailures, NoFalseAlarm, Quiet, Rates, Known
<1> QED BY <1>1, SpecInv, PTL

(* The success percentage is one as long as pods only join the workload    *)
(* and none that has processed exchanges goes unscraped.                   *)
THEOREM PercentageWhileJoining == Spec => []PercentageOfJoining
<1>1. IInv => PercentageOfJoining
  BY DEF IInv, Joining, PercentageOfJoining, PercentageInRange, InRange,
         Rates, Known
<1> QED BY <1>1, SpecInv, PTL

(* No exchange is reported twice, or early, while every round reaches the  *)
(* pods that have processed exchanges and has the last status in its       *)
(* cache: the intervals of successive rates do not overlap.                *)
THEOREM NoExchangeTwice == Spec => []SampledOnce
<1>1. IInv => SampledOnce
  BY DEF IInv, Accounted, SampledOnce
<1> QED BY <1>1, SpecInv, PTL

(* The last exchange that a status reports has taken place (getInfo).      *)
THEOREM LastExchangeIsPast == Spec => []LastIsPast
<1>1. IInv => LastIsPast
  BY DEF IInv, NothingAhead, LastIsPast, Rates, Known
<1> QED BY <1>1, SpecInv, PTL
=============================================================================
