----------------------------- MODULE ExchangeRate -----------------------------
(***************************************************************************)
(* The success rate of a CamelMonitor (camel_monitor/monitor.go): every    *)
(* round sums the exchange counters of the pods it could scrape and        *)
(* compares the sum with the one of the pods in the status it has cached.  *)
(*                                                                         *)
(* The counters are cumulative and live in the pods: they start from zero  *)
(* when a pod restarts, and leave the sum while a pod is not scraped, be   *)
(* it that it is not ready or that the search for its metrics fails.  A    *)
(* pod's counters are read in one call and pods are independent, so that   *)
(* reading them all in one step loses nothing.                             *)
(*                                                                         *)
(* The status is read from the cache and patched on the API server: a      *)
(* round that comes before the cache has the last patch compares with an   *)
(* older sum, and its merge patch only sends the fields that differ from   *)
(* the older status.                                                       *)
(***************************************************************************)
EXTENDS Integers, SequencesExt, FiniteSets, FiniteSetsExt, Functions

CONSTANTS
    Pods,         \* the pods of the workload
    AppInfos,     \* how many series of app_info a pod reports
    SeriesCounts, \* how many series a metric may have in every pod
    Percentages,  \* [annotation, env]: where the error threshold may come from
    WarnPerc,     \* the warning threshold of the operator
    Unset,        \* an annotation or a variable that is not there
    Garbage,      \* one that is no number
    Nil,          \* no pod, not scraped, no percentage
    Env,          \* what the environment does in this instance
    MaxExchanges, \* bound: exchanges in one behaviour
    MaxRounds,    \* bound: rounds in one behaviour
    MaxChanges    \* bound: pods that start, stop, restart, change readiness

ASSUME RateAssumption ==
    /\ IsFiniteSet(Pods)
    /\ AppInfos \in Nat
    /\ SeriesCounts \subseteq Nat \ {0}
    /\ WarnPerc \in Int
    /\ \A s \in Percentages :
            {s.annotation, s.env} \subseteq Int \cup {Unset, Garbage}
    /\ Nil \notin [ready : BOOLEAN, total : Nat, failed : Nat, last : Nat]
    /\ Nil \notin [total : Nat, failed : Nat, last : Nat]
    /\ Env \subseteq {"restart", "stop", "unready", "metrics", "lost", "list"}
    /\ MaxExchanges \in Nat
    /\ MaxRounds \in Nat
    /\ MaxChanges \in Nat

VARIABLES
    series,    \* the series a metric has in every pod
    source,    \* the annotation and the variable of the error threshold
    pod,       \* pod[p]: Nil, or its readiness and its counters
    statuses,  \* the versions of Status.Pods and Status.SuccessRate, from
               \* the one in the operator's cache to the API server's
    processed, \* history: exchanges that took place
    failures,  \* history: exchanges that failed
    sampled,   \* history: the sum of the totals the rates reported
    rounds,    \* rounds so far
    churn,     \* history: the kinds of changes that disturbed a sum
    changes    \* changes of pods so far

vars == <<series, source, pod, statuses, processed, failures, sampled,
          rounds, churn, changes>>

(* last is 0 until the pod has processed an exchange. *)
Fresh == [ready |-> TRUE, total |-> 0, failed |-> 0, last |-> 0]

(* Of a status: the counters a round found in the pods, and the rate.  A   *)
(* field that is 0, "" or Nil is absent from the status.                   *)
NoPods == [p \in Pods |-> Nil]
NoRate == [perc |-> Nil, total |-> 0, failed |-> 0, last |-> 0, level |-> ""]

Cached == Head(statuses)
Server == Last(statuses)

Platform == INSTANCE PlatformSettings

ErrPerc == Platform!getSLIExchangeErrorThreshold(source.annotation, source.env)

-----------------------------------------------------------------------------
(* What a pod adds to a sum: nothing if it was not scraped. *)
Counted(infos, counter) ==
    [p \in Pods |-> IF infos[p] = Nil THEN 0 ELSE infos[p][counter]]

(* Mutant: the timestamps are summed like the counters. *)
Latest_Summed(infos, found) == SumFunction(Counted(infos, "last"))

Latest(infos, found) == Max({infos[p].last : p \in found} \cup {0})

(* populateRuntimeInfo wants exactly one series of app_info. *)
KnowsProvider == AppInfos = 1

(* getInfo: the sums over the pods that have a runtime, Nil if there is    *)
(* nothing to tell.                                                        *)
getInfo(infos) ==
    LET found == {p \in Pods : infos[p] # Nil}
        total == SumFunction(Counted(infos, "total"))
        failed == SumFunction(Counted(infos, "failed"))
    IN  IF total = 0 /\ (found = {} \/ ~KnowsProvider) THEN Nil
        ELSE [total |-> total, failed |-> failed, last |-> Latest(infos, found)]

(* Mutant: only one pod of the previous status is looked at. *)
Previous_OnePod ==
    LET found == {p \in Pods : Cached.pods[p] # Nil} IN
    IF found = {} THEN Nil ELSE Cached.pods[CHOOSE p \in found : TRUE]

Previous == getInfo(Cached.pods)

(* Mutant: the failures of all time are set against the interval's total. *)
Interval_AllFailures(app, target) ==
    [total |-> target.total - app.total, failed |-> target.failed]

Interval(app, target) ==
    [total |-> target.total - app.total, failed |-> target.failed - app.failed]

AtLeastZero(n) == IF n >= 0 THEN n ELSE 0

(* Mutant: the rate is computed without a look at the sign of the total. *)
Exceeds_AnyTotal(i, n) == i.failed * 100 > n * i.total

(* A failure rate of i.failed / i.total, as a percentage, against n. *)
Exceeds(i, n) == IF i.total > 0 THEN i.failed * 100 > n * i.total ELSE 0 > n

(* The percentage is formatted from the interval, if its total is positive. *)
getSLIExchangeSuccessRate(app, target) ==
    LET i == Interval(app, target) IN
    [perc |-> IF i.total > 0 THEN i ELSE Nil,
     last |-> target.last,
     total |-> AtLeastZero(i.total),
     failed |-> AtLeastZero(i.failed),
     level |-> CASE Exceeds(i, WarnPerc) -> "Error"
                 [] ~Exceeds(i, WarnPerc) /\ Exceeds(i, ErrPerc) -> "Warning"
                 [] ~Exceeds(i, WarnPerc) /\ ~Exceeds(i, ErrPerc) /\ i.total > 0 ->
                        "Success"
                 [] OTHER -> ""]

-----------------------------------------------------------------------------
(* The merge patch of the status against the cached one. *)

(* A field is sent if it is not what the cached status has. *)
Merge(base, target, server) == IF target = base THEN server ELSE target

SamePercentage(i, j) ==
    IF Nil \in {i, j} THEN i = j ELSE i.failed * j.total = j.failed * i.total

PatchedRate(base, target, server) ==
    [perc |-> IF SamePercentage(target.perc, base.perc)
              THEN server.perc ELSE target.perc,
     total |-> Merge(base.total, target.total, server.total),
     failed |-> Merge(base.failed, target.failed, server.failed),
     last |-> Merge(base.last, target.last, server.last),
     level |-> Merge(base.level, target.level, server.level)]

(* The list of pods is sent as a whole; other data of the pods may differ  *)
(* where their counters do not.                                            *)
PatchedPods(base, target, server) ==
    {target} \cup {Merge(base, target, server)}

Patch(pods, rate) ==
    \E merged \in PatchedPods(Cached.pods, pods, Server.pods) :
        LET new == [pods |-> merged,
                    rate |-> PatchedRate(Cached.rate, rate, Server.rate)]
        IN  statuses' = IF new = Server THEN statuses
                                        ELSE Append(statuses, new)

(* The watch brings the cache the next version of the status. *)
CacheUpdate ==
    /\ Len(statuses) > 1
    /\ statuses' = Tail(statuses)
    /\ UNCHANGED <<series, source, pod, processed, failures, sampled, rounds,
                   churn, changes>>

-----------------------------------------------------------------------------
Init ==
    /\ series \in SeriesCounts
    /\ source \in Percentages
    /\ pod \in [Pods -> {Nil, Fresh}]
    /\ statuses = <<[pods |-> NoPods, rate |-> NoRate]>>
    /\ processed = 0
    /\ failures = 0
    /\ sampled = 0
    /\ rounds = 0
    /\ churn = {}
    /\ changes = 0

Exchange(p, failed) ==
    /\ processed < MaxExchanges
    /\ pod[p] # Nil
    /\ processed' = processed + 1
    /\ failures' = IF failed THEN failures + 1 ELSE failures
    /\ pod' = [pod EXCEPT ![p] =
                  [ready |-> @.ready,
                   total |-> @.total + 1,
                   failed |-> IF failed THEN @.failed + 1 ELSE @.failed,
                   last |-> processed + 1]]
    /\ UNCHANGED <<series, source, statuses, sampled, rounds, churn, changes>>

Changed(p, w) ==
    /\ changes < MaxChanges
    /\ changes' = changes + 1
    /\ pod' = [pod EXCEPT ![p] = w]
    /\ UNCHANGED <<series, source, statuses, processed, failures, sampled,
                   rounds>>

PodStarts(p) == pod[p] = Nil /\ Changed(p, Fresh) /\ UNCHANGED churn

Disturbed(kind, p, w) ==
    /\ kind \in Env
    /\ pod[p] # Nil
    /\ Changed(p, w)
    /\ churn' = churn \cup {kind}

PodStops(p) == Disturbed("stop", p, Nil)
PodRestarts(p) == Disturbed("restart", p, Fresh)

PodReady(p) ==
    /\ "unready" \in Env
    /\ pod[p] # Nil
    /\ Changed(p, [pod[p] EXCEPT !.ready = ~@])
    /\ UNCHANGED churn

(* The samples of a metric, one of each of its series. *)
Samples(v) == [i \in 1..series |-> v]

(* Of a counter the first series is read. *)
getCounter(samples) == IF samples = <<>> THEN 0 ELSE samples[1]

(* The series of a gauge are added up; one that is missing is 0. *)
getGauge(samples) == SumFunction(samples)

(* Only ready pods are scraped, and the search for the metrics may fail. *)
Scraped(p, missed) == pod[p] # Nil /\ p \notin missed /\ pod[p].ready

Scrape(missed) ==
    [p \in Pods |->
        IF Scraped(p, missed)
        THEN [total |-> getCounter(Samples(pod[p].total)),
              failed |-> getCounter(Samples(pod[p].failed)),
              last |-> getGauge(Samples(pod[p].last))]
        ELSE Nil]

(* A pod that has processed exchanges leaves the sum. *)
Unscraped(missed) ==
    \E p \in Pods : pod[p] # Nil /\ ~Scraped(p, missed) /\ pod[p].total > 0

Starts ==
    /\ rounds < MaxRounds
    /\ rounds' = rounds + 1

(* Handle and the patch of the status. *)
Round(missed) ==
    LET app == Previous
        found == Scrape(missed)
        target == getInfo(found)
        rated == app # Nil /\ target # Nil
        rate == IF rated THEN getSLIExchangeSuccessRate(app, target)
                         ELSE Cached.rate
    IN  /\ missed # {} => "metrics" \in Env
        /\ Starts
        /\ Patch(found, rate)
        /\ sampled' = IF rated THEN sampled + rate.total ELSE sampled
        /\ churn' = churn \cup {k \in {"unscraped", "stale"} :
                        \/ k = "unscraped" /\ Unscraped(missed)
                        \/ k = "stale" /\ Len(statuses) > 1}
        /\ UNCHANGED <<series, source, pod, processed, failures, changes>>

(* GetPods fails: a status without pods is patched. *)
ListFails ==
    /\ "list" \in Env
    /\ Starts
    /\ Patch(NoPods, Cached.rate)
    /\ UNCHANGED <<series, source, pod, processed, failures, sampled, churn,
                   changes>>

(* The status cannot be patched: pods and rate stay as they were. *)
RoundLost ==
    /\ "lost" \in Env
    /\ Starts
    /\ UNCHANGED <<series, source, pod, statuses, processed, failures, sampled,
                   churn, changes>>

Next ==
    \/ \E p \in Pods :
        \/ \E failed \in BOOLEAN : Exchange(p, failed)
        \/ PodStarts(p)
        \/ PodStops(p)
        \/ PodRestarts(p)
        \/ PodReady(p)
    \/ \E missed \in SUBSET Pods : Round(missed)
    \/ ListFails
    \/ RoundLost
    \/ CacheUpdate

Spec == Init /\ [][Next]_vars

-----------------------------------------------------------------------------
(* The rates an observer may see, in the cache or on the API server. *)
Rates == {s.rate : s \in ToSet(statuses)}

(* The success percentage lies between 0 and 100. *)
PercentageInRange ==
    \A r \in Rates :
        r.perc # Nil => 0 <= r.perc.failed /\ r.perc.failed <= r.perc.total

(* It does as long as pods only join and none that has processed exchanges *)
(* goes unscraped, even if rounds are lost, the list of pods fails or the  *)
(* cached status is old.                                                   *)
PercentageOfJoining ==
    churn \cap {"restart", "stop", "unscraped"} = {} => PercentageInRange

(* Restarts, pods that come, go or are not scraped, rounds that are lost   *)
(* and old cached statuses raise no alarm by themselves: as long as no     *)
(* exchange failed and no threshold is negative, no rate says Warning or   *)
(* Error; none ever counts a failure.                                      *)
NoFalseAlarm ==
    failures = 0 =>
        \A r \in Rates :
            /\ 0 <= WarnPerc /\ 0 <= ErrPerc => r.level \in {"", "Success"}
            /\ r.failed = 0

(* No exchange is reported in the totals of two intervals, or before it    *)
(* took place, as long as every round finds the counters of the pods that  *)
(* have any, in the pods and in its cache: rounds that are lost, lists of  *)
(* pods that fail and pods that join, stop or restart do not repeat any.   *)
SampledOnce == churn \cap {"unscraped", "stale"} = {} => sampled <= processed

(* The last exchange is a time at which an exchange took place, or the     *)
(* epoch if a restarted pod has had none: rounds, restarts and pods that   *)
(* come and go bring no other time into it, as long as a pod reports one   *)
(* series; two are added up to a time to come.                             *)
LastIsPast == series = 1 => \A r \in Rates : r.last <= processed
=============================================================================
