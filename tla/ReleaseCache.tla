----------------------------- MODULE ReleaseCache -----------------------------
(***************************************************************************)
(* The UpgradeAvailable condition (camel_monitor/releases.go and           *)
(* checkVersionUpgrade): the release of each runtime provider is fetched   *)
(* from a Maven repository and cached for a day, one cache per provider.   *)
(*                                                                         *)
(* Versions are numbers in the order they are released.  Time is kept as   *)
(* ages that stop at the TTL.  There is one application per provider; the  *)
(* controller has one worker, so that the metadata is fetched, cached and  *)
(* compared in one step.                                                   *)
(***************************************************************************)
EXTENDS Naturals

CONSTANTS
    Providers,   \* the runtime providers, each with a repository of its own
    TTL,         \* cacheMetadataTTL
    Nil,         \* nothing cached
    Env,         \* what the environment does in this instance
    MaxVersion,  \* bound: releases of a provider
    MaxUpgrades, \* bound: changes of the applications' versions
    MaxFaults    \* bound: failed fetches, restarts

ASSUME ReleaseAssumption ==
    /\ TTL \in Nat \ {0}
    /\ Nil \notin 0..TTL
    /\ Env \subseteq {"upgrade", "fetch", "restart"}
    /\ MaxVersion \in Nat \ {0}
    /\ MaxUpgrades \in Nat
    /\ MaxFaults \in Nat

Versions == 1..MaxVersion
Ages == 0..TTL

VARIABLES
    age,       \* age[p][v]: how long v is out; Nil if it is not
    running,   \* running[p]: the version the application of p runs
    cache,     \* cache[p]: Nil, or the release and how long ago it was fetched
    condition, \* condition[p]: what the last round said
    upgrades,  \* changes of the applications' versions so far
    faults     \* faults so far

vars == <<age, running, cache, condition, upgrades, faults>>

Out(p) == {v \in Versions : age[p][v] # Nil}
Release(p) == CHOOSE v \in Out(p) : \A w \in Out(p) : w <= v

Older(a) == IF a < TTL THEN a + 1 ELSE a

-----------------------------------------------------------------------------
(* Mutant: what was fetched once is never fetched again. *)
Fresh_Forever(p) == cache[p] # Nil

(* The TTL of the cached metadata has not expired. *)
Fresh(p) == IF cache[p] = Nil THEN FALSE ELSE cache[p].age < TTL

(* Mutant: a version is compared with the release of any provider. *)
Fetched_Mixed(p) ==
    [release |-> Release(CHOOSE q \in Providers : TRUE), age |-> 0]

Fetched(p) == [release |-> Release(p), age |-> 0]

(* missed is history: a version that has been out for the TTL or longer    *)
(* would have been news.                                                   *)
Missed(p, release) ==
    \E v \in Out(p) : age[p][v] = TTL /\ v > running[p] /\ v > release

(* Any release other than the running version is new. *)
Compared(p, release) ==
    [is |-> IF release # running[p] THEN "True" ELSE "False",
     version |-> release, missed |-> Missed(p, release)]

Unknown == [is |-> "Unknown", version |-> 0, missed |-> FALSE]

Init ==
    /\ age = [p \in Providers |-> [v \in Versions |-> IF v = 1 THEN TTL ELSE Nil]]
    /\ running = [p \in Providers |-> 1]
    /\ cache = [p \in Providers |-> Nil]
    /\ condition = [p \in Providers |-> Unknown]
    /\ upgrades = 0
    /\ faults = 0

-----------------------------------------------------------------------------
(* The repositories, the applications and time. *)

Released(p) ==
    /\ Release(p) < MaxVersion
    /\ age' = [age EXCEPT ![p][Release(p) + 1] = 0]
    /\ UNCHANGED <<running, cache, condition, upgrades, faults>>

ApplicationChanges(p, v) ==
    /\ "upgrade" \in Env
    /\ upgrades < MaxUpgrades
    /\ v \in Out(p) \ {running[p]}
    /\ upgrades' = upgrades + 1
    /\ running' = [running EXCEPT ![p] = v]
    /\ UNCHANGED <<age, cache, condition, faults>>

TimePasses ==
    /\ age' = [p \in Providers |->
                [v \in Versions |-> IF v \in Out(p) THEN Older(age[p][v]) ELSE Nil]]
    /\ cache' = [p \in Providers |->
                    IF cache[p] = Nil THEN Nil
                    ELSE [cache[p] EXCEPT !.age = Older(@)]]
    /\ UNCHANGED <<running, condition, upgrades, faults>>

-----------------------------------------------------------------------------
(* A round of monitoring. *)

CheckCached(p) ==
    /\ Fresh(p)
    /\ condition' = [condition EXCEPT ![p] = Compared(p, cache[p].release)]
    /\ UNCHANGED <<age, running, cache, upgrades, faults>>

CheckFetched(p) ==
    /\ ~Fresh(p)
    /\ cache' = [cache EXCEPT ![p] = Fetched(p)]
    /\ condition' = [condition EXCEPT ![p] = Compared(p, cache'[p].release)]
    /\ UNCHANGED <<age, running, upgrades, faults>>

Fault(f) ==
    /\ f \in Env
    /\ faults < MaxFaults
    /\ faults' = faults + 1

(* The repository does not answer, or not with metadata: the condition     *)
(* says so and the cache stays as it was, expired.                         *)
CheckFails(p) ==
    /\ Fault("fetch")
    /\ ~Fresh(p)
    /\ condition' = [condition EXCEPT ![p] = Unknown]
    /\ UNCHANGED <<age, running, cache, upgrades>>

Restart ==
    /\ Fault("restart")
    /\ cache' = [p \in Providers |-> Nil]
    /\ UNCHANGED <<age, running, condition, upgrades>>

checkVersionUpgrade(p) == CheckCached(p) \/ CheckFetched(p)

Next ==
    \/ \E p \in Providers :
        \/ checkVersionUpgrade(p)
        \/ CheckFails(p)
        \/ Released(p)
        \/ \E v \in Versions : ApplicationChanges(p, v)
    \/ TimePasses
    \/ Restart

Spec == Init /\ [][Next]_vars

(* Time passes and every application is polled for ever. *)
FairSpec ==
    /\ Spec
    /\ WF_vars(TimePasses)
    /\ \A p \in Providers : WF_vars(checkVersionUpgrade(p))

-----------------------------------------------------------------------------
(* No round, however often the cache was filled, expired or lost before,   *)
(* overlooks a new version that has been out for the TTL of the cache.     *)
NothingMissed == \A p \in Providers : ~condition[p].missed

(* Once no version is released or changed any more, the condition tells    *)
(* the latest release, and whether the application runs it: no failed      *)
(* fetch and no cached release of an earlier day is left in it.            *)
UpgradeSettles ==
    <>[](\A p \in Providers :
            /\ condition[p].version = Release(p)
            /\ condition[p].is = IF running[p] = Release(p) THEN "False" ELSE "True")
=============================================================================
