-------------------------- MODULE MonitorController --------------------------
(***************************************************************************)
(* The CamelMonitor controller (pkg/controller/camel_monitor): a work      *)
(* queue with one worker, Reconcile with its one action (monitorAction),   *)
(* the status patch, the polling interval that schedules the next round    *)
(* and the creation of the PrometheusRule on the first round.              *)
(*                                                                         *)
(* A round takes three steps: Reconcile reads the CamelMonitor from the    *)
(* cache, monitorAction.Handle looks at the workload, and update patches   *)
(* the status on the API server.  What happens in between is the           *)
(* environment's: CamelMonitors and workloads change, the cache lags       *)
(* behind, calls fail, the operator crashes.                               *)
(*                                                                         *)
(* A status is abstracted to four fields: the phase, the pods as the       *)
(* scrape found them, the runtime info, and the pods that the Monitored    *)
(* and Healthy conditions were computed from ("partial" when the list of   *)
(* conditions holds others only, "" when it is empty).                     *)
(***************************************************************************)
EXTENDS Integers, Sequences, FiniteSets, SequencesExt

CONSTANTS
    Monitors,       \* the names of CamelMonitors
    Phases,         \* the phases a workload may be in
    Runtimes,       \* the runtime infos a scrape may find
    Nil,            \* nothing: no CamelMonitor, no round, no target
    NotANumber,     \* the polling annotation is missing or does not parse
    Annotations,    \* the values a user gives the polling annotation
    InitialWorlds,  \* the workloads there are when the operator is installed
    DefaultSeconds, \* the operator's own polling interval
    Second,         \* a second in the units of time.Duration
    HalfRange,      \* time.Duration wraps at +-HalfRange
    RuleWanted,     \* PrometheusRule CRD installed and creation enabled
    Env,            \* what the environment does in this instance
    MaxIncarnation, \* bound: CamelMonitors created in one behaviour
    MaxChanges,     \* bound: changes of workloads and annotations
    MaxFaults,      \* bound: failed calls, broken watches, crashes
    MaxLag          \* bound: changes of CamelMonitors the cache lags behind

EnvSteps == {"delete", "owner", "annotate", "api", "watch", "crash", "stale"}

(* What a scrape makes of the pods: there are none, getInfo finds nothing  *)
(* in them, they report exchanges but no runtime provider, or they         *)
(* report their runtime.                                                   *)
Reporting == Runtimes \cup {"anonymous"}
PodStates == {"none", "silent"} \cup Reporting

Worlds == [owner : BOOLEAN, phase : Phases, pods : PodStates,
           annotation : Annotations]

Statuses == [phase : Phases \cup {""}, pods : PodStates \cup {""},
             info : Runtimes \cup {""}, cond : PodStates \cup {"", "partial"}]

BlankStatus == [phase |-> "", pods |-> "", info |-> "", cond |-> ""]

Incarnations == 1..MaxIncarnation
Copies == [inc : Incarnations, status : Statuses]
MonitorOrNil == Copies \cup {Nil}
Rounds == [name : Monitors, base : Copies, target : Statuses \cup {Nil},
           stage : {"handle", "update"}, ok : BOOLEAN, after : Int]

ASSUME MonitorsAssumption == IsFiniteSet(Monitors)

ASSUME NilAssumption ==
    Nil \notin Statuses /\ Nil \notin Copies /\ Nil \notin Rounds

ASSUME ValuesAssumption ==
    /\ Annotations \subseteq Int \cup {NotANumber}
    /\ InitialWorlds \subseteq Worlds
    /\ DefaultSeconds \in Int
    /\ Second \in Nat \ {0}
    /\ HalfRange \in Nat \ {0}
    /\ RuleWanted \in BOOLEAN
    /\ Env \subseteq EnvSteps

ASSUME BoundsAssumption ==
    /\ MaxIncarnation \in Nat
    /\ MaxChanges \in Nat
    /\ MaxFaults \in Nat
    /\ MaxLag \in Nat

VARIABLES
    mon,         \* API server: [inc, status] or Nil
    nextInc,     \* the incarnation the next created CamelMonitor gets
    world,       \* the workload behind each name, as a round would find it
    cache,       \* the cached client's CamelMonitors
    cwatch,      \* changes of CamelMonitors that are not in the cache yet
    queue,       \* the work queue, without duplicates
    waiting,     \* names with a timer (AddAfter, AddRateLimited)
    active,      \* the round of the worker, or Nil
    parked,      \* names whose last round asked for no further one
    initialized, \* the global actions is not empty
    rule,        \* the PrometheusRule exists
    up,          \* the operator process is running
    changes,     \* changes of the workloads so far
    faults       \* faults so far

vars == <<mon, nextInc, world, cache, cwatch, queue, waiting, active, parked,
          initialized, rule, up, changes, faults>>

-----------------------------------------------------------------------------
(* The polling interval. *)

(* int64 arithmetic. *)
Wrap(d) == ((d + HalfRange) % (2 * HalfRange)) - HalfRange

getPollingInterval(a) ==
    Wrap((IF a = NotANumber THEN DefaultSeconds ELSE a) * Second)

-----------------------------------------------------------------------------
(* monitorAction.Handle: the target status for base and what is found. *)

(* The pods could not be listed. *)
PartialNoPods(base, w) ==
    [phase |-> w.phase, pods |-> "", info |-> base.info, cond |-> ""]

(* Without a runtime provider there is nothing to say. *)
formatRuntimeInfo(p) == IF p = "anonymous" THEN "" ELSE p

(* Mutant: the status is reset without keeping the previous info. *)
NewInfo_Reset(base, w) ==
    IF w.pods \in Reporting THEN formatRuntimeInfo(w.pods) ELSE ""

(* Only pods for which getInfo is not nil change the info. *)
NewInfo(base, w) ==
    IF w.pods \in Reporting THEN formatRuntimeInfo(w.pods) ELSE base.info

(* The PodMonitor or the Grafana dashboard could not be written: a         *)
(* condition says so, but Monitored and Healthy are not set.               *)
PartialNoConditions(base, w) ==
    [phase |-> w.phase, pods |-> w.pods, info |-> NewInfo(base, w),
     cond |-> "partial"]

(* Mutant: a condition that is there already is not replaced. *)
Complete_KeepConditions(base, w) ==
    [phase |-> w.phase, pods |-> w.pods, info |-> NewInfo(base, w),
     cond |-> IF base.cond = "" THEN w.pods ELSE base.cond]

Complete(base, w) ==
    [phase |-> w.phase, pods |-> w.pods, info |-> NewInfo(base, w),
     cond |-> w.pods]

-----------------------------------------------------------------------------
(* Mutant: the status is updated as a whole instead of patched. *)
Merged_Whole(server, base, target) == target

(* MergeFrom(base): a field is sent only where target differs from base.   *)
(* Conditions carry the time they were computed, so they are sent unless   *)
(* both sides have none.                                                   *)
Merged(server, base, target) ==
    [phase |-> IF target.phase # base.phase THEN target.phase ELSE server.phase,
     pods  |-> IF target.pods # base.pods THEN target.pods ELSE server.pods,
     info  |-> IF target.info # base.info THEN target.info ELSE server.info,
     cond  |-> IF target.cond = "" /\ base.cond = ""
               THEN server.cond ELSE target.cond]

Enqueue(q, m) == IF m \in ToSet(q) THEN q ELSE Append(q, m)

(* Mutant: creations are filtered out as well. *)
Triggers_DeleteOnly(old, new) == old # Nil /\ new = Nil

(* UpdateFalsePredicate: a change of an object that exists before and      *)
(* after is no reason for a round.                                         *)
Triggers(old, new) == (old = Nil) # (new = Nil)

-----------------------------------------------------------------------------
Init ==
    /\ mon = [m \in Monitors |-> Nil]
    /\ nextInc = 1
    /\ world \in [Monitors -> InitialWorlds]
    /\ cache = [m \in Monitors |-> Nil]
    /\ cwatch = <<>>
    /\ queue = <<>>
    /\ waiting = {}
    /\ active = Nil
    /\ parked = {}
    /\ initialized = FALSE
    /\ rule = FALSE
    /\ up = TRUE
    /\ changes = 0
    /\ faults = 0

(* Every change of a CamelMonitor on the server is sent to the watch. *)
Put(m, v) ==
    /\ mon' = [mon EXCEPT ![m] = v]
    /\ IF up THEN /\ Len(cwatch) < MaxLag
                  /\ cwatch' = Append(cwatch, [name |-> m, val |-> v])
             ELSE UNCHANGED cwatch

Fault(f) ==
    /\ f \in Env
    /\ faults < MaxFaults
    /\ faults' = faults + 1

-----------------------------------------------------------------------------
(* The rest of the cluster. *)

(* The import creates a CamelMonitor with an empty status. *)
MonitorCreated(m) ==
    /\ mon[m] = Nil
    /\ nextInc <= MaxIncarnation
    /\ nextInc' = nextInc + 1
    /\ Put(m, [inc |-> nextInc, status |-> BlankStatus])
    /\ UNCHANGED <<world, cache, queue, waiting, active, parked, initialized,
                   rule, up, changes, faults>>

(* The import or the garbage collector deletes it. *)
MonitorDeleted(m) ==
    /\ "delete" \in Env
    /\ mon[m] # Nil
    /\ Put(m, Nil)
    /\ UNCHANGED <<nextInc, world, cache, queue, waiting, active, parked,
                   initialized, rule, up, changes, faults>>

(* The workload behind m changes, or the polling annotation that the       *)
(* target of a round carries.                                              *)
WorldChanges(m, w) ==
    /\ changes < MaxChanges
    /\ w # world[m]
    /\ w.owner # world[m].owner => "owner" \in Env
    /\ w.annotation # world[m].annotation => "annotate" \in Env
    /\ changes' = changes + 1
    /\ world' = [world EXCEPT ![m] = w]
    /\ UNCHANGED <<mon, nextInc, cache, cwatch, queue, waiting, active, parked,
                   initialized, rule, up, faults>>

-----------------------------------------------------------------------------
(* The cache and the work queue. *)

CacheUpdate ==
    LET m == Head(cwatch).name
        v == Head(cwatch).val IN
    /\ cwatch # <<>>
    /\ cwatch' = Tail(cwatch)
    /\ cache' = [cache EXCEPT ![m] = v]
    /\ queue' = IF Triggers(cache[m], v) THEN Enqueue(queue, m) ELSE queue
    /\ UNCHANGED <<mon, nextInc, world, waiting, active, parked, initialized,
                   rule, up, changes, faults>>

(* A broken watch is resumed by a list: intermediate changes are lost and  *)
(* a CamelMonitor that was created again looks updated.                    *)
CacheRelist ==
    /\ Fault("watch")
    /\ up
    /\ cwatch # <<>>
    /\ cwatch' = <<>>
    /\ cache' = mon
    /\ \E q \in SetToSeqs({m \in Monitors : /\ Triggers(cache[m], mon[m])
                                            /\ m \notin ToSet(queue)}) :
            queue' = queue \o q
    /\ UNCHANGED <<mon, nextInc, world, waiting, active, parked, initialized,
                   rule, up, changes>>

TimerFires(m) ==
    /\ m \in waiting
    /\ waiting' = waiting \ {m}
    /\ queue' = Enqueue(queue, m)
    /\ UNCHANGED <<mon, nextInc, world, cache, cwatch, active, parked,
                   initialized, rule, up, changes, faults>>

-----------------------------------------------------------------------------
(* Reconcile. *)

(* The worker takes the next name and reads its CamelMonitor. *)
TakeRequest(m) ==
    /\ active = Nil
    /\ queue # <<>>
    /\ m = Head(queue)
    /\ "stale" \in Env \/ cwatch = <<>>
    /\ queue' = Tail(queue)
    /\ parked' = parked \ {m}

(* Mutant: a CamelMonitor that is gone is polled on. *)
ReconcileNotFound_Requeue(m) ==
    /\ TakeRequest(m)
    /\ cache[m] = Nil
    /\ waiting' = waiting \cup {m}
    /\ UNCHANGED <<mon, nextInc, world, cache, cwatch, active, initialized,
                   rule, up, changes, faults>>

(* IsNotFound: Result{} without error, the name is forgotten. *)
ReconcileNotFound(m) ==
    /\ TakeRequest(m)
    /\ cache[m] = Nil
    /\ UNCHANGED <<mon, nextInc, world, cache, cwatch, waiting, active,
                   initialized, rule, up, changes, faults>>

(* Mutant: a CamelMonitor that is gone is handled like any other. *)
ReconcileBegin_NoGuard(m) ==
    /\ TakeRequest(m)
    /\ initialized' = TRUE
    /\ rule' = (rule \/ (~initialized /\ RuleWanted))
    /\ active' = [name |-> m, base |-> cache[m], target |-> Nil,
                  stage |-> "handle", ok |-> TRUE, after |-> 0]
    /\ UNCHANGED <<mon, nextInc, world, cache, cwatch, waiting, up, changes,
                   faults>>

(* The first round also writes the PrometheusRule. *)
ReconcileBegin(m) ==
    /\ TakeRequest(m)
    /\ cache[m] # Nil
    /\ initialized' = TRUE
    /\ rule' = (rule \/ (~initialized /\ RuleWanted))
    /\ active' = [name |-> m, base |-> cache[m], target |-> Nil,
                  stage |-> "handle", ok |-> TRUE, after |-> 0]
    /\ UNCHANGED <<mon, nextInc, world, cache, cwatch, waiting, up, changes,
                   faults>>

(* The cached client cannot answer. *)
ReconcileReadFails(m) ==
    /\ Fault("api")
    /\ TakeRequest(m)
    /\ waiting' = waiting \cup {m}
    /\ UNCHANGED <<mon, nextInc, world, cache, cwatch, active, initialized,
                   rule, up, changes>>

(* The rule cannot be written: the round ends with an error, which the     *)
(* queue retries, but actions is no longer empty.                          *)
ReconcileRuleFails(m) ==
    /\ Fault("api")
    /\ TakeRequest(m)
    /\ cache[m] # Nil
    /\ ~initialized
    /\ RuleWanted
    /\ initialized' = TRUE
    /\ waiting' = waiting \cup {m}
    /\ UNCHANGED <<mon, nextInc, world, cache, cwatch, active, rule, up,
                   changes>>

Handled(target, ok) ==
    /\ active' = [active EXCEPT !.stage = "update", !.target = target,
                      !.ok = ok,
                      !.after = getPollingInterval(world[active.name].annotation)]
    /\ UNCHANGED <<mon, nextInc, world, cache, cwatch, queue, waiting, parked,
                   initialized, rule, up, changes>>

Handling == active # Nil /\ active.stage = "handle"

HandleComplete ==
    /\ Handling
    /\ world[active.name].owner
    /\ Handled(Complete(active.base.status, world[active.name]), TRUE)
    /\ UNCHANGED faults

(* lookupObject finds nothing: no target, an error. *)
HandleNoOwner ==
    /\ Handling
    /\ ~world[active.name].owner
    /\ Handled(Nil, FALSE)
    /\ UNCHANGED faults

(* lookupObject fails for another reason. *)
HandleLookupFails ==
    /\ Fault("api")
    /\ Handling
    /\ Handled(Nil, FALSE)

HandleNoPodList ==
    /\ Fault("api")
    /\ Handling
    /\ world[active.name].owner
    /\ Handled(PartialNoPods(active.base.status, world[active.name]), FALSE)

HandleResourceFails ==
    /\ Fault("api")
    /\ Handling
    /\ world[active.name].owner
    /\ world[active.name].pods # "none"
    /\ Handled(PartialNoConditions(active.base.status, world[active.name]),
               FALSE)

-----------------------------------------------------------------------------
(* The end of a round: the status patch and the next round. *)

(* Mutant: the error of a round is swallowed. *)
Schedule_ErrorDropped(ok) ==
    IF ok /\ active.after > 0
    THEN waiting' = waiting \cup {active.name} /\ UNCHANGED parked
    ELSE UNCHANGED <<waiting, parked>>

(* AddRateLimited after an error, AddAfter for a positive interval, else   *)
(* nothing.                                                                *)
Schedule(ok) ==
    LET m == active.name IN
    IF ~ok \/ active.after > 0
    THEN /\ waiting' = waiting \cup {m}
         /\ UNCHANGED parked
    ELSE /\ parked' = parked \cup {m}
         /\ UNCHANGED waiting

FinishRound(ok) ==
    /\ active # Nil
    /\ active.stage = "update"
    /\ Schedule(ok)
    /\ active' = Nil
    /\ UNCHANGED <<nextInc, world, cache, queue, initialized, rule, up, changes>>

(* Handle failed before it had a target. *)
FinishWithoutTarget ==
    /\ FinishRound(FALSE)
    /\ active.target = Nil
    /\ UNCHANGED <<mon, cwatch, faults>>

(* An unchanged status is no event of the watch. *)
FinishPatched ==
    /\ FinishRound(active.ok)
    /\ active.target # Nil
    /\ mon[active.name] # Nil
    /\ LET s == Merged(mon[active.name].status, active.base.status,
                       active.target)
       IN IF s = mon[active.name].status
          THEN UNCHANGED <<mon, cwatch>>
          ELSE Put(active.name, [mon[active.name] EXCEPT !.status = s])
    /\ UNCHANGED faults

(* The CamelMonitor is gone, the patch is an error. *)
FinishGone ==
    /\ FinishRound(FALSE)
    /\ active.target # Nil
    /\ mon[active.name] = Nil
    /\ UNCHANGED <<mon, cwatch, faults>>

FinishPatchFails ==
    /\ Fault("api")
    /\ FinishRound(FALSE)
    /\ active.target # Nil
    /\ UNCHANGED <<mon, cwatch>>

-----------------------------------------------------------------------------
(* The process. *)

Crash ==
    /\ Fault("crash")
    /\ up
    /\ up' = FALSE
    /\ cache' = [m \in Monitors |-> Nil]
    /\ cwatch' = <<>>
    /\ queue' = <<>>
    /\ waiting' = {}
    /\ active' = Nil
    /\ parked' = {}
    /\ initialized' = FALSE
    /\ UNCHANGED <<mon, nextInc, world, rule, changes>>

Restart ==
    /\ ~up
    /\ up' = TRUE
    /\ cache' = mon
    /\ \E q \in SetToSeqs({m \in Monitors : mon[m] # Nil}) : queue' = q
    /\ UNCHANGED <<mon, nextInc, world, cwatch, waiting, active, parked,
                   initialized, rule, changes, faults>>

-----------------------------------------------------------------------------
Worker ==
    \/ \E m \in Monitors : ReconcileNotFound(m) \/ ReconcileBegin(m)
    \/ HandleComplete
    \/ HandleNoOwner
    \/ FinishWithoutTarget
    \/ FinishPatched
    \/ FinishGone

FaultStep ==
    \/ \E m \in Monitors : ReconcileReadFails(m) \/ ReconcileRuleFails(m)
    \/ HandleLookupFails
    \/ HandleNoPodList
    \/ HandleResourceFails
    \/ FinishPatchFails
    \/ CacheRelist
    \/ Crash

Next ==
    \/ \E m \in Monitors :
        \/ MonitorCreated(m)
        \/ MonitorDeleted(m)
        \/ \E w \in Worlds : WorldChanges(m, w)
        \/ TimerFires(m)
    \/ Worker
    \/ CacheUpdate
    \/ Restart
    \/ FaultStep

(* The worker's goroutine, the watch and the timers make progress, and the *)
(* kubelet starts the operator again.                                      *)
Fairness ==
    /\ WF_vars(Worker)
    /\ WF_vars(CacheUpdate)
    /\ WF_vars(Restart)
    /\ \A m \in Monitors : WF_vars(TimerFires(m))

Spec == Init /\ [][Next]_vars
FairSpec == Spec /\ Fairness

-----------------------------------------------------------------------------
(* Type invariant: a target is there only once Handle has run, the cache   *)
(* and the watch hold CamelMonitors that were on the server.               *)
TypeOK ==
    /\ mon \in [Monitors -> MonitorOrNil]
    /\ nextInc \in 1..(MaxIncarnation + 1)
    /\ world \in [Monitors -> Worlds]
    /\ cache \in [Monitors -> MonitorOrNil]
    /\ cwatch \in Seq([name : Monitors, val : MonitorOrNil])
    /\ queue \in Seq(Monitors)
    /\ waiting \subseteq Monitors
    /\ active \in Rounds \cup {Nil}
    /\ parked \subseteq Monitors
    /\ initialized \in BOOLEAN
    /\ rule \in BOOLEAN
    /\ up \in BOOLEAN
    /\ changes \in 0..MaxChanges
    /\ faults \in 0..MaxFaults

Scheduled(m) ==
    \/ m \in ToSet(queue)
    \/ m \in waiting
    \/ active # Nil /\ active.name = m

(* A CamelMonitor the controller knows is queued, in work, or has a timer, *)
(* unless its last round computed an interval that is not positive: no     *)
(* error, lost event or restart makes the controller forget it.            *)
NeverForgotten ==
    \A m \in Monitors : cache[m] # Nil => Scheduled(m) \/ m \in parked

(* The info of a CamelMonitor changes only to what the round that writes   *)
(* it has scraped: scaling to zero, a failed scrape, a failed call and a   *)
(* patch against a stale base all keep the last info.                      *)
InfoChange ==
    \A m \in Monitors :
        LET old == mon[m]
            new == mon'[m] IN
        /\ old # Nil
        /\ new # Nil
        /\ new.status.info # old.status.info
        => /\ active # Nil
           /\ active.target # Nil
           /\ active.target.pods \in Reporting
           /\ new.status.info = formatRuntimeInfo(active.target.pods)

InfoOnlyFromScrape == [][InfoChange]_vars

(* Whenever actions is set up, the PrometheusRule is there or will be. *)
RuleWithActions == (RuleWanted /\ initialized) ~> rule

(* A CamelMonitor that stays is polled again and again, unless its last    *)
(* round computed an interval that is not positive.                        *)
PolledForever ==
    \A m \in Monitors :
        []<>(\/ cache[m] = Nil
             \/ m \in parked
             \/ active # Nil /\ active.name = m)

(* Once the cluster is quiet, the status of every polled CamelMonitor      *)
(* whose workload exists settles on what the workload looks like, even if  *)
(* rounds were run against stale copies.                                   *)
Settled(m) ==
    LET s == mon[m].status
        w == world[m] IN
    /\ s.phase = w.phase
    /\ s.pods = w.pods
    /\ s.cond = w.pods
    /\ w.pods \in Reporting => s.info = formatRuntimeInfo(w.pods)

StatusSettles ==
    <>[](\A m \in Monitors :
            mon[m] # Nil /\ world[m].owner /\ m \notin parked => Settled(m))

(* The name of a deleted CamelMonitor leaves the queue and the timers. *)
DeletedDrains ==
    <>[](\A m \in Monitors : mon[m] = Nil => ~Scheduled(m))

-----------------------------------------------------------------------------
(* The abstract view of a state (StatusPromise).  What is found is what a  *)
(* round is going to send; a look may find everything, may fail to write   *)
(* the resources, or may find no list of pods.                             *)
Fields == {"phase", "pods", "info", "cond"}

Result(w, pods, cond) ==
    [phase |-> {w.phase},
     pods |-> {pods},
     info |-> IF pods \in Reporting THEN {formatRuntimeInfo(pods)} ELSE {},
     cond |-> {cond}]

Results(w) ==
    IF w.owner
    THEN {Result(w, w.pods, w.pods), Result(w, w.pods, "partial"),
          Result(w, "", "")}
    ELSE {}

(* The fields of target that a patch against base sends. *)
Sent(base, target) ==
    {f \in Fields : IF f = "cond" THEN target.cond # "" \/ base.cond # ""
                                  ELSE target[f] # base[f]}

Found ==
    IF active = Nil \/ active.target = Nil THEN {}
    ELSE {[name |-> active.name,
           fields |-> [f \in Sent(active.base.status, active.target) |->
                         active.target[f]]]}

StatusOf == [m \in Monitors |-> IF mon[m] = Nil THEN Nil ELSE mon[m].status]

Promise == INSTANCE StatusPromise
    WITH status <- StatusOf, found <- Found,
         Findings <- [w \in Worlds |-> Results(w)], Blank <- BlankStatus

(* A status holds only what a look at its own workload has found.  What    *)
(* one look found is written together, fields that it did not find keep    *)
(* their value, and nothing but the one round in work writes any: neither  *)
(* stale copies, retries and lost calls nor restarts and recreations make  *)
(* it otherwise.                                                           *)
StatusAsPromised == Promise!Spec
=============================================================================
