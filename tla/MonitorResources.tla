--------------------------- MODULE MonitorResources ---------------------------
(***************************************************************************)
(* The PodMonitor and the GrafanaDashboard of a CamelMonitor               *)
(* (prometheus.go and grafana.go in pkg/controller/camel_monitor): when    *)
(* they are written, what they hold, who owns them, and the conditions     *)
(* that tell of it.                                                        *)
(*                                                                         *)
(* A round reads the CamelMonitor from the cache, looks at the first pod   *)
(* of the scrape, writes one resource after the other (a cached Get, then  *)
(* Create or Update) and patches the status.  In between the CamelMonitor  *)
(* may be replaced, users may change the resources, their CRDs come and    *)
(* go, the operator crashes with a write still in flight, and is deployed  *)
(* again with other settings.                                              *)
(***************************************************************************)
EXTENDS PlatformSettings, FiniteSets

CONSTANTS
    Pods,          \* the pods the application may have
    Ports,         \* the ports they may serve metrics on
    Limits,        \* the CPU limits they may have, or Nil
    Nil,           \* nothing
    Foreign,       \* what a user writes into a resource
    Deployed,      \* the application when the operator is installed
    Environments,  \* the settings the operator may be deployed with
    Installed,     \* those it may be deployed with first
    Known,         \* what a lookup may find: the resources whose server is there
    Namespace,     \* the namespace of the CamelMonitor
    MaxUid,        \* bound: CamelMonitors created in one behaviour
    MaxOps,        \* bound: changes of application, resources, CRDs, settings
    MaxFaults      \* bound: failed calls, crashes

Resources == {"PodMonitor", "GrafanaDashboard"}

(* A pod is gone, there but without a metrics endpoint, or serves a port.  *)
PodStates == Ports \cup {"gone", "silent"}
Applications == [pods : [Pods -> PodStates], limit : Limits]

ASSUME ResourcesAssumption ==
    /\ Deployed \in Applications
    /\ Installed \subseteq Environments
    /\ Known \subseteq SUBSET Resources
    /\ MaxUid \in Nat
    /\ MaxOps \in Nat
    /\ MaxFaults \in Nat

Uids == 1..MaxUid
Outcomes == {"none", "True", "False"}

VARIABLES
    cm,         \* the uid of the CamelMonitor on the server, 0 if there is none
    lastUid,    \* the uids given so far
    cmCache,    \* the uid the operator's cache holds
    app,        \* the application, as a scrape would find it
    crds,       \* the resources whose CRD is installed
    has,        \* those the running process wants, as it found at its start
    stored,     \* API server: [owner, content] of every resource, or Nil
    cached,     \* the cached client's view of every resource
    status,     \* conditions of the CamelMonitor: resources and Monitored
    round,      \* the round of the worker, or Nil
    late,       \* a write of a crashed process the server has yet to see, or Nil
    up,         \* the operator process is running
    env,        \* the environment the operator is deployed with
    ops,        \* changes so far
    faults      \* faults so far

cluster == <<cm, lastUid, app, crds, stored, status>>
operator == <<cmCache, has, cached, round, up>>
vars == <<cluster, operator, late, env, ops, faults>>

-----------------------------------------------------------------------------
(* What is written. *)

GetResourcesLimitInMillis(limit) == IF limit = Nil THEN -1 ELSE limit

(* Thresholds are drawn only for a limit above zero. *)
dashboardFor(limit, e) ==
    LET max == GetResourcesLimitInMillis(limit) IN
    [labels |-> getLabelFromEnvVar(e.label), datasource |-> GetGrafanaDatasource(e),
     idle |-> GetMaxIdle(e), cpu |-> IF max > 0 THEN max ELSE Nil]

podMonitorFor(port, e) == [labels |-> getLabelFromEnvVar(e.label), port |-> port]

ContentOf(r, port, limit, e) ==
    IF r = "PodMonitor" THEN podMonitorFor(port, e) ELSE dashboardFor(limit, e)

Contents ==
    {podMonitorFor(port, e) : port \in Ports, e \in Environments}
    \cup {dashboardFor(limit, e) : limit \in Limits, e \in Environments}
    \cup {Foreign}

(* Mutant: the resource is written without an owner reference. *)
Target_NoOwner(r) ==
    [owner |-> 0, content |-> Head(round.todo).content]

(* Mutant: a resource that is there already is left as it is. *)
Target_Kept(r) ==
    IF round.found /\ stored[r] # Nil THEN stored[r]
    ELSE [owner |-> round.uid, content |-> Head(round.todo).content]

(* GetOwnerReferences names the CamelMonitor the round has read. *)
Target(r) == [owner |-> round.uid, content |-> Head(round.todo).content]

Versions == [owner : 0..MaxUid, content : Contents]
Unsynced == [synced |-> FALSE, found |-> FALSE, current |-> FALSE]
Blank == [cond |-> [r \in Resources |-> "none"], monitored |-> FALSE]
Rounds == [uid : Uids, todo : Seq([res : Resources, content : Contents]),
           stage : {"get", "write"}, found : BOOLEAN, valid : BOOLEAN,
           cond : [Resources -> Outcomes], monitored : BOOLEAN]
Writes == [res : Resources, found : BOOLEAN, valid : BOOLEAN, value : Versions]

-----------------------------------------------------------------------------
(* The API server's copy of a resource changes: a cached copy, the version *)
(* a pending Update carries and the one of a late write are outdated.      *)
Touch(r, v) ==
    /\ stored' = [stored EXCEPT ![r] = v]
    /\ cached' = [cached EXCEPT ![r].current = FALSE]
    /\ round' = IF round # Nil /\ round.stage = "write" /\ Head(round.todo).res = r
                THEN [round EXCEPT !.valid = FALSE] ELSE round
    /\ late' = IF late # Nil /\ late.res = r
               THEN [late EXCEPT !.valid = FALSE] ELSE late

(* Mutant: an Update without the ResourceVersion of what was read. *)
Accepted_Unconditional(w) ==
    /\ w.res \in crds
    /\ w.found <=> stored[w.res] # Nil

(* The server takes a Create of what is not there, and an Update of the    *)
(* version it holds.                                                       *)
Accepted(w) ==
    /\ w.res \in crds
    /\ w.found <=> stored[w.res] # Nil
    /\ w.found => w.valid

Fault ==
    /\ faults < MaxFaults
    /\ faults' = faults + 1

Change ==
    /\ ops < MaxOps
    /\ ops' = ops + 1
    /\ UNCHANGED faults

Init ==
    /\ cm = 0
    /\ lastUid = 0
    /\ cmCache = 0
    /\ app = Deployed
    /\ crds = Resources
    /\ has = {}
    /\ stored = [r \in Resources |-> Nil]
    /\ cached = [r \in Resources |-> Unsynced]
    /\ status = Blank
    /\ round = Nil
    /\ late = Nil
    /\ up = FALSE
    /\ env \in Installed
    /\ ops = 0
    /\ faults = 0

-----------------------------------------------------------------------------
(* The rest of the cluster. *)

(* The import creates the CamelMonitor, for the first time or again. *)
MonitorCreated ==
    /\ cm = 0
    /\ lastUid < MaxUid
    /\ lastUid' = lastUid + 1
    /\ cm' = lastUid + 1
    /\ status' = Blank
    /\ UNCHANGED <<operator, app, crds, stored, late, env, ops, faults>>

MonitorDeleted ==
    /\ Change
    /\ cm # 0
    /\ cm' = 0
    /\ status' = Blank
    /\ UNCHANGED <<operator, lastUid, app, crds, stored, late, env>>

(* Pods come, go and move to another port; a rollout changes the limit.    *)
ApplicationChanges ==
    /\ Change
    /\ \/ \E p \in Pods, s \in PodStates :
            /\ s # app.pods[p]
            /\ app' = [app EXCEPT !.pods[p] = s]
       \/ \E l \in Limits \ {app.limit} : app' = [app EXCEPT !.limit = l]
    /\ UNCHANGED <<operator, cm, lastUid, crds, stored, status, late, env>>

(* A user edits a resource, or has one of the same name. *)
UserWrites(r) ==
    /\ Change
    /\ r \in crds
    /\ Touch(r, [owner |-> IF stored[r] = Nil THEN 0 ELSE stored[r].owner,
                 content |-> Foreign])
    /\ UNCHANGED <<cm, cmCache, lastUid, app, crds, has, status, up, env>>

UserDeletes(r) ==
    /\ Change
    /\ stored[r] # Nil
    /\ Touch(r, Nil)
    /\ UNCHANGED <<cm, cmCache, lastUid, app, crds, has, status, up, env>>

(* Prometheus or Grafana is uninstalled: its resources go with the CRD.    *)
CrdRemoved(r) ==
    /\ Change
    /\ r \in crds
    /\ crds' = crds \ {r}
    /\ Touch(r, Nil)
    /\ UNCHANGED <<cm, cmCache, lastUid, app, has, status, up, env>>

CrdInstalled(r) ==
    /\ Change
    /\ r \notin crds
    /\ crds' = crds \cup {r}
    /\ UNCHANGED <<operator, cm, lastUid, app, stored, status, late, env>>

(* An owner that is gone, for whoever wrote the reference to it. *)
GarbageCollect(r) ==
    /\ stored[r] # Nil
    /\ stored[r].owner \notin {0, cm}
    /\ Touch(r, Nil)
    /\ UNCHANGED <<cm, cmCache, lastUid, app, crds, has, status, up, env, ops,
                   faults>>

-----------------------------------------------------------------------------
(* The caches. *)

MonitorCacheUpdate ==
    /\ up
    /\ Watches(env, Namespace)
    /\ cmCache # cm
    /\ cmCache' = cm
    /\ UNCHANGED <<cluster, has, cached, round, up, late, env, ops, faults>>

ResourceCacheUpdate(r) ==
    /\ cached[r].synced
    /\ ~cached[r].current
    /\ cached' = [cached EXCEPT ![r].found = stored[r] # Nil,
                                ![r].current = TRUE]
    /\ UNCHANGED <<cluster, cmCache, has, round, up, late, env, ops, faults>>

-----------------------------------------------------------------------------
(* A round. *)

Present == {p \in Pods : app.pods[p] # "gone"}

(* The pod whose observability service decides: Pods[0] of a list in no    *)
(* particular order, no pods or a pod without a metrics endpoint: Nil.     *)
FirstPort == IF Present = {} THEN {Nil}
             ELSE {IF app.pods[p] \in Ports THEN app.pods[p] ELSE Nil : p \in Present}

(* What the round will write, and in which order, if the pod has metrics. *)
ToWrite(port) ==
    LET item(r) == IF r \in has /\ port # Nil
                   THEN <<[res |-> r, content |-> ContentOf(r, port, app.limit, env)]>>
                   ELSE <<>>
    IN  item("PodMonitor") \o item("GrafanaDashboard")

(* Mutant: a CamelMonitor that is gone is handled like any other. *)
RoundBegins_NoGuard ==
    /\ up
    /\ round = Nil
    /\ \E port \in FirstPort :
        round' = [uid |-> cmCache, todo |-> ToWrite(port),
                  stage |-> "get", found |-> FALSE, valid |-> FALSE,
                  cond |-> Blank.cond, monitored |-> TRUE]
    /\ UNCHANGED <<cluster, cmCache, has, cached, up, late, env, ops, faults>>

(* Reconcile reads the CamelMonitor, Handle resets its conditions and      *)
(* scrapes the pods.                                                       *)
RoundBegins ==
    /\ up
    /\ round = Nil
    /\ cmCache # 0
    /\ \E port \in FirstPort :
        round' = [uid |-> cmCache, todo |-> ToWrite(port),
                  stage |-> "get", found |-> FALSE, valid |-> FALSE,
                  cond |-> Blank.cond, monitored |-> TRUE]
    /\ UNCHANGED <<cluster, cmCache, has, cached, up, late, env, ops, faults>>

(* The pods cannot be listed: the round ends with a status that has no     *)
(* conditions, which a merge patch sends if the base had some.             *)
RoundWithoutPods ==
    /\ Fault
    /\ up
    /\ round = Nil
    /\ cmCache # 0
    /\ status' \in {status, Blank}
    /\ UNCHANGED <<operator, cm, lastUid, app, crds, stored, late, env, ops>>

Turn(r) == round # Nil /\ round.todo # <<>> /\ Head(round.todo).res = r
Getting(r) == Turn(r) /\ round.stage = "get"
Writing(r) == Turn(r) /\ round.stage = "write"

(* The first Get of a kind starts its informer and waits for its first     *)
(* list, which a missing CRD never grants; later ones read the cache.      *)
Get(r) ==
    /\ Getting(r)
    /\ cached[r].synced \/ r \in crds
    /\ cached' = IF cached[r].synced THEN cached
                 ELSE [cached EXCEPT ![r] = [synced |-> TRUE, current |-> TRUE,
                                             found |-> stored[r] # Nil]]
    /\ round' = [round EXCEPT !.stage = "write", !.found = cached'[r].found,
                     !.valid = cached'[r].current]
    /\ UNCHANGED <<cluster, cmCache, has, up, late, env, ops, faults>>

(* The rest of a round: what was read before is not looked at again. *)
Rest(todo) ==
    [round EXCEPT !.todo = todo, !.stage = "get", !.found = FALSE, !.valid = FALSE]

(* Mutant: the condition does not look at the error. *)
Failed_NotReported(r) ==
    [Rest(<<>>) EXCEPT !.cond[r] = "True", !.monitored = FALSE]

(* The condition tells of the error, Handle returns what it has: neither   *)
(* the next resource nor Monitored and Healthy.                            *)
Failed(r) ==
    [Rest(<<>>) EXCEPT !.cond[r] = "False", !.monitored = FALSE]

GetFails(r) ==
    /\ Fault
    /\ Getting(r)
    /\ round' = Failed(r)
    /\ UNCHANGED <<cluster, cmCache, has, cached, up, late, env, ops>>

Pending(r) == [res |-> r, found |-> round.found, valid |-> round.valid,
               value |-> Target(r)]

(* An Update that changes nothing makes no new version. *)
Write(r) ==
    /\ Writing(r)
    /\ Accepted(Pending(r))
    /\ round' = [Rest(Tail(round.todo)) EXCEPT !.cond[r] = "True"]
    /\ IF stored[r] = Target(r)
       THEN UNCHANGED <<stored, cached, late>>
       ELSE /\ stored' = [stored EXCEPT ![r] = Target(r)]
            /\ cached' = [cached EXCEPT ![r].current = FALSE]
            /\ late' = IF late # Nil /\ late.res = r
                       THEN [late EXCEPT !.valid = FALSE] ELSE late
    /\ UNCHANGED <<cm, cmCache, lastUid, app, crds, has, status, up, env, ops,
                   faults>>

(* AlreadyExists, NotFound, a conflict, or no such resource. *)
WriteRefused(r) ==
    /\ Writing(r)
    /\ ~Accepted(Pending(r))
    /\ round' = Failed(r)
    /\ UNCHANGED <<cluster, cmCache, has, cached, up, late, env, ops, faults>>

WriteFails(r) ==
    /\ Fault
    /\ Writing(r)
    /\ round' = Failed(r)
    /\ UNCHANGED <<cluster, cmCache, has, cached, up, late, env, ops>>

(* The status goes to whatever CamelMonitor has the name now. *)
Patch ==
    /\ round # Nil
    /\ round.todo = <<>>
    /\ round' = Nil
    /\ status' = IF cm = 0 THEN status
                 ELSE [cond |-> round.cond, monitored |-> round.monitored]
    /\ UNCHANGED <<cm, lastUid, cmCache, app, crds, stored, has, cached, up,
                   late, env, ops, faults>>

PatchFails ==
    /\ Fault
    /\ round # Nil
    /\ round.todo = <<>>
    /\ round' = Nil
    /\ UNCHANGED <<cluster, cmCache, has, cached, up, late, env, ops>>

-----------------------------------------------------------------------------
(* The process. *)

Down ==
    /\ up' = FALSE
    /\ cmCache' = 0
    /\ has' = {}
    /\ cached' = [r \in Resources |-> Unsynced]
    /\ round' = Nil

(* A request that is on its way may reach the server after the next        *)
(* process, or the next leader, has started; bound: one such request.      *)
Crash ==
    /\ Fault
    /\ up
    /\ Down
    /\ late' \in {late} \cup {Pending(r) : r \in {x \in Resources : Writing(x)}}
    /\ UNCHANGED <<cluster, env, ops>>

LateWrite ==
    /\ late # Nil
    /\ IF Accepted(late) /\ stored[late.res] # late.value
       THEN /\ stored' = [stored EXCEPT ![late.res] = late.value]
            /\ cached' = [cached EXCEPT ![late.res].current = FALSE]
            /\ round' = IF Writing(late.res)
                        THEN [round EXCEPT !.valid = FALSE] ELSE round
       ELSE UNCHANGED <<stored, cached, round>>
    /\ late' = Nil
    /\ UNCHANGED <<cm, cmCache, lastUid, app, crds, has, status, up, env, ops,
                   faults>>

Redeploy ==
    /\ Change
    /\ env' \in Environments \ {env}
    /\ Down
    /\ UNCHANGED <<cluster, late>>

(* What is looked up, once, is not the kind that is written but the kind   *)
(* of the server that uses it, Prometheus or Grafana: known is what the    *)
(* cluster has of these, whatever CRDs of resources there are.  What of    *)
(* them is wanted is a setting.                                            *)
Discovered(known) == known \cap GetCreate(env)

(* Run, and Add of the controller: discovery, then the cache's first list. *)
Start ==
    /\ ~up
    /\ Starts(env)
    /\ up' = TRUE
    /\ \E known \in Known : has' = Discovered(known)
    /\ cmCache' = IF Watches(env, Namespace) THEN cm ELSE 0
    /\ UNCHANGED <<cluster, cached, round, late, env, ops, faults>>

-----------------------------------------------------------------------------
Worker ==
    \/ RoundBegins
    \/ \E r \in Resources : Get(r) \/ Write(r) \/ WriteRefused(r)
    \/ Patch

Next ==
    \/ Worker
    \/ RoundWithoutPods
    \/ PatchFails
    \/ \E r \in Resources :
        \/ GetFails(r)
        \/ WriteFails(r)
        \/ UserWrites(r)
        \/ UserDeletes(r)
        \/ CrdRemoved(r)
        \/ CrdInstalled(r)
        \/ GarbageCollect(r)
        \/ ResourceCacheUpdate(r)
    \/ MonitorCreated
    \/ MonitorDeleted
    \/ ApplicationChanges
    \/ MonitorCacheUpdate
    \/ Crash
    \/ LateWrite
    \/ Redeploy
    \/ Start

(* Requests end, the garbage collector collects, the watches of resources  *)
(* deliver and the kubelet starts the operator.                            *)
Cluster ==
    \/ LateWrite
    \/ Start
    \/ \E r \in Resources : GarbageCollect(r) \/ ResourceCacheUpdate(r)

(* The worker polls for ever, the watch of CamelMonitors delivers, and the *)
(* cluster does one thing or another, which is less than that every single *)
(* one of them is fair.                                                    *)
Fairness ==
    /\ WF_vars(Worker)
    /\ WF_vars(MonitorCacheUpdate)
    /\ WF_vars(Cluster)

Spec == Init /\ [][Next]_vars
FairSpec == Spec /\ Fairness

-----------------------------------------------------------------------------
(* Type invariant: a round is about a CamelMonitor that has been, and a    *)
(* resource holds what some round, or a user, wrote.                       *)
TypeOK ==
    /\ cm \in 0..MaxUid
    /\ lastUid \in 0..MaxUid
    /\ cmCache \in 0..MaxUid
    /\ app \in Applications
    /\ crds \subseteq Resources
    /\ has \subseteq Resources
    /\ stored \in [Resources -> Versions \cup {Nil}]
    /\ cached \in [Resources -> [synced : BOOLEAN, found : BOOLEAN, current : BOOLEAN]]
    /\ status \in [cond : [Resources -> Outcomes], monitored : BOOLEAN]
    /\ round \in Rounds \cup {Nil}
    /\ late \in Writes \cup {Nil}
    /\ up \in BOOLEAN
    /\ env \in Environments
    /\ ops \in 0..MaxOps
    /\ faults \in 0..MaxFaults

(* A resource that belongs to the present CamelMonitor is never handed     *)
(* back to an earlier one, whatever a stale round or the late write of a   *)
(* crashed process still has to say: the ResourceVersion sees to it.       *)
OwnerKept ==
    \A r \in Resources :
        /\ stored[r] # Nil
        /\ stored'[r] # Nil
        /\ cm # 0
        /\ stored[r].owner = cm
        => stored'[r].owner = cm

NeverHandedBack == [][OwnerKept]_vars

(* The worker waits for the informer of a kind that is no longer there. *)
Hung == \E r \in Resources : Getting(r) /\ ~cached[r].synced /\ r \notin crds

Polled == cm # 0 /\ up /\ Watches(env, Namespace) /\ ~Hung

(* All pods serve the same port, and the CRDs of what is wanted are there. *)
Serves(port) ==
    /\ port \in Ports
    /\ Present # {}
    /\ \A p \in Present : app.pods[p] = port
    /\ has \subseteq crds

UpToDate(r, port) ==
    /\ stored[r] = [owner |-> cm, content |-> ContentOf(r, port, app.limit, env)]
    /\ status.cond[r] = "True"

(* Once things are quiet, the resources of an application that serves      *)
(* metrics belong to its CamelMonitor and say what the application and the *)
(* settings say now, whoever wrote to them before, and the status agrees.  *)
ResourcesSettle ==
    <>[](\A port \in Ports :
            Polled /\ Serves(port) =>
                /\ status.monitored
                /\ \A r \in has : UpToDate(r, port))

(* Once things are quiet, a True condition is about a resource that is     *)
(* there and belongs to the CamelMonitor, even if the CRD of what is       *)
(* wanted is not there, or the pods disagree about their ports.            *)
ConditionsAreTrue ==
    <>[](Polled =>
            \A r \in Resources :
                status.cond[r] = "True" =>
                    stored[r] # Nil /\ stored[r].owner = cm)

(* The resources of a deleted CamelMonitor go, also those a stale round or *)
(* a late write creates after it; only what a user wrote may stay.         *)
DependentsCollected ==
    <>[](\A r \in Resources :
            cm = 0 /\ stored[r] # Nil => stored[r].content = Foreign)
=============================================================================
