--------------------------- MODULE SyntheticImport ---------------------------
(***************************************************************************)
(* The import of Camel applications (pkg/controller/synthetic/synthetic.go *)
(* and the CamelMonitor() builders of its two adapters).  The operator     *)
(* keeps one label-filtered informer per workload kind (Deployment,        *)
(* CronJob); each informer calls onAdd and onDelete from a goroutine of    *)
(* its own.  onAdd reads the CamelMonitor named by the object's label from *)
(* the cached client and creates the missing CamelMonitor on the API       *)
(* server, or a revision whose name is suffixed by the object's name.      *)
(*                                                                         *)
(* The informers are no part of the leader-elected controllers: every      *)
(* replica of the operator runs them, over caches of its own.              *)
(*                                                                         *)
(* A Kubernetes name is a sequence of dash separated segments, so that a   *)
(* revision name is a concatenation and may collide with another label.    *)
(* One namespace is modelled: no step of the import crosses namespaces.    *)
(***************************************************************************)
EXTENDS Naturals, Sequences, FiniteSets, SequencesExt

CONSTANTS
    Replicas,       \* the operator's pods
    Kinds,          \* the workload kinds that may have an informer
    Optional,       \* the kinds whose API is looked up when a replica starts
    Objects,        \* workload identities: [kind : Kinds, name : a name]
    LabelsOf,       \* LabelsOf[o]: the monitor label values o may be given
    None,           \* no label
    NoMonitor,      \* no CamelMonitor under that name
    Idle,           \* an informer's handler between two events
    Env,            \* what the environment does in this instance
    MaxUid,         \* bound: objects created in one behaviour
    MaxOps,         \* bound: steps taken by users
    MaxFaults       \* bound: crashes, broken watches, failed API calls

EnvSteps == {"delete", "label", "unlabel", "relabel",
             "crash", "watch", "api", "discovery"}

(* An informer: of which replica and of which kind. *)
Informers == Replicas \X Kinds

Labels == UNION {LabelsOf[o] : o \in Objects}

(* Mutant: the suffix is computed but not applied. *)
RevisionName_NoSuffix(l, o) == l

RevisionName(l, o) == l \o o.name

MonitorNames == Labels \cup
    UNION {{RevisionName(l, o) : l \in Labels} : o \in Objects}

ASSUME ObjectsAssumption ==
    /\ IsFiniteSet(Objects)
    /\ \A o \in Objects : /\ o.kind \in Kinds
                          /\ \A p \in Objects :
                                o.kind = p.kind /\ o.name = p.name => o = p

ASSUME LabelsAssumption == None \notin Labels

ASSUME NoMonitorAssumption ==
    NoMonitor \notin {[obj |-> o, uid |-> u] : o \in Objects, u \in 0..MaxUid}

ASSUME IdleAssumption ==
    Idle \notin {[name |-> n, obj |-> o, uid |-> u] :
                    n \in MonitorNames, o \in Objects, u \in 1..MaxUid}

ASSUME BoundsAssumption ==
    /\ Optional \subseteq Kinds
    /\ Env \subseteq EnvSteps
    /\ MaxUid \in Nat
    /\ MaxOps \in Nat
    /\ MaxFaults \in Nat

VARIABLES
    obj,        \* API server: the workloads, uid 0 when absent
    nextUid,    \* API server: the uid the next created workload gets
    monitor,    \* API server: the CamelMonitors by name
    watching,   \* watching[i]: informer i has a live watch
    seen,       \* seen[i]: the store of i, the labelled objects it knows
    inbox,      \* inbox[i]: notifications not yet given to i's handler
    handler,    \* handler[i]: Idle, or the Create call onAdd is about to send
    mcache,     \* mcache[r]: the CamelMonitors of replica r's cached client
    mwatch,     \* mwatch[r]: CamelMonitor changes not yet in mcache[r]
    up,         \* up[r]: replica r is running
    served,     \* served[r]: the kinds replica r has an informer for
    misread,    \* history: the workloads whose last add was decided on a
                \* copy in a cache that the API server no longer agreed with
    ops,        \* user steps so far
    faults      \* faults so far

operator == <<watching, seen, inbox, handler, mcache, up, served>>
vars == <<obj, nextUid, monitor, watching, seen, inbox, handler, mcache,
          mwatch, up, served, misread, ops, faults>>

-----------------------------------------------------------------------------
(* What the API server shows of a workload. *)

Absent == [uid |-> 0, label |-> None]

(* Mutant: the manager's cache has no label selector. *)
Selected_Everything(w) == w

(* The label selector of the manager's cache hides unlabelled objects. *)
Selected(w) == IF w.label = None THEN Absent ELSE w

(* Mutant: the CamelMonitor is created without its owner reference. *)
Monitor_NoOwner(o, uid) == [obj |-> o, uid |-> 0]

(* The imported-from annotations and the owner reference. *)
Monitor(o, uid) == [obj |-> o, uid |-> uid]

(* The event carries the object: its labels and uid as they were then. *)
Event(type, o, w) ==
    [type |-> type, obj |-> o, label |-> w.label, uid |-> w.uid]

(* A watch turns a change of the selected state into an add or a delete    *)
(* (with the last selected content); a change of an object that stays      *)
(* selected is an update, for which no UpdateFunc is registered.           *)
WatchEvents(o, was, now) ==
    CASE was = Absent /\ now # Absent -> <<Event("add", o, now)>>
      [] was # Absent /\ now = Absent -> <<Event("delete", o, was)>>
      [] OTHER -> <<>>

(* A list after a broken watch is compared with the store: what            *)
(* disappeared in between is delivered as DeletedFinalStateUnknown.  A     *)
(* workload deleted and created again under the same name is an update.    *)
RelistEvents(k, store) ==
    {Event("add", o, Selected(obj[o])) :
        o \in {p \in Objects : /\ p.kind = k
                               /\ store[p] = Absent
                               /\ Selected(obj[p]) # Absent}}
    \cup
    {Event("tombstone", o, store[o]) :
        o \in {p \in Objects : /\ p.kind = k
                               /\ store[p] # Absent
                               /\ Selected(obj[p]) = Absent}}

NoObjects == [o \in Objects |-> Absent]
NoMonitors == [n \in MonitorNames |-> NoMonitor]

(* An empty cluster, before the first replica starts. *)
Init ==
    /\ obj = NoObjects
    /\ nextUid = 1
    /\ monitor = NoMonitors
    /\ watching = [i \in Informers |-> FALSE]
    /\ seen = [i \in Informers |-> NoObjects]
    /\ inbox = [i \in Informers |-> <<>>]
    /\ handler = [i \in Informers |-> Idle]
    /\ mcache = [r \in Replicas |-> NoMonitors]
    /\ mwatch = [r \in Replicas |-> <<>>]
    /\ up = [r \in Replicas |-> FALSE]
    /\ served = [r \in Replicas |-> Kinds \ Optional]
    /\ misread = {}
    /\ ops = 0
    /\ faults = 0

-----------------------------------------------------------------------------
(* The users of the cluster. *)

Watches(i, o) == watching[i] /\ i[2] = o.kind

SetObject(o, now) ==
    /\ ops < MaxOps
    /\ ops' = ops + 1
    /\ obj' = [obj EXCEPT ![o] = now]
    /\ seen' = [i \in Informers |->
            IF Watches(i, o) THEN [seen[i] EXCEPT ![o] = Selected(now)]
                             ELSE seen[i]]
    /\ inbox' = [i \in Informers |->
            IF Watches(i, o)
            THEN inbox[i] \o WatchEvents(o, seen[i][o], Selected(now))
            ELSE inbox[i]]
    /\ UNCHANGED <<monitor, watching, handler, mcache, mwatch, up, served,
                   misread, faults>>

CreateObject(o, l) ==
    /\ obj[o].uid = 0
    /\ nextUid <= MaxUid
    /\ nextUid' = nextUid + 1
    /\ SetObject(o, [uid |-> nextUid, label |-> l])

DeleteObject(o) ==
    /\ "delete" \in Env
    /\ obj[o].uid # 0
    /\ SetObject(o, Absent)
    /\ UNCHANGED nextUid

LabelIn(o, l) ==
    /\ "label" \in Env
    /\ obj[o].uid # 0
    /\ obj[o].label = None
    /\ SetObject(o, [obj[o] EXCEPT !.label = l])
    /\ UNCHANGED nextUid

LabelOut(o) ==
    /\ "unlabel" \in Env
    /\ obj[o].label # None
    /\ SetObject(o, [obj[o] EXCEPT !.label = None])
    /\ UNCHANGED nextUid

Relabel(o, l) ==
    /\ "relabel" \in Env
    /\ obj[o].label \notin {None, l}
    /\ SetObject(o, [obj[o] EXCEPT !.label = l])
    /\ UNCHANGED nextUid

-----------------------------------------------------------------------------
(* The API server and its garbage collector. *)

PutMonitor(n, m) ==
    /\ monitor' = [monitor EXCEPT ![n] = m]
    /\ mwatch' = [r \in Replicas |->
            IF up[r] THEN Append(mwatch[r], [name |-> n, mon |-> m])
                     ELSE mwatch[r]]

(* The owner reference names a uid that no longer exists.  An object that  *)
(* has no owner reference is never collected.                              *)
Orphan(n) ==
    /\ monitor[n] # NoMonitor
    /\ monitor[n].uid # 0
    /\ obj[monitor[n].obj].uid # monitor[n].uid

GarbageCollect(n) ==
    /\ Orphan(n)
    /\ PutMonitor(n, NoMonitor)
    /\ UNCHANGED <<obj, nextUid, operator, misread, ops, faults>>

-----------------------------------------------------------------------------
(* The handlers of an informer. *)

Fault(f) ==
    /\ f \in Env
    /\ faults < MaxFaults
    /\ faults' = faults + 1

Take(i, type) ==
    /\ up[i[1]]
    /\ handler[i] = Idle
    /\ inbox[i] # <<>>
    /\ Head(inbox[i]).type = type
    /\ inbox' = [inbox EXCEPT ![i] = Tail(@)]

(* Mutant: the comparison of the names is inverted. *)
ImportedFrom_Inverted(m, o) == m.obj.name # o.name

(* MonitorImportedNameLabel is compared with the object's name alone. *)
ImportedFrom(m, o) == m.obj.name = o.name

(* The cases of onAdd, by what getSyntheticCamelMonitor found. *)
Case(m, o) ==
    CASE m = NoMonitor -> "new"
      [] m # NoMonitor /\ ImportedFrom(m, o) -> "bound"
      [] OTHER -> "revision"

(* onAdd reads the cached client at once, however far its cache is behind  *)
(* the API server; misread remembers the workloads decided wrongly.        *)
Decides(i, case) ==
    LET e == Head(inbox[i]) IN
    /\ Take(i, "add")
    /\ Case(mcache[i[1]][e.label], e.obj) = case
    /\ misread' = IF Case(monitor[e.label], e.obj) = case
                  THEN misread \ {e.obj}
                  ELSE misread \cup {e.obj}

(* onAdd up to its Create call, sent later: the case fixes the name. *)
OnAddTo(i, name) ==
    /\ handler' = [handler EXCEPT ![i] =
            [name |-> name, obj |-> Head(inbox[i]).obj,
             uid |-> Head(inbox[i]).uid]]
    /\ UNCHANGED <<obj, nextUid, monitor, watching, seen, mcache, mwatch, up,
                   served, ops, faults>>

OnAddNew(i) ==
    /\ Decides(i, "new")
    /\ OnAddTo(i, Head(inbox[i]).label)

OnAddRevision(i) ==
    /\ Decides(i, "revision")
    /\ OnAddTo(i, RevisionName(Head(inbox[i]).label, Head(inbox[i]).obj))

(* Mutant: a CamelMonitor that is already there is replaced. *)
OnAddBound_Recreate(i) ==
    /\ Decides(i, "bound")
    /\ PutMonitor(Head(inbox[i]).label, NoMonitor)
    /\ handler' = [handler EXCEPT ![i] =
            [name |-> Head(inbox[i]).label, obj |-> Head(inbox[i]).obj,
             uid |-> Head(inbox[i]).uid]]
    /\ UNCHANGED <<obj, nextUid, watching, seen, mcache, up, served, ops,
                   faults>>

OnAddBound(i) ==
    /\ Decides(i, "bound")
    /\ UNCHANGED <<obj, nextUid, monitor, watching, seen, handler, mcache,
                   mwatch, up, served, ops, faults>>

(* The CamelMonitor cannot be read: onAdd logs the error. *)
OnAddReadFails(i) ==
    /\ Fault("api")
    /\ Take(i, "add")
    /\ UNCHANGED <<obj, nextUid, monitor, watching, seen, handler, mcache,
                   mwatch, up, served, misread, ops>>

(* Mutant: the CamelMonitor is created or updated. *)
CreateMonitor_Overwrite(i) ==
    LET c == handler[i] IN
    /\ c # Idle
    /\ handler' = [handler EXCEPT ![i] = Idle]
    /\ PutMonitor(c.name, Monitor(c.obj, c.uid))
    /\ UNCHANGED <<obj, nextUid, watching, seen, inbox, mcache, up, served,
                   misread, ops, faults>>

(* createSyntheticCamelMonitor: AlreadyExists is logged and dropped. *)
CreateMonitor(i) ==
    LET c == handler[i] IN
    /\ c # Idle
    /\ handler' = [handler EXCEPT ![i] = Idle]
    /\ IF monitor[c.name] = NoMonitor
       THEN PutMonitor(c.name, Monitor(c.obj, c.uid))
       ELSE UNCHANGED <<monitor, mwatch>>
    /\ UNCHANGED <<obj, nextUid, watching, seen, inbox, mcache, up, served,
                   misread, ops, faults>>

(* Any other error of the call is logged and dropped as well. *)
CreateMonitorFails(i) ==
    /\ Fault("api")
    /\ handler[i] # Idle
    /\ handler' = [handler EXCEPT ![i] = Idle]
    /\ UNCHANGED <<obj, nextUid, monitor, watching, seen, inbox, mcache,
                   mwatch, up, served, misread, ops>>

(* Mutant: onDelete deletes the revision name instead of the label. *)
OnDelete_Revision(i) ==
    LET e == Head(inbox[i])
        n == RevisionName(e.label, e.obj) IN
    /\ Take(i, "delete")
    /\ IF monitor[n] # NoMonitor
       THEN PutMonitor(n, NoMonitor)
       ELSE UNCHANGED <<monitor, mwatch>>
    /\ UNCHANGED <<obj, nextUid, watching, seen, handler, mcache, up,
                   served, misread, ops, faults>>

(* onDelete deletes the CamelMonitor named by the label, whoever owns it. *)
OnDelete(i) ==
    LET n == Head(inbox[i]).label IN
    /\ Take(i, "delete")
    /\ IF monitor[n] # NoMonitor
       THEN PutMonitor(n, NoMonitor)
       ELSE UNCHANGED <<monitor, mwatch>>
    /\ UNCHANGED <<obj, nextUid, watching, seen, handler, mcache, up,
                   served, misread, ops, faults>>

OnDeleteFails(i) ==
    /\ Fault("api")
    /\ Take(i, "delete")
    /\ UNCHANGED <<obj, nextUid, monitor, watching, seen, handler, mcache,
                   mwatch, up, served, misread, ops>>

(* DeletedFinalStateUnknown is no ctrl.Object: DeleteFunc logs it only. *)
OnTombstone(i) ==
    /\ Take(i, "tombstone")
    /\ UNCHANGED <<obj, nextUid, monitor, watching, seen, handler, mcache,
                   mwatch, up, served, misread, ops, faults>>

-----------------------------------------------------------------------------
(* The caches and the process. *)

MonitorCacheUpdate(r) ==
    /\ mwatch[r] # <<>>
    /\ mcache' = [mcache EXCEPT ![r] =
            [@ EXCEPT ![Head(mwatch[r]).name] = Head(mwatch[r]).mon]]
    /\ mwatch' = [mwatch EXCEPT ![r] = Tail(@)]
    /\ UNCHANGED <<obj, nextUid, monitor, watching, seen, inbox, handler,
                   up, served, misread, ops, faults>>

WatchBreaks(i) ==
    /\ Fault("watch")
    /\ watching[i]
    /\ watching' = [watching EXCEPT ![i] = FALSE]
    /\ UNCHANGED <<obj, nextUid, monitor, seen, inbox, handler, mcache,
                   mwatch, up, served, misread, ops>>

Relist(i) ==
    /\ up[i[1]]
    /\ i[2] \in served[i[1]]
    /\ ~watching[i]
    /\ watching' = [watching EXCEPT ![i] = TRUE]
    /\ seen' = [seen EXCEPT ![i] = [o \in Objects |->
            IF o.kind = i[2] THEN Selected(obj[o]) ELSE @[o]]]
    /\ \E q \in SetToSeqs(RelistEvents(i[2], seen[i])) :
            inbox' = [inbox EXCEPT ![i] = @ \o q]
    /\ UNCHANGED <<obj, nextUid, monitor, handler, mcache, mwatch, up,
                   served, misread, ops, faults>>

(* A crash loses the queues and the caches; nothing of them is persisted. *)
Crash(r) ==
    /\ Fault("crash")
    /\ up[r]
    /\ up' = [up EXCEPT ![r] = FALSE]
    /\ watching' = [i \in Informers |-> i[1] # r /\ watching[i]]
    /\ seen' = [i \in Informers |-> IF i[1] = r THEN NoObjects ELSE seen[i]]
    /\ inbox' = [i \in Informers |-> IF i[1] = r THEN <<>> ELSE inbox[i]]
    /\ handler' = [i \in Informers |-> IF i[1] = r THEN Idle ELSE handler[i]]
    /\ mcache' = [mcache EXCEPT ![r] = NoMonitors]
    /\ mwatch' = [mwatch EXCEPT ![r] = <<>>]
    /\ UNCHANGED <<obj, nextUid, monitor, served, misread, ops>>

(* Mutant: the handlers ignore the objects of an informer's initial list. *)
Start_SkipInitialList(r) ==
    /\ ~up[r]
    /\ up' = [up EXCEPT ![r] = TRUE]
    /\ served' = [served EXCEPT ![r] = Kinds]
    /\ mcache' = [mcache EXCEPT ![r] = monitor]
    /\ watching' = [i \in Informers |-> i[1] = r \/ watching[i]]
    /\ seen' = [i \in Informers |->
            IF i[1] = r THEN [o \in Objects |-> Selected(obj[o])] ELSE seen[i]]
    /\ UNCHANGED <<obj, nextUid, monitor, inbox, handler, mwatch, misread,
                   ops, faults>>

(* Run: the CamelMonitor cache is listed before a handler can read it, and *)
(* each informer lists its kind (Relist) and reports every object found.   *)
StartWith(r, kinds) ==
    /\ ~up[r]
    /\ up' = [up EXCEPT ![r] = TRUE]
    /\ served' = [served EXCEPT ![r] = kinds]
    /\ mcache' = [mcache EXCEPT ![r] = monitor]
    /\ UNCHANGED <<obj, nextUid, monitor, watching, seen, inbox, handler,
                   mwatch, misread, ops>>

Start(r) ==
    /\ StartWith(r, Kinds)
    /\ UNCHANGED faults

(* The lookup of an optional kind fails: getInformers takes the error for  *)
(* an API that is not installed, and looks it up again at the next start.  *)
StartDiscoveryFails(r) ==
    /\ Fault("discovery")
    /\ \E missing \in SUBSET Optional \ {{}} :
            StartWith(r, Kinds \ missing)

-----------------------------------------------------------------------------
UserStep ==
    \E o \in Objects :
        \/ \E l \in LabelsOf[o] \cup {None} : CreateObject(o, l)
        \/ DeleteObject(o)
        \/ \E l \in LabelsOf[o] : LabelIn(o, l) \/ Relabel(o, l)
        \/ LabelOut(o)

HandlerStep(i) ==
    \/ OnAddNew(i)
    \/ OnAddRevision(i)
    \/ OnAddBound(i)
    \/ CreateMonitor(i)
    \/ OnDelete(i)
    \/ OnTombstone(i)

FaultStep ==
    \/ \E r \in Replicas : Crash(r) \/ StartDiscoveryFails(r)
    \/ \E i \in Informers :
        \/ WatchBreaks(i)
        \/ OnAddReadFails(i)
        \/ CreateMonitorFails(i)
        \/ OnDeleteFails(i)

Next ==
    \/ UserStep
    \/ \E i \in Informers : HandlerStep(i) \/ Relist(i)
    \/ \E r \in Replicas : MonitorCacheUpdate(r) \/ Start(r)
    \/ \E n \in MonitorNames : GarbageCollect(n)
    \/ FaultStep

(* Every goroutine of a running replica is scheduled, the kubelet starts   *)
(* it again, and the API server's garbage collector runs.                  *)
Fairness ==
    /\ \A i \in Informers : WF_vars(HandlerStep(i)) /\ WF_vars(Relist(i))
    /\ \A r \in Replicas :
            WF_vars(MonitorCacheUpdate(r)) /\ WF_vars(Start(r))
    /\ \A n \in MonitorNames : WF_vars(GarbageCollect(n))

Spec == Init /\ [][Next]_vars
FairSpec == Spec /\ Fairness
-----------------------------------------------------------------------------
(* Type invariant: the informers, the handlers, the CamelMonitors and the  *)
(* cached copies of both stay in their domains, and no uid is handed out   *)
(* ahead of nextUid.                                                       *)
Uids == 1..MaxUid
MonitorOrNone == [obj : Objects, uid : Uids \cup {0}] \cup {NoMonitor}
Workloads == [uid : Uids \cup {0}, label : Labels \cup {None}]
Events == [type : {"add", "delete", "tombstone"}, obj : Objects,
           label : Labels, uid : Uids]
Calls == [name : MonitorNames, obj : Objects, uid : Uids]

TypeOK ==
    /\ obj \in [Objects -> Workloads]
    /\ nextUid \in 1..(MaxUid + 1)
    /\ monitor \in [MonitorNames -> MonitorOrNone]
    /\ watching \in [Informers -> BOOLEAN]
    /\ seen \in [Informers -> [Objects -> Workloads]]
    /\ inbox \in [Informers -> Seq(Events)]
    /\ handler \in [Informers -> Calls \cup {Idle}]
    /\ mcache \in [Replicas -> [MonitorNames -> MonitorOrNone]]
    /\ mwatch \in [Replicas -> Seq([name : MonitorNames, mon : MonitorOrNone])]
    /\ up \in [Replicas -> BOOLEAN]
    /\ served \in [Replicas -> SUBSET Kinds]
    /\ misread \subseteq Objects
    /\ ops \in 0..MaxOps
    /\ faults \in 0..MaxFaults

(* No two workloads are given the same label value. *)
UniqueLabels ==
    \A o, p \in Objects : LabelsOf[o] \cap LabelsOf[p] # {} => o = p

(* The CamelMonitors of the workload that o names now. *)
MonitorsOf(o) ==
    {n \in MonitorNames : /\ monitor[n] # NoMonitor
                          /\ monitor[n] = Monitor(o, obj[o].uid)}

(* With unique labels a CamelMonitor always sits under a label of the      *)
(* workload it was imported from, and onAdd never falls into its revision  *)
(* case, whatever is crashed, missed, repeated or read from a stale cache. *)
BoundByLabel ==
    UniqueLabels =>
        \A n \in MonitorNames :
            monitor[n] # NoMonitor => n \in LabelsOf[monitor[n].obj]

(* With unique labels a CamelMonitor disappears only because its owner is  *)
(* gone or because onDelete takes the removal of its own workload, by the  *)
(* label the CamelMonitor is named by.                                     *)
DeletedBySource ==
    UniqueLabels =>
        \A n \in MonitorNames :
            monitor[n] # NoMonitor /\ monitor'[n] = NoMonitor =>
                \/ Orphan(n)
                \/ \E i \in Informers : /\ Take(i, "delete")
                                        /\ Head(inbox[i]).label = n
                                        /\ Head(inbox[i]).obj = monitor[n].obj

DeletedOnlyBySource == [][DeletedBySource]_vars

(* An existing CamelMonitor is never bound to another workload, or to a    *)
(* later incarnation of its own: Create does not overwrite.                *)
BindingKept ==
    \A n \in MonitorNames :
        monitor[n] # NoMonitor => monitor'[n] \in {NoMonitor, monitor[n]}

BindingImmutable == [][BindingKept]_vars

(* onAdd never gives a workload that has a CamelMonitor a second one. *)
AtMostOneMonitor ==
    \A o \in Objects : Cardinality(MonitorsOf(o)) <= 1

(* Without faults, and unless an add was decided on a stale cache, the     *)
(* labelled workloads and the CamelMonitors agree once the users are       *)
(* quiet: one under the label, none for anything else.  A workload that is *)
(* unlabelled and labelled again faster than the cache of the client       *)
(* follows is taken for one that still has its CamelMonitor, and stays     *)
(* without one until it is labelled anew or the operator starts again.     *)
InSync ==
    \A n \in MonitorNames :
        monitor[n] = IF \E o \in Objects : obj[o].label = n
                     THEN LET o == CHOOSE p \in Objects : obj[p].label = n
                          IN Monitor(o, obj[o].uid)
                     ELSE NoMonitor

Converges == <>[](faults = 0 /\ misread = {} => InSync)

(* Every workload that was ever created still exists. *)
NothingDeleted == nextUid = 1 + Cardinality({o \in Objects : obj[o].uid # 0})

(* Once users and faults are quiet, every labelled workload has a          *)
(* CamelMonitor that is bound to it, unless workloads were deleted, a      *)
(* replica has not found the API of its kind, or the last add of the       *)
(* workload was decided on a stale cache (two workloads of one label in    *)
(* one list: the second finds no CamelMonitor yet and is dropped).  Adds   *)
(* that fall into a crash or a broken watch are made good by the next      *)
(* list, an add decided wrongly by the next start of a replica, and what   *)
(* the late delete of one replica undoes is made good by that replica.     *)
EventuallyCovered ==
    <>[](NothingDeleted =>
            \A o \in Objects :
                /\ obj[o].label # None
                /\ o \notin misread
                /\ \A r \in Replicas : o.kind \in served[r]
                => MonitorsOf(o) # {})

(* Once users and faults are quiet, no workload without a label keeps a    *)
(* CamelMonitor (label removals are not lost).                             *)
EventuallyReleased ==
    <>[](\A o \in Objects : obj[o].label = None => MonitorsOf(o) = {})

-----------------------------------------------------------------------------
(* The abstract view of a state (ImportPromise): a notification of an add  *)
(* may become a CamelMonitor under the label or under the revision name,   *)
(* and a pending Create is one of them; a notification of a delete gives   *)
(* its label up, and one of a tombstone gives nothing up.                  *)
Waiting == UNION {ToSet(inbox[i]) : i \in Informers}

EventClaims(e) ==
    {[name |-> n, obj |-> e.obj, uid |-> e.uid] :
        n \in {e.label, RevisionName(e.label, e.obj)}}

PendingClaims ==
    ({handler[i] : i \in Informers} \ {Idle})
    \cup UNION {EventClaims(e) : e \in {f \in Waiting : f.type = "add"}}

PendingWithdrawals == {e.label : e \in {f \in Waiting : f.type = "delete"}}

NamesOf ==
    [o \in Objects |-> [l \in Labels |-> {l, RevisionName(l, o)}]]

Promise == INSTANCE ImportPromise
    WITH claims <- PendingClaims, withdrawals <- PendingWithdrawals

(* Every behaviour of the import, with all of its faults, is one that the  *)
(* promise allows: no CamelMonitor is created but for a workload that had  *)
(* its label, none is replaced, and none is deleted but for a label that   *)
(* was given up or a workload that is gone.                                *)
KeepsThePromise == Promise!Spec

(* No CamelMonitor outlives its workload for ever, even if a delayed onAdd *)
(* creates it after the workload is gone.                                  *)
NoLastingOrphan ==
    <>[](\A n \in MonitorNames :
            monitor[n] # NoMonitor =>
                obj[monitor[n].obj].uid = monitor[n].uid)
=============================================================================
