----------------------- MODULE SyntheticImportProofs -----------------------
(***************************************************************************)
(* What SyntheticImport guarantees for every set of workloads, every       *)
(* assignment of labels and every bound, under all the faults it models.   *)
(*                                                                         *)
(* The safety properties are about the CamelMonitors on the API server,    *)
(* but what a handler does next is decided by what its notification, its   *)
(* pending call and the cached CamelMonitors say.  The inductive invariant *)
(* therefore carries the relation between a name and the workload bound to *)
(* it through every place where a copy of it may be waiting.               *)
(***************************************************************************)
EXTENDS SyntheticImport, DataLemmas

(* What may be known of workload o: a label is one of its own. *)
WorkloadOf(o) ==
    {w \in Workloads : w.label # None => w.uid # 0 /\ w.label \in LabelsOf[o]}

SelectedOf(o) == {w \in WorkloadOf(o) : w = Absent \/ w.label # None}

(* A notification carries a label of the object it is about. *)
OwnEvents == {e \in Events : e.label \in LabelsOf[e.obj]}

(* With unique labels, name n is a label of the workload behind m. *)
Bound(n, m) ==
    UniqueLabels => (m # NoMonitor => n \in LabelsOf[m.obj])

BoundUpdates ==
    {u \in [name : MonitorNames, mon : MonitorOrNone] : Bound(u.name, u.mon)}

BoundCalls ==
    {c \in Calls : UniqueLabels => c.name \in LabelsOf[c.obj]}

(* The inductive invariant. *)
IInv ==
    /\ nextUid \in 1..(MaxUid + 1)
    /\ up \in [Replicas -> BOOLEAN]
    /\ served \in [Replicas -> SUBSET Kinds]
    /\ misread \subseteq Objects
    /\ ops \in 0..MaxOps
    /\ faults \in 0..MaxFaults
    /\ watching \in [Informers -> BOOLEAN]
    /\ obj \in [Objects -> Workloads]
    /\ \A o \in Objects : obj[o] \in WorkloadOf(o)
    /\ seen \in [Informers -> [Objects -> Workloads]]
    /\ \A i \in Informers, o \in Objects : seen[i][o] \in SelectedOf(o)
    /\ inbox \in [Informers -> Seq(OwnEvents)]
    /\ handler \in [Informers -> BoundCalls \cup {Idle}]
    /\ monitor \in [MonitorNames -> MonitorOrNone]
    /\ \A n \in MonitorNames : Bound(n, monitor[n])
    /\ mcache \in [Replicas -> [MonitorNames -> MonitorOrNone]]
    /\ \A r \in Replicas, n \in MonitorNames : Bound(n, mcache[r][n])
    /\ mwatch \in [Replicas -> Seq(BoundUpdates)]

-----------------------------------------------------------------------------
(* Facts about the operators. *)

(* What the cache's selector lets through is absent or carries a label. *)
LEMMA SelectedIsSelected ==
    ASSUME NEW o \in Objects, NEW w \in WorkloadOf(o)
    PROVE  Selected(w) \in SelectedOf(o)
  BY LabelsAssumption, BoundsAssumption
  DEF Selected, SelectedOf, WorkloadOf, Workloads, Absent, Uids

(* A selected object that is there yields a well-formed notification. *)
LEMMA EventIsOwn ==
    ASSUME NEW o \in Objects, NEW w \in SelectedOf(o), w # Absent,
           NEW t \in {"add", "delete", "tombstone"}
    PROVE  Event(t, o, w) \in OwnEvents
  BY DEF Event, OwnEvents, Events, SelectedOf, WorkloadOf, Workloads, Absent,
         Labels

(* A change seen by a watch yields well-formed notifications. *)
LEMMA WatchEventsAreOwn ==
    ASSUME NEW o \in Objects, NEW was \in SelectedOf(o), NEW now \in SelectedOf(o)
    PROVE  WatchEvents(o, was, now) \in Seq(OwnEvents)
<1>1. CASE was = Absent /\ now # Absent
  <2>1. Event("add", o, now) \in OwnEvents
    BY <1>1, EventIsOwn
  <2>2. WatchEvents(o, was, now) = <<Event("add", o, now)>>
    BY <1>1 DEF WatchEvents
  <2> QED BY <2>1, <2>2
<1>2. CASE was # Absent /\ now = Absent
  <2>1. Event("delete", o, was) \in OwnEvents
    BY <1>2, EventIsOwn
  <2>2. WatchEvents(o, was, now) = <<Event("delete", o, was)>>
    BY <1>2 DEF WatchEvents
  <2> QED BY <2>1, <2>2
<1>3. CASE (was = Absent) <=> (now = Absent)
  <2>1. WatchEvents(o, was, now) = <<>>
    BY <1>3 DEF WatchEvents
  <2> QED BY <2>1
<1> QED BY <1>1, <1>2, <1>3

(* A list differs from a store in finitely many workloads. *)
LEMMA RelistEventsFinite ==
    ASSUME NEW i \in Informers, NEW k
    PROVE  IsFiniteSet(RelistEvents(k, seen[i]))
<1> DEFINE A == {p \in Objects : /\ p.kind = k
                                 /\ seen[i][p] = Absent
                                 /\ Selected(obj[p]) # Absent}
           D == {p \in Objects : /\ p.kind = k
                                 /\ seen[i][p] # Absent
                                 /\ Selected(obj[p]) = Absent}
           EA == {Event("add", o, Selected(obj[o])) : o \in A}
           ED == {Event("tombstone", o, seen[i][o]) : o \in D}
           fA == [o \in A |-> Event("add", o, Selected(obj[o]))]
           fD == [o \in D |-> Event("tombstone", o, seen[i][o])]
<1>1. RelistEvents(k, seen[i]) = EA \cup ED
  BY DEF RelistEvents
<1>2. IsFiniteSet(A) /\ IsFiniteSet(D)
  BY ObjectsAssumption, FS_Subset
<1>3. fA \in Surjection(A, EA) /\ fD \in Surjection(D, ED)
  BY DEF Surjection
<1>4. IsFiniteSet(EA) /\ IsFiniteSet(ED)
  BY <1>2, <1>3, FS_Surjection
<1> QED BY <1>1, <1>4, FS_Union

(* Whatever order a list delivers its differences in, they are             *)
(* well-formed notifications.                                              *)
LEMMA RelistEventsAreOwn ==
    ASSUME IInv, NEW i \in Informers, NEW k,
           NEW q \in SetToSeqs(RelistEvents(k, seen[i]))
    PROVE  q \in Seq(OwnEvents)
<1>1. ASSUME NEW e \in RelistEvents(k, seen[i])
      PROVE  e \in OwnEvents
  <2>1. CASE \E o \in Objects : /\ Selected(obj[o]) # Absent
                                /\ e = Event("add", o, Selected(obj[o]))
    <3>1. PICK o \in Objects : /\ Selected(obj[o]) # Absent
                               /\ e = Event("add", o, Selected(obj[o]))
      BY <2>1
    <3>2. Selected(obj[o]) \in SelectedOf(o)
      BY SelectedIsSelected DEF IInv
    <3> QED BY <3>1, <3>2, EventIsOwn
  <2>2. CASE \E o \in Objects : /\ seen[i][o] # Absent
                                /\ e = Event("tombstone", o, seen[i][o])
    <3>1. PICK o \in Objects : /\ seen[i][o] # Absent
                               /\ e = Event("tombstone", o, seen[i][o])
      BY <2>2
    <3>2. seen[i][o] \in SelectedOf(o)
      BY DEF IInv
    <3> QED BY <3>1, <3>2, EventIsOwn
  <2> QED BY <1>1, <2>1, <2>2 DEF RelistEvents
<1>2. q \in Seq(RelistEvents(k, seen[i]))
  BY RelistEventsFinite, OrderOfSet
<1> QED BY <1>1, <1>2

-----------------------------------------------------------------------------
(* Facts about the parts that several actions share. *)

(* A user's change of a workload reaches the store and the notifications   *)
(* of its informer in a well-formed way.                                   *)
LEMMA SetObjectKeepsIInv ==
    ASSUME IInv, NEW o \in Objects, NEW now \in WorkloadOf(o),
           SetObject(o, now), nextUid' \in 1..(MaxUid + 1)
    PROVE  IInv'
<1>1. now \in Workloads
  BY DEF WorkloadOf
<1>2. /\ obj' \in [Objects -> Workloads]
      /\ \A p \in Objects : obj'[p] \in WorkloadOf(p)
  BY <1>1 DEF IInv, SetObject
<1>3. Selected(now) \in SelectedOf(o) /\ Selected(now) \in Workloads
  BY SelectedIsSelected DEF SelectedOf, WorkloadOf
<1>4. ASSUME NEW i \in Informers
      PROVE  /\ seen'[i] \in [Objects -> Workloads]
             /\ \A p \in Objects : seen'[i][p] \in SelectedOf(p)
             /\ inbox'[i] \in Seq(OwnEvents)
  <2>1. WatchEvents(o, seen[i][o], Selected(now)) \in Seq(OwnEvents)
    BY <1>3, WatchEventsAreOwn DEF IInv
  <2>2. inbox[i] \o WatchEvents(o, seen[i][o], Selected(now)) \in Seq(OwnEvents)
    BY <2>1 DEF IInv
  <2>3. inbox'[i] \in Seq(OwnEvents)
    BY <2>2 DEF IInv, SetObject
  <2>4. /\ seen[i] \in [Objects -> Workloads]
        /\ \A p \in Objects : seen[i][p] \in SelectedOf(p)
    BY DEF IInv
  <2>5. seen'[i] = seen[i] \/ seen'[i] = [seen[i] EXCEPT ![o] = Selected(now)]
    BY DEF SetObject
  <2> QED BY <1>3, <2>3, <2>4, <2>5
<1>5. /\ seen' \in [Informers -> [Objects -> Workloads]]
      /\ inbox' \in [Informers -> Seq(OwnEvents)]
  BY <1>4 DEF SetObject
<1>6. ops' \in 0..MaxOps
  BY BoundsAssumption DEF IInv, SetObject
<1> QED BY <1>2, <1>4, <1>5, <1>6 DEF IInv, SetObject

(* A write of a bound CamelMonitor keeps the server and its watch bound. *)
LEMMA PutMonitorKeepsBound ==
    ASSUME IInv, NEW n \in MonitorNames, NEW m \in MonitorOrNone,
           Bound(n, m), PutMonitor(n, m)
    PROVE  /\ monitor' \in [MonitorNames -> MonitorOrNone]
           /\ \A p \in MonitorNames : Bound(p, monitor'[p])
           /\ mwatch' \in [Replicas -> Seq(BoundUpdates)]
<1>1. [name |-> n, mon |-> m] \in BoundUpdates
  BY DEF BoundUpdates
<1>2. mwatch' \in [Replicas -> Seq(BoundUpdates)]
  BY <1>1 DEF IInv, PutMonitor
<1>3. /\ monitor' \in [MonitorNames -> MonitorOrNone]
      /\ \A p \in MonitorNames : Bound(p, monitor'[p])
  BY DEF IInv, PutMonitor
<1> QED BY <1>2, <1>3

(* Deleting a CamelMonitor is such a write. *)
LEMMA NothingIsBound ==
    ASSUME NEW n
    PROVE  NoMonitor \in MonitorOrNone /\ Bound(n, NoMonitor)
  BY DEF MonitorOrNone, Bound

(* A handler takes a well-formed notification and leaves such ones. *)
LEMMA TakeKeepsInbox ==
    ASSUME IInv, NEW i \in Informers, NEW t, Take(i, t)
    PROVE  /\ Head(inbox[i]) \in OwnEvents
           /\ Head(inbox[i]).label \in MonitorNames
           /\ inbox' \in [Informers -> Seq(OwnEvents)]
<1>1. inbox[i] \in Seq(OwnEvents) /\ inbox[i] # <<>>
  BY DEF IInv, Take
<1>2. Head(inbox[i]) \in OwnEvents /\ Tail(inbox[i]) \in Seq(OwnEvents)
  BY <1>1
<1>3. Head(inbox[i]).label \in MonitorNames
  BY <1>2 DEF OwnEvents, Events, MonitorNames
<1>4. inbox' \in [Informers -> Seq(OwnEvents)]
  BY <1>2 DEF IInv, Take
<1> QED BY <1>2, <1>3, <1>4

(* onAdd takes an add, and decides it on what its cache holds. *)
LEMMA AddDecided ==
    ASSUME IInv, NEW i \in Informers, NEW case, Decides(i, case)
    PROVE  /\ Take(i, "add")
           /\ Case(mcache[i[1]][Head(inbox[i]).label], Head(inbox[i]).obj) = case
           /\ misread' \subseteq Objects
<1>1. Take(i, "add")
  BY DEF Decides
<1>2. Head(inbox[i]).obj \in Objects
  BY <1>1, TakeKeepsInbox DEF OwnEvents, Events
<1> QED BY <1>1, <1>2 DEF Decides, IInv

(* The case of a revision: a CamelMonitor of another workload is there. *)
LEMMA RevisionCase ==
    ASSUME NEW m, NEW o, Case(m, o) = "revision"
    PROVE  m # NoMonitor /\ ~ImportedFrom(m, o)
  BY DEF Case

(* The call onAdd decides on is bound if the name it chose is. *)
LEMMA OnAddToKeepsIInv ==
    ASSUME IInv, NEW i \in Informers, NEW n \in MonitorNames,
           Take(i, "add"), OnAddTo(i, n), misread' \subseteq Objects,
           UniqueLabels => n \in LabelsOf[Head(inbox[i]).obj]
    PROVE  IInv'
<1>1. /\ Head(inbox[i]) \in OwnEvents
      /\ inbox' \in [Informers -> Seq(OwnEvents)]
  BY TakeKeepsInbox
<1>2. [name |-> n, obj |-> Head(inbox[i]).obj, uid |-> Head(inbox[i]).uid]
          \in BoundCalls
  BY <1>1 DEF BoundCalls, Calls, OwnEvents, Events
<1>3. handler' \in [Informers -> BoundCalls \cup {Idle}]
  BY <1>2 DEF IInv, OnAddTo
<1> QED BY <1>1, <1>3 DEF IInv, OnAddTo

-----------------------------------------------------------------------------
(* A replica starts from what the server has, with whatever informers.     *)
LEMMA StartWithKeepsIInv ==
    ASSUME IInv, NEW r \in Replicas, NEW kinds \in SUBSET Kinds,
           StartWith(r, kinds), faults' \in 0..MaxFaults
    PROVE  IInv'
<1>1. /\ mcache' \in [Replicas -> [MonitorNames -> MonitorOrNone]]
      /\ \A s \in Replicas, n \in MonitorNames : Bound(n, mcache'[s][n])
  BY DEF IInv, StartWith
<1>2. /\ up' \in [Replicas -> BOOLEAN]
      /\ served' \in [Replicas -> SUBSET Kinds]
  BY DEF IInv, StartWith
<1> QED BY <1>1, <1>2 DEF IInv, StartWith

-----------------------------------------------------------------------------
(* The initial state satisfies the inductive invariant. *)
LEMMA InitIInv == Init => IInv
<1> SUFFICES ASSUME Init PROVE IInv
  OBVIOUS
<1>1. Absent \in Workloads
  BY DEF Absent, Workloads
<1>2. \A o \in Objects : Absent \in WorkloadOf(o) /\ Absent \in SelectedOf(o)
  BY <1>1 DEF WorkloadOf, SelectedOf, Absent
<1>3. \A n \in MonitorNames : NoMonitor \in MonitorOrNone /\ Bound(n, NoMonitor)
  BY NothingIsBound
<1>4. nextUid \in 1..(MaxUid + 1) /\ ops \in 0..MaxOps /\ faults \in 0..MaxFaults
  BY BoundsAssumption DEF Init
<1>5. /\ obj \in [Objects -> Workloads]
      /\ \A o \in Objects : obj[o] \in WorkloadOf(o)
      /\ seen \in [Informers -> [Objects -> Workloads]]
      /\ \A i \in Informers, o \in Objects : seen[i][o] \in SelectedOf(o)
  BY <1>1, <1>2 DEF Init, NoObjects
<1>6. /\ monitor \in [MonitorNames -> MonitorOrNone]
      /\ \A n \in MonitorNames : Bound(n, monitor[n])
      /\ mcache \in [Replicas -> [MonitorNames -> MonitorOrNone]]
      /\ \A r \in Replicas, n \in MonitorNames : Bound(n, mcache[r][n])
  BY <1>3 DEF Init, NoMonitors
<1>7. /\ inbox \in [Informers -> Seq(OwnEvents)]
      /\ handler \in [Informers -> BoundCalls \cup {Idle}]
      /\ mwatch \in [Replicas -> Seq(BoundUpdates)]
      /\ watching \in [Informers -> BOOLEAN]
      /\ up \in [Replicas -> BOOLEAN]
      /\ served \in [Replicas -> SUBSET Kinds]
      /\ misread \subseteq Objects
  BY DEF Init
<1> QED BY <1>4, <1>5, <1>6, <1>7 DEF IInv

(* What users do preserves it. *)
LEMMA UserStepIInv ==
    ASSUME IInv, UserStep
    PROVE  IInv'
<1>1. PICK o \in Objects :
          \/ \E l \in LabelsOf[o] \cup {None} : CreateObject(o, l)
          \/ DeleteObject(o)
          \/ \E l \in LabelsOf[o] : LabelIn(o, l) \/ Relabel(o, l)
          \/ LabelOut(o)
  BY DEF UserStep
<1>2. obj[o] \in WorkloadOf(o) /\ obj[o] \in Workloads /\ nextUid \in 1..(MaxUid + 1)
  BY DEF IInv
<1>3. \A l \in LabelsOf[o] : l \in Labels /\ l # None
  BY LabelsAssumption DEF Labels
<1>4. CASE \E l \in LabelsOf[o] \cup {None} : CreateObject(o, l)
  <2>1. PICK l \in LabelsOf[o] \cup {None} : CreateObject(o, l)
    BY <1>4
  <2>2. nextUid \in Uids /\ nextUid' \in 1..(MaxUid + 1)
    BY <1>2, <2>1, BoundsAssumption DEF CreateObject, Uids
  <2>3. [uid |-> nextUid, label |-> l] \in WorkloadOf(o)
    BY <1>3, <2>2 DEF WorkloadOf, Workloads, Uids
  <2> QED BY <2>1, <2>2, <2>3, SetObjectKeepsIInv DEF CreateObject
<1>5. CASE DeleteObject(o)
  <2>1. Absent \in WorkloadOf(o)
    BY DEF Absent, WorkloadOf, Workloads
  <2> QED BY <1>2, <1>5, <2>1, SetObjectKeepsIInv DEF DeleteObject
<1>6. CASE \E l \in LabelsOf[o] : LabelIn(o, l) \/ Relabel(o, l)
  <2>1. PICK l \in LabelsOf[o] : LabelIn(o, l) \/ Relabel(o, l)
    BY <1>6
  <2>2. obj[o].uid # 0
    BY <1>2, <2>1 DEF LabelIn, Relabel, WorkloadOf
  <2>3. [obj[o] EXCEPT !.label = l] \in WorkloadOf(o)
    BY <1>2, <1>3, <2>2 DEF WorkloadOf, Workloads
  <2> QED BY <1>2, <2>1, <2>3, SetObjectKeepsIInv DEF LabelIn, Relabel
<1>7. CASE LabelOut(o)
  <2>1. [obj[o] EXCEPT !.label = None] \in WorkloadOf(o)
    BY <1>2 DEF WorkloadOf, Workloads
  <2> QED BY <1>2, <1>7, <2>1, SetObjectKeepsIInv DEF LabelOut
<1> QED BY <1>1, <1>4, <1>5, <1>6, <1>7

(* What the handlers of an informer do preserves it.  Only here does it    *)
(* matter that labels are unique: a cached CamelMonitor under the label of *)
(* a notification is bound to the object of that notification.             *)
LEMMA HandlerStepIInv ==
    ASSUME IInv, NEW i \in Informers, HandlerStep(i)
    PROVE  IInv'
<1> DEFINE e == Head(inbox[i])
<1>1. CASE OnAddNew(i)
  <2>1. Take(i, "add") /\ OnAddTo(i, e.label) /\ misread' \subseteq Objects
    BY <1>1, AddDecided DEF OnAddNew
  <2>2. e \in OwnEvents /\ e.label \in MonitorNames
    BY <2>1, TakeKeepsInbox
  <2>3. e.label \in LabelsOf[e.obj]
    BY <2>2 DEF OwnEvents
  <2> QED BY <2>1, <2>2, <2>3, OnAddToKeepsIInv
<1>2. CASE OnAddRevision(i)
  <2>1. /\ Take(i, "add") /\ OnAddTo(i, RevisionName(e.label, e.obj))
        /\ misread' \subseteq Objects
        /\ mcache[i[1]][e.label] # NoMonitor
        /\ mcache[i[1]][e.label].obj.name # e.obj.name
    BY <1>2, AddDecided, RevisionCase DEF OnAddRevision, ImportedFrom
  <2>2. e \in OwnEvents /\ e.label \in MonitorNames
    BY <2>1, TakeKeepsInbox
  <2>3. e.label \in LabelsOf[e.obj] /\ e.obj \in Objects /\ e.label \in Labels
    BY <2>2 DEF OwnEvents, Events
  <2>4. RevisionName(e.label, e.obj) \in MonitorNames
    BY <2>3 DEF MonitorNames
  <2>5. i[1] \in Replicas
    BY DEF Informers
  <2>6. mcache[i[1]][e.label] \in MonitorOrNone /\ Bound(e.label, mcache[i[1]][e.label])
    BY <2>2, <2>5 DEF IInv
  <2>7. mcache[i[1]][e.label].obj \in Objects
    BY <2>1, <2>6 DEF MonitorOrNone
  <2>8. ~UniqueLabels
    <3>1. SUFFICES ASSUME UniqueLabels PROVE FALSE
      OBVIOUS
    <3>2. e.label \in LabelsOf[mcache[i[1]][e.label].obj]
      BY <3>1, <2>1, <2>6 DEF Bound
    <3>3. mcache[i[1]][e.label].obj = e.obj
      BY <3>1, <3>2, <2>3, <2>7 DEF UniqueLabels
    <3> QED BY <3>3, <2>1
  <2> QED BY <2>1, <2>4, <2>8, OnAddToKeepsIInv
<1>3. CASE OnAddBound(i)
  <2>1. inbox' \in [Informers -> Seq(OwnEvents)] /\ misread' \subseteq Objects
    BY <1>3, AddDecided, TakeKeepsInbox DEF OnAddBound
  <2> QED BY <1>3, <2>1 DEF IInv, OnAddBound
<1>4. CASE CreateMonitor(i)
  <2>1. handler[i] \in BoundCalls
    BY <1>4 DEF IInv, CreateMonitor
  <2> DEFINE c == handler[i]
  <2>2. /\ c.name \in MonitorNames
        /\ Monitor(c.obj, c.uid) \in MonitorOrNone
        /\ Bound(c.name, Monitor(c.obj, c.uid))
    BY <2>1 DEF BoundCalls, Calls, Monitor, MonitorOrNone, Bound
  <2>3. /\ monitor' \in [MonitorNames -> MonitorOrNone]
        /\ \A p \in MonitorNames : Bound(p, monitor'[p])
        /\ mwatch' \in [Replicas -> Seq(BoundUpdates)]
    <3>1. CASE monitor[c.name] = NoMonitor
      <4>1. PutMonitor(c.name, Monitor(c.obj, c.uid))
        BY <1>4, <3>1 DEF CreateMonitor
      <4> HIDE DEF c
      <4> QED BY <4>1, <2>2, PutMonitorKeepsBound
    <3>2. CASE monitor[c.name] # NoMonitor
      BY <1>4, <3>2 DEF CreateMonitor, IInv
    <3> QED BY <3>1, <3>2
  <2>4. handler' \in [Informers -> BoundCalls \cup {Idle}]
    BY <1>4 DEF IInv, CreateMonitor
  <2> QED BY <1>4, <2>3, <2>4 DEF IInv, CreateMonitor
<1>5. CASE OnDelete(i)
  <2>1. Take(i, "delete")
    BY <1>5 DEF OnDelete
  <2>2. e.label \in MonitorNames /\ inbox' \in [Informers -> Seq(OwnEvents)]
    BY <2>1, TakeKeepsInbox
  <2>3. /\ monitor' \in [MonitorNames -> MonitorOrNone]
        /\ \A p \in MonitorNames : Bound(p, monitor'[p])
        /\ mwatch' \in [Replicas -> Seq(BoundUpdates)]
    <3>1. CASE monitor[e.label] # NoMonitor
      <4>1. PutMonitor(e.label, NoMonitor)
        BY <1>5, <3>1 DEF OnDelete
      <4> HIDE DEF e
      <4> QED BY <4>1, <2>2, NothingIsBound, PutMonitorKeepsBound
    <3>2. CASE monitor[e.label] = NoMonitor
      BY <1>5, <3>2 DEF OnDelete, IInv
    <3> QED BY <3>1, <3>2
  <2> QED BY <1>5, <2>2, <2>3 DEF IInv, OnDelete
<1>6. CASE OnTombstone(i)
  <2>1. inbox' \in [Informers -> Seq(OwnEvents)]
    BY <1>6, TakeKeepsInbox DEF OnTombstone
  <2> QED BY <1>6, <2>1 DEF IInv, OnTombstone
<1> QED BY <1>1, <1>2, <1>3, <1>4, <1>5, <1>6 DEF HandlerStep

(* What goes wrong preserves it. *)
LEMMA FaultStepIInv ==
    ASSUME IInv, FaultStep
    PROVE  IInv'
<1>1. \A f : Fault(f) => faults' \in 0..MaxFaults
  BY BoundsAssumption DEF IInv, Fault
<1>2. ASSUME NEW r \in Replicas, Crash(r)
      PROVE  IInv'
  <2>1. /\ NoObjects \in [Objects -> Workloads]
        /\ \A o \in Objects : NoObjects[o] \in SelectedOf(o)
    BY DEF NoObjects, SelectedOf, WorkloadOf, Absent, Workloads
  <2>2. /\ seen' \in [Informers -> [Objects -> Workloads]]
        /\ \A i \in Informers, o \in Objects : seen'[i][o] \in SelectedOf(o)
    BY <1>2, <2>1 DEF Crash, IInv
  <2>3. /\ NoMonitors \in [MonitorNames -> MonitorOrNone]
        /\ \A n \in MonitorNames : Bound(n, NoMonitors[n])
    BY NothingIsBound DEF NoMonitors
  <2>4. /\ mcache' \in [Replicas -> [MonitorNames -> MonitorOrNone]]
        /\ \A s \in Replicas, n \in MonitorNames : Bound(n, mcache'[s][n])
    BY <1>2, <2>3 DEF Crash, IInv
  <2>5. inbox' \in [Informers -> Seq(OwnEvents)]
    BY <1>2 DEF Crash, IInv
  <2>6. handler' \in [Informers -> BoundCalls \cup {Idle}]
    BY <1>2 DEF Crash, IInv
  <2>7. mwatch' \in [Replicas -> Seq(BoundUpdates)]
    BY <1>2 DEF Crash, IInv
  <2>8. watching' \in [Informers -> BOOLEAN]
    BY <1>2, Zenon DEF Crash, IInv
  <2>9. up' \in [Replicas -> BOOLEAN]
    BY <1>2 DEF Crash, IInv
  <2>10. faults' \in 0..MaxFaults
    BY <1>1, <1>2 DEF Crash
  <2> QED BY <1>2, <2>2, <2>4, <2>5, <2>6, <2>7, <2>8, <2>9, <2>10
          DEF IInv, Crash
<1>3. ASSUME NEW i \in Informers, WatchBreaks(i)
      PROVE  IInv'
  BY <1>1, <1>3 DEF IInv, WatchBreaks
<1>4. ASSUME NEW i \in Informers, CreateMonitorFails(i)
      PROVE  IInv'
  BY <1>1, <1>4 DEF IInv, CreateMonitorFails
<1>5. ASSUME NEW i \in Informers, OnDeleteFails(i)
      PROVE  IInv'
  <2>1. inbox' \in [Informers -> Seq(OwnEvents)]
    BY <1>5, TakeKeepsInbox DEF OnDeleteFails
  <2> QED BY <1>1, <1>5, <2>1 DEF IInv, OnDeleteFails
<1>6. ASSUME NEW i \in Informers, OnAddReadFails(i)
      PROVE  IInv'
  <2>1. inbox' \in [Informers -> Seq(OwnEvents)]
    BY <1>6, TakeKeepsInbox DEF OnAddReadFails
  <2> QED BY <1>1, <1>6, <2>1 DEF IInv, OnAddReadFails
<1>7. ASSUME NEW r \in Replicas, StartDiscoveryFails(r)
      PROVE  IInv'
  <2>1. PICK kinds \in SUBSET Kinds : StartWith(r, kinds)
    BY <1>7, SMT DEF StartDiscoveryFails
  <2>2. faults' \in 0..MaxFaults
    BY <1>1, <1>7 DEF StartDiscoveryFails
  <2> QED BY <2>1, <2>2, StartWithKeepsIInv
<1> QED BY <1>2, <1>3, <1>4, <1>5, <1>6, <1>7 DEF FaultStep

(* The remaining steps preserve it: the informers' lists, the CamelMonitor *)
(* cache, the restart of the operator and the garbage collector.           *)
LEMMA OtherStepIInv ==
    ASSUME IInv,
           \/ \E i \in Informers : Relist(i)
           \/ \E r \in Replicas : MonitorCacheUpdate(r) \/ Start(r)
           \/ \E n \in MonitorNames : GarbageCollect(n)
    PROVE  IInv'
<1>1. ASSUME NEW i \in Informers, Relist(i)
      PROVE  IInv'
  <2>1. PICK q \in SetToSeqs(RelistEvents(i[2], seen[i])) :
            inbox' = [inbox EXCEPT ![i] = @ \o q]
    BY <1>1 DEF Relist
  <2>2. inbox[i] \o q \in Seq(OwnEvents)
    BY RelistEventsAreOwn DEF IInv
  <2>3. inbox' \in [Informers -> Seq(OwnEvents)]
    BY <2>1, <2>2 DEF IInv
  <2>4. \A o \in Objects : Selected(obj[o]) \in SelectedOf(o)
    BY SelectedIsSelected DEF IInv
  <2>5. /\ seen' \in [Informers -> [Objects -> Workloads]]
        /\ \A j \in Informers, o \in Objects : seen'[j][o] \in SelectedOf(o)
    BY <1>1, <2>4 DEF Relist, IInv, SelectedOf, WorkloadOf
  <2>6. watching' \in [Informers -> BOOLEAN]
    BY <1>1 DEF Relist, IInv
  <2> QED BY <1>1, <2>3, <2>5, <2>6 DEF IInv, Relist
<1>2. ASSUME NEW r \in Replicas, MonitorCacheUpdate(r)
      PROVE  IInv'
  <2>1. /\ Head(mwatch[r]) \in BoundUpdates
        /\ Tail(mwatch[r]) \in Seq(BoundUpdates)
    BY <1>2 DEF IInv, MonitorCacheUpdate
  <2>2. mwatch' \in [Replicas -> Seq(BoundUpdates)]
    BY <1>2, <2>1 DEF IInv, MonitorCacheUpdate
  <2>3. /\ mcache' \in [Replicas -> [MonitorNames -> MonitorOrNone]]
        /\ \A s \in Replicas, n \in MonitorNames : Bound(n, mcache'[s][n])
    BY <1>2, <2>1 DEF IInv, MonitorCacheUpdate, BoundUpdates
  <2> QED BY <1>2, <2>2, <2>3 DEF IInv, MonitorCacheUpdate
<1>3. ASSUME NEW r \in Replicas, Start(r)
      PROVE  IInv'
  BY <1>3, StartWithKeepsIInv DEF Start, IInv
<1>4. ASSUME NEW n \in MonitorNames, GarbageCollect(n)
      PROVE  IInv'
  <2>1. /\ monitor' \in [MonitorNames -> MonitorOrNone]
        /\ \A p \in MonitorNames : Bound(p, monitor'[p])
        /\ mwatch' \in [Replicas -> Seq(BoundUpdates)]
    BY <1>4, NothingIsBound, PutMonitorKeepsBound DEF GarbageCollect
  <2> QED BY <1>4, <2>1 DEF IInv, GarbageCollect, operator
<1> QED BY <1>1, <1>2, <1>3, <1>4

(* The inductive invariant holds in every behaviour. *)
THEOREM IInvHolds == Spec => []IInv
<1>1. IInv /\ [Next]_vars => IInv'
  <2> SUFFICES ASSUME IInv, [Next]_vars PROVE IInv'
    OBVIOUS
  <2>1. CASE UNCHANGED vars
    BY <2>1 DEF IInv, vars
  <2>2. CASE Next
    BY <2>2, UserStepIInv, HandlerStepIInv, FaultStepIInv, OtherStepIInv DEF Next
  <2> QED BY <2>1, <2>2
<1> QED BY <1>1, InitIInv, PTL DEF Spec

-----------------------------------------------------------------------------
(* Type correctness of SyntheticImport. *)
THEOREM TypeCorrect == Spec => []TypeOK
<1>1. IInv => TypeOK
  <2> SUFFICES ASSUME IInv PROVE TypeOK
    OBVIOUS
  <2>1. inbox \in [Informers -> Seq(Events)]
    <3>1. \A q \in Seq(OwnEvents) : q \in Seq(Events)
      BY DEF OwnEvents
    <3> QED BY <3>1 DEF IInv
  <2>2. handler \in [Informers -> Calls \cup {Idle}]
    BY DEF IInv, BoundCalls
  <2>3. mwatch \in [Replicas -> Seq([name : MonitorNames, mon : MonitorOrNone])]
    <3> DEFINE Updates == [name : MonitorNames, mon : MonitorOrNone]
    <3>1. BoundUpdates \subseteq Updates
      BY DEF BoundUpdates
    <3> HIDE DEF Updates
    <3>2. \A q \in Seq(BoundUpdates) : q \in Seq(Updates)
      BY <3>1
    <3> USE DEF Updates
    <3> QED BY <3>2 DEF IInv
  <2> QED BY <2>1, <2>2, <2>3 DEF IInv, TypeOK
<1> QED BY <1>1, IInvHolds, PTL

(* With unique labels a CamelMonitor always sits under a label of the      *)
(* workload it was imported from: a stale cache, a missed notification or  *)
(* a restart never makes onAdd create a revision.                          *)
THEOREM LabelBinding == Spec => []BoundByLabel
<1>1. IInv => BoundByLabel
  BY DEF IInv, Bound, BoundByLabel
<1> QED BY <1>1, IInvHolds, PTL

(* With unique labels no notification about one workload makes onDelete    *)
(* remove the CamelMonitor of another one.                                 *)
THEOREM SourceDeletion == Spec => DeletedOnlyBySource
<1>1. IInv /\ [Next]_vars => [DeletedBySource]_vars
  <2> SUFFICES ASSUME IInv, Next, UniqueLabels,
                      NEW n \in MonitorNames,
                      monitor[n] # NoMonitor, monitor'[n] = NoMonitor
               PROVE  \/ Orphan(n)
                      \/ \E i \in Informers : /\ Take(i, "delete")
                                          /\ Head(inbox[i]).label = n
                                          /\ Head(inbox[i]).obj = monitor[n].obj
    BY DEF DeletedBySource
  <2>1. monitor' # monitor
    OBVIOUS
  <2>2. CASE \E m \in MonitorNames : GarbageCollect(m)
    <3>1. PICK m \in MonitorNames : GarbageCollect(m)
      BY <2>2
    <3>2. m = n
      BY <3>1 DEF GarbageCollect, PutMonitor, IInv
    <3> QED BY <3>1, <3>2 DEF GarbageCollect
  <2>3. ASSUME NEW i \in Informers, CreateMonitor(i)
        PROVE  FALSE
    <3>1. handler[i] \in BoundCalls
      BY <2>3 DEF IInv, CreateMonitor
    <3>2. Monitor(handler[i].obj, handler[i].uid) # NoMonitor
      BY <3>1, NoMonitorAssumption, BoundsAssumption
      DEF BoundCalls, Calls, Monitor, Uids
    <3> QED BY <2>3, <3>1, <3>2 DEF CreateMonitor, PutMonitor, IInv
  <2>4. ASSUME NEW i \in Informers, OnDelete(i)
        PROVE  /\ Take(i, "delete")
               /\ Head(inbox[i]).label = n
               /\ Head(inbox[i]).obj = monitor[n].obj
    <3>1. Take(i, "delete")
      BY <2>4 DEF OnDelete
    <3>2. Head(inbox[i]) \in OwnEvents
      BY <3>1, TakeKeepsInbox
    <3>3. n = Head(inbox[i]).label
      BY <2>4 DEF OnDelete, PutMonitor, IInv
    <3>4. n \in LabelsOf[Head(inbox[i]).obj] /\ Head(inbox[i]).obj \in Objects
      BY <3>2, <3>3 DEF OwnEvents, Events
    <3>5. n \in LabelsOf[monitor[n].obj] /\ monitor[n].obj \in Objects
      BY DEF IInv, Bound, MonitorOrNone
    <3>6. Head(inbox[i]).obj = monitor[n].obj
      BY <3>4, <3>5 DEF UniqueLabels
    <3> QED BY <3>1, <3>3, <3>6
  <2>5. \A o \in Objects : \A now : SetObject(o, now) => monitor' = monitor
    BY DEF SetObject
  <2>6. ~UserStep
    BY <2>1, <2>5
    DEF UserStep, CreateObject, DeleteObject, LabelIn, LabelOut, Relabel
  <2>7. ~FaultStep
    BY <2>1 DEF FaultStep, Crash, WatchBreaks, OnAddReadFails,
                CreateMonitorFails, OnDeleteFails, StartDiscoveryFails,
                StartWith
  <2>8. /\ \A r \in Replicas : ~MonitorCacheUpdate(r) /\ ~Start(r)
        /\ \A i \in Informers : ~Relist(i)
    BY <2>1 DEF MonitorCacheUpdate, Start, StartWith, Relist
  <2>9. \A i \in Informers : HandlerStep(i) => CreateMonitor(i) \/ OnDelete(i)
    BY <2>1 DEF HandlerStep, OnAddNew, OnAddRevision, OnAddBound, OnAddTo,
                OnTombstone
  <2> QED BY <2>2, <2>3, <2>4, <2>6, <2>7, <2>8, <2>9 DEF Next
<1> QED BY <1>1, IInvHolds, PTL DEF Spec, DeletedOnlyBySource

-----------------------------------------------------------------------------
(* The import keeps the promise: every step, its faults included, is a     *)
(* step of ImportPromise or a stutter.  The mapping computes the pending   *)
(* claims from the notifications and the calls in flight.  What makes it   *)
(* work is that a live informer knows what the server shows: a delete that *)
(* a watch reports names the label that the workload has just lost.        *)

(* The store of a live informer mirrors the server. *)
Mirrors ==
    \A i \in Informers, o \in Objects :
        Watches(i, o) => seen[i][o] = Selected(obj[o])

-----------------------------------------------------------------------------
(* The mirror is kept by every step. *)

LEMMA MirrorsStep ==
    ASSUME IInv, Mirrors, [Next]_vars
    PROVE  Mirrors'
<1> USE DEF Mirrors, Watches
<1>1. ASSUME NEW o \in Objects, NEW now, SetObject(o, now)
      PROVE  Mirrors'
  <2>1. obj' = [obj EXCEPT ![o] = now] /\ watching' = watching
    BY <1>1 DEF SetObject
  <2> SUFFICES ASSUME NEW i \in Informers, NEW p \in Objects,
                      watching[i], i[2] = p.kind
               PROVE  seen'[i][p] = Selected(obj'[p])
    BY <2>1
  <2>2. /\ seen[i] \in [Objects -> Workloads]
        /\ obj \in [Objects -> Workloads]
    BY DEF IInv
  <2>3. seen'[i] = IF i[2] = o.kind
                   THEN [seen[i] EXCEPT ![o] = Selected(now)] ELSE seen[i]
    BY <1>1 DEF SetObject
  <2> QED BY <2>1, <2>2, <2>3
<1>2. CASE UserStep
  BY <1>1, <1>2
  DEF UserStep, CreateObject, DeleteObject, LabelIn, LabelOut, Relabel
<1>3. ASSUME NEW i \in Informers, Relist(i)
      PROVE  Mirrors'
  <2> SUFFICES ASSUME NEW j \in Informers, NEW p \in Objects,
                      watching'[j], j[2] = p.kind
               PROVE  seen'[j][p] = Selected(obj'[p])
    OBVIOUS
  <2>1. obj' = obj /\ seen \in [Informers -> [Objects -> Workloads]]
                   /\ watching \in [Informers -> BOOLEAN]
    BY <1>3 DEF Relist, IInv
  <2>2. CASE j = i
    BY <1>3, <2>1, <2>2 DEF Relist
  <2>3. CASE j # i
    BY <1>3, <2>1, <2>3 DEF Relist
  <2> QED BY <2>2, <2>3
<1>4. ASSUME NEW r \in Replicas, Crash(r)
      PROVE  Mirrors'
  BY <1>4 DEF Crash, IInv
<1>5. ASSUME NEW i \in Informers, WatchBreaks(i)
      PROVE  Mirrors'
  BY <1>5 DEF WatchBreaks, IInv
<1>6. ASSUME UNCHANGED <<obj, watching, seen>>
      PROVE  Mirrors'
  BY <1>6
<1>7. ASSUME NEW i \in Informers, HandlerStep(i)
      PROVE  Mirrors'
  BY <1>6, <1>7 DEF HandlerStep, OnAddNew, OnAddRevision, OnAddBound, OnAddTo,
                    CreateMonitor, OnDelete, OnTombstone
<1>8. CASE \E r \in Replicas : MonitorCacheUpdate(r) \/ Start(r)
  BY <1>6, <1>8 DEF MonitorCacheUpdate, Start, StartWith
<1>9. CASE \E n \in MonitorNames : GarbageCollect(n)
  BY <1>6, <1>9 DEF GarbageCollect, operator
<1>10. CASE FaultStep
  BY <1>4, <1>5, <1>6, <1>10
  DEF FaultStep, StartDiscoveryFails, StartWith, OnAddReadFails,
      CreateMonitorFails, OnDeleteFails
<1>11. CASE UNCHANGED vars
  BY <1>6, <1>11 DEF vars
<1> QED BY <1>2, <1>3, <1>7, <1>8, <1>9, <1>10, <1>11 DEF Next

-----------------------------------------------------------------------------
(* Facts about the mapping. *)

(* Fewer notifications and calls are fewer claims and withdrawals. *)
LEMMA FewerPending ==
    ASSUME Waiting' \subseteq Waiting,
           \A i \in Informers : handler'[i] \in {handler[i], Idle}
    PROVE  /\ PendingClaims' \subseteq PendingClaims
           /\ PendingWithdrawals' \subseteq PendingWithdrawals
  BY DEF PendingClaims, PendingWithdrawals

(* New notifications bring the claims and withdrawals they carry. *)
LEMMA MorePending ==
    ASSUME NEW E, Waiting' \subseteq Waiting \cup E, handler' = handler
    PROVE  /\ PendingClaims' \subseteq
                  PendingClaims \cup
                  UNION {EventClaims(e) : e \in {f \in E : f.type = "add"}}
           /\ PendingWithdrawals' \subseteq
                  PendingWithdrawals \cup
                  {e.label : e \in {f \in E : f.type = "delete"}}
  BY DEF PendingClaims, PendingWithdrawals

(* The claims of a notification of an add are those of the workload it     *)
(* shows.                                                                  *)
LEMMA AddIsClaim ==
    ASSUME NEW o \in Objects, NEW w \in WorkloadOf(o), w.label # None
    PROVE  EventClaims(Event("add", o, w)) = Promise!Claimed(o, w)
<1>1. w.label \in Labels
  BY DEF WorkloadOf, Labels
<1>2. NamesOf[o][w.label] = {w.label, RevisionName(w.label, o)}
  BY <1>1 DEF NamesOf
<1> QED BY <1>2 DEF EventClaims, Event, Promise!Claimed

(* A handler takes one notification; the others stay. *)
LEMMA TakePending ==
    ASSUME IInv, NEW i \in Informers, NEW t, Take(i, t)
    PROVE  /\ Waiting' \subseteq Waiting
           /\ Head(inbox[i]) \in Waiting
           /\ Head(inbox[i]).type = t
<1>1. inbox \in [Informers -> Seq(OwnEvents)] /\ inbox[i] # <<>>
  BY DEF IInv, Take
<1>2. ToSet(inbox[i]) = {Head(inbox[i])} \cup ToSet(Tail(inbox[i]))
  BY <1>1, ToSetTail
<1>3. inbox' = [inbox EXCEPT ![i] = Tail(inbox[i])]
  BY DEF Take
<1>4. \A j \in Informers : ToSet(inbox'[j]) \subseteq ToSet(inbox[j])
  BY <1>1, <1>2, <1>3
<1>5. Waiting' \subseteq Waiting
  BY <1>4 DEF Waiting
<1>6. Head(inbox[i]) \in Waiting
  BY <1>2 DEF Waiting
<1> QED BY <1>5, <1>6 DEF Take

-----------------------------------------------------------------------------
(* The steps. *)

LEMMA UserStepPromised ==
    ASSUME IInv, Mirrors, NEW o \in Objects, NEW now \in WorkloadOf(o),
           SetObject(o, now)
    PROVE  Promise!WorkloadChanges(o)
<1> DEFINE W(i) == WatchEvents(o, seen[i][o], Selected(now))
           E == UNION {ToSet(W(i)) : i \in {j \in Informers : Watches(j, o)}}
<1>1. obj \in [Objects -> Workloads] /\ obj[o] \in WorkloadOf(o)
  BY DEF IInv
<1>2. obj' = [obj EXCEPT ![o] = now] /\ monitor' = monitor /\ handler' = handler
  BY DEF SetObject
<1>3. obj'[o] = now /\ \A p \in Objects \ {o} : obj'[p] = obj[p]
  BY <1>1, <1>2
<1>4. Waiting' \subseteq Waiting \cup E
  <2>1. SUFFICES ASSUME NEW i \in Informers
                 PROVE  ToSet(inbox'[i]) \subseteq Waiting \cup E
    BY DEF Waiting
  <2>2. ToSet(inbox[i]) \subseteq Waiting
    BY DEF Waiting
  <2>3. CASE Watches(i, o)
    <3>1. Selected(now) \in SelectedOf(o)
      BY SelectedIsSelected
    <3>2. inbox[i] \in Seq(OwnEvents) /\ W(i) \in Seq(OwnEvents)
      BY <3>1, WatchEventsAreOwn DEF IInv
    <3>3. inbox'[i] = inbox[i] \o W(i)
      BY <2>3 DEF SetObject
    <3>4. ToSet(inbox'[i]) = ToSet(inbox[i]) \cup ToSet(W(i))
      BY <3>2, <3>3, ToSetConcat
    <3> QED BY <2>2, <2>3, <3>4
  <2>4. CASE ~Watches(i, o)
    BY <2>2, <2>4 DEF SetObject
  <2> QED BY <2>3, <2>4
<1>5. ASSUME NEW e \in E
      PROVE  \/ e = Event("add", o, now) /\ now.label # None
             \/ e = Event("delete", o, obj[o]) /\ obj[o].label # None
  <2>1. PICK i \in Informers : Watches(i, o) /\ e \in ToSet(W(i))
    BY <1>5
  <2>2. seen[i][o] = Selected(obj[o])
    BY <2>1 DEF Mirrors
  <2> DEFINE was == Selected(obj[o])
             new == Selected(now)
  <2>3. /\ \A x : ToSet(<<x>>) = {x}
        /\ ToSet(<<>>) = {}
    BY DEF ToSet
  <2>4. \/ /\ was = Absent /\ new # Absent
           /\ e = Event("add", o, new)
        \/ /\ was # Absent /\ new = Absent
           /\ e = Event("delete", o, was)
    BY <2>1, <2>2, <2>3 DEF WatchEvents
  <2> QED BY <2>4 DEF Selected
<1> HIDE DEF E
<1>6. PendingClaims' \subseteq PendingClaims \cup Promise!Claimed(o, now)
  <2>1. \A e \in E : e.type = "add" =>
            EventClaims(e) \subseteq Promise!Claimed(o, now)
    BY <1>5, AddIsClaim DEF Event
  <2> QED BY <1>2, <1>4, <2>1, MorePending
<1>7. PendingWithdrawals' \subseteq
          PendingWithdrawals \cup ({obj[o].label} \ {None})
  <2>1. \A e \in E : e.type = "delete" =>
            e.label = obj[o].label /\ obj[o].label # None
    BY <1>5 DEF Event
  <2> QED BY <1>2, <1>4, <2>1, MorePending
<1> QED BY <1>2, <1>3, <1>6, <1>7 DEF Promise!WorkloadChanges

(* A step that leaves the workloads and CamelMonitors alone and makes no   *)
(* new claim is a loss.                                                    *)
LEMMA FewerIsReconsider ==
    ASSUME Waiting' \subseteq Waiting,
           \A i \in Informers : handler'[i] \in {handler[i], Idle},
           obj' = obj, monitor' = monitor
    PROVE  Promise!Reconsider
  BY FewerPending DEF Promise!Reconsider

(* The call onAdd decides on was pending with its notification.            *)
LEMMA OnAddPromised ==
    ASSUME IInv, NEW i \in Informers, NEW n, Take(i, "add"), OnAddTo(i, n),
           n \in {Head(inbox[i]).label,
                  RevisionName(Head(inbox[i]).label, Head(inbox[i]).obj)}
    PROVE  Promise!Reconsider
<1> DEFINE e == Head(inbox[i])
           c == [name |-> n, obj |-> e.obj, uid |-> e.uid]
<1>1. Waiting' \subseteq Waiting /\ e \in Waiting /\ e.type = "add"
  BY TakePending
<1>2. c \in EventClaims(e)
  BY DEF EventClaims
<1>3. c \in PendingClaims
  BY <1>1, <1>2 DEF PendingClaims
<1>4. handler' = [handler EXCEPT ![i] = c] /\ obj' = obj /\ monitor' = monitor
  BY DEF OnAddTo
<1>5. \A j \in Informers : handler'[j] \in {handler[j], c}
  BY <1>4 DEF IInv
<1> HIDE DEF c, e
<1>6. PendingClaims' \subseteq PendingClaims
  BY <1>1, <1>3, <1>5 DEF PendingClaims
<1>7. PendingWithdrawals' \subseteq PendingWithdrawals
  BY <1>1 DEF PendingWithdrawals
<1> QED BY <1>4, <1>6, <1>7 DEF Promise!Reconsider

LEMMA HandlerStepPromised ==
    ASSUME IInv, NEW i \in Informers, HandlerStep(i)
    PROVE  Promise!Next
<1> DEFINE e == Head(inbox[i])
<1>1. CASE OnAddNew(i)
  BY <1>1, AddDecided, OnAddPromised DEF OnAddNew, Promise!Next
<1>2. CASE OnAddRevision(i)
  BY <1>2, AddDecided, OnAddPromised DEF OnAddRevision, Promise!Next
<1>3. CASE OnAddBound(i)
  BY <1>3, AddDecided, TakePending, FewerIsReconsider DEF OnAddBound, Promise!Next
<1>4. CASE OnTombstone(i)
  BY <1>4, TakePending, FewerIsReconsider DEF OnTombstone, Promise!Next
<1>5. CASE CreateMonitor(i)
  <2> DEFINE c == handler[i]
  <2>1. c # Idle /\ c \in PendingClaims
    BY <1>5 DEF CreateMonitor, PendingClaims
  <2>2. /\ Waiting' = Waiting
        /\ \A j \in Informers : handler'[j] \in {handler[j], Idle}
        /\ obj' = obj
    BY <1>5 DEF CreateMonitor, Waiting, IInv
  <2>3. CASE monitor[c.name] = NoMonitor
    <3>1. monitor' = [monitor EXCEPT ![c.name] = [obj |-> c.obj, uid |-> c.uid]]
      BY <1>5, <2>3 DEF CreateMonitor, PutMonitor, Monitor
    <3>2. Promise!Bind(c)
      BY <2>2, <2>3, <3>1, FewerPending DEF Promise!Bind, Promise!Settle
    <3> QED BY <2>1, <3>2 DEF Promise!Next
  <2>4. CASE monitor[c.name] # NoMonitor
    <3>1. monitor' = monitor
      BY <1>5, <2>4 DEF CreateMonitor
    <3> QED BY <2>2, <3>1, FewerIsReconsider DEF Promise!Next
  <2> QED BY <2>3, <2>4
<1>6. CASE OnDelete(i)
  <2>1. Waiting' \subseteq Waiting /\ e \in Waiting /\ e.type = "delete"
    BY <1>6, TakePending DEF OnDelete
  <2>2. handler' = handler /\ obj' = obj
    BY <1>6 DEF OnDelete
  <2>3. e.label \in PendingWithdrawals
    BY <2>1 DEF PendingWithdrawals
  <2>4. CASE monitor[e.label] # NoMonitor
    <3>1. monitor' = [monitor EXCEPT ![e.label] = NoMonitor]
      BY <1>6, <2>4 DEF OnDelete, PutMonitor
    <3>2. Promise!Release(e.label)
      BY <2>1, <2>2, <2>4, <3>1, FewerPending
      DEF Promise!Release, Promise!Settle
    <3> QED BY <2>3, <3>2 DEF Promise!Next
  <2>5. CASE monitor[e.label] = NoMonitor
    <3>1. monitor' = monitor
      BY <1>6, <2>5 DEF OnDelete
    <3> QED BY <2>1, <2>2, <3>1, FewerIsReconsider DEF Promise!Next
  <2> QED BY <2>4, <2>5
<1> QED BY <1>1, <1>2, <1>3, <1>4, <1>5, <1>6 DEF HandlerStep

(* A list tells of workloads as they are now, or of ones that are gone.    *)
LEMMA RelistPromised ==
    ASSUME IInv, NEW i \in Informers, Relist(i)
    PROVE  Promise!Reconsider
<1> DEFINE E == RelistEvents(i[2], seen[i])
<1>1. PICK q \in SetToSeqs(E) : inbox' = [inbox EXCEPT ![i] = @ \o q]
  BY DEF Relist
<1>2. ToSet(q) = E /\ q \in Seq(OwnEvents)
  BY RelistEventsAreOwn, RelistEventsFinite, OrderOfSet
<1>3. Waiting' \subseteq Waiting \cup E
  <2>1. inbox \in [Informers -> Seq(OwnEvents)]
    BY DEF IInv
  <2>2. ToSet(inbox[i] \o q) = ToSet(inbox[i]) \cup E
    BY <1>2, <2>1, ToSetConcat
  <2> HIDE DEF E
  <2>3. \A j \in Informers : ToSet(inbox'[j]) \subseteq ToSet(inbox[j]) \cup E
    BY <1>1, <2>1, <2>2
  <2> QED BY <2>3 DEF Waiting
<1>4. ASSUME NEW e \in E
      PROVE  \/ \E o \in Objects : e = Event("add", o, obj[o]) /\ obj[o].label # None
             \/ e.type = "tombstone"
  BY <1>4 DEF RelistEvents, Selected, Event
<1> HIDE DEF E
<1>5. obj' = obj /\ monitor' = monitor /\ handler' = handler
  BY DEF Relist
<1>6. PendingClaims' \subseteq
          PendingClaims \cup UNION {Promise!Claimed(o, obj[o]) : o \in Objects}
  <2>1. \A o \in Objects : obj[o] \in WorkloadOf(o)
    BY DEF IInv
  <2>2. \A e \in E : e.type = "add" =>
            \E o \in Objects : EventClaims(e) = Promise!Claimed(o, obj[o])
    BY <1>4, <2>1, AddIsClaim
  <2> QED BY <1>3, <1>5, <2>2, MorePending
<1>7. PendingWithdrawals' \subseteq PendingWithdrawals
  <2>1. \A e \in E : e.type # "delete"
    BY <1>4 DEF Event
  <2> QED BY <1>3, <1>5, <2>1, MorePending
<1> QED BY <1>5, <1>6, <1>7 DEF Promise!Reconsider

(* What goes wrong loses claims, but makes none. *)
LEMMA FaultStepPromised ==
    ASSUME IInv, FaultStep
    PROVE  Promise!Next
<1>1. ASSUME NEW r \in Replicas, Crash(r)
      PROVE  Promise!Reconsider
  <2>1. \A i \in Informers : /\ ToSet(inbox'[i]) \subseteq ToSet(inbox[i])
                             /\ handler'[i] \in {handler[i], Idle}
    BY <1>1 DEF Crash, ToSet
  <2>2. Waiting' \subseteq Waiting
    BY <2>1 DEF Waiting
  <2> QED BY <1>1, <2>1, <2>2, FewerIsReconsider DEF Crash
<1>2. ASSUME NEW r \in Replicas, StartDiscoveryFails(r)
      PROVE  Promise!Reconsider
  BY <1>2, FewerIsReconsider DEF StartDiscoveryFails, StartWith, Waiting
<1>3. ASSUME NEW i \in Informers, WatchBreaks(i)
      PROVE  Promise!Reconsider
  BY <1>3, FewerIsReconsider DEF WatchBreaks, Waiting
<1>4. ASSUME NEW i \in Informers, OnAddReadFails(i) \/ OnDeleteFails(i)
      PROVE  Promise!Reconsider
  BY <1>4, TakePending, FewerIsReconsider DEF OnAddReadFails, OnDeleteFails
<1>5. ASSUME NEW i \in Informers, CreateMonitorFails(i)
      PROVE  Promise!Reconsider
  BY <1>5, FewerIsReconsider DEF CreateMonitorFails, Waiting, IInv
<1> QED BY <1>1, <1>2, <1>3, <1>4, <1>5 DEF FaultStep, Promise!Next

(* A CamelMonitor that is collected has lost its workload. *)
LEMMA GarbageCollectPromised ==
    ASSUME IInv, NEW n \in MonitorNames, GarbageCollect(n)
    PROVE  Promise!Next
<1>1. Promise!Collect(n)
  BY FewerPending
  DEF GarbageCollect, Orphan, PutMonitor, operator, Waiting,
      Promise!Collect, Promise!Settle
<1>2. n \in DOMAIN monitor
  BY DEF IInv
<1> QED BY <1>1, <1>2 DEF Promise!Next

LEMMA UserStepIsPromised ==
    ASSUME IInv, Mirrors, UserStep
    PROVE  Promise!Next
<1>1. PICK o \in Objects :
          \/ \E l \in LabelsOf[o] \cup {None} : CreateObject(o, l)
          \/ DeleteObject(o)
          \/ \E l \in LabelsOf[o] : LabelIn(o, l) \/ Relabel(o, l)
          \/ LabelOut(o)
  BY DEF UserStep
<1>2. \E now \in WorkloadOf(o) : SetObject(o, now)
  <2>1. PICK now : SetObject(o, now)
    BY <1>1 DEF CreateObject, DeleteObject, LabelIn, LabelOut, Relabel
  <2>2. obj' = [obj EXCEPT ![o] = now] /\ obj \in [Objects -> Workloads]
    BY <2>1 DEF SetObject, IInv
  <2>3. now = obj'[o] /\ IInv'
    BY <2>2, UserStepIInv
  <2>4. now \in WorkloadOf(o)
    BY <2>3 DEF IInv
  <2> QED BY <2>1, <2>4
<1> QED BY <1>2, UserStepPromised DEF Promise!Next

LEMMA InitPromised == Init => Promise!Init
<1> SUFFICES ASSUME Init PROVE Promise!Init
  OBVIOUS
<1>1. \A i \in Informers : handler[i] = Idle /\ ToSet(inbox[i]) = {}
  BY DEF Init, ToSet
<1>2. PendingClaims = {} /\ PendingWithdrawals = {}
  BY <1>1 DEF PendingClaims, PendingWithdrawals, Waiting
<1> QED BY <1>2 DEF Init, NoObjects, NoMonitors, Promise!Init

LEMMA StepPromised ==
    ASSUME IInv, Mirrors, [Next]_vars
    PROVE  Promise!Next \/ UNCHANGED Promise!vars
<1>1. CASE UserStep
  BY <1>1, UserStepIsPromised
<1>2. CASE \E i \in Informers : HandlerStep(i)
  BY <1>2, HandlerStepPromised
<1>3. CASE \E i \in Informers : Relist(i)
  BY <1>3, RelistPromised DEF Promise!Next
<1>4. CASE \E r \in Replicas : MonitorCacheUpdate(r) \/ Start(r)
  BY <1>4, FewerIsReconsider
  DEF MonitorCacheUpdate, Start, StartWith, Waiting, Promise!Next
<1>5. CASE \E n \in MonitorNames : GarbageCollect(n)
  BY <1>5, GarbageCollectPromised
<1>6. CASE FaultStep
  BY <1>6, FaultStepPromised
<1>7. CASE UNCHANGED vars
  BY <1>7 DEF vars, Promise!vars, PendingClaims, PendingWithdrawals, Waiting
<1> QED BY <1>1, <1>2, <1>3, <1>4, <1>5, <1>6, <1>7 DEF Next

(* The mirror holds in every behaviour. *)
LEMMA MirrorsHolds == Spec => [](IInv /\ Mirrors)
<1>1. Init => Mirrors
  BY DEF Init, Mirrors, Watches
<1>2. Spec => []IInv
  BY IInvHolds
<1> QED BY <1>1, <1>2, MirrorsStep, PTL DEF Spec

(* The import implements the promise: for any set of replicas, kinds,      *)
(* workloads and labels, unique or not, and under every modelled fault, a  *)
(* CamelMonitor is created only for a workload that carried its label,     *)
(* never rebound, and deleted only for a label that was given up or a      *)
(* workload that is gone.                                                  *)
THEOREM ImportImplementsPromise == Spec => KeepsThePromise
<1>1. IInv /\ Mirrors /\ [Next]_vars => [Promise!Next]_(Promise!vars)
  BY StepPromised
<1> QED BY <1>1, InitPromised, MirrorsHolds, PTL
        DEF Spec, KeepsThePromise, Promise!Spec

(* An existing CamelMonitor is never bound to another workload or to a     *)
(* later incarnation of its own: no step of the promise does so.           *)
THEOREM BindingHolds == Spec => BindingImmutable
<1>1. IInv /\ Mirrors /\ [Next]_vars => [BindingKept]_vars
  <2> SUFFICES ASSUME IInv, Mirrors, [Next]_vars,
                      NEW n \in MonitorNames, monitor[n] # NoMonitor
               PROVE  monitor'[n] \in {NoMonitor, monitor[n]}
    BY DEF BindingKept
  <2>1. monitor \in [MonitorNames -> MonitorOrNone]
    BY DEF IInv
  <2>2. CASE UNCHANGED Promise!vars
    BY <2>2 DEF Promise!vars
  <2>3. CASE Promise!Next
    BY <2>1, <2>3
    DEF Promise!Next, Promise!WorkloadChanges, Promise!Reconsider, Promise!Bind,
        Promise!Release, Promise!Collect, Promise!Settle
  <2> QED BY <2>2, <2>3, StepPromised
<1> QED BY <1>1, MirrorsHolds, PTL DEF Spec, BindingImmutable

-----------------------------------------------------------------------------
(* One CamelMonitor for each workload.                                     *)

(* A workload keeps its label, and a label names one workload, or every    *)
(* workload stays.                                                         *)
StableLabels ==
    /\ "unlabel" \notin Env /\ "relabel" \notin Env
    /\ UniqueLabels \/ "delete" \notin Env

(* What mentions a workload by its uid mentions one that was created; it   *)
(* is still there if no workload is ever deleted.                          *)
Known(o, u) ==
    /\ u \in 1..(nextUid - 1)
    /\ "delete" \notin Env => u = obj[o].uid

(* As long as the workload is the same, so is its label.                   *)
SameLabel(o, u, l) == u = obj[o].uid => l = obj[o].label

(* Another workload has the CamelMonitor under the label of o.             *)
Taken(o) ==
    /\ ~UniqueLabels
    /\ monitor[obj[o].label] # NoMonitor
    /\ monitor[obj[o].label].obj # o

(* What may be bound to o under n: the label, or, for ever, the revision.  *)
MayBind(n, o, u) ==
    u = obj[o].uid =>
        /\ obj[o].label # None
        /\ n = obj[o].label \/ (n = RevisionName(obj[o].label, o) /\ Taken(o))

Reported(e) ==
    /\ Known(e.obj, e.uid)
    /\ SameLabel(e.obj, e.uid, e.label)
    /\ e.type = "delete" => "delete" \in Env

Remembered(o, w) == w # Absent => Known(o, w.uid) /\ SameLabel(o, w.uid, w.label)

Claimed(c) == c # Idle => Known(c.obj, c.uid) /\ MayBind(c.name, c.obj, c.uid)

Settled(n) ==
    monitor[n] # NoMonitor =>
        /\ Known(monitor[n].obj, monitor[n].uid)
        /\ MayBind(n, monitor[n].obj, monitor[n].uid)

(* Without deletions no CamelMonitor disappears: what is cached is so.     *)
CachedIsSo(r) ==
    "delete" \notin Env =>
        /\ \A n \in MonitorNames :
                mcache[r][n] # NoMonitor => mcache[r][n] = monitor[n]
        /\ \A k \in DOMAIN mwatch[r] :
                /\ mwatch[r][k].mon # NoMonitor
                /\ mwatch[r][k].mon = monitor[mwatch[r][k].name]

SInv ==
    /\ \A o \in Objects : obj[o].uid < nextUid
    /\ \A i \in Informers, o \in Objects : Remembered(o, seen[i][o])
    /\ \A i \in Informers : \A k \in DOMAIN inbox[i] : Reported(inbox[i][k])
    /\ \A i \in Informers : Claimed(handler[i])
    /\ \A n \in MonitorNames : Settled(n)
    /\ \A r \in Replicas : CachedIsSo(r)

(* What is known of the workloads, in whatever place, stays so.            *)
KnowledgeStays ==
    /\ \A o \in Objects : obj'[o].uid < nextUid'
    /\ \A o \in Objects : \A w \in SelectedOf(o) : Remembered(o, w) => Remembered(o, w)'
    /\ \A e \in OwnEvents : Reported(e) => Reported(e)'
    /\ \A c \in BoundCalls \cup {Idle} : Claimed(c) => Claimed(c)'
    /\ \A n \in MonitorNames, m \in MonitorOrNone :
            m # NoMonitor /\ Known(m.obj, m.uid) /\ MayBind(n, m.obj, m.uid)
                => Known(m.obj, m.uid)' /\ MayBind(n, m.obj, m.uid)'

LEMMA LabelsAreNames == Labels \subseteq MonitorNames /\ None \notin Labels
  BY LabelsAssumption DEF MonitorNames

(* It stays so as long as workloads do, and CamelMonitors if they are not  *)
(* deleted.                                                                *)
LEMMA StaysWithWorkloads ==
    ASSUME StableLabels, IInv, SInv, UNCHANGED <<obj, nextUid>>,
           "delete" \notin Env =>
                \A n \in MonitorNames :
                    monitor[n] # NoMonitor => monitor'[n] = monitor[n]
    PROVE  KnowledgeStays
<1>1. \A o, u : Known(o, u) => Known(o, u)'
  BY DEF Known
<1>2. \A o, u, l : SameLabel(o, u, l) => SameLabel(o, u, l)'
  BY DEF SameLabel
<1>3. ASSUME NEW n, NEW o \in Objects, NEW u, MayBind(n, o, u), u = obj[o].uid
      PROVE  MayBind(n, o, u)'
  <2>1. obj[o].label \in Labels /\ obj[o].label \in MonitorNames
    BY <1>3, LabelsAreNames DEF MayBind, IInv, Workloads
  <2>2. Taken(o) => Taken(o)'
    BY <2>1 DEF Taken, StableLabels
  <2> QED BY <1>3, <2>2 DEF MayBind
<1>4. \A n, u : \A o \in Objects : MayBind(n, o, u) => MayBind(n, o, u)'
  BY <1>3 DEF MayBind
<1>5. \A o \in Objects : obj'[o].uid < nextUid'
  BY DEF SInv
<1>6. \A c \in BoundCalls \cup {Idle} : Claimed(c) => Claimed(c)'
  BY <1>1, <1>4 DEF Claimed, BoundCalls, Calls
<1>7. \A n \in MonitorNames, m \in MonitorOrNone :
        m # NoMonitor /\ Known(m.obj, m.uid) /\ MayBind(n, m.obj, m.uid)
            => Known(m.obj, m.uid)' /\ MayBind(n, m.obj, m.uid)'
  BY <1>1, <1>4 DEF MonitorOrNone
<1>8. \A o \in Objects : \A w \in SelectedOf(o) : Remembered(o, w) => Remembered(o, w)'
  BY <1>1, <1>2 DEF Remembered
<1>9. \A e \in OwnEvents : Reported(e) => Reported(e)'
  BY <1>1, <1>2 DEF Reported
<1> QED BY <1>5, <1>6, <1>7, <1>8, <1>9 DEF KnowledgeStays

LEMMA RangeGrows ==
    ASSUME NEW m \in Nat, NEW n \in Nat, m <= n, NEW u \in 1..(m - 1)
    PROVE  u \in 1..(n - 1)
  OBVIOUS

(* A workload is created, deleted, or given its first label.               *)
Changes(o, now) ==
    \/ obj[o].uid = 0 /\ now.uid = nextUid /\ nextUid' = nextUid + 1
    \/ "delete" \in Env /\ now = Absent /\ nextUid' = nextUid
    \/ /\ obj[o].uid # 0 /\ obj[o].label = None
       /\ now.uid = obj[o].uid /\ now.label # None /\ nextUid' = nextUid

LEMMA StaysWithChange ==
    ASSUME StableLabels, IInv, SInv, NEW o \in Objects, NEW now \in WorkloadOf(o),
           SetObject(o, now), Changes(o, now)
    PROVE  KnowledgeStays
<1>1. /\ nextUid \in Nat /\ nextUid' \in Nat /\ nextUid <= nextUid' /\ nextUid >= 1
      /\ obj \in [Objects -> Workloads] /\ obj' = [obj EXCEPT ![o] = now]
      /\ monitor' = monitor
  BY BoundsAssumption DEF IInv, SetObject, Changes
<1>2. /\ obj[o].uid \in Nat /\ obj[o].uid < nextUid /\ now.uid \in Nat
      /\ now.uid < nextUid' /\ Absent.uid = 0 /\ Absent.label = None
  BY <1>1, BoundsAssumption DEF SInv, IInv, Changes, Workloads, WorkloadOf, Absent, Uids
<1>3. ASSUME NEW p \in Objects, NEW u, Known(p, u)
      PROVE  Known(p, u)'
  <2>1. u \in 1..(nextUid - 1) /\ u \in 1..(nextUid' - 1)
    <3>1. u \in 1..(nextUid - 1)
      BY <1>3 DEF Known
    <3>2. nextUid \in Nat /\ nextUid' \in Nat /\ nextUid <= nextUid'
      BY <1>1
    <3> QED BY <3>1, <3>2, RangeGrows
  <2>2. CASE p # o
    BY <1>1, <1>3, <2>1, <2>2 DEF Known
  <2>3. CASE p = o
    <3>1. obj'[o] = now
      BY <1>1
    <3>2. "delete" \notin Env => u = obj[o].uid
      BY <1>3, <2>3 DEF Known
    <3>3. "delete" \notin Env => u = now.uid
      BY <1>1, <2>1, <3>2 DEF Changes
    <3> QED BY <2>1, <2>3, <3>1, <3>3 DEF Known
  <2> QED BY <2>2, <2>3
<1>4. ASSUME NEW u, Known(o, u), u = obj'[o].uid
      PROVE  u = obj[o].uid /\ obj[o].label = None
  BY <1>1, <1>2, <1>4 DEF Known, Changes
<1>5. \A p \in Objects : \A u, l :
        Known(p, u) /\ SameLabel(p, u, l) /\ l # None => SameLabel(p, u, l)'
  BY <1>1, <1>4 DEF SameLabel
<1>6. \A p \in Objects : \A u, n :
        Known(p, u) /\ MayBind(n, p, u) => MayBind(n, p, u)'
  BY <1>1, <1>4 DEF MayBind, Taken
<1>7. \A p \in Objects : obj'[p].uid < nextUid'
  <2>1. \A p \in Objects : obj[p].uid \in Nat /\ obj[p].uid < nextUid
    BY <1>1, BoundsAssumption DEF Workloads, Uids, SInv
  <2> QED BY <1>1, <1>2, <2>1
<1>8. \A p \in Objects : \A w \in SelectedOf(p) : Remembered(p, w) => Remembered(p, w)'
  BY <1>3, <1>5 DEF Remembered, SelectedOf
<1>9. \A e \in OwnEvents : Reported(e) => Reported(e)'
  BY <1>3, <1>5, LabelsAreNames DEF Reported, OwnEvents, Events
<1>10. \A c \in BoundCalls \cup {Idle} : Claimed(c) => Claimed(c)'
  BY <1>3, <1>6 DEF Claimed, BoundCalls, Calls
<1>11. \A n \in MonitorNames, m \in MonitorOrNone :
        m # NoMonitor /\ Known(m.obj, m.uid) /\ MayBind(n, m.obj, m.uid)
            => Known(m.obj, m.uid)' /\ MayBind(n, m.obj, m.uid)'
  BY <1>3, <1>6 DEF MonitorOrNone
<1> QED BY <1>7, <1>8, <1>9, <1>10, <1>11 DEF KnowledgeStays

(* What a live workload looks like is known of it.                         *)
LEMMA PresentIsKnown ==
    ASSUME IInv, SInv, NEW o \in Objects
    PROVE  Remembered(o, Selected(obj[o]))
<1>1. /\ obj[o] \in WorkloadOf(o) /\ obj[o] \in Workloads
      /\ nextUid \in Nat /\ obj[o].uid < nextUid
  BY BoundsAssumption DEF IInv, SInv
<1>2. CASE obj[o].label = None
  BY <1>2 DEF Selected, Remembered
<1>3. CASE obj[o].label # None
  <2>1. obj[o].uid \in Nat /\ obj[o].uid # 0
    BY <1>1, <1>3, BoundsAssumption DEF WorkloadOf, Workloads, Uids
  <2> QED BY <1>1, <1>3, <2>1 DEF Selected, Remembered, Known, SameLabel
<1> QED BY <1>2, <1>3

(* Whatever place keeps or loses what it holds, what it holds is known.    *)
LEMMA PlacesStay ==
    ASSUME IInv, SInv, KnowledgeStays
    PROVE  /\ \A i \in Informers, o \in Objects :
                seen'[i][o] \in {seen[i][o], Absent} => Remembered(o, seen[i][o])'
           /\ \A i \in Informers : \A k \in DOMAIN inbox[i] :
                \A e : e = inbox[i][k] => Reported(e)'
           /\ \A i \in Informers :
                handler'[i] \in {handler[i], Idle} => Claimed(handler[i])'
           /\ \A n \in MonitorNames :
                monitor'[n] \in {monitor[n], NoMonitor} => Settled(n)'
<1>1. ASSUME NEW i \in Informers, NEW o \in Objects,
             seen'[i][o] \in {seen[i][o], Absent}
      PROVE  Remembered(o, seen[i][o])'
  <2>1. seen[i][o] \in SelectedOf(o) /\ Remembered(o, seen[i][o])
    BY DEF IInv, SInv
  <2>2. CASE seen'[i][o] = Absent
    BY <2>2 DEF Remembered
  <2>3. CASE seen'[i][o] = seen[i][o]
    BY <2>1, <2>3 DEF KnowledgeStays, Remembered, Known, SameLabel
  <2> QED BY <1>1, <2>2, <2>3
<1>2. ASSUME NEW i \in Informers, NEW k \in DOMAIN inbox[i], NEW e, e = inbox[i][k]
      PROVE  Reported(e)'
  <2>1. e \in OwnEvents /\ Reported(e)
    BY <1>2 DEF IInv, SInv
  <2> QED BY <2>1 DEF KnowledgeStays
<1>3. ASSUME NEW i \in Informers, handler'[i] \in {handler[i], Idle}
      PROVE  Claimed(handler[i])'
  <2>1. handler[i] \in BoundCalls \cup {Idle} /\ Claimed(handler[i])
    BY DEF IInv, SInv
  <2>2. CASE handler'[i] = Idle
    BY <2>2 DEF Claimed
  <2>3. CASE handler'[i] = handler[i]
    BY <2>1, <2>3 DEF KnowledgeStays, Claimed, Known, MayBind, Taken
  <2> QED BY <1>3, <2>2, <2>3
<1>4. ASSUME NEW n \in MonitorNames, monitor'[n] \in {monitor[n], NoMonitor}
      PROVE  Settled(n)'
  <2>1. monitor[n] \in MonitorOrNone /\ Settled(n)
    BY DEF IInv, SInv
  <2>2. CASE monitor'[n] = NoMonitor
    BY <2>2 DEF Settled
  <2>3. CASE monitor'[n] = monitor[n]
    BY <2>1, <2>3 DEF KnowledgeStays, Settled, Known, MayBind, Taken
  <2> QED BY <1>4, <2>2, <2>3
<1> QED BY <1>1, <1>2, <1>3, <1>4

LEMMA SetObjectSInv ==
    ASSUME StableLabels, IInv, SInv, NEW o \in Objects, NEW now \in WorkloadOf(o),
           SetObject(o, now), Changes(o, now)
    PROVE  SInv'
<1>1. KnowledgeStays
  BY StaysWithChange
<1>2. /\ obj' = [obj EXCEPT ![o] = now] /\ obj \in [Objects -> Workloads]
      /\ UNCHANGED <<monitor, handler, mcache, mwatch>>
  BY DEF SetObject, IInv
<1>3. Remembered(o, Selected(now))'
  <2>1. CASE now.label = None
    BY <2>1 DEF Selected, Remembered
  <2>2. CASE now.label # None
    <3>1. now.uid \in Nat /\ now.uid # 0 /\ obj'[o] = now
      BY <1>2, <2>2, BoundsAssumption DEF WorkloadOf, Workloads, Uids
    <3>2. nextUid' \in Nat /\ now.uid < nextUid'
      BY <1>1, <3>1, BoundsAssumption DEF KnowledgeStays, IInv, SetObject, Changes
    <3> QED BY <2>2, <3>1, <3>2 DEF Selected, Remembered, Known, SameLabel
  <2> QED BY <2>1, <2>2
<1>4. ASSUME NEW i \in Informers, NEW p \in Objects
      PROVE  Remembered(p, seen[i][p])'
  <2>1. seen'[i][p] = seen[i][p] \/ (p = o /\ seen'[i][p] = Selected(now))
    BY DEF SetObject, IInv
  <2>2. CASE seen'[i][p] = seen[i][p]
    BY <1>1, <2>2, PlacesStay
  <2>3. CASE p = o /\ seen'[i][p] = Selected(now)
    BY <1>3, <2>3 DEF Remembered
  <2> QED BY <2>1, <2>2, <2>3
<1>5. ASSUME NEW i \in Informers,
             NEW e \in ToSet(WatchEvents(o, seen[i][o], Selected(now)))
      PROVE  Reported(e)'
  <2>1. CASE seen[i][o] = Absent /\ Selected(now) # Absent
    <3>1. WatchEvents(o, seen[i][o], Selected(now)) = <<Event("add", o, Selected(now))>>
      BY <2>1 DEF WatchEvents
    <3>2. e = Event("add", o, Selected(now))
      BY <3>1 DEF ToSet
    <3> QED BY <1>3, <2>1, <3>2 DEF Event, Reported, Remembered
  <2>2. CASE seen[i][o] # Absent /\ Selected(now) = Absent
    <3>1. WatchEvents(o, seen[i][o], Selected(now)) = <<Event("delete", o, seen[i][o])>>
      BY <2>2 DEF WatchEvents
    <3>2. e = Event("delete", o, seen[i][o])
      BY <3>1 DEF ToSet
    <3>3. /\ seen[i][o] \in SelectedOf(o)
          /\ Known(o, seen[i][o].uid) /\ SameLabel(o, seen[i][o].uid, seen[i][o].label)
      BY <2>2 DEF IInv, SInv, Remembered
    <3> DEFINE w == seen[i][o]
    <3>4. "delete" \in Env
      <4>1. SUFFICES ASSUME "delete" \notin Env PROVE FALSE
        OBVIOUS
      <4>2. w.uid \in Nat /\ w.uid # 0 /\ obj[o].uid = w.uid /\ w.label = obj[o].label
        BY <3>3, <4>1, BoundsAssumption DEF Known, SameLabel, IInv
      <4>3. w.label # None
        BY <2>2, <3>3 DEF SelectedOf
      <4> QED BY <4>1, <4>2, <4>3 DEF Changes
    <3>5. Reported(Event("add", o, w))
      BY <3>3 DEF Reported, Event
    <3>6. Event("add", o, w) \in OwnEvents
      BY <2>2, <3>3, EventIsOwn
    <3>7. \A f : f = Event("add", o, w) => Reported(f)'
      BY <1>1, <3>5, <3>6 DEF KnowledgeStays
    <3>8. PICK f : f = Event("add", o, w)
      OBVIOUS
    <3>9. /\ f.obj = o /\ f.uid = w.uid /\ f.label = w.label
          /\ e.obj = o /\ e.uid = w.uid /\ e.label = w.label
      BY <3>2, <3>8 DEF Event
    <3> QED BY <3>4, <3>7, <3>8, <3>9 DEF Reported
  <2>3. CASE (seen[i][o] = Absent) <=> (Selected(now) = Absent)
    <3>1. WatchEvents(o, seen[i][o], Selected(now)) = <<>>
      BY <2>3 DEF WatchEvents
    <3> QED BY <3>1 DEF ToSet
  <2> QED BY <2>1, <2>2, <2>3
<1>6. ASSUME NEW i \in Informers, NEW k \in DOMAIN inbox'[i]
      PROVE  Reported(inbox[i][k])'
  <2> DEFINE new == WatchEvents(o, seen[i][o], Selected(now))
  <2>1. inbox[i] \in Seq(OwnEvents) /\ new \in Seq(OwnEvents)
    <3>1. seen[i][o] \in SelectedOf(o) /\ Selected(now) \in SelectedOf(o)
      BY SelectedIsSelected DEF IInv
    <3> QED BY <3>1, WatchEventsAreOwn DEF IInv
  <2>2. inbox'[i] = inbox[i] \/ inbox'[i] = inbox[i] \o new
    BY DEF SetObject
  <2> HIDE DEF new
  <2>3. \/ k \in DOMAIN inbox[i] /\ inbox'[i][k] = inbox[i][k]
        \/ inbox'[i][k] \in ToSet(new)
    <3>1. CASE inbox'[i] = inbox[i]
      BY <3>1
    <3>2. CASE inbox'[i] = inbox[i] \o new
      <4>1. k \in DOMAIN (inbox[i] \o new)
        BY <3>2
      <4>2. \/ k \in DOMAIN inbox[i] /\ (inbox[i] \o new)[k] = inbox[i][k]
            \/ (inbox[i] \o new)[k] \in ToSet(new)
        BY <2>1, <4>1, ConcatenationHas
      <4> QED BY <3>2, <4>2
    <3> QED BY <2>2, <3>1, <3>2
  <2> QED BY <1>1, <1>5, <2>3, PlacesStay DEF new
<1>7. /\ \A i \in Informers : Claimed(handler[i])'
      /\ \A n \in MonitorNames : Settled(n)'
  BY <1>1, <1>2, PlacesStay
<1>8. \A r \in Replicas : CachedIsSo(r)'
  BY <1>2 DEF SInv, CachedIsSo
<1> QED BY <1>1, <1>4, <1>6, <1>7, <1>8 DEF SInv, KnowledgeStays

LEMMA UserStepSInv ==
    ASSUME StableLabels, IInv, SInv, UserStep
    PROVE  SInv'
<1>1. PICK o \in Objects :
          \/ \E l \in LabelsOf[o] \cup {None} : CreateObject(o, l)
          \/ DeleteObject(o)
          \/ \E l \in LabelsOf[o] : LabelIn(o, l)
  BY DEF UserStep, StableLabels, LabelOut, Relabel
<1>2. obj[o] \in WorkloadOf(o) /\ obj[o] \in Workloads /\ nextUid \in 1..(MaxUid + 1)
  BY DEF IInv
<1>3. \A l \in LabelsOf[o] : l \in Labels /\ l # None
  BY LabelsAssumption DEF Labels
<1>4. CASE \E l \in LabelsOf[o] \cup {None} : CreateObject(o, l)
  <2>1. PICK l \in LabelsOf[o] \cup {None} : CreateObject(o, l)
    BY <1>4
  <2> DEFINE now == [uid |-> nextUid, label |-> l]
  <2>2. now \in WorkloadOf(o) /\ Changes(o, now) /\ SetObject(o, now)
    BY <1>2, <1>3, <2>1, BoundsAssumption
    DEF CreateObject, WorkloadOf, Workloads, Uids, Changes
  <2> HIDE DEF now
  <2> QED BY <2>2, SetObjectSInv
<1>5. CASE DeleteObject(o)
  <2>1. Absent \in WorkloadOf(o)
    BY DEF Absent, WorkloadOf, Workloads
  <2>2. Changes(o, Absent) /\ SetObject(o, Absent)
    BY <1>5 DEF DeleteObject, Changes
  <2> QED BY <2>1, <2>2, SetObjectSInv
<1>6. CASE \E l \in LabelsOf[o] : LabelIn(o, l)
  <2>1. PICK l \in LabelsOf[o] : LabelIn(o, l)
    BY <1>6
  <2> DEFINE now == [obj[o] EXCEPT !.label = l]
  <2>2. now \in WorkloadOf(o) /\ now.uid = obj[o].uid /\ now.label = l
    BY <1>2, <1>3, <2>1 DEF LabelIn, WorkloadOf, Workloads
  <2>3. SetObject(o, now) /\ Changes(o, now)
    BY <1>3, <2>1, <2>2 DEF LabelIn, Changes
  <2> HIDE DEF now
  <2> QED BY <2>2, <2>3, SetObjectSInv
<1> QED BY <1>1, <1>4, <1>5, <1>6

(* The steps that write no CamelMonitor and change no workload.            *)
LEMMA QuietSInv ==
    ASSUME StableLabels, IInv, SInv, UNCHANGED <<obj, nextUid, monitor>>,
           \A i \in Informers, o \in Objects :
                seen'[i][o] \in {seen[i][o], Absent, Selected(obj[o])},
           \A i \in Informers : \A k \in DOMAIN inbox'[i] :
                \/ \E j \in DOMAIN inbox[i] : inbox'[i][k] = inbox[i][j]
                \/ Reported(inbox'[i][k]),
           \A i \in Informers :
                handler'[i] \in {handler[i], Idle} \/ Claimed(handler'[i]),
           \A r \in Replicas : CachedIsSo(r)'
    PROVE  SInv'
<1>1. KnowledgeStays
  BY StaysWithWorkloads
<1>2. /\ \A o, w : Remembered(o, w) => Remembered(o, w)'
      /\ \A e : Reported(e) => Reported(e)'
      /\ \A c : Claimed(c) => Claimed(c)'
  BY DEF Remembered, Reported, Claimed, Known, SameLabel, MayBind, Taken
<1>3. ASSUME NEW i \in Informers, NEW o \in Objects
      PROVE  Remembered(o, seen[i][o])'
  <2>1. Remembered(o, seen[i][o]) /\ Remembered(o, Selected(obj[o]))
    BY PresentIsKnown DEF SInv
  <2>2. Remembered(o, seen'[i][o])
    BY <2>1 DEF Remembered
  <2> QED BY <2>2 DEF Remembered, Known, SameLabel
<1>4. ASSUME NEW i \in Informers, NEW k \in DOMAIN inbox'[i]
      PROVE  Reported(inbox[i][k])'
  <2>1. Reported(inbox'[i][k])
    BY DEF SInv
  <2> QED BY <2>1 DEF Reported, Known, SameLabel
<1>5. ASSUME NEW i \in Informers
      PROVE  Claimed(handler[i])'
  <2>1. Claimed(handler'[i])
    BY DEF SInv, Claimed
  <2> QED BY <2>1 DEF Claimed, Known, MayBind, Taken
<1>6. \A n \in MonitorNames : Settled(n)'
  BY <1>1, PlacesStay
<1> QED BY <1>1, <1>3, <1>4, <1>5, <1>6 DEF SInv, KnowledgeStays

(* A notification is taken: those that remain were there.                  *)
LEMMA TakenFrom ==
    ASSUME IInv, SInv, NEW i \in Informers, NEW t, Take(i, t)
    PROVE  /\ Head(inbox[i]) \in OwnEvents
           /\ Reported(Head(inbox[i])) /\ Head(inbox[i]).type = t
           /\ \A j \in Informers : \A k \in DOMAIN inbox'[j] :
                \E m \in DOMAIN inbox[j] : inbox'[j][k] = inbox[j][m]
<1>1. inbox[i] \in Seq(OwnEvents) /\ inbox[i] # <<>>
      /\ inbox' = [inbox EXCEPT ![i] = Tail(@)] /\ Head(inbox[i]).type = t
  BY DEF IInv, Take
<1>2. Head(inbox[i]) = inbox[i][1] /\ 1 \in DOMAIN inbox[i]
      /\ Head(inbox[i]) \in OwnEvents
  BY <1>1
<1>3. \A k \in DOMAIN Tail(inbox[i]) :
        k + 1 \in DOMAIN inbox[i] /\ Tail(inbox[i])[k] = inbox[i][k + 1]
  BY <1>1
<1>4. \A j \in Informers : inbox'[j] = IF j = i THEN Tail(inbox[i]) ELSE inbox[j]
  BY <1>1 DEF IInv
<1> QED BY <1>1, <1>2, <1>3, <1>4 DEF SInv

(* The call that onAdd decides on is a claim; a revision is asked for only *)
(* when the label is taken for ever.                                       *)
LEMMA OnAddClaims ==
    ASSUME StableLabels, IInv, SInv, NEW i \in Informers, NEW n,
           Take(i, "add"), OnAddTo(i, n),
           LET e == Head(inbox[i]) IN
             \/ n = e.label
             \/ /\ n = RevisionName(e.label, e.obj)
                /\ mcache[i[1]][e.label] # NoMonitor
                /\ ~ImportedFrom(mcache[i[1]][e.label], e.obj)
    PROVE  SInv'
<1> DEFINE e == Head(inbox[i])
           c == [name |-> n, obj |-> e.obj, uid |-> e.uid]
           m == mcache[i[1]][e.label]
<1>1. /\ e \in OwnEvents /\ Reported(e)
      /\ \A j \in Informers : \A k \in DOMAIN inbox'[j] :
                \E q \in DOMAIN inbox[j] : inbox'[j][k] = inbox[j][q]
  BY TakenFrom
<1>2. /\ e.label \in LabelsOf[e.obj] /\ e.obj \in Objects
      /\ e.label \in Labels /\ e.label # None /\ e.label \in MonitorNames
  BY <1>1, LabelsAreNames DEF OwnEvents, Events
<1> HIDE DEF e
<1>3. ASSUME n # e.label, e.uid = obj[e.obj].uid
      PROVE  Taken(e.obj)
  <2>1. /\ m # NoMonitor /\ m.obj # e.obj /\ i[1] \in Replicas
    BY <1>3 DEF ImportedFrom, e, Informers
  <2>2. m \in MonitorOrNone /\ Bound(e.label, m)
    BY <1>2, <2>1 DEF IInv
  <2>3. ~UniqueLabels
    <3>1. SUFFICES ASSUME UniqueLabels PROVE FALSE
      OBVIOUS
    <3>2. m.obj \in Objects /\ e.label \in LabelsOf[m.obj]
      BY <2>1, <2>2, <3>1 DEF Bound, MonitorOrNone
    <3> QED BY <1>2, <2>1, <3>1, <3>2 DEF UniqueLabels
  <2>4. "delete" \notin Env
    BY <2>3 DEF StableLabels
  <2>5. m = monitor[e.label]
    BY <1>2, <2>1, <2>4 DEF SInv, CachedIsSo
  <2>6. e.label = obj[e.obj].label
    BY <1>1, <1>3 DEF Reported, SameLabel
  <2> QED BY <2>1, <2>3, <2>5, <2>6 DEF Taken
<1>4. Claimed(c)
  <2>1. c.name = n /\ c.obj = e.obj /\ c.uid = e.uid
    OBVIOUS
  <2>2. n = e.label \/ n = RevisionName(e.label, e.obj)
    BY DEF e
  <2> HIDE DEF c
  <2> QED BY <1>1, <1>2, <1>3, <2>1, <2>2
          DEF Claimed, Reported, SameLabel, MayBind
<1>5. \A j \in Informers : handler'[j] = handler[j] \/ handler'[j] = c
  BY DEF OnAddTo, IInv, e
<1> HIDE DEF c
<1>6. \A r \in Replicas : CachedIsSo(r)'
  BY DEF OnAddTo, SInv, CachedIsSo
<1>7. UNCHANGED <<obj, nextUid, monitor, seen>>
  BY DEF OnAddTo
<1>8. \A j \in Informers :
        handler'[j] \in {handler[j], Idle} \/ Claimed(handler'[j])
  BY <1>4, <1>5
<1> QED BY <1>1, <1>6, <1>7, <1>8, QuietSInv

(* Where workloads are deleted a CamelMonitor may go as well.              *)
LEMMA GoneSInv ==
    ASSUME StableLabels, IInv, SInv, "delete" \in Env,
           UNCHANGED <<obj, nextUid, seen, handler>>,
           \A n \in MonitorNames : monitor'[n] \in {monitor[n], NoMonitor},
           \A i \in Informers : \A k \in DOMAIN inbox'[i] :
                \E j \in DOMAIN inbox[i] : inbox'[i][k] = inbox[i][j]
    PROVE  SInv'
<1>1. KnowledgeStays
  BY StaysWithWorkloads
<1>2. ASSUME NEW i \in Informers, NEW k \in DOMAIN inbox'[i]
      PROVE  Reported(inbox[i][k])'
  <2>1. PICK j \in DOMAIN inbox[i] : inbox'[i][k] = inbox[i][j]
    OBVIOUS
  <2>2. \A e : e = inbox[i][j] => Reported(e)'
    BY <1>1, PlacesStay
  <2> QED BY <2>1, <2>2
<1>3. /\ \A i \in Informers, o \in Objects : Remembered(o, seen[i][o])'
      /\ \A i \in Informers : Claimed(handler[i])'
      /\ \A n \in MonitorNames : Settled(n)'
  BY <1>1, PlacesStay
<1>4. \A r \in Replicas : CachedIsSo(r)'
  BY DEF CachedIsSo
<1> QED BY <1>1, <1>2, <1>3, <1>4 DEF SInv, KnowledgeStays

(* The garbage collector finds an orphan only after a deletion.            *)
LEMMA GarbageCollectSInv ==
    ASSUME StableLabels, IInv, SInv, NEW n \in MonitorNames, GarbageCollect(n)
    PROVE  SInv'
<1>1. "delete" \in Env
  BY DEF GarbageCollect, Orphan, SInv, Settled, Known
<1>2. /\ UNCHANGED <<obj, nextUid, seen, handler, inbox>>
      /\ \A p \in MonitorNames : monitor'[p] \in {monitor[p], NoMonitor}
  BY DEF GarbageCollect, PutMonitor, operator, IInv
<1> QED BY <1>1, <1>2, GoneSInv

(* onDelete is called only after a deletion.                               *)
LEMMA OnDeleteSInv ==
    ASSUME StableLabels, IInv, SInv, NEW i \in Informers, OnDelete(i)
    PROVE  SInv'
<1>1. Take(i, "delete")
  BY DEF OnDelete
<1>2. /\ "delete" \in Env
      /\ \A j \in Informers : \A k \in DOMAIN inbox'[j] :
                \E m \in DOMAIN inbox[j] : inbox'[j][k] = inbox[j][m]
  BY <1>1, TakenFrom DEF Reported
<1>3. /\ UNCHANGED <<obj, nextUid, seen, handler>>
      /\ \A p \in MonitorNames : monitor'[p] \in {monitor[p], NoMonitor}
  BY DEF OnDelete, PutMonitor, IInv
<1> QED BY <1>2, <1>3, GoneSInv

(* A CamelMonitor is created where there was none: what the caches hold or *)
(* are about to hold is not about its name.                                *)
LEMMA CreatedSInv ==
    ASSUME StableLabels, IInv, SInv, NEW i \in Informers, CreateMonitor(i),
           monitor[handler[i].name] = NoMonitor
    PROVE  SInv'
<1>0. PICK c, m : c = handler[i] /\ m = Monitor(c.obj, c.uid)
  OBVIOUS
<1>1. c # Idle /\ c \in BoundCalls /\ Claimed(c)
  BY <1>0 DEF CreateMonitor, IInv, SInv
<1>2. c.name \in MonitorNames /\ c.obj \in Objects /\ c.uid \in Uids
  BY <1>1 DEF BoundCalls, Calls
<1>3. m # NoMonitor /\ m.obj = c.obj /\ m.uid = c.uid
  BY <1>0, <1>2, NoMonitorAssumption, BoundsAssumption DEF Monitor, Uids
<1>4. /\ UNCHANGED <<obj, nextUid, seen, inbox, mcache>>
      /\ PutMonitor(c.name, m)
      /\ monitor' = [monitor EXCEPT ![c.name] = m]
      /\ monitor \in [MonitorNames -> MonitorOrNone]
      /\ handler' = [handler EXCEPT ![i] = Idle]
      /\ handler \in [Informers -> BoundCalls \cup {Idle}]
  BY <1>0 DEF CreateMonitor, PutMonitor, IInv
<1>5. \A n \in MonitorNames : monitor[n] # NoMonitor => monitor'[n] = monitor[n]
  BY <1>0, <1>4
<1>6. KnowledgeStays
  BY <1>4, <1>5, StaysWithWorkloads
<1>7. /\ \A j \in Informers, o \in Objects : Remembered(o, seen[j][o])'
      /\ \A j \in Informers : Claimed(handler[j])'
      /\ \A j \in Informers : \A k \in DOMAIN inbox'[j] : Reported(inbox[j][k])'
  <2>1. \A j \in Informers : handler'[j] \in {handler[j], Idle}
    BY <1>4
  <2>2. \A j \in Informers : \A k \in DOMAIN inbox[j] :
            \A e : e = inbox[j][k] => Reported(e)'
    BY <1>6, PlacesStay
  <2> QED BY <1>4, <1>6, <2>1, <2>2, PlacesStay
<1>8. ASSUME NEW n \in MonitorNames PROVE Settled(n)'
  <2>1. CASE n # c.name
    <3>1. monitor'[n] = monitor[n]
      BY <1>4, <2>1
    <3> QED BY <1>6, <3>1, PlacesStay
  <2>2. CASE n = c.name
    <3>1. monitor'[n] = m
      BY <1>2, <1>4, <2>2
    <3>2. Claimed(c)'
      BY <1>1, <1>6 DEF KnowledgeStays, Claimed, Known, MayBind, Taken
    <3>3. /\ Known(m.obj, m.uid)'
          /\ MayBind(n, m.obj, m.uid)'
      BY <1>1, <1>3, <2>2, <3>2 DEF Claimed, Known, MayBind, Taken
    <3> QED BY <3>1, <3>3 DEF Settled, Known, MayBind, Taken
  <2> QED BY <2>1, <2>2
<1>9. ASSUME NEW r \in Replicas PROVE CachedIsSo(r)'
  <2>1. SUFFICES ASSUME "delete" \notin Env
        PROVE  /\ \A n \in MonitorNames :
                    mcache'[r][n] # NoMonitor => mcache'[r][n] = monitor'[n]
               /\ \A k \in DOMAIN mwatch'[r] :
                    /\ mwatch'[r][k].mon # NoMonitor
                    /\ mwatch'[r][k].mon = monitor'[mwatch'[r][k].name]
    BY DEF CachedIsSo
  <2>2. /\ \A n \in MonitorNames :
                mcache[r][n] # NoMonitor => mcache[r][n] = monitor[n]
        /\ \A k \in DOMAIN mwatch[r] :
                /\ mwatch[r][k].mon # NoMonitor
                /\ mwatch[r][k].mon = monitor[mwatch[r][k].name]
    BY <2>1 DEF SInv, CachedIsSo
  <2>3. mwatch[r] \in Seq(BoundUpdates)
    BY DEF IInv
  <2>4. \A k \in DOMAIN mwatch[r] : mwatch[r][k].name \in MonitorNames
    BY <2>3 DEF BoundUpdates
  <2> DEFINE u == [name |-> c.name, mon |-> m]
  <2>5. u.name = c.name /\ u.mon = m /\ monitor'[c.name] = m
    BY <1>2, <1>4
  <2>6. mwatch'[r] = mwatch[r] \/ mwatch'[r] = Append(mwatch[r], u)
    BY <1>4 DEF PutMonitor
  <2> HIDE DEF u
  <2>7. ASSUME NEW k \in DOMAIN mwatch'[r]
        PROVE  \/ k \in DOMAIN mwatch[r] /\ mwatch'[r][k] = mwatch[r][k]
               \/ mwatch'[r][k] = u
    BY <2>3, <2>6
  <2> QED BY <1>3, <1>4, <1>5, <2>2, <2>4, <2>5, <2>7
<1>10. \A o \in Objects : obj'[o].uid < nextUid'
  BY <1>6 DEF KnowledgeStays
<1> QED BY <1>7, <1>8, <1>9, <1>10 DEF SInv

(* A step of a handler.                                                    *)
LEMMA HandlerStepSInv ==
    ASSUME StableLabels, IInv, SInv, NEW i \in Informers, HandlerStep(i)
    PROVE  SInv'
<1>1. CASE OnAddNew(i)
  <2>1. Take(i, "add") /\ OnAddTo(i, Head(inbox[i]).label)
    BY <1>1, AddDecided DEF OnAddNew
  <2> QED BY <2>1, OnAddClaims
<1>2. CASE OnAddRevision(i)
  <2> DEFINE e == Head(inbox[i])
  <2>1. /\ Take(i, "add") /\ OnAddTo(i, RevisionName(e.label, e.obj))
        /\ mcache[i[1]][e.label] # NoMonitor
        /\ ~ImportedFrom(mcache[i[1]][e.label], e.obj)
    BY <1>2, AddDecided, RevisionCase DEF OnAddRevision
  <2> QED BY <2>1, OnAddClaims
<1>3. CASE OnAddBound(i) \/ OnTombstone(i)
  <2>1. \E t : Take(i, t)
    BY <1>3, AddDecided DEF OnAddBound, OnTombstone
  <2>2. UNCHANGED <<obj, nextUid, monitor, seen, handler, mcache, mwatch>>
    BY <1>3 DEF OnAddBound, OnTombstone
  <2>3. \A r \in Replicas : CachedIsSo(r)'
    BY <2>2 DEF SInv, CachedIsSo
  <2>4. \A j \in Informers : \A k \in DOMAIN inbox'[j] :
                \E m \in DOMAIN inbox[j] : inbox'[j][k] = inbox[j][m]
    BY <2>1, TakenFrom
  <2> QED BY <2>2, <2>3, <2>4, QuietSInv
<1>4. CASE CreateMonitor(i)
  <2>1. CASE monitor[handler[i].name] = NoMonitor
    BY <1>4, <2>1, CreatedSInv
  <2>2. CASE monitor[handler[i].name] # NoMonitor
    <3>1. /\ UNCHANGED <<obj, nextUid, monitor, seen, inbox, mcache, mwatch>>
          /\ \A j \in Informers : handler'[j] \in {handler[j], Idle}
      BY <1>4, <2>2 DEF CreateMonitor, IInv
    <3>2. \A r \in Replicas : CachedIsSo(r)'
      BY <3>1 DEF SInv, CachedIsSo
    <3> QED BY <3>1, <3>2, QuietSInv
  <2> QED BY <2>1, <2>2
<1>5. CASE OnDelete(i)
  BY <1>5, OnDeleteSInv
<1> QED BY <1>1, <1>2, <1>3, <1>4, <1>5 DEF HandlerStep

(* A list reports what is there now, and what was there before.            *)
LEMMA RelistReports ==
    ASSUME IInv, SInv, NEW i \in Informers, NEW k,
           NEW e \in RelistEvents(k, seen[i])
    PROVE  Reported(e)
<1>1. CASE \E o \in Objects : /\ Selected(obj[o]) # Absent
                              /\ e = Event("add", o, Selected(obj[o]))
  <2>1. PICK o \in Objects : /\ Selected(obj[o]) # Absent
                             /\ e = Event("add", o, Selected(obj[o]))
    BY <1>1
  <2>2. Remembered(o, Selected(obj[o]))
    BY PresentIsKnown
  <2> QED BY <2>1, <2>2 DEF Remembered, Reported, Event
<1>2. CASE \E o \in Objects : /\ seen[i][o] # Absent
                              /\ e = Event("tombstone", o, seen[i][o])
  <2>1. PICK o \in Objects : /\ seen[i][o] # Absent
                             /\ e = Event("tombstone", o, seen[i][o])
    BY <1>2
  <2> QED BY <2>1 DEF Remembered, Reported, Event, SInv
<1> QED BY <1>1, <1>2 DEF RelistEvents

LEMMA RelistSInv ==
    ASSUME StableLabels, IInv, SInv, NEW i \in Informers, Relist(i)
    PROVE  SInv'
<1>1. PICK q \in SetToSeqs(RelistEvents(i[2], seen[i])) :
            inbox' = [inbox EXCEPT ![i] = @ \o q]
  BY DEF Relist
<1>2. q \in Seq(OwnEvents) /\ ToSet(q) = RelistEvents(i[2], seen[i])
  BY RelistEventsAreOwn, RelistEventsFinite, OrderOfSet
<1>3. ASSUME NEW j \in Informers, NEW k \in DOMAIN inbox'[j]
      PROVE  \/ \E m \in DOMAIN inbox[j] : inbox'[j][k] = inbox[j][m]
             \/ Reported(inbox'[j][k])
  <2>1. CASE j # i
    <3>1. inbox'[j] = inbox[j]
      BY <1>1, <2>1 DEF IInv
    <3> QED BY <1>3, <3>1
  <2>2. CASE j = i
    <3>1. inbox'[i] = inbox[i] \o q /\ inbox[i] \in Seq(OwnEvents)
      BY <1>1 DEF IInv
    <3>2. k \in DOMAIN (inbox[i] \o q)
      BY <1>3, <2>2, <3>1
    <3>3. \/ k \in DOMAIN inbox[i] /\ (inbox[i] \o q)[k] = inbox[i][k]
          \/ (inbox[i] \o q)[k] \in ToSet(q)
      BY <1>2, <3>1, <3>2, ConcatenationHas
    <3>4. \A e \in ToSet(q) : Reported(e)
      BY <1>2, RelistReports
    <3> QED BY <2>2, <3>1, <3>3, <3>4
  <2> QED BY <2>1, <2>2
<1>4. /\ UNCHANGED <<obj, nextUid, monitor, handler, mcache, mwatch>>
      /\ seen' = [seen EXCEPT ![i] = [o \in Objects |->
                    IF o.kind = i[2] THEN Selected(obj[o]) ELSE @[o]]]
      /\ seen \in [Informers -> [Objects -> Workloads]]
  BY DEF Relist, IInv
<1>5. \A j \in Informers, o \in Objects :
            seen'[j][o] \in {seen[j][o], Absent, Selected(obj[o])}
  BY <1>4
<1>6. \A r \in Replicas : CachedIsSo(r)'
  BY <1>4 DEF SInv, CachedIsSo
<1> QED BY <1>3, <1>4, <1>5, <1>6, QuietSInv

(* The caches and the process.                                             *)
LEMMA CacheUpdateSInv ==
    ASSUME StableLabels, IInv, SInv, NEW r \in Replicas, MonitorCacheUpdate(r)
    PROVE  SInv'
<1>1. UNCHANGED <<obj, nextUid, monitor, seen, inbox, handler>>
  BY DEF MonitorCacheUpdate
<1>2. ASSUME NEW s \in Replicas PROVE CachedIsSo(s)'
  <2>1. CASE s # r
    <3>1. mcache'[s] = mcache[s] /\ mwatch'[s] = mwatch[s]
      BY <2>1 DEF MonitorCacheUpdate, IInv
    <3> QED BY <1>1, <3>1 DEF SInv, CachedIsSo
  <2>2. CASE s = r
    <3>1. /\ mwatch[r] \in Seq(BoundUpdates) /\ mwatch[r] # <<>>
          /\ mwatch'[r] = Tail(mwatch[r])
          /\ mcache[r] \in [MonitorNames -> MonitorOrNone]
          /\ mcache'[r] = [mcache[r] EXCEPT
                ![Head(mwatch[r]).name] = Head(mwatch[r]).mon]
      BY DEF MonitorCacheUpdate, IInv
    <3>2. Head(mwatch[r]) = mwatch[r][1] /\ 1 \in DOMAIN mwatch[r]
      BY <3>1
    <3>3. \A k \in DOMAIN Tail(mwatch[r]) :
            k + 1 \in DOMAIN mwatch[r] /\ Tail(mwatch[r])[k] = mwatch[r][k + 1]
      BY <3>1
    <3> QED BY <1>1, <2>2, <3>1, <3>2, <3>3 DEF SInv, CachedIsSo
  <2> QED BY <2>1, <2>2
<1> QED BY <1>1, <1>2, QuietSInv

LEMMA StartWithSInv ==
    ASSUME StableLabels, IInv, SInv, NEW r \in Replicas, NEW kinds,
           StartWith(r, kinds)
    PROVE  SInv'
<1>1. UNCHANGED <<obj, nextUid, monitor, seen, inbox, handler, mwatch>>
  BY DEF StartWith
<1>2. \A s \in Replicas : mcache'[s] = mcache[s] \/ mcache'[s] = monitor
  BY DEF StartWith, IInv
<1>3. \A s \in Replicas : CachedIsSo(s)'
  BY <1>1, <1>2 DEF SInv, CachedIsSo
<1> QED BY <1>1, <1>3, QuietSInv

LEMMA CrashSInv ==
    ASSUME StableLabels, IInv, SInv, NEW r \in Replicas, Crash(r)
    PROVE  SInv'
<1>1. UNCHANGED <<obj, nextUid, monitor>>
  BY DEF Crash
<1>2. \A i \in Informers, o \in Objects : seen'[i][o] \in {seen[i][o], Absent}
  BY DEF Crash, NoObjects
<1>3. \A i \in Informers : inbox'[i] = inbox[i] \/ inbox'[i] = <<>>
  BY DEF Crash
<1>4. \A i \in Informers : handler'[i] \in {handler[i], Idle}
  BY DEF Crash
<1>5. \A s \in Replicas : \/ mcache'[s] = mcache[s] /\ mwatch'[s] = mwatch[s]
                          \/ mcache'[s] = NoMonitors /\ mwatch'[s] = <<>>
  BY DEF Crash, IInv
<1>6. \A s \in Replicas : CachedIsSo(s)'
  BY <1>1, <1>5 DEF SInv, CachedIsSo, NoMonitors
<1>7. \A i \in Informers : \A k \in DOMAIN inbox'[i] :
            \E j \in DOMAIN inbox[i] : inbox'[i][k] = inbox[i][j]
  BY <1>3
<1> QED BY <1>1, <1>2, <1>4, <1>6, <1>7, QuietSInv

(* The faults that leave the replica running.                              *)
LEMMA CallFaultSInv ==
    ASSUME StableLabels, IInv, SInv, NEW i \in Informers,
           \/ WatchBreaks(i) \/ CreateMonitorFails(i)
           \/ OnAddReadFails(i) \/ OnDeleteFails(i)
    PROVE  SInv'
<1>1. UNCHANGED <<obj, nextUid, monitor, seen, mcache, mwatch>>
  BY DEF WatchBreaks, CreateMonitorFails, OnAddReadFails, OnDeleteFails
<1>2. \A j \in Informers : handler'[j] \in {handler[j], Idle}
  BY DEF WatchBreaks, CreateMonitorFails, OnAddReadFails, OnDeleteFails, IInv
<1>3. \A j \in Informers : \A k \in DOMAIN inbox'[j] :
            \E m \in DOMAIN inbox[j] : inbox'[j][k] = inbox[j][m]
  <2>1. CASE WatchBreaks(i) \/ CreateMonitorFails(i)
    BY <2>1 DEF WatchBreaks, CreateMonitorFails
  <2>2. CASE OnAddReadFails(i) \/ OnDeleteFails(i)
    <3>1. \E t : Take(i, t)
      BY <2>2 DEF OnAddReadFails, OnDeleteFails
    <3> QED BY <3>1, TakenFrom
  <2> QED BY <2>1, <2>2
<1>4. \A r \in Replicas : CachedIsSo(r)'
  BY <1>1 DEF SInv, CachedIsSo
<1> QED BY <1>1, <1>2, <1>3, <1>4, QuietSInv

LEMMA StepSInv ==
    ASSUME StableLabels, IInv, SInv, [Next]_vars
    PROVE  SInv'
<1>1. CASE UserStep
  BY <1>1, UserStepSInv
<1>2. ASSUME NEW i \in Informers, HandlerStep(i) \/ Relist(i)
      PROVE  SInv'
  BY <1>2, HandlerStepSInv, RelistSInv
<1>3. ASSUME NEW r \in Replicas, MonitorCacheUpdate(r) \/ Start(r)
      PROVE  SInv'
  BY <1>3, CacheUpdateSInv, StartWithSInv DEF Start
<1>4. ASSUME NEW n \in MonitorNames, GarbageCollect(n)
      PROVE  SInv'
  BY <1>4, GarbageCollectSInv
<1>5. CASE FaultStep
  <2>1. ASSUME NEW r \in Replicas, Crash(r) PROVE SInv'
    BY <2>1, CrashSInv
  <2>2. ASSUME NEW r \in Replicas, StartDiscoveryFails(r) PROVE SInv'
    BY <2>2, StartWithSInv DEF StartDiscoveryFails
  <2> QED BY <1>5, <2>1, <2>2, CallFaultSInv DEF FaultStep
<1>6. CASE UNCHANGED vars
  <2>1. UNCHANGED <<obj, nextUid, monitor, seen, inbox, handler, mcache, mwatch>>
    BY <1>6 DEF vars
  <2>2. \A r \in Replicas : CachedIsSo(r)'
    BY <2>1 DEF SInv, CachedIsSo
  <2> QED BY <2>1, <2>2, QuietSInv
<1> QED BY <1>1, <1>2, <1>3, <1>4, <1>5, <1>6 DEF Next

LEMMA InitSInv == ASSUME Init PROVE SInv
<1>1. \A o \in Objects : obj[o] = Absent /\ \A i \in Informers : seen[i][o] = Absent
  BY DEF Init, NoObjects
<1>2. /\ nextUid = 1
      /\ \A i \in Informers : inbox[i] = <<>> /\ handler[i] = Idle
      /\ \A n \in MonitorNames : monitor[n] = NoMonitor
      /\ \A r \in Replicas : mwatch[r] = <<>> /\ mcache[r] = NoMonitors
  BY DEF Init, NoMonitors
<1>3. \A o \in Objects : obj[o].uid < nextUid
  BY <1>1, <1>2 DEF Absent
<1>4. /\ \A i \in Informers, o \in Objects : Remembered(o, seen[i][o])
      /\ \A i \in Informers : Claimed(handler[i])
      /\ \A n \in MonitorNames : Settled(n)
  BY <1>1, <1>2 DEF Remembered, Claimed, Settled
<1>5. \A r \in Replicas : CachedIsSo(r)
  BY <1>2 DEF CachedIsSo, NoMonitors
<1> QED BY <1>2, <1>3, <1>4, <1>5 DEF SInv

(* A workload is bound under its label or under its revision name, and     *)
(* under the revision name only while the label is another's.              *)
LEMMA OneAtATime ==
    ASSUME IInv, SInv, NEW o \in Objects
    PROVE  Cardinality(MonitorsOf(o)) <= 1
<1>1. ASSUME NEW n \in MonitorsOf(o)
      PROVE  /\ n \in MonitorNames /\ monitor[n] # NoMonitor
             /\ monitor[n].obj = o /\ MayBind(n, o, obj[o].uid)
  <2>1. n \in MonitorNames /\ monitor[n] # NoMonitor
        /\ monitor[n].obj = o /\ monitor[n].uid = obj[o].uid
    BY DEF MonitorsOf, Monitor
  <2>2. Settled(n)
    BY <2>1 DEF SInv
  <2> QED BY <2>1, <2>2 DEF Settled
<1>2. \A n, p \in MonitorsOf(o) : n = p
  BY <1>1 DEF MayBind, Taken
<1>3. CASE MonitorsOf(o) = {}
  BY <1>3, FS_EmptySet
<1>4. CASE MonitorsOf(o) # {}
  <2>1. PICK n : MonitorsOf(o) = {n}
    BY <1>2, <1>4
  <2>2. Cardinality({n}) = 1
    BY FS_Singleton
  <2> QED BY <2>1, <2>2
<1> QED BY <1>3, <1>4

(* Where workloads keep their labels, and where labels are unique or no    *)
(* workload is deleted, a workload never has two CamelMonitors at a time:  *)
(* onAdd, called again for the same workload by any replica, after any     *)
(* restart, lost watch or failed call, asks for the one that is there.     *)
(* Without the hypothesis it does not hold: no update of a workload is     *)
(* handled, so one that is relabelled keeps the CamelMonitor of its old    *)
(* label, and has a second one once a later list reports it again.         *)
THEOREM OneMonitorEach == StableLabels /\ Spec => []AtMostOneMonitor
<1>1. Init => SInv
  BY InitSInv
<1>2. StableLabels /\ IInv /\ SInv /\ [Next]_vars => SInv'
  BY StepSInv
<1>3. IInv /\ SInv => AtMostOneMonitor
  BY OneAtATime DEF AtMostOneMonitor
<1>4. StableLabels => StableLabels'
  OBVIOUS
<1> QED BY <1>1, <1>2, <1>3, <1>4, IInvHolds, PTL DEF Spec
=============================================================================
