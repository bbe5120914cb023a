----------------------- MODULE MonitorControllerProofs -----------------------
(***************************************************************************)
(* What MonitorController guarantees for every set of CamelMonitors, every *)
(* polling configuration and every bound, under all the faults it models.  *)
(*                                                                         *)
(* NeverForgotten is inductive together with the types.  For the info, the *)
(* round in work has to be related to the copy it was computed from: until *)
(* its patch is sent, its info is the one of its base or the one it has    *)
(* scraped.                                                                *)
(***************************************************************************)
EXTENDS MonitorController, DataLemmas

(* The target of the round in work has the info of its base, or the one    *)
(* its scrape found.                                                       *)
TargetInfo ==
    active # Nil /\ active.target # Nil =>
        \/ active.target.info = active.base.status.info
        \/ /\ active.target.pods \in Reporting
           /\ active.target.info = formatRuntimeInfo(active.target.pods)

IInv == TypeOK /\ NeverForgotten /\ TargetInfo

Updates == [name : Monitors, val : MonitorOrNil]

-----------------------------------------------------------------------------
(* Facts about the operators. *)

(* A queued name stays queued, and the new one is. *)
LEMMA EnqueueAdds ==
    ASSUME NEW q \in Seq(Monitors), NEW m \in Monitors
    PROVE  Enqueue(q, m) \in Seq(Monitors) /\ ToSet(Enqueue(q, m)) = ToSet(q) \cup {m}
  BY ToSetAppend DEF Enqueue

(* An interval is a duration. *)
LEMMA IntervalIsInt ==
    ASSUME NEW a \in Annotations
    PROVE  getPollingInterval(a) \in Int
<1>1. (IF a = NotANumber THEN DefaultSeconds ELSE a) \in Int
  BY ValuesAssumption
<1>2. \A d \in Int : Wrap(d) \in Int
  BY ValuesAssumption DEF Wrap
<1> DEFINE n == IF a = NotANumber THEN DefaultSeconds ELSE a
<1>3. n * Second \in Int
  <2> HIDE DEF n
  <2> QED BY <1>1, ValuesAssumption DEF n
<1> QED BY <1>2, <1>3 DEF getPollingInterval

(* Every target of Handle is a status, and keeps or scrapes its info. *)
LEMMA TargetsAreStatuses ==
    ASSUME NEW b \in Statuses, NEW w \in Worlds
    PROVE  /\ PartialNoPods(b, w) \in Statuses
           /\ PartialNoPods(b, w).info = b.info
           /\ PartialNoConditions(b, w) \in Statuses
           /\ \/ PartialNoConditions(b, w).info = b.info
              \/ /\ PartialNoConditions(b, w).pods \in Reporting
                 /\ PartialNoConditions(b, w).info
                        = formatRuntimeInfo(PartialNoConditions(b, w).pods)
           /\ Complete(b, w) \in Statuses
           /\ \/ Complete(b, w).info = b.info
              \/ /\ Complete(b, w).pods \in Reporting
                 /\ Complete(b, w).info
                        = formatRuntimeInfo(Complete(b, w).pods)
<1>1. NewInfo(b, w) \in Runtimes \cup {""}
  BY DEF NewInfo, Statuses, Reporting, formatRuntimeInfo
<1>2. \/ NewInfo(b, w) = b.info
      \/ w.pods \in Reporting /\ NewInfo(b, w) = formatRuntimeInfo(w.pods)
  BY DEF NewInfo
<1> QED BY <1>1, <1>2
        DEF PartialNoPods, PartialNoConditions, Complete, Statuses, Worlds

(* A merge of statuses is a status. *)
LEMMA MergedIsStatus ==
    ASSUME NEW s \in Statuses, NEW b \in Statuses, NEW t \in Statuses
    PROVE  Merged(s, b, t) \in Statuses
  BY DEF Merged, Statuses

(* A write of a CamelMonitor keeps the server and the watch typed. *)
LEMMA PutKeepsType ==
    ASSUME TypeOK, NEW m \in Monitors, NEW v \in MonitorOrNil, Put(m, v)
    PROVE  mon' \in [Monitors -> MonitorOrNil] /\ cwatch' \in Seq(Updates)
<1>1. mon' \in [Monitors -> MonitorOrNil]
  BY DEF TypeOK, Put
<1>2. [name |-> m, val |-> v] \in Updates
  BY DEF Updates
<1>3. cwatch \in Seq(Updates)
  BY DEF TypeOK, Updates
<1>4. cwatch' \in Seq(Updates)
  BY <1>2, <1>3 DEF Put
<1> QED BY <1>1, <1>4

-----------------------------------------------------------------------------
(* The initial states. *)
LEMMA InitIInv == Init => IInv
<1> SUFFICES ASSUME Init PROVE IInv
  OBVIOUS
<1>1. TypeOK
  <2>1. /\ mon \in [Monitors -> MonitorOrNil] /\ cache \in [Monitors -> MonitorOrNil]
        /\ cwatch \in Seq([name : Monitors, val : MonitorOrNil])
        /\ queue \in Seq(Monitors)
    BY DEF Init, MonitorOrNil
  <2>2. /\ nextInc \in 1..(MaxIncarnation + 1)
        /\ changes \in 0..MaxChanges /\ faults \in 0..MaxFaults
    BY BoundsAssumption DEF Init
  <2>3. initialized \in BOOLEAN /\ rule \in BOOLEAN /\ up \in BOOLEAN
    BY DEF Init
  <2>4. world \in [Monitors -> Worlds]
    BY ValuesAssumption DEF Init
  <2>5. waiting \subseteq Monitors /\ parked \subseteq Monitors /\ active = Nil
    BY DEF Init
  <2> QED BY <2>1, <2>2, <2>3, <2>4, <2>5 DEF TypeOK
<1>2. NeverForgotten
  BY DEF Init, NeverForgotten
<1>3. TargetInfo
  BY DEF Init, TargetInfo
<1> QED BY <1>1, <1>2, <1>3 DEF IInv

(* What the rest of the cluster does preserves the invariant. *)
LEMMA ClusterStepIInv ==
    ASSUME IInv, NEW m \in Monitors,
           \/ MonitorCreated(m)
           \/ MonitorDeleted(m)
           \/ \E w \in Worlds : WorldChanges(m, w)
    PROVE  IInv'
<1> USE DEF IInv
<1>1. CASE MonitorCreated(m)
  <2>1. nextInc \in Incarnations /\ nextInc' \in 1..(MaxIncarnation + 1)
    BY <1>1, BoundsAssumption DEF TypeOK, MonitorCreated, Incarnations
  <2>2. [inc |-> nextInc, status |-> BlankStatus] \in MonitorOrNil
    BY <2>1 DEF MonitorOrNil, Copies, BlankStatus, Statuses
  <2>3. mon' \in [Monitors -> MonitorOrNil] /\ cwatch' \in Seq(Updates)
    BY <1>1, <2>2, PutKeepsType DEF MonitorCreated
  <2>4. TypeOK'
    BY <1>1, <2>1, <2>3 DEF TypeOK, MonitorCreated, Updates
  <2> QED BY <1>1, <2>4 DEF MonitorCreated, NeverForgotten, Scheduled, TargetInfo
<1>2. CASE MonitorDeleted(m)
  <2>1. Nil \in MonitorOrNil
    BY DEF MonitorOrNil
  <2>2. mon' \in [Monitors -> MonitorOrNil] /\ cwatch' \in Seq(Updates)
    BY <1>2, <2>1, PutKeepsType DEF MonitorDeleted
  <2>3. TypeOK'
    BY <1>2, <2>2 DEF TypeOK, MonitorDeleted, Updates
  <2> QED BY <1>2, <2>3 DEF MonitorDeleted, NeverForgotten, Scheduled, TargetInfo
<1>3. ASSUME NEW w \in Worlds, WorldChanges(m, w)
      PROVE  IInv'
  <2>1. changes' \in 0..MaxChanges
    BY <1>3, BoundsAssumption DEF TypeOK, WorldChanges
  <2>2. TypeOK'
    BY <1>3, <2>1 DEF TypeOK, WorldChanges
  <2> QED BY <1>3, <2>2 DEF WorldChanges, NeverForgotten, Scheduled, TargetInfo
<1> QED BY <1>1, <1>2, <1>3

(* The cache and the timers preserve the invariant: a CamelMonitor that    *)
(* the controller comes to know is enqueued, a timer that fires enqueues.  *)
LEMMA QueueStepIInv ==
    ASSUME IInv, CacheUpdate \/ \E m \in Monitors : TimerFires(m)
    PROVE  IInv'
<1> USE DEF IInv
<1>1. CASE CacheUpdate
  <2> DEFINE m == Head(cwatch).name
             v == Head(cwatch).val
  <2>1. cwatch \in Seq(Updates) /\ cwatch # <<>>
    BY <1>1 DEF TypeOK, Updates, CacheUpdate
  <2>2. Head(cwatch) \in Updates /\ Tail(cwatch) \in Seq(Updates)
    BY <2>1
  <2>3. m \in Monitors /\ v \in MonitorOrNil
    BY <2>2 DEF Updates
  <2>4. /\ cwatch' = Tail(cwatch)
        /\ cache' = [cache EXCEPT ![m] = v]
        /\ queue' = IF Triggers(cache[m], v) THEN Enqueue(queue, m) ELSE queue
        /\ UNCHANGED <<mon, nextInc, world, waiting, active, parked, initialized,
                       rule, up, changes, faults>>
    BY <1>1 DEF CacheUpdate
  <2> HIDE DEF m, v
  <2>5. Enqueue(queue, m) \in Seq(Monitors) /\ ToSet(Enqueue(queue, m)) = ToSet(queue) \cup {m}
    BY <2>3, EnqueueAdds DEF TypeOK
  <2>6. TypeOK'
    BY <2>2, <2>3, <2>4, <2>5 DEF TypeOK, Updates
  <2>7. NeverForgotten'
    <3> SUFFICES ASSUME NEW n \in Monitors, cache'[n] # Nil
                 PROVE  Scheduled(n)' \/ n \in parked'
      BY DEF NeverForgotten
    <3>1. CASE n = m /\ Triggers(cache[m], v)
      BY <2>4, <2>5, <3>1 DEF Scheduled
    <3>2. CASE ~(n = m /\ Triggers(cache[m], v))
      <4>1. cache[n] # Nil
        BY <2>3, <2>4, <3>2 DEF Triggers, TypeOK
      <4>2. Scheduled(n) \/ n \in parked
        BY <4>1 DEF NeverForgotten
      <4>3. ToSet(queue) \subseteq ToSet(queue')
        BY <2>4, <2>5
      <4> QED BY <2>4, <4>2, <4>3 DEF Scheduled
    <3> QED BY <3>1, <3>2
  <2> QED BY <2>4, <2>6, <2>7 DEF TargetInfo
<1>2. ASSUME NEW m \in Monitors, TimerFires(m)
      PROVE  IInv'
  <2>1. Enqueue(queue, m) \in Seq(Monitors) /\ ToSet(Enqueue(queue, m)) = ToSet(queue) \cup {m}
    BY EnqueueAdds DEF TypeOK
  <2>2. TypeOK'
    BY <1>2, <2>1 DEF TypeOK, TimerFires
  <2>3. NeverForgotten'
    BY <1>2, <2>1 DEF TimerFires, NeverForgotten, Scheduled
  <2> QED BY <1>2, <2>2, <2>3 DEF TimerFires, TargetInfo
<1> QED BY <1>1, <1>2

(* What the worker takes leaves the queue with the others in it. *)
LEMMA TakeRequestKeeps ==
    ASSUME IInv, NEW m \in Monitors, TakeRequest(m)
    PROVE  /\ queue' \in Seq(Monitors)
           /\ ToSet(queue) = {m} \cup ToSet(queue')
           /\ parked' = parked \ {m}
           /\ active = Nil
<1>1. queue \in Seq(Monitors) /\ queue # <<>> /\ queue' = Tail(queue) /\ m = Head(queue)
  BY DEF IInv, TypeOK, TakeRequest
<1>2. /\ Tail(queue) \in Seq(Monitors)
      /\ ToSet(queue) = {Head(queue)} \cup ToSet(Tail(queue))
  BY <1>1, ToSetTail
<1> QED BY <1>1, <1>2 DEF TakeRequest

(* The first half of a round preserves the invariant: the name taken from  *)
(* the queue is in work, waits for a retry, or is not known.               *)
LEMMA ReconcileIInv ==
    ASSUME IInv, NEW m \in Monitors,
           \/ ReconcileNotFound(m)
           \/ ReconcileBegin(m)
           \/ ReconcileReadFails(m)
           \/ ReconcileRuleFails(m)
    PROVE  IInv'
<1> USE DEF IInv
<1>1. CASE ReconcileNotFound(m)
  <2>1. TakeRequest(m)
    BY <1>1 DEF ReconcileNotFound
  <2>2. /\ queue' \in Seq(Monitors) /\ ToSet(queue) = {m} \cup ToSet(queue')
        /\ parked' = parked \ {m} /\ active = Nil
    BY <2>1, TakeRequestKeeps
  <2>3. TypeOK'
    BY <1>1, <2>2 DEF TypeOK, ReconcileNotFound
  <2>4. NeverForgotten'
    BY <1>1, <2>2 DEF ReconcileNotFound, NeverForgotten, Scheduled
  <2> QED BY <1>1, <2>3, <2>4 DEF ReconcileNotFound, TargetInfo
<1>2. CASE ReconcileBegin(m)
  <2>1. TakeRequest(m)
    BY <1>2 DEF ReconcileBegin
  <2>2. /\ queue' \in Seq(Monitors) /\ ToSet(queue) = {m} \cup ToSet(queue')
        /\ parked' = parked \ {m} /\ active = Nil
    BY <2>1, TakeRequestKeeps
  <2>3. cache[m] \in Copies
    BY <1>2 DEF TypeOK, MonitorOrNil, ReconcileBegin
  <2>4. active' \in Rounds /\ active'.name = m /\ active'.target = Nil
    BY <1>2, <2>3 DEF ReconcileBegin, Rounds
  <2>5. active' # Nil
    BY <2>4, NilAssumption
  <2>6. initialized' \in BOOLEAN /\ rule' \in BOOLEAN
    BY <1>2 DEF ReconcileBegin
  <2>7. TypeOK'
    BY <1>2, <2>2, <2>4, <2>6 DEF TypeOK, ReconcileBegin
  <2>8. NeverForgotten'
    BY <1>2, <2>2, <2>4, <2>5 DEF ReconcileBegin, NeverForgotten, Scheduled
  <2> QED BY <2>4, <2>7, <2>8 DEF TargetInfo
<1>3. CASE ReconcileRuleFails(m)
  <2>1. TakeRequest(m)
    BY <1>3 DEF ReconcileRuleFails
  <2>2. /\ queue' \in Seq(Monitors) /\ ToSet(queue) = {m} \cup ToSet(queue')
        /\ parked' = parked \ {m} /\ active = Nil
    BY <2>1, TakeRequestKeeps
  <2>3. faults' \in 0..MaxFaults /\ initialized' \in BOOLEAN
    BY <1>3, BoundsAssumption DEF TypeOK, ReconcileRuleFails, Fault
  <2>4. TypeOK'
    BY <1>3, <2>2, <2>3 DEF TypeOK, ReconcileRuleFails
  <2>5. NeverForgotten'
    BY <1>3, <2>2 DEF ReconcileRuleFails, NeverForgotten, Scheduled
  <2> QED BY <1>3, <2>4, <2>5 DEF ReconcileRuleFails, TargetInfo
<1>4. CASE ReconcileReadFails(m)
  <2>1. TakeRequest(m)
    BY <1>4 DEF ReconcileReadFails
  <2>2. /\ queue' \in Seq(Monitors) /\ ToSet(queue) = {m} \cup ToSet(queue')
        /\ parked' = parked \ {m} /\ active = Nil
    BY <2>1, TakeRequestKeeps
  <2>3. faults' \in 0..MaxFaults
    BY <1>4, BoundsAssumption DEF TypeOK, ReconcileReadFails, Fault
  <2>4. TypeOK'
    BY <1>4, <2>2, <2>3 DEF TypeOK, ReconcileReadFails
  <2>5. NeverForgotten'
    BY <1>4, <2>2 DEF ReconcileReadFails, NeverForgotten, Scheduled
  <2> QED BY <1>4, <2>4, <2>5 DEF ReconcileReadFails, TargetInfo
<1> QED BY <1>1, <1>2, <1>3, <1>4

(* A round that Handle has given a sound target is a sound round. *)
LEMMA HandledIInv ==
    ASSUME IInv, Handling, NEW t \in Statuses \cup {Nil}, NEW k \in BOOLEAN,
           t # Nil => \/ t.info = active.base.status.info
                      \/ t.pods \in Reporting /\ t.info = formatRuntimeInfo(t.pods),
           Handled(t, k), faults' \in 0..MaxFaults
    PROVE  IInv'
<1> USE DEF IInv
<1>1. active \in Rounds /\ active # Nil
  BY DEF TypeOK, Handling
<1> DEFINE a == getPollingInterval(world[active.name].annotation)
<1>2. a \in Int
  <2>1. world[active.name].annotation \in Annotations
    BY <1>1 DEF Rounds, TypeOK, Worlds
  <2> QED BY <2>1, IntervalIsInt
<1>3. /\ active' = [active EXCEPT !.stage = "update", !.target = t, !.ok = k, !.after = a]
      /\ UNCHANGED <<mon, nextInc, world, cache, cwatch, queue, waiting, parked,
                     initialized, rule, up, changes>>
  BY DEF Handled
<1> HIDE DEF a
<1>4. /\ active' \in Rounds
      /\ active'.name = active.name /\ active'.base = active.base
      /\ active'.target = t
  BY <1>1, <1>2, <1>3 DEF Rounds
<1>5. active' # Nil
  BY <1>4, NilAssumption
<1>6. TypeOK'
  BY <1>3, <1>4 DEF TypeOK
<1>7. NeverForgotten'
  BY <1>1, <1>3, <1>4, <1>5 DEF NeverForgotten, Scheduled
<1>8. TargetInfo'
  BY <1>4 DEF TargetInfo
<1> QED BY <1>6, <1>7, <1>8

(* Handle preserves the invariant: the round stays in work, and its target *)
(* has the info of its base or the scraped one.                            *)
LEMMA HandleIInv ==
    ASSUME IInv,
           \/ HandleComplete
           \/ HandleNoOwner
           \/ HandleLookupFails
           \/ HandleNoPodList
           \/ HandleResourceFails
    PROVE  IInv'
<1> DEFINE b == active.base.status
           w == world[active.name]
<1>1. Handling
  BY DEF HandleComplete, HandleNoOwner, HandleLookupFails, HandleNoPodList,
         HandleResourceFails
<1>2. b \in Statuses /\ w \in Worlds
  BY <1>1 DEF IInv, TypeOK, Handling, Rounds, Copies
<1>3. \A f : Fault(f) => faults' \in 0..MaxFaults
  BY BoundsAssumption DEF IInv, TypeOK, Fault
<1>4. faults \in 0..MaxFaults
  BY DEF IInv, TypeOK
<1>5. CASE HandleComplete
  <2>1. Handled(Complete(b, w), TRUE) /\ faults' \in 0..MaxFaults
    BY <1>4, <1>5 DEF HandleComplete
  <2> QED BY <1>1, <1>2, <2>1, TargetsAreStatuses, HandledIInv
<1>6. CASE HandleNoOwner
  <2>1. Handled(Nil, FALSE) /\ faults' \in 0..MaxFaults
    BY <1>4, <1>6 DEF HandleNoOwner
  <2> QED BY <1>1, <2>1, HandledIInv
<1>7. CASE HandleNoPodList
  <2>1. Handled(PartialNoPods(b, w), FALSE) /\ faults' \in 0..MaxFaults
    BY <1>3, <1>7 DEF HandleNoPodList
  <2> QED BY <1>1, <1>2, <2>1, TargetsAreStatuses, HandledIInv
<1>8. CASE HandleResourceFails
  <2>1. Handled(PartialNoConditions(b, w), FALSE) /\ faults' \in 0..MaxFaults
    BY <1>3, <1>8 DEF HandleResourceFails
  <2> QED BY <1>1, <1>2, <2>1, TargetsAreStatuses, HandledIInv
<1>9. CASE HandleLookupFails
  <2>1. Handled(Nil, FALSE) /\ faults' \in 0..MaxFaults
    BY <1>3, <1>9 DEF HandleLookupFails
  <2> QED BY <1>1, <2>1, HandledIInv
<1> QED BY <1>5, <1>6, <1>7, <1>8, <1>9

(* The end of a round preserves the invariant: the name it was about gets  *)
(* a timer or is parked.                                                   *)
LEMMA FinishIInv ==
    ASSUME IInv,
           \/ FinishWithoutTarget
           \/ FinishPatched
           \/ FinishGone
           \/ FinishPatchFails
    PROVE  IInv'
<1> USE DEF IInv
<1>1. PICK k : FinishRound(k)
  BY DEF FinishWithoutTarget, FinishPatched, FinishGone, FinishPatchFails
<1>2. active \in Rounds /\ active # Nil /\ active.name \in Monitors
  BY <1>1 DEF FinishRound, TypeOK, Rounds
<1>3. /\ active' = Nil
      /\ UNCHANGED <<nextInc, world, cache, queue, initialized, rule, up, changes>>
      /\ waiting \subseteq waiting' /\ waiting' \subseteq Monitors
      /\ parked \subseteq parked' /\ parked' \subseteq Monitors
      /\ active.name \in waiting' \cup parked'
  BY <1>1, <1>2 DEF FinishRound, Schedule, TypeOK
<1>4. faults' \in 0..MaxFaults
  <2>1. faults \in 0..MaxFaults
    BY DEF TypeOK
  <2>2. CASE faults' = faults
    BY <2>1, <2>2
  <2>3. CASE Fault("api")
    BY <2>1, <2>3, BoundsAssumption DEF Fault
  <2> QED BY <2>2, <2>3
          DEF FinishWithoutTarget, FinishPatched, FinishGone, FinishPatchFails
<1>5. mon' \in [Monitors -> MonitorOrNil] /\ cwatch' \in Seq(Updates)
  <2>1. CASE UNCHANGED <<mon, cwatch>>
    BY <2>1 DEF TypeOK, Updates
  <2>2. CASE FinishPatched /\ ~UNCHANGED <<mon, cwatch>>
    <3> DEFINE n == active.name
               s == Merged(mon[n].status, active.base.status, active.target)
    <3>1. /\ Put(n, [mon[n] EXCEPT !.status = s])
          /\ active.target # Nil /\ mon[n] # Nil
      BY <2>2 DEF FinishPatched
    <3>2. mon[n] \in Copies /\ active.target \in Statuses /\ active.base \in Copies
      BY <1>2, <3>1 DEF TypeOK, MonitorOrNil, Rounds
    <3>3. mon[n].status \in Statuses /\ active.base.status \in Statuses
      BY <3>2 DEF Copies
    <3>4. s \in Statuses
      BY <3>2, <3>3, MergedIsStatus
    <3> HIDE DEF s
    <3>5. [mon[n] EXCEPT !.status = s] \in MonitorOrNil
      BY <3>2, <3>4 DEF MonitorOrNil, Copies
    <3> QED BY <1>2, <3>1, <3>5, PutKeepsType
  <2> QED BY <2>1, <2>2 DEF FinishWithoutTarget, FinishPatched, FinishGone, FinishPatchFails
<1>6. TypeOK'
  BY <1>3, <1>4, <1>5 DEF TypeOK, Updates
<1>7. NeverForgotten'
  BY <1>2, <1>3 DEF NeverForgotten, Scheduled
<1> QED BY <1>3, <1>6, <1>7 DEF TargetInfo

(* Lost watches, crashes and restarts preserve the invariant: a list       *)
(* enqueues every CamelMonitor the controller did not know.                *)
LEMMA ListIInv ==
    ASSUME IInv, CacheRelist \/ Crash \/ Restart
    PROVE  IInv'
<1> USE DEF IInv
<1>1. \A f : Fault(f) => faults' \in 0..MaxFaults
  BY BoundsAssumption DEF TypeOK, Fault
<1>2. CASE CacheRelist
  <2> DEFINE S == {m \in Monitors : Triggers(cache[m], mon[m]) /\ m \notin ToSet(queue)}
  <2>1. PICK q \in SetToSeqs(S) : queue' = queue \o q
    BY <1>2 DEF CacheRelist
  <2>2. IsFiniteSet(S)
    BY MonitorsAssumption, FS_Subset
  <2>3. q \in Seq(S) /\ ToSet(q) = S
    BY <2>1, <2>2, OrderOfSet
  <2>4. S \subseteq Monitors
    OBVIOUS
  <2>5. q \in Seq(Monitors)
    <3> HIDE DEF S
    <3> QED BY <2>3, <2>4
  <2>6. queue' \in Seq(Monitors) /\ ToSet(queue') = ToSet(queue) \cup S
    BY <2>1, <2>3, <2>5, ToSetConcat DEF TypeOK
  <2>7. TypeOK'
    BY <1>1, <1>2, <2>6 DEF CacheRelist, TypeOK
  <2>8. NeverForgotten'
    <3> SUFFICES ASSUME NEW n \in Monitors, cache'[n] # Nil
                 PROVE  Scheduled(n)' \/ n \in parked'
      BY DEF NeverForgotten
    <3>1. CASE n \in ToSet(queue')
      BY <3>1 DEF Scheduled
    <3>2. CASE n \notin ToSet(queue')
      <4>1. ~Triggers(cache[n], mon[n]) /\ mon[n] # Nil
        BY <1>2, <2>6, <3>2 DEF CacheRelist
      <4>2. cache[n] # Nil
        BY <4>1 DEF Triggers
      <4> QED BY <1>2, <2>6, <3>2, <4>2 DEF CacheRelist, NeverForgotten, Scheduled
    <3> QED BY <3>1, <3>2
  <2> QED BY <1>2, <2>7, <2>8 DEF CacheRelist, TargetInfo
<1>3. CASE Crash
  <2>1. /\ cache' \in [Monitors -> MonitorOrNil]
        /\ cwatch' \in Seq([name : Monitors, val : MonitorOrNil])
        /\ queue' \in Seq(Monitors)
        /\ waiting' \subseteq Monitors /\ parked' \subseteq Monitors
        /\ active' = Nil
    BY <1>3 DEF Crash, MonitorOrNil
  <2>2. up' \in BOOLEAN /\ initialized' \in BOOLEAN
    BY <1>3 DEF Crash
  <2>3. faults' \in 0..MaxFaults
    BY <1>1, <1>3 DEF Crash
  <2>4. TypeOK'
    BY <1>3, <2>1, <2>2, <2>3 DEF TypeOK, Crash
  <2>5. NeverForgotten'
    BY <1>3 DEF Crash, NeverForgotten
  <2> QED BY <2>1, <2>4, <2>5 DEF TargetInfo
<1>4. CASE Restart
  <2> DEFINE S == {m \in Monitors : mon[m] # Nil}
  <2>1. queue' \in SetToSeqs(S)
    BY <1>4 DEF Restart
  <2>2. IsFiniteSet(S)
    BY MonitorsAssumption, FS_Subset
  <2>3. queue' \in Seq(S) /\ ToSet(queue') = S
    BY <2>1, <2>2, OrderOfSet
  <2>4. S \subseteq Monitors
    OBVIOUS
  <2>5. queue' \in Seq(Monitors)
    <3> HIDE DEF S
    <3> QED BY <2>3, <2>4
  <2>6. TypeOK'
    BY <1>4, <2>5 DEF Restart, TypeOK
  <2>7. NeverForgotten'
    BY <1>4, <2>3 DEF Restart, NeverForgotten, Scheduled
  <2> QED BY <1>4, <2>6, <2>7 DEF Restart, TargetInfo
<1> QED BY <1>2, <1>3, <1>4

-----------------------------------------------------------------------------
(* The inductive invariant holds in every behaviour. *)
THEOREM IInvHolds == Spec => []IInv
<1>1. IInv /\ [Next]_vars => IInv'
  <2> SUFFICES ASSUME IInv, [Next]_vars PROVE IInv'
    OBVIOUS
  <2>1. CASE UNCHANGED vars
    BY <2>1 DEF IInv, TypeOK, NeverForgotten, Scheduled, TargetInfo, vars
  <2>2. CASE Worker
    BY <2>2, ReconcileIInv, HandleIInv, FinishIInv DEF Worker
  <2>3. CASE FaultStep
    BY <2>3, ReconcileIInv, HandleIInv, FinishIInv, ListIInv DEF FaultStep
  <2>4. CASE CacheUpdate \/ Restart
    BY <2>4, QueueStepIInv, ListIInv
  <2>5. ASSUME NEW m \in Monitors,
               \/ MonitorCreated(m)
               \/ MonitorDeleted(m)
               \/ \E w \in Worlds : WorldChanges(m, w)
               \/ TimerFires(m)
        PROVE  IInv'
    BY <2>5, ClusterStepIInv, QueueStepIInv
  <2> QED BY <2>1, <2>2, <2>3, <2>4, <2>5 DEF Next
<1> QED BY <1>1, InitIInv, PTL DEF Spec

(* Type correctness of MonitorController. *)
THEOREM TypeCorrect == Spec => []TypeOK
  BY IInvHolds, PTL DEF IInv

(* No CamelMonitor the controller knows is ever dropped from its schedule, *)
(* except by an interval that is not positive.                             *)
THEOREM NothingForgotten == Spec => []NeverForgotten
  BY IInvHolds, PTL DEF IInv

(* The info changes only to what the writing round scraped, even when its  *)
(* patch is computed against a stale copy.                                 *)
THEOREM InfoFromScrape == Spec => InfoOnlyFromScrape
<1>1. IInv /\ [Next]_vars => [InfoChange]_vars
  <2> SUFFICES ASSUME IInv, Next,
                      NEW m \in Monitors, mon[m] # Nil, mon'[m] # Nil,
                      mon'[m].status.info # mon[m].status.info
               PROVE  /\ active # Nil
                      /\ active.target # Nil
                      /\ active.target.pods \in Reporting
                      /\ mon'[m].status.info = formatRuntimeInfo(active.target.pods)
    BY DEF InfoChange
  <2>1. mon' # mon
    OBVIOUS
  <2>2. FinishPatched
    <3>1. ~FaultStep /\ ~CacheUpdate /\ ~Restart
      BY <2>1 DEF FaultStep, ReconcileReadFails, ReconcileRuleFails,
                  HandleLookupFails, HandleNoPodList, Handled,
                  HandleResourceFails, FinishPatchFails, CacheRelist, Crash,
                  CacheUpdate, Restart
    <3>2. \A n \in Monitors : ~MonitorCreated(n) /\ ~MonitorDeleted(n)
      BY DEF IInv, TypeOK, MonitorCreated, MonitorDeleted, Put
    <3>3. \A n \in Monitors : /\ ~\E w \in Worlds : WorldChanges(n, w)
                              /\ ~TimerFires(n)
                              /\ ~ReconcileNotFound(n) /\ ~ReconcileBegin(n)
      BY <2>1 DEF WorldChanges, TimerFires, ReconcileNotFound, ReconcileBegin
    <3>4. /\ ~HandleComplete /\ ~HandleNoOwner
          /\ ~FinishWithoutTarget /\ ~FinishGone
      BY <2>1 DEF HandleComplete, HandleNoOwner, Handled, FinishWithoutTarget,
                  FinishGone
    <3> QED BY <3>1, <3>2, <3>3, <3>4 DEF Next, Worker
  <2> DEFINE n == active.name
             s == Merged(mon[n].status, active.base.status, active.target)
  <2>3. /\ active # Nil /\ active.target # Nil /\ mon[n] # Nil
        /\ Put(n, [mon[n] EXCEPT !.status = s])
    BY <2>1, <2>2 DEF FinishPatched, FinishRound
  <2>4. active \in Rounds /\ n \in Monitors /\ mon[n] \in Copies
    BY <2>3 DEF IInv, TypeOK, Rounds, MonitorOrNil
  <2>5. m = n
    BY <2>3 DEF IInv, TypeOK, Put
  <2>6. mon'[m].status = s
    BY <2>3, <2>4, <2>5 DEF IInv, TypeOK, Put, Copies
  <2>7. /\ active.target.info # active.base.status.info
        /\ s.info = active.target.info
    <3>1. s.info = IF active.target.info # active.base.status.info
                   THEN active.target.info ELSE mon[n].status.info
      BY DEF Merged
    <3> HIDE DEF s
    <3> QED BY <2>5, <2>6, <3>1
  <2> QED BY <2>3, <2>6, <2>7 DEF IInv, TargetInfo
<1> QED BY <1>1, IInvHolds, PTL DEF Spec, InfoOnlyFromScrape

-----------------------------------------------------------------------------
(* The controller keeps the promise about statuses: every step, its faults *)
(* included, is a step of StatusPromise or a stutter.  A round begins with *)
(* nothing found; what Handle makes of the workload differs from the base  *)
(* of the round only in what it found; and the patch sends the difference. *)

(* A round that has not been handled has found nothing. *)
NotYet == active # Nil /\ active.stage = "handle" => active.target = Nil

LEMMA NotYetHolds == Spec => [](IInv /\ NotYet)
<1>1. Init => NotYet
  BY DEF Init, NotYet
<1>2. IInv /\ NotYet /\ [Next]_vars => NotYet'
  <2> SUFFICES ASSUME IInv, NotYet, [Next]_vars PROVE NotYet'
    OBVIOUS
  <2>1. CASE active' = active \/ active' = Nil
    BY <2>1 DEF NotYet
  <2>2. ASSUME NEW m \in Monitors, ReconcileBegin(m) PROVE NotYet'
    BY <2>2 DEF ReconcileBegin, NotYet
  <2>3. ASSUME NEW t, NEW k, Handling, Handled(t, k) PROVE NotYet'
    BY <2>3 DEF Handling, Handled, NotYet, IInv, TypeOK, Rounds
  <2>4. \/ active' = active \/ active' = Nil
        \/ \E m \in Monitors : ReconcileBegin(m)
        \/ Handling /\ \E t, k : Handled(t, k)
    BY DEF Next, Worker, FaultStep, vars, MonitorCreated, MonitorDeleted,
           WorldChanges, TimerFires, CacheUpdate, CacheRelist, Restart, Crash,
           ReconcileNotFound, ReconcileReadFails, ReconcileRuleFails,
           HandleComplete, HandleNoOwner, HandleLookupFails, HandleNoPodList,
           HandleResourceFails, FinishWithoutTarget, FinishPatched, FinishGone,
           FinishPatchFails, FinishRound
  <2> QED BY <2>1, <2>2, <2>3, <2>4
<1> QED BY <1>1, <1>2, IInvHolds, PTL DEF Spec

(* What is sent of a target comes from one result of a look.               *)
LEMMA SentIsFound ==
    ASSUME NEW b \in Statuses, NEW w \in Worlds, w.owner,
           NEW t \in {Complete(b, w), PartialNoPods(b, w), PartialNoConditions(b, w)}
    PROVE  \E r \in Results(w) : \A f \in Sent(b, t) : t[f] \in r[f]
<1>1. /\ t.phase = w.phase
      /\ \/ /\ t.pods = w.pods /\ t.cond \in {w.pods, "partial"}
            /\ t.info = NewInfo(b, w)
         \/ t.pods = "" /\ t.cond = "" /\ t.info = b.info
  <2>1. CASE t = Complete(b, w)
    BY <2>1 DEF Complete
  <2>2. CASE t = PartialNoPods(b, w)
    BY <2>2 DEF PartialNoPods
  <2>3. CASE t = PartialNoConditions(b, w)
    BY <2>3 DEF PartialNoConditions
  <2> QED BY <2>1, <2>2, <2>3
<1>2. t.info # b.info =>
        w.pods \in Reporting /\ t.info = formatRuntimeInfo(w.pods) /\ t.pods = w.pods
  BY <1>1 DEF NewInfo
<1>3. PICK r : r = Result(w, t.pods, t.cond)
  OBVIOUS
<1>4. r \in Results(w)
  BY <1>1, <1>3 DEF Results
<1>5. /\ t["phase"] \in r["phase"]
      /\ t["pods"] \in r["pods"]
      /\ t["cond"] \in r["cond"]
      /\ t["info"] # b["info"] => t["info"] \in r["info"]
  <2>1. r = [phase |-> {w.phase},
             pods |-> {t.pods},
             info |-> IF t.pods \in Reporting
                      THEN {formatRuntimeInfo(t.pods)} ELSE {},
             cond |-> {t.cond}]
    BY <1>3 DEF Result
  <2> QED BY <1>1, <1>2, <2>1
<1>6. \A f \in Sent(b, t) :
        f \in {"phase", "pods", "info", "cond"} /\ (f = "info" => t["info"] # b["info"])
  BY DEF Sent, Fields
<1> QED BY <1>4, <1>5, <1>6

(* Handle makes a look of what it puts into the target.                    *)
LEMMA LookPromised ==
    ASSUME IInv, NotYet, Handling, NEW t \in Statuses, NEW k \in BOOLEAN,
           world[active.name].owner,
           LET b == active.base.status
               w == world[active.name]
           IN  t \in {Complete(b, w), PartialNoPods(b, w), PartialNoConditions(b, w)},
           Handled(t, k)
    PROVE  \E m \in Monitors : Promise!Look(m)
<1> DEFINE b == active.base.status
           w == world[active.name]
           a == getPollingInterval(world[active.name].annotation)
           x == [name |-> active.name, fields |-> [f \in Sent(b, t) |-> t[f]]]
<1>1. active \in Rounds /\ active # Nil /\ active.target = Nil
  BY DEF IInv, TypeOK, Handling, NotYet
<1>2. active.name \in Monitors /\ b \in Statuses /\ w \in Worlds
  BY <1>1 DEF Rounds, IInv, TypeOK, Copies
<1>3. /\ active' = [active EXCEPT !.stage = "update", !.target = t, !.ok = k, !.after = a]
      /\ UNCHANGED <<mon, world>>
  BY DEF Handled
<1>4. a \in Int
  <2>1. world[active.name].annotation \in Annotations
    BY <1>2 DEF Worlds
  <2> QED BY <2>1, IntervalIsInt
<1> HIDE DEF a
<1>5. /\ active' \in Rounds
      /\ active'.name = active.name /\ active'.base = active.base
      /\ active'.target = t
  BY <1>1, <1>3, <1>4 DEF Rounds
<1>6. active' # Nil /\ t # Nil
  BY <1>5, NilAssumption
<1>7. Found = {} /\ Found' = {x}
  BY <1>1, <1>5, <1>6 DEF Found
<1>8. PICK r \in Results(w) : \A f \in Sent(b, t) : t[f] \in r[f]
  BY <1>2, SentIsFound
<1>9. [v \in Worlds |-> Results(v)][w] = Results(w)
  BY <1>2
<1>10. Sent(b, t) \subseteq Fields
  BY DEF Sent
<1>11. /\ x.name = active.name /\ DOMAIN x.fields = Sent(b, t)
       /\ \A f \in Sent(b, t) : x.fields[f] = t[f]
  OBVIOUS
<1>12. StatusOf' = StatusOf
  BY <1>3 DEF StatusOf
<1> HIDE DEF b, w, x
<1> QED BY <1>2, <1>3, <1>7, <1>8, <1>9, <1>10, <1>11, <1>12 DEF Promise!Look, w

(* A target that Handle does not reach is a look that is lost at once.     *)
LEMMA NoLookPromised ==
    ASSUME IInv, NotYet, Handling, NEW k \in BOOLEAN, Handled(Nil, k)
    PROVE  Promise!Lost
<1>1. active \in Rounds
  BY DEF IInv, TypeOK, Handling
<1>2. active'.target = Nil /\ UNCHANGED <<mon, world>>
  BY <1>1 DEF Handled, Rounds
<1>3. Found' = {} /\ StatusOf' = StatusOf
  BY <1>2 DEF Found, StatusOf
<1> QED BY <1>2, <1>3 DEF Promise!Lost

(* The patch writes what was found and keeps the rest.                     *)
LEMMA WritePromised ==
    ASSUME IInv, FinishPatched
    PROVE  Promise!Write
<1> DEFINE n == active.name
           b == active.base.status
           t == active.target
           old == mon[n].status
           s == Merged(old, b, t)
           x == [name |-> n, fields |-> [f \in Sent(b, t) |-> t[f]]]
<1>1. /\ active \in Rounds /\ active # Nil /\ active' = Nil
      /\ t # Nil /\ mon[n] # Nil /\ world' = world
      /\ mon' = IF s = old THEN mon
                ELSE [mon EXCEPT ![n] = [mon[n] EXCEPT !.status = s]]
  BY DEF FinishPatched, FinishRound, IInv, TypeOK, Put
<1>2. /\ n \in Monitors /\ b \in Statuses /\ t \in Statuses
      /\ mon \in [Monitors -> MonitorOrNil] /\ mon[n] \in Copies /\ old \in Statuses
  BY <1>1 DEF Rounds, Copies, IInv, TypeOK, MonitorOrNil
<1>3. s \in Statuses
  BY <1>2, MergedIsStatus
<1>4. /\ mon' \in [Monitors -> MonitorOrNil]
      /\ mon'[n] # Nil /\ mon'[n].status = s
      /\ \A m \in Monitors \ {n} : mon'[m] = mon[m]
  <2>1. CASE s = old
    BY <1>1, <1>2, <2>1
  <2>2. CASE s # old
    <3> DEFINE c == [mon[n] EXCEPT !.status = s]
    <3>1. c \in Copies /\ c.status = s
      <4> HIDE DEF s
      <4> QED BY <1>2, <1>3 DEF Copies
    <3>2. mon' = [mon EXCEPT ![n] = c]
      BY <1>1, <2>2
    <3> HIDE DEF c
    <3> QED BY <1>2, <3>1, <3>2, NilAssumption DEF MonitorOrNil
  <2> QED BY <2>1, <2>2
<1>5. Found = {x} /\ Found' = {}
  BY <1>1 DEF Found
<1>6. \A f \in Fields : s[f] = IF f \in Sent(b, t) THEN t[f] ELSE old[f]
  <2>1. /\ s["phase"] = IF t["phase"] # b["phase"] THEN t["phase"] ELSE old["phase"]
        /\ s["pods"] = IF t["pods"] # b["pods"] THEN t["pods"] ELSE old["pods"]
        /\ s["info"] = IF t["info"] # b["info"] THEN t["info"] ELSE old["info"]
        /\ s["cond"] = IF t["cond"] = "" /\ b["cond"] = "" THEN old["cond"] ELSE t["cond"]
    BY DEF Merged
  <2>2. /\ "phase" \in Sent(b, t) <=> t["phase"] # b["phase"]
        /\ "pods" \in Sent(b, t) <=> t["pods"] # b["pods"]
        /\ "info" \in Sent(b, t) <=> t["info"] # b["info"]
        /\ "cond" \in Sent(b, t) <=> ~(t["cond"] = "" /\ b["cond"] = "")
    BY DEF Sent, Fields
  <2> HIDE DEF s, b, t, old
  <2> QED BY <2>1, <2>2 DEF Fields
<1>7. /\ StatusOf[n] = old /\ StatusOf'[n] = s
      /\ StatusOf' = [StatusOf EXCEPT ![n] = s]
  <2>1. StatusOf' = [m \in Monitors |-> IF mon'[m] = Nil THEN Nil ELSE mon'[m].status]
    BY DEF StatusOf
  <2> HIDE DEF s
  <2> QED BY <1>1, <1>2, <1>4, <2>1 DEF StatusOf
<1>8. old # Nil /\ s # Nil
  BY <1>2, <1>3, NilAssumption
<1>9. /\ x.name = n /\ DOMAIN x.fields = Sent(b, t)
      /\ \A f \in Sent(b, t) : x.fields[f] = t[f]
  OBVIOUS
<1> HIDE DEF n, b, t, old, s, x
<1> QED BY <1>1, <1>5, <1>6, <1>7, <1>8, <1>9 DEF Promise!Write

(* CamelMonitors and workloads come and go as they do in the promise.      *)
LEMMA ClusterPromised ==
    ASSUME IInv, NEW m \in Monitors,
           \/ MonitorCreated(m)
           \/ MonitorDeleted(m)
           \/ \E w \in Worlds : WorldChanges(m, w)
    PROVE  Promise!Created(m) \/ Promise!Deleted(m) \/ Promise!WorldChanges(m)
<1>1. mon \in [Monitors -> MonitorOrNil] /\ world \in [Monitors -> Worlds]
  BY DEF IInv, TypeOK
<1>2. \A n \in Monitors : mon[n] # Nil => mon[n].status # Nil
  BY <1>1, NilAssumption DEF MonitorOrNil, Copies
<1>3. Found' = Found
  BY DEF Found, MonitorCreated, MonitorDeleted, WorldChanges
<1>4. StatusOf' = [n \in Monitors |-> IF mon'[n] = Nil THEN Nil ELSE mon'[n].status]
  BY DEF StatusOf
<1>5. CASE MonitorCreated(m)
  <2> DEFINE c == [inc |-> nextInc, status |-> BlankStatus]
  <2>1. mon[m] = Nil /\ mon' = [mon EXCEPT ![m] = c] /\ world' = world
    BY <1>5 DEF MonitorCreated, Put
  <2>2. c # Nil /\ c.status = BlankStatus
    <3>1. nextInc \in Incarnations
      BY <1>5, BoundsAssumption DEF IInv, TypeOK, MonitorCreated, Incarnations
    <3>2. c \in Copies
      BY <3>1 DEF Copies, BlankStatus, Statuses
    <3> QED BY <3>2, NilAssumption
  <2> HIDE DEF c
  <2>3. StatusOf[m] = Nil /\ StatusOf' = [StatusOf EXCEPT ![m] = BlankStatus]
    BY <1>1, <1>4, <2>1, <2>2 DEF StatusOf
  <2> QED BY <1>3, <2>1, <2>3 DEF Promise!Created
<1>6. CASE MonitorDeleted(m)
  <2>1. mon[m] # Nil /\ mon' = [mon EXCEPT ![m] = Nil] /\ world' = world
    BY <1>6 DEF MonitorDeleted, Put
  <2>2. StatusOf[m] # Nil /\ StatusOf' = [StatusOf EXCEPT ![m] = Nil]
    BY <1>1, <1>2, <1>4, <2>1 DEF StatusOf
  <2> QED BY <1>3, <2>1, <2>2 DEF Promise!Deleted
<1>7. ASSUME NEW w \in Worlds, WorldChanges(m, w)
      PROVE  Promise!WorldChanges(m)
  <2>1. mon' = mon /\ world' = [world EXCEPT ![m] = w]
    BY <1>7 DEF WorldChanges
  <2>2. /\ world' \in [Monitors -> Worlds]
        /\ \A n \in Monitors \ {m} : world'[n] = world[n]
    BY <1>1, <2>1
  <2>3. DOMAIN [v \in Worlds |-> Results(v)] = Worlds
    OBVIOUS
  <2>4. StatusOf' = StatusOf
    BY <2>1 DEF StatusOf
  <2> QED BY <1>3, <2>2, <2>3, <2>4 DEF Promise!WorldChanges
<1> QED BY <1>5, <1>6, <1>7

(* Every step keeps the promise.                                           *)
LEMMA StepPromised ==
    ASSUME IInv, NotYet, [Next]_vars
    PROVE  [Promise!Next]_(Promise!vars)
<1> DEFINE b == active.base.status
           w == world[active.name]
<1>1. ASSUME UNCHANGED <<mon, world, active>>
      PROVE  UNCHANGED Promise!vars
  BY <1>1 DEF Promise!vars, StatusOf, Found
<1>2. ASSUME UNCHANGED <<mon, world>>, active' = Nil
      PROVE  Promise!Lost
  BY <1>2 DEF Promise!Lost, StatusOf, Found
<1>3. ASSUME NEW m \in Monitors, ReconcileBegin(m)
      PROVE  Promise!Lost
  <2>1. active'.target = Nil /\ UNCHANGED <<mon, world>>
    BY <1>3 DEF ReconcileBegin
  <2> QED BY <2>1 DEF Promise!Lost, StatusOf, Found
<1>4. CASE HandleComplete \/ HandleNoPodList \/ HandleResourceFails
  <2>1. Handling /\ world[active.name].owner
    BY <1>4 DEF HandleComplete, HandleNoPodList, HandleResourceFails
  <2>2. b \in Statuses /\ w \in Worlds
    BY <2>1 DEF IInv, TypeOK, Handling, Rounds, Copies
  <2>3. PICK t \in {Complete(b, w), PartialNoPods(b, w), PartialNoConditions(b, w)},
             k \in BOOLEAN : Handled(t, k)
    BY <1>4 DEF HandleComplete, HandleNoPodList, HandleResourceFails
  <2>4. t \in Statuses
    BY <2>2, <2>3, TargetsAreStatuses
  <2>5. \E m \in Monitors : Promise!Look(m)
    BY <2>1, <2>3, <2>4, LookPromised
  <2> QED BY <2>5 DEF Promise!Next
<1>5. CASE HandleNoOwner \/ HandleLookupFails
  <2>1. Handling /\ Handled(Nil, FALSE)
    BY <1>5 DEF HandleNoOwner, HandleLookupFails
  <2> QED BY <2>1, NoLookPromised DEF Promise!Next
<1>6. CASE FinishPatched
  BY <1>6, WritePromised DEF Promise!Next
<1>7. ASSUME NEW m \in Monitors,
             \/ MonitorCreated(m)
             \/ MonitorDeleted(m)
             \/ \E v \in Worlds : WorldChanges(m, v)
      PROVE  Promise!Next
  BY <1>7, ClusterPromised DEF Promise!Next
<1>8. \/ UNCHANGED <<mon, world, active>>
      \/ UNCHANGED <<mon, world>> /\ active' = Nil
      \/ \E m \in Monitors : ReconcileBegin(m)
      \/ HandleComplete \/ HandleNoPodList \/ HandleResourceFails
      \/ HandleNoOwner \/ HandleLookupFails
      \/ FinishPatched
      \/ \E m \in Monitors : \/ MonitorCreated(m)
                             \/ MonitorDeleted(m)
                             \/ \E v \in Worlds : WorldChanges(m, v)
  BY DEF Next, Worker, FaultStep, vars, TimerFires, CacheUpdate, CacheRelist,
         Restart, Crash, ReconcileNotFound, ReconcileReadFails,
         ReconcileRuleFails, FinishWithoutTarget, FinishGone, FinishPatchFails,
         FinishRound
<1> QED BY <1>1, <1>2, <1>3, <1>4, <1>5, <1>6, <1>7, <1>8 DEF Promise!Next

(* StatusAsPromised (monitor.go:63-150, camel_monitor_controller.go:133,   *)
(* 181-190) for every number of CamelMonitors, every workload, every       *)
(* interval and every fault: what a status holds was found by a look at    *)
(* its own workload, what one look found is written together, and nothing  *)
(* but the round in work writes it.                                        *)
THEOREM StatusPromised == Spec => StatusAsPromised
<1>1. Init => Promise!Init
  <2> SUFFICES ASSUME Init PROVE Promise!Init
    OBVIOUS
  <2>1. StatusOf = [m \in Monitors |-> Nil] /\ Found = {}
    BY DEF Init, StatusOf, Found
  <2>2. world \in [Monitors -> DOMAIN [v \in Worlds |-> Results(v)]]
    BY ValuesAssumption DEF Init
  <2> QED BY <2>1, <2>2 DEF Promise!Init
<1>2. IInv /\ NotYet /\ [Next]_vars => [Promise!Next]_(Promise!vars)
  BY StepPromised
<1> QED BY <1>1, <1>2, NotYetHolds, PTL DEF Spec, StatusAsPromised, Promise!Spec
=============================================================================
