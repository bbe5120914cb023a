----------------------- MODULE MonitorResourcesProofs -----------------------
(***************************************************************************)
(* Proofs about MonitorResources for any pods, ports, limits, settings and *)
(* bounds: its types, and that a resource of the present CamelMonitor is   *)
(* never handed back to an earlier one.                                    *)
(***************************************************************************)
EXTENDS MonitorResources, TLAPS

(* Every uid in use has been given. *)
UidsGiven ==
    /\ cm <= lastUid
    /\ cmCache <= lastUid
    /\ \A r \in Resources : stored[r] # Nil => stored[r].owner <= lastUid
    /\ round # Nil => round.uid <= lastUid
    /\ late # Nil => late.value.owner <= lastUid

(* The operator acts, or has acted, for the present CamelMonitor. *)
Acted ==
    \/ \E r \in Resources : stored[r] # Nil /\ stored[r].owner = cm
    \/ late # Nil /\ late.value.owner = cm

(* Since then it knows of no other: cache and round have moved on to it.   *)
KnowsOwner ==
    cm # 0 /\ Acted =>
        /\ cmCache \in {0, cm}
        /\ round # Nil => round.uid = cm

(* A round about the present CamelMonitor has it from the cache. *)
RoundFromCache ==
    round # Nil /\ round.uid = cm => cmCache = cm

(* A process that is down has no round. *)
DownHasNoRound == ~up => round = Nil

(* A late Update of a resource of the present CamelMonitor that the server *)
(* would take was begun for it.                                            *)
LateKeepsOwner ==
    /\ late # Nil /\ late.found /\ late.valid
    /\ stored[late.res] # Nil
    /\ cm # 0 /\ stored[late.res].owner = cm
    => late.value.owner = cm

Ownership ==
    UidsGiven /\ KnowsOwner /\ RoundFromCache /\ DownHasNoRound /\ LateKeepsOwner
IInv == TypeOK /\ Ownership

-----------------------------------------------------------------------------
(* Types. *)

Items == [res : Resources, content : Contents]
CacheEntries == [synced : BOOLEAN, found : BOOLEAN, current : BOOLEAN]

LEMMA ContentType ==
    ASSUME TypeOK, NEW r \in Resources, NEW port \in Ports
    PROVE  ContentOf(r, port, app.limit, env) \in Contents
<1>1. app.limit \in Limits /\ env \in Environments
  BY DEF TypeOK, Applications
<1> QED BY <1>1 DEF Contents, ContentOf

LEMMA ToWriteType ==
    ASSUME TypeOK, NEW port \in FirstPort
    PROVE  ToWrite(port) \in Seq(Items)
<1>1. port \in Ports \cup {Nil}
  BY DEF FirstPort
<1> DEFINE item(r) == IF r \in has /\ port # Nil
                      THEN <<[res |-> r, content |-> ContentOf(r, port, app.limit, env)]>>
                      ELSE <<>>
<1>2. ASSUME NEW r \in Resources
      PROVE  item(r) \in Seq(Items)
  <2>1. CASE r \in has /\ port # Nil
    <3>1. ContentOf(r, port, app.limit, env) \in Contents
      BY <1>1, <2>1, ContentType
    <3> QED BY <2>1, <3>1 DEF Items
  <2>2. CASE ~(r \in has /\ port # Nil)
    BY <2>2
  <2> QED BY <2>1, <2>2
<1>3. item("PodMonitor") \in Seq(Items) /\ item("GrafanaDashboard") \in Seq(Items)
  BY <1>2 DEF Resources
<1>4. ToWrite(port) = item("PodMonitor") \o item("GrafanaDashboard")
  BY DEF ToWrite
<1> HIDE DEF item
<1> QED BY <1>3, <1>4

LEMMA BlankType == /\ Blank \in [cond : [Resources -> Outcomes], monitored : BOOLEAN]
                   /\ Blank.cond \in [Resources -> Outcomes]
  BY DEF Blank, Outcomes

LEMMA UnsyncedType ==
    Unsynced \in CacheEntries
  BY DEF Unsynced, CacheEntries

(* A cached copy that is outdated is still one. *)
LEMMA OutdatedType ==
    ASSUME TypeOK, NEW r \in Resources
    PROVE  [cached EXCEPT ![r].current = FALSE] \in [Resources -> CacheEntries]
  BY DEF TypeOK, CacheEntries

(* The turn of a resource, and what is written then. *)
LEMMA TurnType ==
    ASSUME TypeOK, NEW r \in Resources, Turn(r)
    PROVE  /\ round \in Rounds
           /\ round.todo \in Seq(Items) /\ round.todo # <<>>
           /\ Head(round.todo) \in Items
           /\ Tail(round.todo) \in Seq(Items)
           /\ Target(r) \in Versions
           /\ Target(r).owner = round.uid
           /\ Pending(r) \in Writes
<1>1. round \in Rounds /\ round.todo # <<>>
  BY DEF TypeOK, Turn
<1>2. round.todo \in Seq(Items) /\ round.uid \in Uids
  BY <1>1 DEF Rounds, Items
<1>3. Head(round.todo) \in Items /\ Tail(round.todo) \in Seq(Items)
  BY <1>1, <1>2
<1>4. Target(r) \in Versions /\ Target(r).owner = round.uid
  BY <1>2, <1>3, ResourcesAssumption DEF Target, Items, Versions, Uids
<1>5. Pending(r) \in Writes
  BY <1>1, <1>4 DEF Pending, Writes, Rounds
<1> QED BY <1>1, <1>2, <1>3, <1>4, <1>5

(* What Touch leaves has its type if the new version has. *)
LEMMA TouchType ==
    ASSUME TypeOK, NEW r \in Resources, NEW v \in Versions \cup {Nil}, Touch(r, v)
    PROVE  /\ stored' \in [Resources -> Versions \cup {Nil}]
           /\ cached' \in [Resources -> CacheEntries]
           /\ round' \in Rounds \cup {Nil}
           /\ late' \in Writes \cup {Nil}
<1>1. stored' \in [Resources -> Versions \cup {Nil}]
  BY DEF TypeOK, Touch
<1>2. cached' \in [Resources -> CacheEntries]
  BY OutdatedType DEF Touch
<1>3. round' \in Rounds \cup {Nil}
  BY DEF TypeOK, Touch, Rounds
<1>4. late' \in Writes \cup {Nil}
  BY DEF TypeOK, Touch, Writes
<1> QED BY <1>1, <1>2, <1>3, <1>4

(* What is left of a round has the type of one. *)
LEMMA RestType ==
    ASSUME round \in Rounds, NEW todo \in Seq(Items), NEW r \in Resources
    PROVE  /\ [Rest(todo) EXCEPT !.cond[r] = "True"] \in Rounds
           /\ [Rest(todo) EXCEPT !.cond[r] = "True"].uid = round.uid
           /\ Failed(r) \in Rounds
           /\ Failed(r).uid = round.uid
<1>1. Rest(todo) \in Rounds /\ Rest(todo).uid = round.uid
  BY DEF Rest, Rounds, Items
<1>2. <<>> \in Seq(Items)
  OBVIOUS
<1>3. Rest(<<>>) \in Rounds /\ Rest(<<>>).uid = round.uid
  BY <1>2 DEF Rest, Rounds, Items
<1>4. \A x \in Rounds :
          /\ [x EXCEPT !.cond[r] = "True"] \in Rounds
          /\ [x EXCEPT !.cond[r] = "True"].uid = x.uid
          /\ [x EXCEPT !.cond[r] = "False", !.monitored = FALSE] \in Rounds
          /\ [x EXCEPT !.cond[r] = "False", !.monitored = FALSE].uid = x.uid
  BY DEF Rounds, Outcomes
<1> QED BY <1>1, <1>3, <1>4 DEF Failed

LEMMA InitType == Init => TypeOK
<1> SUFFICES ASSUME Init PROVE TypeOK
  OBVIOUS
<1>1. stored \in [Resources -> Versions \cup {Nil}]
  BY DEF Init
<1>2. cached \in [Resources -> CacheEntries]
  BY UnsyncedType DEF Init
<1>3. status \in [cond : [Resources -> Outcomes], monitored : BOOLEAN]
  BY BlankType DEF Init
<1>4. crds \subseteq Resources /\ has \subseteq Resources
  BY DEF Init
<1>5. env \in Environments /\ app \in Applications
  BY ResourcesAssumption DEF Init
<1>6. /\ cm = 0 /\ lastUid = 0 /\ cmCache = 0 /\ ops = 0 /\ faults = 0
      /\ round = Nil /\ late = Nil /\ up = FALSE
  BY DEF Init
<1>7. 0 \in 0..MaxUid /\ 0 \in 0..MaxOps /\ 0 \in 0..MaxFaults
  BY ResourcesAssumption
<1> QED BY <1>1, <1>2, <1>3, <1>4, <1>5, <1>6, <1>7 DEF TypeOK, CacheEntries

(* What users, the garbage collector and the other parties of the cluster  *)
(* do.                                                                     *)
LEMMA ClusterType ==
    ASSUME TypeOK,
           \/ MonitorCreated \/ MonitorDeleted \/ ApplicationChanges
           \/ \E r \in Resources : UserWrites(r) \/ UserDeletes(r) \/ CrdRemoved(r)
                                   \/ CrdInstalled(r) \/ GarbageCollect(r)
    PROVE  TypeOK'
<1> USE ResourcesAssumption DEF cluster, operator, Change
<1>1. CASE MonitorCreated
  BY <1>1, BlankType DEF MonitorCreated, TypeOK
<1>2. CASE MonitorDeleted
  BY <1>2, BlankType DEF MonitorDeleted, TypeOK
<1>3. CASE ApplicationChanges
  <2>1. app' \in Applications
    BY <1>3 DEF ApplicationChanges, TypeOK, Applications
  <2> QED BY <1>3, <2>1 DEF ApplicationChanges, TypeOK
<1>4. ASSUME NEW r \in Resources, UserWrites(r)
      PROVE  TypeOK'
  <2> DEFINE v == [owner |-> IF stored[r] = Nil THEN 0 ELSE stored[r].owner,
                   content |-> Foreign]
  <2>1. v \in Versions
    BY DEF TypeOK, Versions, Contents
  <2>2. Touch(r, v)
    BY <1>4 DEF UserWrites
  <2> QED BY <1>4, <2>1, <2>2, TouchType DEF UserWrites, TypeOK, CacheEntries
<1>5. ASSUME NEW r \in Resources, UserDeletes(r) \/ CrdRemoved(r) \/ GarbageCollect(r)
      PROVE  TypeOK'
  <2>1. Touch(r, Nil)
    BY <1>5 DEF UserDeletes, CrdRemoved, GarbageCollect
  <2> QED BY <1>5, <2>1, TouchType
          DEF UserDeletes, CrdRemoved, GarbageCollect, TypeOK, CacheEntries
<1>6. ASSUME NEW r \in Resources, CrdInstalled(r)
      PROVE  TypeOK'
  BY <1>6 DEF CrdInstalled, TypeOK
<1> QED BY <1>1, <1>2, <1>3, <1>4, <1>5, <1>6

(* A round. *)
LEMMA RoundType ==
    ASSUME TypeOK, RoundBegins \/ RoundWithoutPods \/ Patch \/ PatchFails
    PROVE  TypeOK'
<1> USE ResourcesAssumption DEF cluster, operator, Fault
<1>1. CASE RoundBegins
  <2>1. PICK port \in FirstPort :
            round' = [uid |-> cmCache, todo |-> ToWrite(port),
                      stage |-> "get", found |-> FALSE, valid |-> FALSE,
                      cond |-> Blank.cond, monitored |-> TRUE]
    BY <1>1 DEF RoundBegins
  <2>2. cmCache \in Uids
    BY <1>1 DEF RoundBegins, TypeOK, Uids
  <2>3. round' \in Rounds
    BY <2>1, <2>2, BlankType, ToWriteType DEF Rounds, Items
  <2> QED BY <1>1, <2>3 DEF RoundBegins, TypeOK
<1>2. CASE RoundWithoutPods
  BY <1>2, BlankType DEF RoundWithoutPods, TypeOK
<1>3. CASE Patch
  <2>1. status' \in [cond : [Resources -> Outcomes], monitored : BOOLEAN]
    BY <1>3 DEF Patch, TypeOK, Rounds
  <2> QED BY <1>3, <2>1 DEF Patch, TypeOK
<1>4. CASE PatchFails
  BY <1>4 DEF PatchFails, TypeOK
<1> QED BY <1>1, <1>2, <1>3, <1>4

LEMMA ResourceType ==
    ASSUME TypeOK, NEW r \in Resources,
           \/ Get(r) \/ Write(r) \/ WriteRefused(r)
           \/ GetFails(r) \/ WriteFails(r) \/ ResourceCacheUpdate(r)
    PROVE  TypeOK'
<1> USE ResourcesAssumption DEF cluster, operator, Fault
<1>1. CASE Get(r)
  <2>1. Turn(r) /\ round \in Rounds
    BY <1>1, TurnType DEF Get, Getting
  <2>2. cached' \in [Resources -> CacheEntries]
    BY <1>1 DEF Get, TypeOK, CacheEntries
  <2>3. round' \in Rounds
    BY <1>1, <2>1, <2>2 DEF Get, Rounds, CacheEntries
  <2> QED BY <1>1, <2>2, <2>3 DEF Get, TypeOK, CacheEntries
<1>2. CASE Write(r)
  <2>1. Turn(r)
    BY <1>2 DEF Write, Writing
  <2>2. round' \in Rounds
    BY <1>2, <2>1, TurnType, RestType DEF Write
  <2>3. stored' \in [Resources -> Versions \cup {Nil}]
    BY <1>2, <2>1, TurnType DEF Write, TypeOK
  <2>4. cached' \in [Resources -> CacheEntries]
    BY <1>2, OutdatedType DEF Write, TypeOK, CacheEntries
  <2>5. late' \in Writes \cup {Nil}
    BY <1>2 DEF Write, TypeOK, Writes
  <2> QED BY <1>2, <2>2, <2>3, <2>4, <2>5 DEF Write, TypeOK, CacheEntries
<1>3. CASE WriteRefused(r) \/ GetFails(r) \/ WriteFails(r)
  <2>1. Turn(r) /\ round' = Failed(r)
    BY <1>3 DEF WriteRefused, GetFails, WriteFails, Writing, Getting
  <2>2. round' \in Rounds
    BY <2>1, TurnType, RestType
  <2> QED BY <1>3, <2>2 DEF WriteRefused, GetFails, WriteFails, TypeOK
<1>4. CASE ResourceCacheUpdate(r)
  <2>1. cached' \in [Resources -> CacheEntries]
    BY <1>4 DEF ResourceCacheUpdate, TypeOK, CacheEntries
  <2> QED BY <1>4, <2>1 DEF ResourceCacheUpdate, TypeOK, CacheEntries
<1> QED BY <1>1, <1>2, <1>3, <1>4

(* The process and what it leaves behind. *)
LEMMA ProcessType ==
    ASSUME TypeOK, Crash \/ Redeploy \/ Start \/ LateWrite \/ MonitorCacheUpdate
    PROVE  TypeOK'
<1> USE ResourcesAssumption DEF cluster, operator, Fault, Change
<1>1. ASSUME Down
      PROVE  /\ cached' \in [Resources -> CacheEntries]
             /\ cmCache' \in 0..MaxUid /\ has' \subseteq Resources
             /\ round' = Nil /\ up' = FALSE
  BY <1>1, UnsyncedType DEF Down
<1>2. CASE Crash
  <2>1. \A r \in Resources : Writing(r) => Pending(r) \in Writes
    BY TurnType DEF Writing
  <2>2. \/ late' = late
        \/ \E r \in Resources : Writing(r) /\ late' = Pending(r)
    BY <1>2 DEF Crash
  <2>3. late' \in Writes \cup {Nil}
    BY <2>1, <2>2 DEF TypeOK
  <2> QED BY <1>1, <1>2, <2>3 DEF Crash, TypeOK, CacheEntries
<1>6. CASE Redeploy
  BY <1>1, <1>6 DEF Redeploy, TypeOK, CacheEntries
<1>3. CASE Start
  BY <1>3 DEF Start, Discovered, TypeOK
<1>4. CASE LateWrite
  <2>1. stored' \in [Resources -> Versions \cup {Nil}]
    BY <1>4 DEF LateWrite, TypeOK, Writes
  <2>2. cached' \in [Resources -> CacheEntries]
    <3>1. late.res \in Resources
      BY <1>4 DEF LateWrite, TypeOK, Writes
    <3>2. cached \in [Resources -> CacheEntries]
      BY DEF TypeOK, CacheEntries
    <3> QED BY <1>4, <3>1, <3>2, OutdatedType DEF LateWrite
  <2>3. round' \in Rounds \cup {Nil}
    <3>1. ASSUME Writing(late.res)
          PROVE  [round EXCEPT !.valid = FALSE] \in Rounds
      BY <3>1 DEF Writing, Turn, TypeOK, Rounds
    <3> QED BY <1>4, <3>1 DEF LateWrite, TypeOK
  <2> QED BY <1>4, <2>1, <2>2, <2>3 DEF LateWrite, TypeOK, CacheEntries
<1>5. CASE MonitorCacheUpdate
  BY <1>5 DEF MonitorCacheUpdate, TypeOK
<1> QED BY <1>2, <1>3, <1>4, <1>5, <1>6

LEMMA StepType ==
    ASSUME TypeOK, [Next]_vars
    PROVE  TypeOK'
<1>1. CASE Next
  BY <1>1, ClusterType, RoundType, ResourceType, ProcessType DEF Next, Worker
<1>2. CASE UNCHANGED vars
  BY <1>2 DEF vars, cluster, operator, TypeOK
<1> QED BY <1>1, <1>2

(* The types hold for any pods, ports, limits, settings and bounds. *)
THEOREM TypeCorrect == Spec => []TypeOK
  BY InitType, StepType, PTL DEF Spec

-----------------------------------------------------------------------------
(* Ownership. *)

LEMMA Uid ==
    ASSUME TypeOK
    PROVE  /\ cm \in Nat /\ lastUid \in Nat /\ cmCache \in Nat
           /\ \A r \in Resources : stored[r] # Nil => stored[r].owner \in Nat
           /\ round # Nil => round.uid \in Nat
           /\ late # Nil => late.value.owner \in Nat /\ late.res \in Resources
  BY ResourcesAssumption DEF TypeOK, Versions, Rounds, Writes, Uids

(* Steps that leave resources and requests alone: the cache may move on to *)
(* the present CamelMonitor, a round may go on or end.                     *)
LEMMA Unwritten ==
    ASSUME IInv, UNCHANGED <<cm, lastUid, stored, late>>,
           round' = Nil \/ (round # Nil /\ round'.uid = round.uid),
           \/ cmCache' \in {cmCache, cm}
           \/ cmCache' = 0 /\ round' = Nil,
           DownHasNoRound'
    PROVE  Ownership'
<1>1. UidsGiven'
  BY Uid DEF IInv, Ownership, UidsGiven
<1>2. Acted' <=> Acted
  BY DEF Acted
<1>3. KnowsOwner'
  BY <1>2 DEF IInv, Ownership, KnowsOwner
<1>4. RoundFromCache'
  BY DEF IInv, Ownership, RoundFromCache
<1>5. LateKeepsOwner'
  BY DEF IInv, Ownership, LateKeepsOwner
<1> QED BY <1>1, <1>3, <1>4, <1>5 DEF Ownership

(* A resource is deleted, or edited by a user, who keeps its owner. *)
LEMMA TouchOwnership ==
    ASSUME IInv, NEW r \in Resources, NEW v, Touch(r, v),
           \/ v = Nil
           \/ v.owner = 0
           \/ stored[r] # Nil /\ v.owner = stored[r].owner,
           UNCHANGED <<cm, lastUid, cmCache, up>>
    PROVE  Ownership'
<1>1. /\ stored'[r] = v
      /\ \A x \in Resources \ {r} : stored'[x] = stored[x]
  BY DEF Touch, IInv, TypeOK
<1>2. /\ round = Nil => round' = Nil
      /\ round # Nil => round'.uid = round.uid
  BY DEF Touch, IInv, TypeOK, Rounds
<1>3. \/ late' = late
      \/ /\ late # Nil /\ late.res = r /\ late'.valid = FALSE
         /\ late'.value = late.value /\ late'.res = late.res
  BY DEF Touch, IInv, TypeOK, Writes
<1>4. UidsGiven'
  BY <1>1, <1>2, <1>3, Uid DEF IInv, Ownership, UidsGiven
<1>5. cm # 0 /\ Acted' => Acted
  BY <1>1, <1>3 DEF Acted
<1>6. KnowsOwner' /\ RoundFromCache' /\ DownHasNoRound'
  BY <1>2, <1>5
  DEF IInv, Ownership, KnowsOwner, RoundFromCache, DownHasNoRound
<1>7. LateKeepsOwner'
  BY <1>1, <1>3, Uid DEF IInv, Ownership, LateKeepsOwner, Touch
<1> QED BY <1>4, <1>6, <1>7 DEF Ownership

(* A CamelMonitor is created, which nobody has acted for, or deleted. *)
LEMMA MonitorOwnership ==
    ASSUME IInv, MonitorCreated \/ MonitorDeleted
    PROVE  Ownership'
<1> USE Uid DEF IInv, Ownership, operator
<1>1. CASE MonitorCreated
  <2>1. /\ UNCHANGED <<cmCache, stored, round, late, up>>
        /\ cm' = lastUid + 1 /\ lastUid' = lastUid + 1
    BY <1>1 DEF MonitorCreated
  <2>2. UidsGiven'
    BY <2>1 DEF UidsGiven
  <2>3. ~Acted'
    BY <2>1 DEF UidsGiven, Acted
  <2>4. KnowsOwner' /\ RoundFromCache' /\ DownHasNoRound' /\ LateKeepsOwner'
    BY <2>1, <2>3
    DEF UidsGiven, KnowsOwner, RoundFromCache, DownHasNoRound, LateKeepsOwner, Acted
  <2> QED BY <2>2, <2>4
<1>2. CASE MonitorDeleted
  <2>1. /\ UNCHANGED <<lastUid, cmCache, stored, round, late, up>>
        /\ cm' = 0
    BY <1>2 DEF MonitorDeleted
  <2>2. round # Nil => round.uid # 0
    BY DEF TypeOK, Rounds, Uids
  <2> QED BY <2>1, <2>2
          DEF UidsGiven, KnowsOwner, RoundFromCache, DownHasNoRound, LateKeepsOwner
<1> QED BY <1>1, <1>2

(* A round begins about what the cache holds. *)
LEMMA BeginOwnership ==
    ASSUME IInv, RoundBegins
    PROVE  Ownership'
<1>1. /\ UNCHANGED <<cm, lastUid, cmCache, stored, late, up>>
      /\ round' # Nil => round'.uid = cmCache
      /\ up /\ cmCache # 0
  BY DEF RoundBegins, cluster
<1>2. Acted' <=> Acted
  BY <1>1 DEF Acted
<1> QED BY <1>1, <1>2, Uid
        DEF IInv, Ownership, UidsGiven, KnowsOwner, RoundFromCache,
            DownHasNoRound, LateKeepsOwner

(* A write brings in the owner of its round, and outdates a late one. *)
LEMMA WriteOwnership ==
    ASSUME IInv, NEW r \in Resources, Write(r)
    PROVE  /\ Ownership'
           /\ stored'[r].owner = round.uid
           /\ \A x \in Resources \ {r} : stored'[x] = stored[x]
<1>1. Turn(r) /\ round # Nil
  BY DEF Write, Writing, Turn
<1>2. /\ UNCHANGED <<cm, lastUid, cmCache, up>>
      /\ round'.uid = round.uid
  BY <1>1, TurnType, RestType DEF Write, IInv
<1>3. /\ stored'[r] = Target(r)
      /\ \A x \in Resources \ {r} : stored'[x] = stored[x]
      /\ Target(r).owner = round.uid
  BY <1>1, TurnType DEF Write, IInv, TypeOK
<1>4. \/ late' = late /\ stored' = stored
      \/ late' = late /\ (late = Nil \/ late.res # r)
      \/ /\ late # Nil /\ late.res = r /\ late'.valid = FALSE
         /\ late'.value = late.value /\ late'.res = late.res
  BY DEF Write, IInv, TypeOK, Writes
<1>5. UidsGiven'
  BY <1>1, <1>2, <1>3, <1>4, Uid DEF IInv, Ownership, UidsGiven
<1>6. cm # 0 /\ Acted' => Acted \/ round.uid = cm
  BY <1>2, <1>3, <1>4 DEF Acted
<1>7. KnowsOwner' /\ RoundFromCache' /\ DownHasNoRound'
  BY <1>1, <1>2, <1>6
  DEF IInv, Ownership, KnowsOwner, RoundFromCache, DownHasNoRound
<1>8. LateKeepsOwner'
  BY <1>2, <1>3, <1>4, Uid DEF IInv, Ownership, LateKeepsOwner
<1> QED BY <1>3, <1>5, <1>7, <1>8 DEF Ownership

(* A late write is refused unless it keeps the owner of what is there. *)
LEMMA LateOwnership ==
    ASSUME IInv, LateWrite
    PROVE  /\ Ownership'
           /\ \A x \in Resources :
                  \/ stored'[x] = stored[x]
                  \/ stored'[x] = late.value /\ late.res = x /\ Accepted(late)
<1>1. /\ UNCHANGED <<cm, lastUid, cmCache, up>>
      /\ late # Nil /\ late' = Nil
  BY DEF LateWrite
<1>2. \A x \in Resources :
          \/ stored'[x] = stored[x]
          \/ stored'[x] = late.value /\ late.res = x /\ Accepted(late)
  BY DEF LateWrite, IInv, TypeOK
<1>3. /\ round = Nil => round' = Nil
      /\ round # Nil => round'.uid = round.uid
  BY DEF LateWrite, Writing, Turn, IInv, TypeOK, Rounds
<1>4. UidsGiven'
  BY <1>1, <1>2, <1>3, Uid DEF IInv, Ownership, UidsGiven
<1>5. Acted' => Acted
  BY <1>1, <1>2 DEF Acted
<1>6. KnowsOwner' /\ RoundFromCache' /\ DownHasNoRound' /\ LateKeepsOwner'
  BY <1>1, <1>3, <1>5
  DEF IInv, Ownership, KnowsOwner, RoundFromCache, DownHasNoRound, LateKeepsOwner
<1> QED BY <1>2, <1>4, <1>6 DEF Ownership

(* A process that ends forgets its cache; what it was about to write was   *)
(* for the owner it knew.                                                  *)
LEMMA DownOwnership ==
    ASSUME IInv, Crash \/ Redeploy
    PROVE  Ownership'
<1>1. /\ UNCHANGED <<cm, lastUid, stored>>
      /\ cmCache' = 0 /\ round' = Nil
  BY DEF Crash, Redeploy, Down, cluster
<1>2. \/ late' = late
      \/ \E r \in Resources : Writing(r) /\ late' = Pending(r)
  BY DEF Crash, Redeploy
<1>3. CASE late' = late
  BY <1>1, <1>3, Unwritten DEF DownHasNoRound
<1>4. ASSUME NEW r \in Resources, Writing(r), late' = Pending(r)
      PROVE  Ownership'
  <2>1. round # Nil /\ late'.value.owner = round.uid
    BY <1>4, TurnType DEF IInv, Writing, Turn, Pending
  <2>2. UidsGiven'
    BY <1>1, <2>1, Uid DEF IInv, Ownership, UidsGiven
  <2>3. KnowsOwner' /\ RoundFromCache' /\ DownHasNoRound'
    BY <1>1 DEF KnowsOwner, RoundFromCache, DownHasNoRound
  <2>4. late'.res = r
    BY <1>4 DEF Pending
  <2>5. LateKeepsOwner'
    BY <1>1, <2>1, <2>4 DEF IInv, Ownership, KnowsOwner, Acted, LateKeepsOwner
  <2> QED BY <2>2, <2>3, <2>5 DEF Ownership
<1> QED BY <1>2, <1>3, <1>4

LEMMA OwnershipStep ==
    ASSUME IInv, [Next]_vars
    PROVE  Ownership'
<1> USE DEF cluster, operator
<1>1. CASE RoundBegins \/ MonitorCreated \/ MonitorDeleted \/ LateWrite
           \/ Crash \/ Redeploy \/ \E r \in Resources : Write(r)
  BY <1>1, BeginOwnership, MonitorOwnership, LateOwnership, DownOwnership,
     WriteOwnership
<1>2. ASSUME NEW r \in Resources, UserWrites(r)
      PROVE  Ownership'
  <2> DEFINE v == [owner |-> IF stored[r] = Nil THEN 0 ELSE stored[r].owner,
                   content |-> Foreign]
  <2>1. v.owner = 0 \/ (stored[r] # Nil /\ v.owner = stored[r].owner)
    OBVIOUS
  <2>2. Touch(r, v) /\ UNCHANGED <<cm, lastUid, cmCache, up>>
    BY <1>2 DEF UserWrites
  <2> HIDE DEF v
  <2> QED BY <2>1, <2>2, TouchOwnership
<1>3. ASSUME NEW r \in Resources, UserDeletes(r) \/ CrdRemoved(r) \/ GarbageCollect(r)
      PROVE  Ownership'
  <2>1. Touch(r, Nil) /\ UNCHANGED <<cm, lastUid, cmCache, up>>
    BY <1>3 DEF UserDeletes, CrdRemoved, GarbageCollect
  <2> QED BY <2>1, TouchOwnership
<1>4. ASSUME NEW r \in Resources, WriteRefused(r) \/ GetFails(r) \/ WriteFails(r)
      PROVE  Ownership'
  <2>1. Turn(r) /\ round' = Failed(r)
    BY <1>4 DEF WriteRefused, GetFails, WriteFails, Getting, Writing
  <2>2. round # Nil /\ round'.uid = round.uid
    BY <2>1, TurnType, RestType DEF IInv, Turn
  <2>3. UNCHANGED <<cm, lastUid, stored, late, cmCache, up>>
    BY <1>4 DEF WriteRefused, GetFails, WriteFails
  <2> QED BY <2>2, <2>3, Unwritten DEF IInv, Ownership, DownHasNoRound
<1>5. ASSUME NEW r \in Resources, Get(r)
      PROVE  Ownership'
  <2>1. Turn(r)
    BY <1>5 DEF Get, Getting
  <2>2. round # Nil /\ round'.uid = round.uid
    BY <1>5, <2>1, TurnType DEF IInv, Turn, Get, Rounds
  <2>3. UNCHANGED <<cm, lastUid, stored, late, cmCache, up>>
    BY <1>5 DEF Get
  <2> QED BY <2>2, <2>3, Unwritten DEF IInv, Ownership, DownHasNoRound
<1>6. CASE \/ RoundWithoutPods \/ ApplicationChanges \/ MonitorCacheUpdate
           \/ \E r \in Resources : CrdInstalled(r) \/ ResourceCacheUpdate(r)
           \/ UNCHANGED vars
  <2>1. /\ UNCHANGED <<cm, lastUid, stored, late, round, up>>
        /\ cmCache' \in {cmCache, cm}
    BY <1>6 DEF RoundWithoutPods, ApplicationChanges, MonitorCacheUpdate,
                CrdInstalled, ResourceCacheUpdate, vars
  <2> QED BY <2>1, Unwritten DEF IInv, Ownership, DownHasNoRound
<1>7. CASE Patch \/ PatchFails
  BY <1>7, Unwritten DEF Patch, PatchFails, DownHasNoRound
<1>8. CASE Start
  <2>1. round = Nil /\ round' = Nil
    BY <1>8 DEF Start, IInv, Ownership, DownHasNoRound
  <2>2. UNCHANGED <<cm, lastUid, stored, late>> /\ cmCache' \in {cm, 0}
    BY <1>8 DEF Start
  <2> QED BY <2>1, <2>2, Unwritten DEF DownHasNoRound
<1> QED BY <1>1, <1>2, <1>3, <1>4, <1>5, <1>6, <1>7, <1>8 DEF Next, Worker

(* Only a write of a round and a late one can change the owner of what     *)
(* stays there.                                                            *)
LEMMA OwnerStep ==
    ASSUME IInv, [Next]_vars
    PROVE  OwnerKept
<1> SUFFICES ASSUME NEW r \in Resources, stored[r] # Nil, stored'[r] # Nil,
                    cm # 0, stored[r].owner = cm
             PROVE  stored'[r].owner = cm
  BY DEF OwnerKept
<1>1. ASSUME NEW x \in Resources, Write(x)
      PROVE  stored'[r].owner = cm
  <2>1. round # Nil
    BY <1>1 DEF Write, Writing, Turn
  <2>2. round.uid = cm
    BY <2>1 DEF IInv, Ownership, KnowsOwner, Acted
  <2> QED BY <1>1, <2>2, WriteOwnership
<1>2. CASE LateWrite
  BY <1>2, LateOwnership DEF IInv, Ownership, LateKeepsOwner, Accepted, LateWrite
<1>3. ASSUME NEW x \in Resources, NEW v, Touch(x, v),
             \/ v = Nil
             \/ v.owner = IF stored[x] = Nil THEN 0 ELSE stored[x].owner
      PROVE  stored'[r].owner = cm
  BY <1>3 DEF Touch, IInv, TypeOK
<1>4. ASSUME NEW x \in Resources,
             UserWrites(x) \/ UserDeletes(x) \/ CrdRemoved(x) \/ GarbageCollect(x)
      PROVE  stored'[r].owner = cm
  BY <1>3, <1>4 DEF UserWrites, UserDeletes, CrdRemoved, GarbageCollect
<1>5. CASE stored' = stored
  BY <1>5
<1>6. CASE UNCHANGED vars
  BY <1>5, <1>6 DEF vars, cluster
<1> QED
  BY <1>1, <1>2, <1>4, <1>5, <1>6
  DEF Next, Worker, RoundBegins, RoundWithoutPods, Get, WriteRefused, Patch,
      PatchFails, GetFails, WriteFails, CrdInstalled, ResourceCacheUpdate,
      MonitorCreated, MonitorDeleted, ApplicationChanges, MonitorCacheUpdate,
      Crash, Redeploy, Start, cluster

LEMMA IInvHolds == Spec => []IInv
<1>1. Init => Ownership
  <2> SUFFICES ASSUME Init PROVE Ownership
    OBVIOUS
  <2> QED BY DEF Init, Ownership, UidsGiven, KnowsOwner, RoundFromCache,
                 DownHasNoRound, LateKeepsOwner
<1> QED BY <1>1, InitType, StepType, OwnershipStep, PTL DEF Spec, IInv

(* Whatever stale rounds and late requests there are, and however often    *)
(* CamelMonitor and process are replaced: a resource that belongs to the   *)
(* present CamelMonitor keeps its owner, because a cached owner is never   *)
(* older than one the operator has already written for.                    *)
THEOREM OwnerNeverHandedBack == Spec => NeverHandedBack
<1>1. IInv /\ [Next]_vars => [OwnerKept]_vars
  BY OwnerStep
<1> QED BY <1>1, IInvHolds, PTL DEF Spec, NeverHandedBack
=============================================================================
