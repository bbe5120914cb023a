------------------------- MODULE ConsolePluginProofs -------------------------
(***************************************************************************)
(* Proofs about ConsolePlugin for any CSVs, environment and bounds: its    *)
(* types, and that no plugin is announced before its backend is there.     *)
(***************************************************************************)
EXTENDS ConsolePlugin, TLAPS

Backend == {"ConfigMap", "Deployment", "Service"}

(* The owner Reconcile has built is an operator Deployment that was there. *)
OwnerWasThere ==
    /\ DOMAIN res = Kinds
    /\ opdep < nextUid
    /\ owner < nextUid
    /\ at \in Kinds => owner # 0

(* The first operator Deployment has no predecessor. *)
FirstIsFirst == opdep = 1 => nextUid = 2

(* What Reconcile has written before it writes at. *)
Before ==
    [k \in Kinds |->
        CASE k = "Deployment"    -> {"ConfigMap"}
          [] k = "Service"       -> {"ConfigMap", "Deployment"}
          [] k = "ConsolePlugin" -> Backend
          [] OTHER               -> {}]

(* It is still there. *)
InOrder == opdep = 1 /\ at \in Kinds => \A k \in Before[at] : res[k] # Nil

IInv == TypeOK /\ OwnerWasThere /\ FirstIsFirst /\ InOrder /\ PluginHasBackend

-----------------------------------------------------------------------------
LEMMA KindsAre ==
    /\ Kinds = Backend \cup {"ConsolePlugin", "NetworkPolicy"}
    /\ DOMAIN Order = 1..5 /\ Len(Order) = 5
<1>1. DOMAIN Order = 1..5 /\ Len(Order) = 5
  BY DEF Order
<1>2. Kinds = {Order[i] : i \in 1..5}
  BY <1>1 DEF Kinds, ToSet
<1>3. \A i \in 1..5 : i = 1 \/ i = 2 \/ i = 3 \/ i = 4 \/ i = 5
  OBVIOUS
<1>4. Kinds = {Order[1], Order[2], Order[3], Order[4], Order[5]}
  BY <1>2, <1>3
<1> QED BY <1>1, <1>4 DEF Order, Backend

(* Five writes, each followed by the next. *)
LEMMA EnsureCases ==
    ASSUME NEW i \in DOMAIN Order, Ensure(i)
    PROVE  /\ at \in Kinds
           /\ Put(at, Desired(at))
           /\ \/ at = "ConfigMap" /\ at' = "Deployment"
              \/ at = "Deployment" /\ at' = "Service"
              \/ at = "Service" /\ at' = "ConsolePlugin"
              \/ at = "ConsolePlugin" /\ at' = "NetworkPolicy"
              \/ at = "NetworkPolicy" /\ at' = "idle"
<1>1. i \in 1..5
  BY KindsAre
<1>2. at \in {Order[1], Order[2], Order[3], Order[4], Order[5]} /\ Put(at, Desired(at))
  BY <1>1 DEF Ensure
<1>3. at' = IF i < 5 THEN Order[i + 1] ELSE "idle"
  BY KindsAre DEF Ensure, Goto
<1>4. /\ Order[1] = "ConfigMap" /\ Order[2] = "Deployment" /\ Order[3] = "Service"
      /\ Order[4] = "ConsolePlugin" /\ Order[5] = "NetworkPolicy"
  BY DEF Order
<1>5. i = 1 \/ i = 2 \/ i = 3 \/ i = 4 \/ i = 5
  BY <1>1
<1>6. at = Order[i]
  BY DEF Ensure
<1>7. /\ i = 1 => at' = Order[2]
      /\ i = 2 => at' = Order[3]
      /\ i = 3 => at' = Order[4]
      /\ i = 4 => at' = Order[5]
      /\ i = 5 => at' = "idle"
  BY <1>3
<1>8. at \in Kinds
  BY <1>2, KindsAre DEF Order, Backend
<1> QED BY <1>2, <1>4, <1>5, <1>6, <1>7, <1>8

(* Putting a resource changes that one only. *)
LEMMA PutChanges ==
    ASSUME IInv, NEW k \in Kinds, NEW v, Put(k, v)
    PROVE  /\ res'[k] = v
           /\ \A x \in Kinds \ {k} : res'[x] = res[x]
           /\ DOMAIN res' = Kinds
           /\ queued' \in BOOLEAN
  BY DEF IInv, OwnerWasThere, TypeOK, Put

(* The backend that is there belongs to the operator as long as it is the  *)
(* first.                                                                  *)
LEMMA BackendIsOwned ==
    ASSUME IInv, opdep = 1, NEW k \in Backend, res[k] # Nil
    PROVE  res[k].owner = opdep
<1>1. k \in Kinds /\ k # "ConsolePlugin"
  BY KindsAre DEF Backend
<1>2. res[k].owner \in 0..(nextUid - 1) /\ res[k].owner # 0
  BY <1>1 DEF IInv, TypeOK
<1> QED BY <1>2 DEF IInv, FirstIsFirst

(* What Reconcile writes has an owner that was there. *)
LEMMA DesiredType ==
    ASSUME IInv, NEW k \in Kinds, at = k
    PROVE  /\ Desired(k) # Nil
           /\ Desired(k).ours \in BOOLEAN
           /\ Desired(k).owner \in 0..(nextUid - 1)
           /\ Desired(k).owner = 0 <=> k = "ConsolePlugin"
<1>1. owner \in 0..MaxUid /\ owner # 0 /\ owner \in 0..(nextUid - 1)
  BY ConsoleAssumption DEF IInv, OwnerWasThere, TypeOK, Uids
<1>2. 0 \in 0..(nextUid - 1) /\ 0 \in 0..MaxUid
  BY ConsoleAssumption DEF IInv, TypeOK
<1>3. Desired(k) \in [owner : 0..MaxUid, ours : BOOLEAN]
  BY <1>1, <1>2 DEF Desired, consolePlugin
<1> QED BY <1>1, <1>2, <1>3, ConsoleAssumption DEF Desired, consolePlugin

(* The types of the resources after one of them has changed. *)
Fits(k, v) ==
    v # Nil => /\ v.ours \in BOOLEAN
               /\ v.owner \in 0..(nextUid - 1)
               /\ v.owner = 0 <=> k = "ConsolePlugin"

LEMMA InitIInv == Init => IInv
<1> SUFFICES ASSUME Init PROVE IInv
  OBVIOUS
<1> USE ConsoleAssumption, KindsAre
<1>1. csv \in [CSVs -> {"absent", "present", "deleting"}]
  BY DEF Init
<1>2. /\ opdep = 1 /\ nextUid = 2 /\ res = [k \in Kinds |-> Nil] /\ queued = TRUE
      /\ at = "idle" /\ owner = 0 /\ blind = FALSE /\ up = TRUE /\ ops = 0
      /\ faults = 0
  BY DEF Init
<1>3. "idle" \notin Kinds
  BY DEF Backend
<1>4. TypeOK
  <2>1. /\ 1 \in Uids \cup {0} /\ 0 \in Uids \cup {0} /\ 2 \in 2..(MaxUid + 1)
        /\ 0 \in 0..MaxOps /\ 0 \in 0..MaxFaults
    BY DEF Uids
  <2>2. \A k \in Kinds : res[k] = Nil
    BY <1>2
  <2> QED BY <1>1, <1>2, <2>1, <2>2 DEF TypeOK
<1> QED BY <1>2, <1>3, <1>4, KindsAre
        DEF IInv, OwnerWasThere, FirstIsFirst, InOrder, PluginHasBackend, Backend

LEMMA Numbers ==
    ASSUME IInv
    PROVE  /\ nextUid \in Nat /\ nextUid >= 2
           /\ opdep \in 0..MaxUid /\ owner \in 0..MaxUid
           /\ at \in Kinds => owner # 0
  BY ConsoleAssumption DEF IInv, TypeOK, OwnerWasThere, Uids

(* Steps that leave the resources alone and stay where Reconcile is, or go *)
(* where nothing has to be there yet.                                      *)
LEMMA Unwritten ==
    ASSUME IInv, TypeOK',
           UNCHANGED res, nextUid <= nextUid', nextUid' # nextUid => opdep' # 1,
           opdep' \in {opdep, 0, nextUid' - 1},
           opdep' = 1 => opdep = 1,
           owner' \in {owner, opdep, 0},
           at' \in Kinds => owner' # 0,
           at' # at => at' \notin Kinds \/ at' = "ConfigMap"
    PROVE  IInv'
<1> USE KindsAre DEF IInv, TypeOK, Uids
<1>1. OwnerWasThere'
  BY ConsoleAssumption DEF OwnerWasThere
<1>2. FirstIsFirst'
  BY DEF FirstIsFirst
<1>3. InOrder'
  <2>1. Before["ConfigMap"] = {}
    BY DEF Before, Backend
  <2> QED BY <2>1 DEF InOrder
<1>4. PluginHasBackend'
  BY DEF PluginHasBackend, Backend
<1> QED BY <1>1, <1>2, <1>3, <1>4

(* Somebody else than Reconcile changes a resource, which does not take    *)
(* away the backend of the first operator.                                 *)
LEMMA PutElsewhere ==
    ASSUME IInv, NEW k \in Kinds, NEW v, Put(k, v), Fits(k, v),
           k = "ConsolePlugin" /\ res[k] = Nil => v = Nil,
           opdep = 1 => k \notin Backend,
           UNCHANGED <<csv, opdep, nextUid, owner, up>>,
           at' = at \/ at' = "idle",
           blind' \in BOOLEAN, ops' \in 0..MaxOps, faults' \in 0..MaxFaults,
           ~up => at' = "idle"
    PROVE  IInv'
<1> USE DEF IInv
<1>1. /\ res'[k] = v
      /\ \A x \in Kinds \ {k} : res'[x] = res[x]
      /\ DOMAIN res' = Kinds
      /\ queued' \in BOOLEAN
  BY PutChanges
<1>2. ~up => ~queued'
  BY DEF Put, TypeOK
<1>3. \A x \in Kinds : res'[x] # Nil => /\ res'[x].ours \in BOOLEAN
                                        /\ res'[x].owner \in 0..(nextUid - 1)
                                        /\ res'[x].owner = 0 <=> x = "ConsolePlugin"
  BY <1>1 DEF Fits, TypeOK
<1>4. TypeOK'
  BY <1>1, <1>2, <1>3 DEF TypeOK
<1>5. OwnerWasThere' /\ FirstIsFirst'
  BY <1>1, KindsAre DEF OwnerWasThere, FirstIsFirst, Backend
<1>6. \A x \in Backend : opdep = 1 => res'[x] = res[x]
  BY <1>1, KindsAre
<1>7. InOrder'
  <2>1. "idle" \notin Kinds
    BY KindsAre DEF Backend
  <2>2. \A x \in Kinds : Before[x] \subseteq Backend
    BY DEF Before, Backend
  <2> QED BY <1>6, <2>1, <2>2 DEF InOrder
<1>8. PluginHasBackend'
  BY <1>1, <1>6, KindsAre DEF PluginHasBackend, Backend
<1> QED BY <1>4, <1>5, <1>7, <1>8

(* A write of Reconcile. *)
LEMMA EnsureIInv ==
    ASSUME IInv, NEW i \in DOMAIN Order, Ensure(i)
    PROVE  IInv'
<1> USE DEF IInv
<1>1. /\ at \in Kinds /\ Put(at, Desired(at))
      /\ \/ at = "ConfigMap" /\ at' = "Deployment"
         \/ at = "Deployment" /\ at' = "Service"
         \/ at = "Service" /\ at' = "ConsolePlugin"
         \/ at = "ConsolePlugin" /\ at' = "NetworkPolicy"
         \/ at = "NetworkPolicy" /\ at' = "idle"
  BY EnsureCases
<1>2. UNCHANGED <<csv, opdep, nextUid, up, ops, blind, owner, faults>>
  BY DEF Ensure, Goto
<1>3. /\ res'[at] # Nil /\ Fits(at, res'[at])
      /\ \A x \in Kinds \ {at} : res'[x] = res[x]
      /\ DOMAIN res' = Kinds
      /\ queued' \in BOOLEAN
  BY <1>1, PutChanges, DesiredType DEF Fits
<1>4. \A x \in Kinds : res'[x] # Nil => /\ res'[x].ours \in BOOLEAN
                                        /\ res'[x].owner \in 0..(nextUid - 1)
                                        /\ res'[x].owner = 0 <=> x = "ConsolePlugin"
  BY <1>3 DEF Fits, TypeOK
<1>5. at # "idle" /\ up
  BY <1>1, KindsAre DEF TypeOK, Backend
<1>6. at' \in Kinds \cup {"idle"}
  BY <1>1, KindsAre DEF Backend
<1>7. TypeOK'
  BY <1>2, <1>3, <1>4, <1>5, <1>6 DEF TypeOK
<1>8. OwnerWasThere' /\ FirstIsFirst'
  BY <1>1, <1>2, <1>3 DEF OwnerWasThere, FirstIsFirst
<1>9. InOrder'
  <2>1. /\ Before["Deployment"] = {"ConfigMap"}
        /\ Before["Service"] = {"ConfigMap", "Deployment"}
        /\ Before["ConsolePlugin"] = Backend
        /\ Before["NetworkPolicy"] = {}
    BY KindsAre DEF Before, Backend
  <2>2. "idle" \notin Kinds
    BY KindsAre DEF Backend
  <2>3. \A x \in Kinds : res[x] # Nil => res'[x] # Nil
    BY <1>3
  <2> QED BY <1>1, <1>2, <1>3, <2>1, <2>2, <2>3, KindsAre DEF InOrder, Backend
<1>10. PluginHasBackend'
  <2>1. \A x \in Kinds : res[x] # Nil => res'[x] # Nil
    BY <1>3
  <2>2. CASE at = "ConsolePlugin"
    <3>1. Before["ConsolePlugin"] = Backend
      BY KindsAre DEF Before, Backend
    <3> QED BY <1>1, <1>2, <2>1, <2>2, <3>1, KindsAre
            DEF InOrder, PluginHasBackend, Backend
  <2>3. CASE at # "ConsolePlugin"
    BY <1>2, <1>3, <2>1, <2>3, KindsAre DEF PluginHasBackend, Backend
  <2> QED BY <2>2, <2>3
<1> QED BY <1>7, <1>8, <1>9, <1>10

LEMMA EnvironmentIInv ==
    ASSUME IInv,
           \/ \E c \in CSVs : UpgradeBegins(c) \/ CsvDeleted(c) \/ CsvGone(c)
           \/ TouchPlugin \/ OperatorGone \/ OperatorRedeployed
           \/ \E k \in Kinds : GarbageCollect(k)
    PROVE  IInv'
<1> USE ConsoleAssumption, KindsAre DEF Op
<1>1. ASSUME NEW c \in CSVs, UpgradeBegins(c) \/ CsvDeleted(c) \/ CsvGone(c)
      PROVE  IInv'
  <2>1. /\ UNCHANGED <<opdep, nextUid, res, at, owner, blind, up, faults>>
        /\ ops' \in 0..MaxOps /\ queued' = (queued \/ up)
        /\ csv' \in [CSVs -> {"absent", "present", "deleting"}]
    BY <1>1 DEF UpgradeBegins, CsvDeleted, CsvGone, CsvEvent, IInv, TypeOK
  <2>2. TypeOK'
    BY <2>1 DEF IInv, TypeOK
  <2> QED BY <2>1, <2>2, Unwritten, Numbers
<1>2. CASE OperatorGone
  <2>1. /\ UNCHANGED <<csv, nextUid, res, queued, at, owner, blind, ops, faults>>
        /\ opdep' = 0 /\ up' = FALSE /\ at = "idle" /\ ~queued
    BY <1>2 DEF OperatorGone
  <2>2. TypeOK'
    BY <2>1 DEF IInv, TypeOK
  <2> QED BY <2>1, <2>2, Unwritten, Numbers
<1>3. CASE OperatorRedeployed
  <2>1. /\ UNCHANGED <<csv, res, blind, faults>>
        /\ opdep' = nextUid /\ nextUid' = nextUid + 1 /\ nextUid <= MaxUid
        /\ up' = FALSE /\ queued' = FALSE /\ at' = "idle" /\ owner' = 0
        /\ ops' \in 0..MaxOps
    BY <1>3 DEF OperatorRedeployed, Stopped, IInv, TypeOK
  <2>2. nextUid \in Nat /\ nextUid >= 2
    BY DEF IInv, TypeOK
  <2>3. \A k \in Kinds : res[k] # Nil => res[k].owner \in 0..nextUid
    BY <2>2 DEF IInv, TypeOK
  <2>4. TypeOK'
    <3>1. /\ opdep' \in Uids /\ nextUid' \in 2..(MaxUid + 1)
          /\ owner' \in Uids \cup {0}
      BY <2>1, <2>2 DEF Uids
    <3>2. \A k \in Kinds : res[k] # Nil => res[k].owner \in 0..(nextUid' - 1)
      BY <2>1, <2>2, <2>3
    <3> QED BY <2>1, <3>1, <3>2 DEF IInv, TypeOK
  <2>5. at' \notin Kinds
    BY <2>1 DEF Backend
  <2> QED BY <2>1, <2>2, <2>4, <2>5, Unwritten
<1>4. CASE TouchPlugin
  <2>1. PICK v \in {Nil, [owner |-> 0, ours |-> FALSE]} : Put("ConsolePlugin", v)
    BY <1>4 DEF TouchPlugin
  <2>2. Fits("ConsolePlugin", v)
    <3>1. 0 \in 0..(nextUid - 1)
      BY Numbers
    <3> DEFINE w == [owner |-> 0, ours |-> FALSE]
    <3>2. w.owner = 0 /\ w.ours \in BOOLEAN
      OBVIOUS
    <3>3. v = Nil \/ v = w
      BY <2>1
    <3> HIDE DEF w
    <3> QED BY <3>1, <3>2, <3>3 DEF Fits
  <2>3. "ConsolePlugin" \in Kinds \ Backend
    BY DEF Backend
  <2>4. /\ UNCHANGED <<csv, opdep, nextUid, at, owner, blind, up, faults>>
        /\ res["ConsolePlugin"] # Nil /\ ops' \in 0..MaxOps
    BY <1>4 DEF TouchPlugin, IInv, TypeOK
  <2>5. /\ blind' \in BOOLEAN /\ faults' \in 0..MaxFaults
        /\ ~up => at' = "idle"
    BY <2>4 DEF IInv, TypeOK
  <2> QED BY <2>1, <2>2, <2>3, <2>4, <2>5, PutElsewhere
<1>5. ASSUME NEW k \in Kinds, GarbageCollect(k)
      PROVE  IInv'
  <2>1. /\ UNCHANGED <<csv, opdep, nextUid, at, owner, blind, up, ops, faults>>
        /\ Put(k, Nil) /\ res[k] # Nil /\ res[k].owner \notin {0, opdep}
    BY <1>5 DEF GarbageCollect
  <2>2. opdep = 1 => k \notin Backend
    BY <2>1, BackendIsOwned
  <2>3. /\ blind' \in BOOLEAN /\ faults' \in 0..MaxFaults /\ ops' \in 0..MaxOps
        /\ ~up => at' = "idle"
    BY <2>1 DEF IInv, TypeOK
  <2> QED BY <2>1, <2>2, <2>3, PutElsewhere DEF Fits
<1> QED BY <1>1, <1>2, <1>3, <1>4, <1>5

LEMMA ReconcileIInv ==
    ASSUME IInv, Reconcile \/ CheckFails \/ CallFails \/ Crash \/ Restart
    PROVE  IInv'
<1> USE ConsoleAssumption, KindsAre DEF Fault
<1>1. "idle" \notin Kinds /\ "check" \notin Kinds /\ "owner" \notin Kinds
      /\ "uninstall" \notin Kinds
  BY DEF Backend
<1>2. CASE Begin \/ Check \/ CheckFails \/ CallFails
  <2>1. /\ UNCHANGED <<csv, opdep, nextUid, up, ops, res, owner>>
        /\ at' \in {"idle", "check", "uninstall", "owner"}
        /\ up /\ queued' \in BOOLEAN /\ blind' \in BOOLEAN
        /\ faults' \in 0..MaxFaults
    <3>1. CASE Begin
      BY <1>2, <3>1 DEF Begin, Goto, IInv, TypeOK
    <3>2. CASE Check
      BY <3>2 DEF Check, Goto, IInv, TypeOK
    <3>3. CASE CheckFails
      BY <3>3 DEF CheckFails, Goto, IInv, TypeOK
    <3>4. CASE CallFails
      BY <3>4 DEF CallFails, Goto, IInv, TypeOK
    <3> QED BY <1>2, <3>1, <3>2, <3>3, <3>4
  <2>2. TypeOK'
    BY <2>1 DEF IInv, TypeOK
  <2> QED BY <1>1, <2>1, <2>2, Unwritten, Numbers
<1>3. CASE FindOwner
  <2>1. Order[1] = "ConfigMap"
    BY DEF Order
  <2>2. /\ UNCHANGED <<csv, opdep, nextUid, up, ops, blind, res, queued, faults>>
        /\ at' = "ConfigMap" /\ opdep # 0 /\ owner' = opdep /\ at = "owner"
    BY <1>3, <2>1 DEF FindOwner, Goto
  <2>3. "ConfigMap" \in Kinds
    BY DEF Backend
  <2>4. TypeOK'
    BY <2>2, <2>3 DEF IInv, TypeOK
  <2> QED BY <2>2, <2>4, Unwritten, Numbers
<1>4. CASE Uninstall
  <2>1. /\ UNCHANGED <<csv, opdep, nextUid, up, ops, blind, owner, faults>>
        /\ at' = "idle" /\ Put("ConsolePlugin", Nil)
    BY <1>4 DEF Uninstall, Goto
  <2>2. "ConsolePlugin" \in Kinds \ Backend
    BY DEF Backend
  <2>3. blind' \in BOOLEAN /\ faults' \in 0..MaxFaults /\ ops' \in 0..MaxOps
    BY <2>1 DEF IInv, TypeOK
  <2> QED BY <2>1, <2>2, <2>3, PutElsewhere DEF Fits
<1>5. CASE Crash \/ Restart
  <2>1. /\ UNCHANGED <<csv, opdep, nextUid, res, blind, ops>>
        /\ at' = "idle" /\ owner' \in {owner, 0} /\ faults' \in 0..MaxFaults
        /\ \/ up' = FALSE /\ queued' = FALSE
           \/ up' = TRUE /\ queued' = TRUE
    BY <1>5 DEF Crash, Restart, Stopped, cluster, IInv, TypeOK
  <2>2. TypeOK'
    BY <2>1 DEF IInv, TypeOK, Uids
  <2> QED BY <1>1, <2>1, <2>2, Unwritten, Numbers
<1> QED BY <1>2, <1>3, <1>4, <1>5, EnsureIInv DEF Reconcile

LEMMA IInvHolds == Spec => []IInv
<1>1. IInv /\ UNCHANGED vars => IInv'
  BY DEF vars, IInv, TypeOK, OwnerWasThere, FirstIsFirst, InOrder, PluginHasBackend
<1>2. IInv /\ [Next]_vars => IInv'
  BY <1>1, EnvironmentIInv, ReconcileIInv DEF Next
<1> QED BY <1>2, InitIInv, PTL DEF Spec

(* The types hold for any CSVs, environment and bounds. *)
THEOREM TypeCorrect == Spec => []TypeOK
<1>1. IInv => TypeOK
  BY DEF IInv
<1> QED BY <1>1, IInvHolds, PTL

(* However the five writes are cut off, repeated or undone: as long as the *)
(* operator is the first, its ConsolePlugin has a backend.                 *)
THEOREM BackendFirst == Spec => []PluginHasBackend
<1>1. IInv => PluginHasBackend
  BY DEF IInv
<1> QED BY <1>1, IInvHolds, PTL
=============================================================================
