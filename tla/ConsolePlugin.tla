----------------------------- MODULE ConsolePlugin -----------------------------
(***************************************************************************)
(* The console controller (pkg/controller/console): it keeps the five      *)
(* resources of the OpenShift console plugin in the operator's namespace   *)
(* and deletes the cluster-scoped ConsolePlugin when OLM uninstalls the    *)
(* operator, which it tells from the ClusterServiceVersions (CSVs).        *)
(*                                                                         *)
(* A reconciliation is a sequence of calls to the API server, read without *)
(* a cache.  All events map to one request.  The controller watches the    *)
(* ConsolePlugin and the CSVs; its watch on Deployments goes through the   *)
(* manager's cache, whose selector wants the monitor label, which          *)
(* commonLabels does not have: it never reports the plugin's Deployment.   *)
(***************************************************************************)
EXTENDS Naturals, Sequences, FiniteSets, SequencesExt

CONSTANTS
    CSVs,        \* the versions of the operator OLM may install
    Nil,         \* no such resource
    Env,         \* what the environment does in this instance
    MaxUid,      \* bound: operator Deployments in one behaviour
    MaxOps,      \* bound: steps of users and of OLM
    MaxFaults    \* bound: failed calls, crashes

EnvSteps == {"touch", "upgrade", "uninstall", "vanish", "redeploy",
             "list", "api", "crash"}

(* Mutant: the ConsolePlugin is announced before its backend is there. *)
Order_PluginFirst ==
    <<"ConsolePlugin", "ConfigMap", "Deployment", "Service", "NetworkPolicy">>

(* The order of ensureAllResources. *)
Order == <<"ConfigMap", "Deployment", "Service", "ConsolePlugin", "NetworkPolicy">>

Kinds == ToSet(Order)
Uids == 1..MaxUid

ASSUME ConsoleAssumption ==
    /\ IsFiniteSet(CSVs)
    /\ CSVs # {}
    /\ Env \subseteq EnvSteps
    /\ Nil \notin [owner : 0..MaxUid, ours : BOOLEAN]
    /\ MaxUid \in Nat \ {0}
    /\ MaxOps \in Nat
    /\ MaxFaults \in Nat

VARIABLES
    csv,      \* csv[c]: "absent", "present" or "deleting"
    opdep,    \* the uid of the operator's Deployment, 0 when it is gone
    nextUid,  \* the uid of the next operator Deployment
    res,      \* res[k]: Nil, or the owner and whether the content is ours
    queued,   \* the request is in the work queue, or will be after a delay
    at,       \* where Reconcile is
    owner,    \* the owner reference Reconcile has built
    blind,    \* the last reconciliation could not list the CSVs
    up,       \* the operator process is running
    ops,      \* steps of users and of OLM so far
    faults    \* faults so far

cluster == <<csv, opdep, nextUid, res>>
vars == <<csv, opdep, nextUid, res, queued, at, owner, blind, up, ops,
          faults>>

-----------------------------------------------------------------------------
(* Mutant: one CSV that is being deleted is enough. *)
isUninstalling_Any == \E c \in CSVs : csv[c] = "deleting"

(* There is a CSV of this operator and all there are are being deleted. *)
isUninstalling ==
    /\ \E c \in CSVs : csv[c] = "deleting"
    /\ \A c \in CSVs : csv[c] # "present"

(* The ConsolePlugin is cluster-scoped and gets no owner. *)
consolePlugin == [owner |-> 0, ours |-> TRUE]

(* Mutant: the ConsolePlugin is owned like the others. *)
Desired_Owned(k) == [owner |-> owner, ours |-> TRUE]

(* The others belong to the operator's Deployment. *)
Desired(k) ==
    IF k = "ConsolePlugin" THEN consolePlugin ELSE [owner |-> owner, ours |-> TRUE]

(* A change of a resource is an event only if it is watched. *)
Put(k, v) ==
    /\ res' = [res EXCEPT ![k] = v]
    /\ queued' = (queued \/ (up /\ k = "ConsolePlugin" /\ v # res[k]))

(* Mutant: the prefix of the CSVs is mistyped. *)
CsvEvent_Unmatched == UNCHANGED queued

(* csvFilter lets every event of an operator's CSV pass. *)
CsvEvent == queued' = (queued \/ up)

Init ==
    /\ \E c \in CSVs : csv = [d \in CSVs |-> IF c = d THEN "present" ELSE "absent"]
    /\ opdep = 1
    /\ nextUid = 2
    /\ res = [k \in Kinds |-> Nil]
    /\ queued = TRUE
    /\ at = "idle"
    /\ owner = 0
    /\ blind = FALSE
    /\ up = TRUE
    /\ ops = 0
    /\ faults = 0

-----------------------------------------------------------------------------
(* Users and OLM. *)

Op(e) ==
    /\ e \in Env
    /\ ops < MaxOps
    /\ ops' = ops + 1

(* Someone deletes or changes the ConsolePlugin. *)
TouchPlugin ==
    /\ Op("touch")
    /\ res["ConsolePlugin"] # Nil
    /\ \E v \in {Nil, [owner |-> 0, ours |-> FALSE]} : Put("ConsolePlugin", v)
    /\ UNCHANGED <<csv, opdep, nextUid, at, owner, blind, up, faults>>

(* OLM installs another version next to the one there is. *)
UpgradeBegins(c) ==
    /\ Op("upgrade")
    /\ csv[c] = "absent"
    /\ \E d \in CSVs : csv[d] = "present"
    /\ csv' = [csv EXCEPT ![c] = "present"]
    /\ CsvEvent
    /\ UNCHANGED <<opdep, nextUid, res, at, owner, blind, up, faults>>

(* A CSV gets its deletion timestamp: the replaced one, or the last one. *)
CsvDeleted(c) ==
    /\ IF \E d \in CSVs \ {c} : csv[d] = "present" THEN Op("upgrade")
                                                   ELSE Op("uninstall")
    /\ csv[c] = "present"
    /\ csv' = [csv EXCEPT ![c] = "deleting"]
    /\ CsvEvent
    /\ UNCHANGED <<opdep, nextUid, res, at, owner, blind, up, faults>>

(* The finalizers of a CSV are done: it leaves the API server. *)
CsvGone(c) ==
    /\ "vanish" \in Env
    /\ csv[c] = "deleting"
    /\ csv' = [csv EXCEPT ![c] = "absent"]
    /\ CsvEvent
    /\ UNCHANGED <<opdep, nextUid, res, at, owner, blind, up, ops, faults>>

(* With the last CSV gone, its Deployment is collected and the operator    *)
(* stops; here only after it has done everything it had to do.             *)
OperatorGone ==
    /\ \A c \in CSVs : csv[c] = "absent"
    /\ opdep # 0
    /\ up
    /\ ~queued
    /\ at = "idle"
    /\ opdep' = 0
    /\ up' = FALSE
    /\ UNCHANGED <<csv, nextUid, res, queued, at, owner, blind, ops, faults>>

Stopped ==
    /\ up' = FALSE
    /\ queued' = FALSE
    /\ at' = "idle"
    /\ owner' = 0

(* The operator's Deployment is deleted and created again. *)
OperatorRedeployed ==
    /\ Op("redeploy")
    /\ opdep # 0
    /\ nextUid <= MaxUid
    /\ opdep' = nextUid
    /\ nextUid' = nextUid + 1
    /\ Stopped
    /\ UNCHANGED <<csv, res, blind, faults>>

(* The garbage collector deletes what an operator that is gone has owned. *)
GarbageCollect(k) ==
    /\ res[k] # Nil
    /\ res[k].owner \notin {0, opdep}
    /\ Put(k, Nil)
    /\ UNCHANGED <<csv, opdep, nextUid, at, owner, blind, up, ops, faults>>

-----------------------------------------------------------------------------
(* Reconcile. *)

Goto(place) ==
    /\ at' = place
    /\ UNCHANGED <<csv, opdep, nextUid, up, ops>>

Begin ==
    /\ up
    /\ at = "idle"
    /\ queued
    /\ queued' = FALSE
    /\ Goto("check")
    /\ UNCHANGED <<blind, res, owner, faults>>

(* isUninstalling lists the CSVs. *)
Check ==
    /\ at = "check"
    /\ Goto(IF isUninstalling THEN "uninstall" ELSE "owner")
    /\ blind' = FALSE
    /\ UNCHANGED <<res, queued, owner, faults>>

(* handleUninstall deletes the ConsolePlugin; NotFound is no error. *)
Uninstall ==
    /\ at = "uninstall"
    /\ Put("ConsolePlugin", Nil)
    /\ Goto("idle")
    /\ UNCHANGED <<blind, owner, faults>>

(* The operator's Deployment is the owner of what follows. *)
FindOwner ==
    /\ at = "owner"
    /\ opdep # 0
    /\ owner' = opdep
    /\ Goto(Order[1])
    /\ UNCHANGED <<blind, res, queued, faults>>

(* createOrUpdate for each kind in turn.  Its Get and the write that       *)
(* follows are one step: if the object changes in between the write is     *)
(* refused, which is one of the failures of CallFails.                     *)
Ensure(i) ==
    /\ at = Order[i]
    /\ Put(Order[i], Desired(Order[i]))
    /\ Goto(IF i < Len(Order) THEN Order[i + 1] ELSE "idle")
    /\ UNCHANGED <<blind, owner, faults>>

Fault(f) ==
    /\ f \in Env
    /\ faults < MaxFaults
    /\ faults' = faults + 1

(* The CSVs cannot be listed: taken as not uninstalling. *)
CheckFails ==
    /\ Fault("list")
    /\ at = "check"
    /\ Goto("owner")
    /\ blind' = TRUE
    /\ UNCHANGED <<res, queued, owner>>

(* Any other call fails (a conflict, an object that exists by now, a lost  *)
(* connection): Reconcile returns the error and is called again later.     *)
CallFails ==
    /\ Fault("api")
    /\ at \notin {"idle", "check"}
    /\ queued' = TRUE
    /\ Goto("idle")
    /\ UNCHANGED <<blind, res, owner>>

Crash ==
    /\ Fault("crash")
    /\ up
    /\ Stopped
    /\ UNCHANGED <<cluster, blind, ops>>

(* The bootstrap channel triggers a first reconciliation. *)
Restart ==
    /\ ~up
    /\ opdep # 0
    /\ up' = TRUE
    /\ queued' = TRUE
    /\ UNCHANGED <<cluster, at, owner, blind, ops, faults>>

Reconcile ==
    \/ Begin
    \/ Check
    \/ Uninstall
    \/ FindOwner
    \/ \E i \in DOMAIN Order : Ensure(i)

Next ==
    \/ Reconcile
    \/ TouchPlugin
    \/ \E c \in CSVs : UpgradeBegins(c) \/ CsvDeleted(c) \/ CsvGone(c)
    \/ OperatorGone
    \/ OperatorRedeployed
    \/ \E k \in Kinds : GarbageCollect(k)
    \/ CheckFails
    \/ CallFails
    \/ Crash
    \/ Restart

Spec == Init /\ [][Next]_vars

(* The worker, the kubelet and the garbage collector make progress, and    *)
(* the Deployment of an uninstalled operator is removed in the end.        *)
FairSpec ==
    /\ Spec
    /\ WF_vars(Reconcile)
    /\ WF_vars(Restart)
    /\ WF_vars(OperatorGone)
    /\ \A k \in Kinds : WF_vars(GarbageCollect(k))

-----------------------------------------------------------------------------
(* Type invariant: a resource is owned by an operator Deployment that was  *)
(* there, and only the ConsolePlugin has no owner.                         *)
TypeOK ==
    /\ csv \in [CSVs -> {"absent", "present", "deleting"}]
    /\ opdep \in Uids \cup {0}
    /\ nextUid \in 2..(MaxUid + 1)
    /\ \A k \in Kinds :
        res[k] # Nil => /\ res[k].ours \in BOOLEAN
                        /\ res[k].owner \in 0..(nextUid - 1)
                        /\ res[k].owner = 0 <=> k = "ConsolePlugin"
    /\ queued \in BOOLEAN
    /\ at \in Kinds \cup {"idle", "check", "uninstall", "owner"}
    /\ owner \in Uids \cup {0}
    /\ blind \in BOOLEAN
    /\ up \in BOOLEAN
    /\ ~up => at = "idle" /\ ~queued
    /\ ops \in 0..MaxOps
    /\ faults \in 0..MaxFaults

(* As long as the operator is not redeployed or removed, a ConsolePlugin   *)
(* it has written has its whole backend: no failed call or crash between   *)
(* two of the five writes leaves a plugin that points nowhere.             *)
PluginHasBackend ==
    opdep = 1 /\ res["ConsolePlugin"] # Nil =>
        \A k \in {"ConfigMap", "Deployment", "Service"} : res[k] # Nil

(* An installed operator ends up with all five resources, with its own     *)
(* content and owner: upgrades, redeployments, crashes and changes of the  *)
(* ConsolePlugin are made good.                                            *)
InstalledSettles ==
    <>[](opdep # 0 /\ (\E c \in CSVs : csv[c] = "present") =>
            \A k \in Kinds :
                res[k] = [owner |-> IF k = "ConsolePlugin" THEN 0 ELSE opdep,
                          ours |-> TRUE])

(* While the last CSV waits for its deletion, the ConsolePlugin goes and   *)
(* stays away, even if a reconciliation had just checked that all is well; *)
(* but one that could not list the CSVs is not made good.                  *)
UninstallSettles ==
    <>[](isUninstalling /\ up /\ ~blind => res["ConsolePlugin"] = Nil)
=============================================================================
