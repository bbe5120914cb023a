---------------------------- MODULE ImportPromise ----------------------------
(***************************************************************************)
(* What the import promises to the users of the cluster, without informers,*)
(* caches, queues, replicas or crashes (deployment_test.go, "Label in" and *)
(* "Label out"): a CamelMonitor appears only because a workload carried    *)
(* the label it is named after, is never rebound, and disappears only      *)
(* because its name was given up or its workload is gone.                  *)
(*                                                                         *)
(* A claim is a CamelMonitor that is still to be created for what a        *)
(* workload once was, a withdrawal the name of one that is to be deleted.  *)
(* Claims and withdrawals may be honoured late or get lost; only the       *)
(* workload itself makes new ones.                                         *)
(***************************************************************************)
CONSTANTS
    Objects,    \* workload identities
    NamesOf,    \* NamesOf[o][l]: the names a CamelMonitor of o may get
    None,       \* no label
    Absent,     \* no workload
    NoMonitor   \* no CamelMonitor under that name

VARIABLES
    obj,         \* the workloads
    monitor,     \* the CamelMonitors by name
    claims,      \* [name, obj, uid] of CamelMonitors to be created
    withdrawals  \* names of CamelMonitors to be deleted

vars == <<obj, monitor, claims, withdrawals>>

(* What workload o claims in state w. *)
Claimed(o, w) ==
    IF w.label = None THEN {}
    ELSE {[name |-> n, obj |-> o, uid |-> w.uid] : n \in NamesOf[o][w.label]}

Init ==
    /\ obj = [o \in Objects |-> Absent]
    /\ monitor = [n \in DOMAIN monitor |-> NoMonitor]
    /\ claims = {}
    /\ withdrawals = {}

(* One workload is created, deleted or labelled: it may claim what it now  *)
(* is and withdraw the label it had.                                       *)
WorkloadChanges(o) ==
    /\ \A p \in Objects \ {o} : obj'[p] = obj[p]
    /\ claims' \subseteq claims \cup Claimed(o, obj'[o])
    /\ withdrawals' \subseteq withdrawals \cup ({obj[o].label} \ {None})
    /\ UNCHANGED monitor

(* What is pending gets lost, or workloads claim again what they are.      *)
(* Nothing makes up for a withdrawal that was lost.                        *)
Reconsider ==
    /\ claims' \subseteq claims \cup UNION {Claimed(o, obj[o]) : o \in Objects}
    /\ withdrawals' \subseteq withdrawals
    /\ UNCHANGED <<obj, monitor>>

Settle(n, m) ==
    /\ monitor' = [monitor EXCEPT ![n] = m]
    /\ claims' \subseteq claims
    /\ withdrawals' \subseteq withdrawals
    /\ UNCHANGED obj

Bind(c) ==
    /\ monitor[c.name] = NoMonitor
    /\ Settle(c.name, [obj |-> c.obj, uid |-> c.uid])

Release(n) ==
    /\ monitor[n] # NoMonitor
    /\ Settle(n, NoMonitor)

(* The workload the CamelMonitor was created for is gone. *)
Collect(n) ==
    /\ monitor[n] # NoMonitor
    /\ obj[monitor[n].obj].uid # monitor[n].uid
    /\ Settle(n, NoMonitor)

Next ==
    \/ \E o \in Objects : WorkloadChanges(o)
    \/ Reconsider
    \/ \E c \in claims : Bind(c)
    \/ \E n \in withdrawals : Release(n)
    \/ \E n \in DOMAIN monitor : Collect(n)

Spec == Init /\ [][Next]_vars
=============================================================================
