---------------------------- MODULE StatusPromise ----------------------------
(***************************************************************************)
(* What the controller promises about the status of a CamelMonitor, without*)
(* caches, queues, timers, stale copies, errors or crashes.  It looks at   *)
(* one workload at a time.  What it finds goes, field by field, into the   *)
(* status of the CamelMonitor of that name, or is lost; nothing else ever  *)
(* writes a status, and nothing that was found is written twice.           *)
(***************************************************************************)
CONSTANTS
    Monitors,  \* the names of CamelMonitors
    Fields,    \* the fields of a status
    Findings,  \* Findings[w]: the results of a look at w; a result r has in
               \* r[f] what there is to find of field f, {} if nothing
    Blank,     \* the status of a new CamelMonitor
    Nil        \* no CamelMonitor

VARIABLES
    status,  \* the statuses, Nil where there is no CamelMonitor
    world,   \* the workload behind each name
    found    \* {} or {[name, fields]}: what is to be written, by field

vars == <<status, world, found>>

Init ==
    /\ status = [m \in Monitors |-> Nil]
    /\ world \in [Monitors -> DOMAIN Findings]
    /\ found = {}

Created(m) ==
    /\ status[m] = Nil
    /\ status' = [status EXCEPT ![m] = Blank]
    /\ UNCHANGED <<world, found>>

Deleted(m) ==
    /\ status[m] # Nil
    /\ status' = [status EXCEPT ![m] = Nil]
    /\ UNCHANGED <<world, found>>

(* The workload behind m changes; what was found of it stays what it was. *)
WorldChanges(m) ==
    /\ world' \in [Monitors -> DOMAIN Findings]
    /\ \A n \in Monitors \ {m} : world'[n] = world[n]
    /\ UNCHANGED <<status, found>>

(* All that is found comes from one look; any of it may be left out. *)
Look(m) ==
    /\ found = {}
    /\ \E x \in found', r \in Findings[world[m]] :
            /\ found' = {x}
            /\ x.name = m
            /\ DOMAIN x.fields \subseteq Fields
            /\ \A f \in DOMAIN x.fields : x.fields[f] \in r[f]
    /\ UNCHANGED <<status, world>>

(* What was found is written, every other field keeps what it has. *)
Write ==
    /\ found' = {}
    /\ \E x \in found :
            LET old == status[x.name]
                new == status'[x.name] IN
            /\ old # Nil /\ new # Nil
            /\ \A f \in Fields :
                    new[f] = IF f \in DOMAIN x.fields THEN x.fields[f]
                             ELSE old[f]
            /\ status' = [status EXCEPT ![x.name] = new]
    /\ UNCHANGED world

Lost ==
    /\ found' = {}
    /\ UNCHANGED <<status, world>>

Next ==
    \/ \E m \in Monitors :
            Created(m) \/ Deleted(m) \/ WorldChanges(m) \/ Look(m)
    \/ Write
    \/ Lost

Spec == Init /\ [][Next]_vars
=============================================================================
