------------------------- MODULE MCMonitorController -------------------------
(* Instances of MonitorController for TLC.  A second is 3 units and a      *)
(* duration wraps at +-8, so that the default of 1 second is a positive    *)
(* interval and 4 seconds wrap to a negative one.                          *)
EXTENDS MonitorController

OnlyDefault == {NotANumber}
SomeAnnotations == {NotANumber, 4}

(* Workloads that have not started yet. *)
NotStarted == {w \in Worlds : w.owner /\ w.pods = "none"}

(* Workloads that run when the operator comes. *)
Running == {w \in Worlds : /\ w.owner
                           /\ w.pods \in Runtimes
                           /\ w.annotation = NotANumber}
=============================================================================
