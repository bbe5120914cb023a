-------------------------- MODULE MCMonitorResources --------------------------
(* Instances of MonitorResources for TLC: the operator is deployed for one *)
(* namespace with the defaults, for all with settings of its own, one of   *)
(* them garbage, or with a log level that keeps it from starting.          *)
EXTENDS MonitorResources

Plain == [create |-> [r \in Resources |-> "true"], label |-> Unset, datasource |-> Unset,
          idle |-> Unset, namespaces |-> <<"blank", "apps">>,
          logLevel |-> Unset, selector |-> Unset]

Tuned == [Plain EXCEPT !.create["GrafanaDashboard"] = "True",
                       !.label = <<"team", "a">>,
                       !.idle = Garbage, !.namespaces = <<>>]

(* The operator does not start with this one. *)
Broken == [Plain EXCEPT !.logLevel = Garbage]

SomeEnvironments == {Plain, Tuned, Broken}
PlainFirst == {Plain}

(* Grafana is there, Prometheus may come and go. *)
GrafanaOrBoth == {Resources, {"GrafanaDashboard"}}

SomeLimits == {Nil, 500}
AllOnOnePort == [pods |-> [p \in Pods |-> "9876"], limit |-> 500]
=============================================================================
