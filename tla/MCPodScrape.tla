---------------------------- MODULE MCPodScrape -----------------------------
(* An instance of PodScrape for TLC: two pods, an application that follows *)
(* Camel's convention and fails on any other request, one that follows     *)
(* another runtime's, and an annotation that names the second one's ports  *)
(* only.                                                                   *)
EXTENDS PodScrape

Camel == [health  |-> [port |-> "9876", endpoint |-> "observe/health"],
          metrics |-> [port |-> "9876", endpoint |-> "observe/metrics"],
          other   |-> "error"]
Quarkus == [health  |-> [port |-> "9876", endpoint |-> "q/health"],
            metrics |-> [port |-> "8080", endpoint |-> "q/metrics"],
            other   |-> "404"]
TwoApps == {Camel, Quarkus}

SomeAnswers == {[health |-> "UP", metrics |-> "ok"],
                [health |-> "UP", metrics |-> "memory"],
                [health |-> "DOWN", metrics |-> "cpu"],
                [health |-> "garbled", metrics |-> "error"]}

Conventions ==
    [healthPorts |-> <<"9876", "8080">>,
     metricsPorts |-> <<"9876", "8080">>,
     healthEndpoints |-> <<"observe/health", "q/health">>,
     metricsEndpoints |-> <<"observe/metrics", "q/metrics">>]

NoSettings == [s \in Settings |-> <<>>]
NoAnnotation == {NoSettings}
SomeAnnotations == {NoSettings, [NoSettings EXCEPT !["metricsPorts"] = <<"8080">>]}
=============================================================================
