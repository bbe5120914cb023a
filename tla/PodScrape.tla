------------------------------ MODULE PodScrape ------------------------------
(***************************************************************************)
(* How one round of monitoring looks at the pods of a workload             *)
(* (synthetic_support.go and the two adapters).  The pods of a Deployment  *)
(* are listed, every ready one is asked for its health and then for its    *)
(* metrics over HTTP, and the conditions of the CamelMonitor are computed  *)
(* from the answers; of the pods of a CronJob only the phases are looked   *)
(* at.                                                                     *)
(*                                                                         *)
(* Where a service answers is searched over ports and endpoints; what was  *)
(* found is stored in the status, and the next round starts from what the  *)
(* status says of the first pod.  Pods and their answers may change        *)
(* between any two calls of a round.                                       *)
(***************************************************************************)
EXTENDS Naturals, Sequences, FiniteSets, SequencesExt

CONSTANTS
    Kinds,         \* the kinds of workload to look at
    Pods,          \* the names of the pods
    Apps,          \* [health, metrics : [port, endpoint], other]: where an
                   \* app answers, and what it answers anywhere else
    Answers,       \* [health, metrics]: what the two services may answer
    Defaults,      \* Defaults[s]: the conventional values of setting s
    Operator,      \* Operator[s]: the operator's own values, or <<>>
    Annotations,   \* the annotations of the workload: [Settings -> ...]
    Nil,           \* no pod, no round
    Env,           \* what the environment does in this instance
    MaxChanges     \* bound: changes of pods and annotations, failed calls

(* The operator's settings; an empty value is not set. *)
Platform == INSTANCE PlatformSettings WITH Unset <- <<>>, Garbage <- Nil

Services == {"health", "metrics"}
Settings == {"healthPorts", "healthEndpoints", "metricsPorts", "metricsEndpoints"}
PortsOf == [health |-> "healthPorts", metrics |-> "metricsPorts"]
EndpointsOf == [health |-> "healthEndpoints", metrics |-> "metricsEndpoints"]

(* Metrics that can be parsed may show a heap of which 90% of the (known)  *)
(* maximum is used, or 90% of the CPU limit, or neither ("ok").            *)
Pressures == {"memory", "cpu"}

(* The body says UP or DOWN (200 or 503), the body cannot be parsed        *)
(* ("garbled"), or the code is neither of these and not 404 ("error").     *)
HealthStates == {"UP", "DOWN"}

(* Where no service is an application finds nothing, fails or has a page.  *)
Elsewhere == {"404", "error", "garbled"}

(* The phases of the pods of jobs. *)
JobPhases == {"Pending", "Running", "Succeeded", "Failed"}

ASSUME AnswersAssumption ==
    /\ Kinds \subseteq {"Deployment", "CronJob"}
    /\ Answers \subseteq [health : HealthStates \cup {"garbled", "error"},
                           metrics : Pressures \cup {"ok", "error"}]
    /\ Env \subseteq {"annotate", "api"}

(* An application listens on a port. *)
ASSUME AppsAssumption ==
    /\ IsFiniteSet(Pods)
    /\ \A app \in Apps : app["health"].port # "" /\ app.other \in Elsewhere

(* Settings are lists of ports or endpoints, in the order of the search. *)
ASSUME SettingsAssumption ==
    \A s \in Settings :
        /\ Defaults[s] \in Seq(STRING) /\ Operator[s] \in Seq(STRING)
        /\ \A a \in Annotations : a[s] \in Seq(STRING)

ASSUME BoundsAssumption == MaxChanges \in Nat

VARIABLES
    kind,       \* the kind of the workload
    world,      \* world[p]: the pod p as it is now, or Nil
    annotation, \* the annotations of the workload
    status,     \* the status of the CamelMonitor: pods and conditions
    round,      \* the round in work, or Nil
    changes     \* changes of pods and annotations and failed calls so far

vars == <<kind, world, annotation, status, round, changes>>

DeploymentPods ==
    {w \in [app : Apps, ready : BOOLEAN,
             health : HealthStates \cup {"garbled", "error"},
             metrics : Pressures \cup {"ok", "error"}] :
        [health |-> w.health, metrics |-> w.metrics] \in Answers}
JobPods == [ready : BOOLEAN, phase : JobPhases]
LivePods == IF kind = "CronJob" THEN JobPods ELSE DeploymentPods

Present == {p \in Pods : world[p] # Nil}

-----------------------------------------------------------------------------
(* The phase of the application. *)

DeploymentPhase(replicas, available) ==
    IF available # replicas THEN "Error"
    ELSE IF replicas = 0 THEN "Paused" ELSE "Running"

CronJobPhase(active) == IF active > 0 THEN "Running" ELSE "Paused"

(* The workload's own status counts its pods. *)
GetAppPhase ==
    IF kind = "CronJob"
    THEN CronJobPhase(Cardinality({p \in Present :
                          world[p].phase \in {"Pending", "Running"}}))
    ELSE DeploymentPhase(Cardinality(Present),
                         Cardinality({p \in Present : world[p].ready}))

-----------------------------------------------------------------------------
(* What a round knows of a pod. *)

PodPhase(p) == IF kind = "CronJob" THEN world[p].phase ELSE "Running"

Unproven == [s \in Settings |-> ""]

(* Mutant: a pod starts from what the last round stored. *)
BlankInfo_Carried(p) ==
    [name |-> p, ready |-> world[p].ready, phase |-> PodPhase(p),
     runtime |-> "nil", pressure |-> "",
     obs |-> IF status.pods = <<>> THEN Unproven ELSE status.pods[1].obs]

(* Runtime is "nil" until a service of the pod has answered. *)
BlankInfo(p) ==
    [name |-> p, ready |-> world[p].ready, phase |-> PodPhase(p),
     runtime |-> "nil", pressure |-> "", obs |-> Unproven]

(* An annotation wins over the operator's environment, which wins over     *)
(* what was proven, which wins over the convention.                        *)
Setting(s, proven) ==
    LET operator == Platform!GetObservability(Operator[s], Defaults[s])
        isDefault == operator[1] IN
    CASE annotation[s] # <<>> -> annotation[s]
      [] annotation[s] = <<>> /\ isDefault /\ proven # "" -> <<proven>>
      [] OTHER -> operator[2]

GetAppObservabilityConf ==
    LET proven == IF status.pods = <<>> THEN Unproven ELSE status.pods[1].obs
    IN [s \in Settings |-> Setting(s, proven[s])]

-----------------------------------------------------------------------------
(* The search over ports and endpoints. *)

(* A GET on a port and an endpoint of pod p. *)
Answer(p, service, port, endpoint) ==
    CASE world[p] = Nil -> "refused"
      [] world[p] # Nil /\ ~\E x \in Services : world[p].app[x].port = port ->
            "refused"
      [] world[p] # Nil /\ world[p].app[service] = [port |-> port,
                                                    endpoint |-> endpoint] ->
            world[p][service]
      [] OTHER -> world[p].app.other

(* The attempts that end the search: a port that refuses the connection    *)
(* and an endpoint that is not found only lead to the next one; any other  *)
(* answer, of whatever it comes, ends it.                                  *)
Hits(p, service, conf) ==
    {a \in (DOMAIN conf[PortsOf[service]]) \X (DOMAIN conf[EndpointsOf[service]]) :
        Answer(p, service, conf[PortsOf[service]][a[1]],
               conf[EndpointsOf[service]][a[2]]) \notin {"refused", "404"}}

(* Port by port, and on each port endpoint by endpoint. *)
FirstHit(S) ==
    CHOOSE a \in S : \A b \in S : a[1] < b[1] \/ (a[1] = b[1] /\ a[2] <= b[2])

Proven(obs, service, port, endpoint) ==
    [obs EXCEPT ![PortsOf[service]] = port, ![EndpointsOf[service]] = endpoint]

(* Port and endpoint are stored before the body is parsed; a code other    *)
(* than 200 and 503 is a status of its own, and is not stored.             *)
setHealth(info, conf) ==
    LET S == Hits(info.name, "health", conf)
        a == FirstHit(S)
        port == conf["healthPorts"][a[1]]
        endpoint == conf["healthEndpoints"][a[2]]
        answer == Answer(info.name, "health", port, endpoint)
    IN  IF S = {} THEN info
        ELSE [info EXCEPT
                !.obs = IF answer = "error" THEN @
                        ELSE Proven(@, "health", port, endpoint),
                !.runtime = IF @ # "nil" \/ answer = "garbled"
                            THEN @ ELSE answer]

(* Metrics must be parsed before anything is stored; collectMetrics and    *)
(* setCPUPressure raise the flags of a pod at its limits.                  *)
setMetrics(info, conf) ==
    LET S == Hits(info.name, "metrics", conf)
        a == FirstHit(S)
        port == conf["metricsPorts"][a[1]]
        endpoint == conf["metricsEndpoints"][a[2]]
        answer == Answer(info.name, "metrics", port, endpoint)
    IN  IF S = {} THEN info
        ELSE IF answer \in {"error", "garbled"} THEN info
        ELSE [info EXCEPT !.obs = Proven(@, "metrics", port, endpoint),
                          !.runtime = IF @ = "nil" THEN "" ELSE @,
                          !.pressure = IF answer = "ok" THEN "" ELSE answer]

-----------------------------------------------------------------------------
(* The conditions. *)

allPodsReady(pods) == \A i \in DOMAIN pods : pods[i].ready

(* Mutant: a pod that did not answer is skipped. *)
allPodsUp_SkipNil(pods) ==
    \A i \in DOMAIN pods : pods[i].runtime \in {"nil", "UP"}

allPodsUp(pods) == \A i \in DOMAIN pods : pods[i].runtime = "UP"

(* Mutant: the flag of the first pod stands for all. *)
podPressure_First(pods, x) == pods[1].pressure = x

podPressure(pods, x) == \E i \in DOMAIN pods : pods[i].pressure = x

Truth(test) == IF test THEN "True" ELSE "False"

NoConditions == [monitored |-> "", healthy |-> "", memory |-> "", cpu |-> ""]
NoStatus == [phase |-> "", pods |-> <<>>, is |-> NoConditions, info |-> <<>>]

setMonitoringCondition(pods) ==
    IF pods = <<>>
    THEN [NoConditions EXCEPT !.monitored = "Unknown", !.healthy = "Unknown"]
    ELSE [monitored |-> Truth(allPodsReady(pods)),
          healthy |-> Truth(allPodsUp(pods)),
          memory |-> Truth(podPressure(pods, "memory")),
          cpu |-> Truth(podPressure(pods, "cpu"))]

countPodsWithStatus(pods, phase) ==
    Cardinality({i \in DOMAIN pods : pods[i].phase = phase})

(* Mutant: one good pod is enough. *)
CronJobConditions_AnyGood(pods) ==
    LET good == countPodsWithStatus(pods, "Running")
                + countPodsWithStatus(pods, "Succeeded") IN
    IF pods = <<>>
    THEN [NoConditions EXCEPT !.monitored = "False"]
    ELSE [NoConditions EXCEPT !.monitored = "True",
                              !.healthy = Truth(good > 0)]

(* A CronJob is healthy while every pod runs or has succeeded. *)
CronJobConditions(pods) ==
    LET good == countPodsWithStatus(pods, "Running")
                + countPodsWithStatus(pods, "Succeeded") IN
    IF pods = <<>>
    THEN [NoConditions EXCEPT !.monitored = "False"]
    ELSE [NoConditions EXCEPT !.monitored = "True",
                              !.healthy = Truth(Len(pods) = good)]

Conditions(pods) ==
    IF kind = "CronJob" THEN CronJobConditions(pods)
    ELSE setMonitoringCondition(pods)

(* Mutant: without pods the info is lost. *)
Info_Reset(pods) ==
    IF kind = "CronJob" /\ pods # <<>>
    THEN <<countPodsWithStatus(pods, "Succeeded"),
           Len(pods) - countPodsWithStatus(pods, "Running")>>
    ELSE <<>>

(* "x out of last n job succeeded"; a CronJob whose jobs are all cleaned   *)
(* up keeps the last one.                                                  *)
Info(pods) ==
    IF kind = "CronJob" /\ pods # <<>>
    THEN <<countPodsWithStatus(pods, "Succeeded"),
           Len(pods) - countPodsWithStatus(pods, "Running")>>
    ELSE status.info

-----------------------------------------------------------------------------
(* A pod that is ready and well. *)
Serving(app) ==
    {w \in DeploymentPods : /\ w.app = app /\ w.ready
                            /\ w.health = "UP" /\ w.metrics = "ok"}

(* The pods of one version run, or no job has run yet. *)
Init ==
    /\ kind \in Kinds
    /\ \/ world = [p \in Pods |-> Nil]
       \/ /\ kind = "Deployment"
          /\ \E app \in Apps : world \in [Pods -> Serving(app) \cup {Nil}]
    /\ annotation \in Annotations
    /\ status = NoStatus
    /\ round = Nil
    /\ changes = 0

(* The pods: started, restarted with another application, scaled away,     *)
(* becoming ready or not, answering differently.                           *)
PodChanges(p, w) ==
    /\ changes < MaxChanges
    /\ w # world[p]
    /\ changes' = changes + 1
    /\ world' = [world EXCEPT ![p] = w]
    /\ UNCHANGED <<kind, annotation, status, round>>

AnnotationChanges(a) ==
    /\ "annotate" \in Env
    /\ changes < MaxChanges
    /\ a # annotation
    /\ changes' = changes + 1
    /\ annotation' = a
    /\ UNCHANGED <<kind, world, status, round>>

-----------------------------------------------------------------------------
(* A round. *)

(* The endpoints of the last round are read, then the pods are listed: the *)
(* cache keeps them in no particular order.                                *)
RoundBegins ==
    /\ round = Nil
    /\ \E listed \in SetToSeqs(Present) :
        round' = [phase |-> GetAppPhase, conf |-> GetAppObservabilityConf,
                  todo |-> [i \in DOMAIN listed |-> BlankInfo(listed[i])],
                  stage |-> "health", done |-> <<>>]
    /\ UNCHANGED <<kind, world, annotation, status, changes>>

(* The pods cannot be listed: the target that is patched has none. *)
ListFails ==
    /\ "api" \in Env
    /\ changes < MaxChanges
    /\ changes' = changes + 1
    /\ round = Nil
    /\ status' = [NoStatus EXCEPT !.phase = GetAppPhase, !.info = status.info]
    /\ UNCHANGED <<kind, world, annotation, round>>

Scraping(stage) ==
    /\ round # Nil
    /\ round.todo # <<>>
    /\ round.stage = stage
    /\ UNCHANGED <<kind, world, annotation, status, changes>>

(* Pods of jobs are listed, but not inspected: they may be gone already. *)
Inspected(info) == kind = "Deployment" /\ info.ready

(* A pod that is not ready is listed, but not inspected. *)
SkipNotReady ==
    /\ Scraping("health")
    /\ ~Inspected(Head(round.todo))
    /\ round' = [round EXCEPT !.todo = Tail(@),
                              !.done = Append(@, Head(round.todo))]

ScrapeHealth ==
    /\ Scraping("health")
    /\ Inspected(Head(round.todo))
    /\ round' = [round EXCEPT !.stage = "metrics",
                              !.todo[1] = setHealth(@, round.conf)]

(* Mutant: the pod is appended, but the loop does not move on. *)
ScrapeMetrics_Again ==
    /\ Scraping("metrics")
    /\ round' = [round EXCEPT
            !.stage = "health",
            !.done = Append(@, setMetrics(Head(round.todo), round.conf))]

ScrapeMetrics ==
    /\ Scraping("metrics")
    /\ round' = [round EXCEPT
            !.stage = "health",
            !.todo = Tail(@),
            !.done = Append(@, setMetrics(Head(round.todo), round.conf))]

(* Every pod was scraped: the conditions are set and the status patched. *)
RoundEnds ==
    /\ round # Nil
    /\ round.todo = <<>>
    /\ round' = Nil
    /\ status' = [phase |-> round.phase, pods |-> round.done,
                  is |-> Conditions(round.done), info |-> Info(round.done)]
    /\ UNCHANGED <<kind, world, annotation, changes>>

(* The patch fails or the operator crashes: the round is lost. *)
RoundLost ==
    /\ "api" \in Env
    /\ changes < MaxChanges
    /\ changes' = changes + 1
    /\ round # Nil
    /\ round' = Nil
    /\ UNCHANGED <<kind, world, annotation, status>>

Round ==
    \/ RoundBegins
    \/ SkipNotReady
    \/ ScrapeHealth
    \/ ScrapeMetrics
    \/ RoundEnds

Next ==
    \/ Round
    \/ ListFails
    \/ RoundLost
    \/ \E p \in Pods, w \in LivePods \cup {Nil} : PodChanges(p, w)
    \/ \E a \in Annotations : AnnotationChanges(a)

Spec == Init /\ [][Next]_vars

(* Rounds are polled for ever. *)
FairSpec == Spec /\ WF_vars(Round)

-----------------------------------------------------------------------------
(* Type invariant: a status and a round in work hold pods that are known,  *)
(* each at most once.                                                      *)
ValuesOf(f) == UNION {ToSet(f[s]) : s \in Settings}
Values == ValuesOf(Defaults) \cup ValuesOf(Operator)
          \cup UNION {ValuesOf(a) : a \in Annotations}

InfoOK(i) ==
    /\ i.name \in Pods
    /\ i.ready \in BOOLEAN
    /\ i.phase \in JobPhases
    /\ i.obs \in [Settings -> Values \cup {""}]
    /\ i.runtime \in HealthStates \cup {"nil", "", "error"}
    /\ i.pressure \in Pressures \cup {""}

Distinct(infos) ==
    \A i, j \in DOMAIN infos : infos[i].name = infos[j].name => i = j

TypeOK ==
    /\ kind \in Kinds
    /\ world \in [Pods -> LivePods \cup {Nil}]
    /\ annotation \in Annotations
    /\ \A i \in DOMAIN status.pods : InfoOK(status.pods[i])
    /\ Distinct(status.pods)
    /\ round # Nil =>
        /\ \A i \in DOMAIN round.todo : InfoOK(round.todo[i])
        /\ \A i \in DOMAIN round.done : InfoOK(round.done[i])
        /\ Distinct(round.done \o round.todo)

(* Healthy is never claimed for a pod that was not ready, or that was not  *)
(* seen UP at a known endpoint in the very round that claims it.           *)
HealthyIsWitnessed ==
    kind = "Deployment" /\ status.is.healthy = "True" =>
        /\ status.is.monitored = "True"
        /\ status.pods # <<>>
        /\ \A i \in DOMAIN status.pods :
            /\ status.pods[i].ready
            /\ status.pods[i].runtime = "UP"
            /\ status.pods[i].obs["healthPorts"] # ""

Unstored == [s \in Settings |-> Setting(s, "")]

Place(conf, service, a) == [port |-> conf[PortsOf[service]][a[1]],
                            endpoint |-> conf[EndpointsOf[service]][a[2]]]

(* A CamelMonitor that has nothing stored yet would find both services. *)
Findable(p) ==
    \A x \in Services :
        LET S == Hits(p, x, Unstored) IN
        S # {} /\ Place(Unstored, x, FirstHit(S)) = world[p].app[x]

(* All pods run one application, which can be found.  It must not have a   *)
(* page where its health is not: such a place is stored before the body is *)
(* parsed, and asked for ever.                                             *)
Uniform ==
    kind = "Deployment" /\ \E app \in Apps :
        /\ app.other # "garbled"
        /\ \A p \in Present : world[p].app = app /\ Findable(p)

Location(app) ==
    [healthPorts |-> app.health.port, healthEndpoints |-> app.health.endpoint,
     metricsPorts |-> app.metrics.port,
     metricsEndpoints |-> app.metrics.endpoint]

Located(p) ==
    \E i \in DOMAIN status.pods :
        /\ status.pods[i].name = p
        /\ status.pods[i].obs = Location(world[p].app)

(* An application that moves to another port or endpoint is found again: a *)
(* stored endpoint that is not there any more, or is of something else, is *)
(* forgotten by the round it fails in.  What is found is stored in the end *)
(* for every pod whose services answer.                                    *)
Rediscovered ==
    <>[](Uniform => \A p \in Present :
            /\ world[p].ready
            /\ world[p].health # "error"
            /\ world[p].metrics # "error"
            => Located(p))

(* Once the pods are quiet the conditions say what is the case, whatever   *)
(* each pod answers: no answer of an earlier round, of a pod that is gone  *)
(* or of an endpoint that moved is left in them, and a pod that cannot be  *)
(* read is not healthy.                                                    *)
ConditionsSettle ==
    <>[](Uniform /\ Present # {} =>
            /\ status.phase = GetAppPhase
            /\ status.is =
                [monitored |-> Truth(\A p \in Present : world[p].ready),
                 healthy |-> Truth(\A p \in Present : /\ world[p].ready
                                                      /\ world[p].health = "UP"),
                 memory |-> Truth(\E p \in Present : /\ world[p].ready
                                                     /\ world[p].metrics = "memory"),
                 cpu |-> Truth(\E p \in Present : /\ world[p].ready
                                                  /\ world[p].metrics = "cpu")])

(* A job's pod that has failed, or not started, shows once the round after *)
(* it; the summary counts the pods that are there, and outlives them.      *)
Finished == {p \in Present : world[p].phase # "Running"}
Succeeded == {p \in Present : world[p].phase = "Succeeded"}

JobsSettle ==
    <>[](kind = "CronJob" =>
            /\ status.phase = GetAppPhase
            /\ IF Present = {}
               THEN status.is.monitored = "False" /\ status.is.healthy = ""
               ELSE /\ status.is.monitored = "True"
                    /\ (status.is.healthy = "True") <=> (Finished = Succeeded)
                    /\ status.info = <<Cardinality(Succeeded), Cardinality(Finished)>>)

(* The summary of the jobs is only ever replaced by a newer one: no round  *)
(* without pods, no failed list and no lost round takes it away.           *)
InfoKept == [][status.info # <<>> => status'.info # <<>>]_vars
=============================================================================
