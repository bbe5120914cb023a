--------------------------- MODULE PodScrapeProofs ---------------------------
(***************************************************************************)
(* Proofs about PodScrape for any pods, applications, settings and         *)
(* annotations, whatever changes between two calls of a round: Healthy is  *)
(* only claimed for pods seen UP in that round.                            *)
(***************************************************************************)
EXTENDS PodScrape, DataLemmas

Fields == {"name", "ready", "phase", "runtime", "pressure", "obs"}

(* A pod is only UP if it was ready and answered on a port. *)
Witnessed(info) ==
    /\ DOMAIN info = Fields
    /\ DOMAIN info.obs = Settings
    /\ info.name \in Pods
    /\ info.runtime = "UP" => info.ready /\ info.obs["healthPorts"] # ""

(* Its runtime is not known before its health was asked for. *)
Unasked(info) == info.runtime = "nil"

(* The pods of a round: those scraped, the first one, those to come. *)
RoundOK ==
    /\ DOMAIN round = {"phase", "conf", "todo", "stage", "done"}
    /\ \E S : round.todo \in Seq(S)
    /\ \E S : round.done \in Seq(S)
    /\ \A k \in DOMAIN round.done : Witnessed(round.done[k])
    /\ \A k \in DOMAIN round.todo :
        /\ Witnessed(round.todo[k])
        /\ k # 1 \/ round.stage = "health" => Unasked(round.todo[k])

IInv ==
    /\ kind = "Deployment" =>
        /\ world \in [Pods -> DeploymentPods \cup {Nil}]
        /\ round # Nil => RoundOK
    /\ HealthyIsWitnessed

-----------------------------------------------------------------------------
(* A pod that says UP says so on a port of its application. *)
LEMMA UpHasPort ==
    ASSUME world \in [Pods -> DeploymentPods \cup {Nil}], NEW p \in Pods,
           NEW port, NEW endpoint, Answer(p, "health", port, endpoint) = "UP"
    PROVE  port # ""
<1>1. world[p] # Nil => world[p].app \in Apps
  BY DEF DeploymentPods
<1>2. /\ world[p] # Nil /\ world[p].app \in Apps
      /\ world[p].app["health"] = [port |-> port, endpoint |-> endpoint]
  BY <1>1, AppsAssumption DEF Answer, Elsewhere
<1>3. world[p].app["health"].port # ""
  BY <1>2, AppsAssumption
<1>4. [port |-> port, endpoint |-> endpoint].port = port
  OBVIOUS
<1> QED BY <1>2, <1>3, <1>4

(* What was stored of a health service is its port. *)
LEMMA ProvenPorts ==
    ASSUME NEW obs, DOMAIN obs = Settings, NEW port, NEW endpoint
    PROVE  /\ DOMAIN Proven(obs, "health", port, endpoint) = Settings
           /\ Proven(obs, "health", port, endpoint)["healthPorts"] = port
           /\ DOMAIN Proven(obs, "metrics", port, endpoint) = Settings
           /\ Proven(obs, "metrics", port, endpoint)["healthPorts"]
                  = obs["healthPorts"]
  BY DEF Proven, PortsOf, EndpointsOf, Settings

LEMMA HealthWitnessed ==
    ASSUME world \in [Pods -> DeploymentPods \cup {Nil}],
           NEW info, Witnessed(info), Unasked(info), info.ready, NEW conf
    PROVE  Witnessed(setHealth(info, conf))
<1> DEFINE S == Hits(info.name, "health", conf)
           a == FirstHit(S)
           port == conf["healthPorts"][a[1]]
           endpoint == conf["healthEndpoints"][a[2]]
           answer == Answer(info.name, "health", port, endpoint)
           obs == IF answer = "error" THEN info.obs
                  ELSE Proven(info.obs, "health", port, endpoint)
           runtime == IF info.runtime # "nil" \/ answer = "garbled"
                      THEN info.runtime ELSE answer
<1>1. CASE S = {}
  BY <1>1 DEF setHealth
<1>2. CASE S # {}
  <2>1. setHealth(info, conf) = [info EXCEPT !.obs = obs, !.runtime = runtime]
    BY <1>2 DEF setHealth
  <2>0. DOMAIN info.obs = Settings
    BY DEF Witnessed
  <2>2. /\ DOMAIN obs = Settings
        /\ answer # "error" => obs["healthPorts"] = port
    BY <2>0, ProvenPorts
  <2>3. runtime = "UP" => answer = "UP"
    BY DEF Unasked
  <2>4. answer = "UP" => port # ""
    BY UpHasPort DEF Witnessed
  <2>5. answer = "UP" => obs["healthPorts"] = port
    BY <2>2
  <2> HIDE DEF obs, runtime, answer, port
  <2>6. /\ DOMAIN setHealth(info, conf) = Fields
        /\ setHealth(info, conf).obs = obs
        /\ setHealth(info, conf).runtime = runtime
        /\ setHealth(info, conf).name = info.name
        /\ setHealth(info, conf).ready = info.ready
    BY <2>1 DEF Witnessed, Fields
  <2> QED BY <2>2, <2>3, <2>4, <2>5, <2>6 DEF Witnessed
<1> QED BY <1>1, <1>2

(* Metrics prove that a pod is there, but not that it is UP. *)
LEMMA MetricsWitnessed ==
    ASSUME NEW info, Witnessed(info), NEW conf
    PROVE  Witnessed(setMetrics(info, conf))
<1> DEFINE S == Hits(info.name, "metrics", conf)
           a == FirstHit(S)
           port == conf["metricsPorts"][a[1]]
           endpoint == conf["metricsEndpoints"][a[2]]
           answer == Answer(info.name, "metrics", port, endpoint)
           obs == Proven(info.obs, "metrics", port, endpoint)
           runtime == IF info.runtime = "nil" THEN "" ELSE info.runtime
           pressure == IF answer = "ok" THEN "" ELSE answer
<1>1. CASE S = {} \/ answer \in {"error", "garbled"}
  BY <1>1 DEF setMetrics
<1>2. CASE S # {} /\ answer \notin {"error", "garbled"}
  <2>1. setMetrics(info, conf) =
            [info EXCEPT !.obs = obs, !.runtime = runtime, !.pressure = pressure]
    BY <1>2 DEF setMetrics
  <2>0. DOMAIN info.obs = Settings
    BY DEF Witnessed
  <2>2. DOMAIN obs = Settings /\ obs["healthPorts"] = info.obs["healthPorts"]
    BY <2>0, ProvenPorts
  <2>3. runtime = "UP" => info.runtime = "UP"
    OBVIOUS
  <2> HIDE DEF obs, runtime, pressure
  <2>4. /\ DOMAIN setMetrics(info, conf) = Fields
        /\ setMetrics(info, conf).obs = obs
        /\ setMetrics(info, conf).runtime = runtime
        /\ setMetrics(info, conf).name = info.name
        /\ setMetrics(info, conf).ready = info.ready
    BY <2>1 DEF Witnessed, Fields
  <2> QED BY <2>2, <2>3, <2>4 DEF Witnessed
<1> QED BY <1>1, <1>2

-----------------------------------------------------------------------------
(* The steps of a round. *)

LEMMA RoundBeginsOK ==
    ASSUME kind = "Deployment", world \in [Pods -> DeploymentPods \cup {Nil}],
           RoundBegins
    PROVE  RoundOK'
<1>1. PICK listed \in SetToSeqs(Present) :
        round' = [phase |-> GetAppPhase, conf |-> GetAppObservabilityConf,
                  todo |-> [i \in DOMAIN listed |-> BlankInfo(listed[i])],
                  stage |-> "health", done |-> <<>>]
  BY DEF RoundBegins
<1>2. IsFiniteSet(Present)
  <2>1. Present \subseteq Pods
    BY DEF Present
  <2> QED BY <2>1, AppsAssumption, FS_Subset
<1>3. listed \in Seq(Present)
  BY <1>2, OrderOfSet
<1>4. \A i \in DOMAIN listed : listed[i] \in Pods
  BY <1>3 DEF Present
<1> DEFINE S == {BlankInfo(x) : x \in Pods}
<1>5. [i \in DOMAIN listed |-> BlankInfo(listed[i])] \in Seq(S)
  BY <1>3, <1>4
<1>6. \A x \in Pods : Witnessed(BlankInfo(x)) /\ Unasked(BlankInfo(x))
  BY DEF BlankInfo, Witnessed, Unasked, Unproven, Fields
<1>7. DOMAIN round' = {"phase", "conf", "todo", "stage", "done"}
  BY <1>1
<1>8. /\ round'.todo = [i \in DOMAIN listed |-> BlankInfo(listed[i])]
      /\ round'.done = <<>>
  BY <1>1
<1>9. \A k \in DOMAIN round'.todo :
        Witnessed(round'.todo[k]) /\ Unasked(round'.todo[k])
  BY <1>4, <1>6, <1>8
<1>10. \E T : round'.todo \in Seq(T)
  BY <1>5, <1>8
<1>11. (\E T : round'.done \in Seq(T)) /\ DOMAIN round'.done = {}
  <2>1. <<>> \in Seq({}) /\ DOMAIN <<>> = {}
    OBVIOUS
  <2> QED BY <2>1, <1>8
<1> QED BY <1>7, <1>9, <1>10, <1>11 DEF RoundOK, Witnessed, Unasked

(* The pod that was scraped leaves the list and joins those done. *)
LEMMA PodDone ==
    ASSUME RoundOK, round.todo # <<>>, NEW info, Witnessed(info),
           round' = [round EXCEPT !.stage = "health", !.todo = Tail(@),
                                  !.done = Append(@, info)]
    PROVE  RoundOK'
<1>1. /\ DOMAIN round' = {"phase", "conf", "todo", "stage", "done"}
      /\ round'.todo = Tail(round.todo)
      /\ round'.done = Append(round.done, info)
      /\ round'.stage = "health"
  BY DEF RoundOK
<1>2. PICK S : round.todo \in Seq(S)
  BY DEF RoundOK
<1>3. /\ Tail(round.todo) \in Seq(S)
      /\ \A k \in DOMAIN Tail(round.todo) :
            /\ k + 1 \in DOMAIN round.todo
            /\ k + 1 # 1
            /\ Tail(round.todo)[k] = round.todo[k + 1]
  BY <1>2
<1>4. PICK T : round.done \in Seq(T)
  BY DEF RoundOK
<1>5. round.done \in Seq(T \cup {info})
  BY <1>4
<1>6. /\ Append(round.done, info) \in Seq(T \cup {info})
      /\ \A k \in DOMAIN Append(round.done, info) :
            \/ Append(round.done, info)[k] = info
            \/ /\ k \in DOMAIN round.done
               /\ Append(round.done, info)[k] = round.done[k]
  BY <1>5
<1>7. \A k \in DOMAIN round'.todo :
        Witnessed(round'.todo[k]) /\ Unasked(round'.todo[k])
  BY <1>1, <1>3 DEF RoundOK
<1>8. \A k \in DOMAIN round'.done : Witnessed(round'.done[k])
  BY <1>1, <1>6 DEF RoundOK
<1>9. /\ \E U : round'.todo \in Seq(U)
      /\ \E U : round'.done \in Seq(U)
  BY <1>1, <1>3, <1>6
<1> QED BY <1>1, <1>7, <1>8, <1>9 DEF RoundOK, Witnessed, Unasked

LEMMA HeadWitnessed ==
    ASSUME RoundOK, round.todo # <<>>
    PROVE  /\ Head(round.todo) = round.todo[1]
           /\ 1 \in DOMAIN round.todo
           /\ Witnessed(Head(round.todo))
           /\ round.stage = "health" => Unasked(Head(round.todo))
<1>1. PICK S : round.todo \in Seq(S)
  BY DEF RoundOK
<1>2. Head(round.todo) = round.todo[1] /\ 1 \in DOMAIN round.todo
  BY <1>1
<1> QED BY <1>2 DEF RoundOK

LEMMA SkipNotReadyOK ==
    ASSUME RoundOK, SkipNotReady
    PROVE  RoundOK'
<1>1. /\ round.todo # <<>> /\ round.stage = "health"
      /\ round' = [round EXCEPT !.todo = Tail(@),
                                !.done = Append(@, Head(round.todo))]
  BY DEF SkipNotReady, Scraping
<1>2. round' = [round EXCEPT !.stage = "health", !.todo = Tail(@),
                             !.done = Append(@, Head(round.todo))]
  BY <1>1 DEF RoundOK
<1> QED BY <1>1, <1>2, HeadWitnessed, PodDone

LEMMA ScrapeHealthOK ==
    ASSUME world \in [Pods -> DeploymentPods \cup {Nil}], RoundOK, ScrapeHealth
    PROVE  RoundOK'
<1> DEFINE info == setHealth(round.todo[1], round.conf)
<1>1. /\ round.todo # <<>> /\ round.stage = "health"
      /\ Head(round.todo).ready
      /\ round' = [round EXCEPT !.stage = "metrics",
                                !.todo[1] = setHealth(@, round.conf)]
  BY DEF ScrapeHealth, Scraping, Inspected
<1>2. Witnessed(info)
  BY <1>1, HeadWitnessed, HealthWitnessed
<1> HIDE DEF info
<1>3. /\ DOMAIN round' = {"phase", "conf", "todo", "stage", "done"}
      /\ round'.todo = [round.todo EXCEPT ![1] = info]
      /\ round'.done = round.done
      /\ round'.stage = "metrics"
  BY <1>1 DEF RoundOK, info
<1>4. PICK S : round.todo \in Seq(S)
  BY DEF RoundOK
<1>5. [round.todo EXCEPT ![1] = info] \in Seq(S \cup {info})
  <2>1. round.todo \in [1..Len(round.todo) -> S] /\ Len(round.todo) \in Nat
    BY <1>4
  <2>2. [round.todo EXCEPT ![1] = info] \in [1..Len(round.todo) -> S \cup {info}]
    BY <2>1
  <2> QED BY <2>1, <2>2
<1>6. \A k \in DOMAIN round'.todo :
        /\ k \in DOMAIN round.todo
        /\ k = 1 => round'.todo[k] = info
        /\ k # 1 => round'.todo[k] = round.todo[k]
  BY <1>3
<1>7. \A k \in DOMAIN round'.todo :
        /\ Witnessed(round'.todo[k])
        /\ k # 1 => Unasked(round'.todo[k])
  BY <1>2, <1>6 DEF RoundOK
<1>8. /\ \E U : round'.todo \in Seq(U)
      /\ \E U : round'.done \in Seq(U)
      /\ \A k \in DOMAIN round'.done : Witnessed(round'.done[k])
  BY <1>3, <1>5 DEF RoundOK
<1> QED BY <1>3, <1>7, <1>8 DEF RoundOK, Witnessed, Unasked

LEMMA ScrapeMetricsOK ==
    ASSUME RoundOK, ScrapeMetrics
    PROVE  RoundOK'
<1>1. /\ round.todo # <<>>
      /\ round' = [round EXCEPT !.stage = "health", !.todo = Tail(@),
                    !.done = Append(@, setMetrics(Head(round.todo), round.conf))]
  BY DEF ScrapeMetrics, Scraping
<1>2. Witnessed(setMetrics(Head(round.todo), round.conf))
  BY <1>1, HeadWitnessed, MetricsWitnessed
<1> QED BY <1>1, <1>2, PodDone

(* Healthy is only claimed when every pod was UP. *)
LEMMA RoundEndsHealthy ==
    ASSUME kind = "Deployment", RoundOK, RoundEnds
    PROVE  HealthyIsWitnessed'
<1> SUFFICES ASSUME status'.is.healthy = "True"
             PROVE  /\ status'.is.monitored = "True"
                    /\ status'.pods # <<>>
                    /\ \A i \in DOMAIN status'.pods :
                        /\ status'.pods[i].ready
                        /\ status'.pods[i].runtime = "UP"
                        /\ status'.pods[i].obs["healthPorts"] # ""
  BY DEF HealthyIsWitnessed
<1>1. /\ status'.pods = round.done
      /\ status'.is = setMonitoringCondition(round.done)
  BY DEF RoundEnds, Conditions
<1>2. round.done # <<>>
  BY <1>1 DEF setMonitoringCondition, NoConditions
<1>3. /\ setMonitoringCondition(round.done).healthy = Truth(allPodsUp(round.done))
      /\ setMonitoringCondition(round.done).monitored
             = Truth(allPodsReady(round.done))
  BY <1>2 DEF setMonitoringCondition
<1>4. allPodsUp(round.done)
  BY <1>1, <1>3 DEF Truth
<1>5. \A i \in DOMAIN round.done :
        /\ round.done[i].ready
        /\ round.done[i].runtime = "UP"
        /\ round.done[i].obs["healthPorts"] # ""
  BY <1>4 DEF allPodsUp, RoundOK, Witnessed
<1>6. allPodsReady(round.done)
  BY <1>5 DEF allPodsReady
<1> QED BY <1>1, <1>2, <1>3, <1>5, <1>6 DEF Truth

-----------------------------------------------------------------------------
LEMMA InitIInv == Init => IInv
<1> SUFFICES ASSUME Init PROVE IInv
  OBVIOUS
<1>1. world \in [Pods -> DeploymentPods \cup {Nil}]
  BY DEF Init, Serving
<1>2. HealthyIsWitnessed
  BY DEF Init, NoStatus, NoConditions, HealthyIsWitnessed
<1> QED BY <1>1, <1>2 DEF IInv, Init

LEMMA StepIInv == IInv /\ [Next]_vars => IInv'
<1> SUFFICES ASSUME IInv, [Next]_vars PROVE IInv'
  OBVIOUS
<1>1. CASE RoundBegins
  BY <1>1, RoundBeginsOK DEF RoundBegins, IInv, HealthyIsWitnessed, DeploymentPods
<1>2. CASE SkipNotReady
  BY <1>2, SkipNotReadyOK
     DEF SkipNotReady, Scraping, IInv, HealthyIsWitnessed, DeploymentPods
<1>3. CASE ScrapeHealth
  BY <1>3, ScrapeHealthOK
     DEF ScrapeHealth, Scraping, IInv, HealthyIsWitnessed, DeploymentPods
<1>4. CASE ScrapeMetrics
  BY <1>4, ScrapeMetricsOK
     DEF ScrapeMetrics, Scraping, IInv, HealthyIsWitnessed, DeploymentPods
<1>5. CASE RoundEnds
  <2>1. kind' = kind /\ world' = world /\ round' = Nil /\ round # Nil
    BY <1>5 DEF RoundEnds
  <2>2. HealthyIsWitnessed'
    <3>1. CASE kind = "Deployment"
      BY <1>5, <2>1, <3>1, RoundEndsHealthy DEF IInv
    <3>2. CASE kind # "Deployment"
      BY <2>1, <3>2 DEF HealthyIsWitnessed
    <3> QED BY <3>1, <3>2
  <2> QED BY <2>1, <2>2 DEF IInv, DeploymentPods
<1>6. CASE ListFails
  <2>1. status'.is = NoConditions /\ NoConditions.healthy # "True"
    BY <1>6 DEF ListFails, NoStatus, NoConditions
  <2>2. HealthyIsWitnessed'
    BY <2>1 DEF HealthyIsWitnessed
  <2>3. UNCHANGED <<kind, world, round>> /\ round = Nil
    BY <1>6 DEF ListFails
  <2> QED BY <2>2, <2>3 DEF IInv, DeploymentPods
<1>7. CASE RoundLost
  BY <1>7 DEF RoundLost, IInv, HealthyIsWitnessed, DeploymentPods
<1>8. ASSUME NEW p \in Pods, NEW w \in LivePods \cup {Nil}, PodChanges(p, w)
      PROVE  IInv'
  <2>1. kind = "Deployment" => world' \in [Pods -> DeploymentPods \cup {Nil}]
    BY <1>8 DEF PodChanges, LivePods, IInv
  <2>2. UNCHANGED <<kind, status, round>>
    BY <1>8 DEF PodChanges
  <2> QED BY <2>1, <2>2 DEF IInv, RoundOK, Witnessed, Unasked,
                            HealthyIsWitnessed, DeploymentPods
<1>9. ASSUME NEW x \in Annotations, AnnotationChanges(x)
      PROVE  IInv'
  BY <1>9 DEF AnnotationChanges, IInv, RoundOK, Witnessed, Unasked,
              HealthyIsWitnessed, DeploymentPods
<1>10. CASE UNCHANGED vars
  BY <1>10 DEF vars, IInv, RoundOK, Witnessed, Unasked, HealthyIsWitnessed,
               DeploymentPods
<1> QED BY <1>1, <1>2, <1>3, <1>4, <1>5, <1>6, <1>7, <1>8, <1>9, <1>10
        DEF Next, Round

(* Whatever the pods, the settings and the answers, and whatever changes   *)
(* between two calls of a round: Healthy is claimed only when every pod    *)
(* was ready and seen UP, at a known port, in the round that claims it.    *)
THEOREM HealthyWitnessed == Spec => []HealthyIsWitnessed
<1>1. IInv => HealthyIsWitnessed
  BY DEF IInv
<1> QED BY <1>1, InitIInv, StepIInv, PTL DEF Spec

-----------------------------------------------------------------------------
(* Type correctness. *)

Infos == [name : Pods, ready : BOOLEAN, phase : JobPhases,
          runtime : HealthStates \cup {"nil", "", "error"},
          pressure : Pressures \cup {""},
          obs : [Settings -> Values \cup {""}]]

(* Of pods of jobs no service is asked. *)
RoundTypes ==
    /\ DOMAIN round = {"phase", "conf", "todo", "stage", "done"}
    /\ round.conf \in [Settings -> Seq(Values)]
    /\ round.todo \in Seq(Infos)
    /\ round.done \in Seq(Infos)
    /\ Distinct(round.done \o round.todo)
    /\ kind = "CronJob" => round.stage = "health"

Types ==
    /\ kind \in Kinds
    /\ world \in [Pods -> LivePods \cup {Nil}]
    /\ annotation \in Annotations
    /\ status.pods \in Seq(Infos)
    /\ Distinct(status.pods)
    /\ round # Nil => RoundTypes

LEMMA TypesAreOK == Types => TypeOK
<1> SUFFICES ASSUME Types PROVE TypeOK
  OBVIOUS
<1>1. \A i \in Infos : InfoOK(i)
  BY DEF Infos, InfoOK
<1>2. \A q \in Seq(Infos) : \A i \in DOMAIN q : q[i] \in Infos
  OBVIOUS
<1> QED BY <1>1, <1>2 DEF Types, RoundTypes, TypeOK

(* Every setting that is in force is a list of known values. *)
LEMMA ValuesOfSettings ==
    ASSUME NEW s \in Settings, NEW a \in Annotations
    PROVE  /\ Defaults[s] \in Seq(Values)
           /\ Operator[s] \in Seq(Values)
           /\ a[s] \in Seq(Values)
<1>1. \A f : ToSet(f[s]) \subseteq ValuesOf(f)
  BY DEF ValuesOf
<1>2. /\ ValuesOf(Defaults) \subseteq Values
      /\ ValuesOf(Operator) \subseteq Values
      /\ ValuesOf(a) \subseteq Values
  BY DEF Values
<1>3. /\ ToSet(Defaults[s]) \subseteq Values
      /\ ToSet(Operator[s]) \subseteq Values
      /\ ToSet(a[s]) \subseteq Values
  BY <1>1, <1>2
<1> QED BY <1>3, SettingsAssumption, SeqOfItsElements

LEMMA SettingType ==
    ASSUME annotation \in Annotations, NEW s \in Settings,
           NEW proven \in Values \cup {""}
    PROVE  Setting(s, proven) \in Seq(Values)
<1>1. /\ Defaults[s] \in Seq(Values)
      /\ Operator[s] \in Seq(Values)
      /\ annotation[s] \in Seq(Values)
  BY ValuesOfSettings
<1> DEFINE operator == Platform!GetObservability(Operator[s], Defaults[s])
<1>4. operator[2] \in Seq(Values)
  BY <1>1 DEF Platform!GetObservability
<1>5. ASSUME proven # "" PROVE <<proven>> \in Seq(Values)
  <2>1. proven \in Values
    BY <1>5
  <2> QED BY <2>1, OneElement
<1> HIDE DEF operator
<1>6. Setting(s, proven) = CASE annotation[s] # <<>> -> annotation[s]
        [] annotation[s] = <<>> /\ operator[1] /\ proven # "" -> <<proven>>
        [] OTHER -> operator[2]
  BY DEF Setting, operator
<1> QED BY <1>1, <1>4, <1>5, <1>6

LEMMA ConfType == Types => GetAppObservabilityConf \in [Settings -> Seq(Values)]
<1> SUFFICES ASSUME Types PROVE GetAppObservabilityConf \in [Settings -> Seq(Values)]
  OBVIOUS
<1> DEFINE proven == IF status.pods = <<>> THEN Unproven ELSE status.pods[1].obs
<1>1. proven \in [Settings -> Values \cup {""}]
  <2>1. status.pods # <<>> => status.pods[1] \in Infos
    BY DEF Types
  <2> QED BY <2>1 DEF Infos, Unproven
<1>2. GetAppObservabilityConf = [s \in Settings |-> Setting(s, proven[s])]
  BY DEF GetAppObservabilityConf
<1> HIDE DEF proven
<1>3. \A s \in Settings : Setting(s, proven[s]) \in Seq(Values)
  BY <1>1, SettingType DEF Types
<1> QED BY <1>2, <1>3

(* The search ends where it hits first: there is such an attempt. *)
LEMMA FirstHitIs ==
    ASSUME NEW m \in Nat, NEW n \in Nat,
           NEW S \in SUBSET ((1..m) \X (1..n)), S # {}
    PROVE  FirstHit(S) \in S
<1> DEFINE Before(a, b) == a[1] < b[1] \/ (a[1] = b[1] /\ a[2] <= b[2])
           Until(a) == {b \in S : Before(b, a)}
           B == {Until(a) : a \in S}
<1>1. IsFiniteSet(S)
  <2>1. IsFiniteSet(1..m) /\ IsFiniteSet(1..n)
    BY FS_Interval
  <2>2. IsFiniteSet((1..m) \X (1..n))
    BY <2>1, FS_Product
  <2> QED BY <2>2, FS_Subset
<1>2. \A a \in S : a[1] \in Int /\ a[2] \in Int
  <2>1. \A a \in (1..m) \X (1..n) : a[1] \in 1..m /\ a[2] \in 1..n
    OBVIOUS
  <2> QED BY <2>1
<1>3. PICK T \in B : \A U \in SUBSET T : U # T => U \notin B
  <2>1. B \in SUBSET SUBSET S /\ B # {}
    <3> HIDE DEF Before
    <3> QED OBVIOUS
  <2> HIDE DEF B
  <2> QED BY <1>1, <2>1, SmallestSubset
<1>4. PICK a \in S : T = Until(a)
  OBVIOUS
<1>5. \A b \in S : Before(a, b)
  <2>1. SUFFICES ASSUME NEW b \in S, ~Before(a, b) PROVE FALSE
    OBVIOUS
  <2>2. \A c \in S : Before(c, b) => Before(c, a)
    BY <1>2, <2>1
  <2>3. Until(b) \in SUBSET T
    BY <1>4, <2>2
  <2>4. a \in T /\ a \notin Until(b)
    BY <1>2, <1>4, <2>1
  <2> QED BY <1>3, <2>3, <2>4
<1>6. FirstHit(S) = CHOOSE c \in S : \A b \in S : Before(c, b)
  BY DEF FirstHit
<1> HIDE DEF Before
<1> QED BY <1>5, <1>6

(* The first hit is an answer of the service, or of the application where  *)
(* the service is not.                                                     *)
HealthAnswers == HealthStates \cup {"garbled", "error"}
MetricsAnswers == Pressures \cup {"ok", "error", "garbled"}

LEMMA HitIs ==
    ASSUME Types, kind = "Deployment", NEW p \in Pods, NEW service \in Services,
           NEW conf \in [Settings -> Seq(Values)], Hits(p, service, conf) # {}
    PROVE  LET a == FirstHit(Hits(p, service, conf))
               port == conf[PortsOf[service]][a[1]]
               endpoint == conf[EndpointsOf[service]][a[2]]
           IN  /\ port \in Values
               /\ endpoint \in Values
               /\ service = "health" =>
                    Answer(p, service, port, endpoint) \in HealthAnswers
               /\ service = "metrics" =>
                    Answer(p, service, port, endpoint) \in MetricsAnswers
<1> DEFINE S == Hits(p, service, conf)
           a == FirstHit(S)
           ports == conf[PortsOf[service]]
           endpoints == conf[EndpointsOf[service]]
<1>1. ports \in Seq(Values) /\ endpoints \in Seq(Values)
  BY DEF PortsOf, EndpointsOf, Services, Settings
<1>2. S \in SUBSET ((1..Len(ports)) \X (1..Len(endpoints)))
  BY <1>1 DEF Hits
<1>3. a \in S
  <2>1. Len(ports) \in Nat /\ Len(endpoints) \in Nat /\ S # {}
    BY <1>1
  <2> HIDE DEF S, ports, endpoints
  <2> QED BY <1>2, <2>1, FirstHitIs
<1>4. Answer(p, service, ports[a[1]], endpoints[a[2]]) \notin {"refused", "404"}
  BY <1>3 DEF Hits
<1>5. ports[a[1]] \in Values /\ endpoints[a[2]] \in Values
  BY <1>1, <1>2, <1>3
<1> HIDE DEF ports, endpoints, a
<1>6. /\ world[p] # Nil
      /\ Answer(p, service, ports[a[1]], endpoints[a[2]])
            \in {world[p][service], world[p].app.other}
  BY <1>4 DEF Answer
<1>7. world[p] \in DeploymentPods
  BY <1>6 DEF Types, LivePods
<1>8. world[p].app.other \in Elsewhere
  BY <1>7, AppsAssumption DEF DeploymentPods
<1>9. /\ world[p]["health"] \in HealthAnswers
      /\ world[p]["metrics"] \in MetricsAnswers
  BY <1>7 DEF DeploymentPods, HealthAnswers, MetricsAnswers
<1>10. /\ service = "health" =>
            Answer(p, service, ports[a[1]], endpoints[a[2]]) \in HealthAnswers
       /\ service = "metrics" =>
            Answer(p, service, ports[a[1]], endpoints[a[2]]) \in MetricsAnswers
  BY <1>4, <1>6, <1>8, <1>9 DEF Elsewhere, HealthAnswers, MetricsAnswers
<1> QED BY <1>5, <1>10 DEF a, ports, endpoints

LEMMA HealthType ==
    ASSUME Types, kind = "Deployment", NEW info \in Infos,
           NEW conf \in [Settings -> Seq(Values)]
    PROVE  /\ setHealth(info, conf) \in Infos
           /\ setHealth(info, conf).name = info.name
<1> DEFINE S == Hits(info.name, "health", conf)
           a == FirstHit(S)
           port == conf["healthPorts"][a[1]]
           endpoint == conf["healthEndpoints"][a[2]]
           answer == Answer(info.name, "health", port, endpoint)
           obs == IF answer = "error" THEN info.obs
                  ELSE Proven(info.obs, "health", port, endpoint)
           runtime == IF info.runtime # "nil" \/ answer = "garbled"
                      THEN info.runtime ELSE answer
<1>1. CASE S = {}
  BY <1>1 DEF setHealth
<1>2. CASE S # {}
  <2>1. setHealth(info, conf) = [info EXCEPT !.obs = obs, !.runtime = runtime]
    BY <1>2 DEF setHealth
  <2>2. PortsOf["health"] = "healthPorts" /\ EndpointsOf["health"] = "healthEndpoints"
    BY DEF PortsOf, EndpointsOf
  <2>3. port \in Values /\ endpoint \in Values /\ answer \in HealthAnswers
    <3>1. "health" \in Services /\ info.name \in Pods
      BY DEF Services, Infos
    <3> QED BY <1>2, <2>2, <3>1, HitIs
  <2> HIDE DEF answer, port, endpoint
  <2>4. info.obs \in [Settings -> Values \cup {""}]
    BY DEF Infos
  <2>5. obs \in [Settings -> Values \cup {""}]
    BY <2>2, <2>3, <2>4 DEF Proven
  <2>6. runtime \in HealthStates \cup {"nil", "", "error"}
    BY <2>3 DEF Infos, HealthAnswers
  <2> HIDE DEF obs, runtime
  <2> QED BY <2>1, <2>5, <2>6 DEF Infos
<1> QED BY <1>1, <1>2

LEMMA MetricsType ==
    ASSUME Types, kind = "Deployment", NEW info \in Infos,
           NEW conf \in [Settings -> Seq(Values)]
    PROVE  /\ setMetrics(info, conf) \in Infos
           /\ setMetrics(info, conf).name = info.name
<1> DEFINE S == Hits(info.name, "metrics", conf)
           a == FirstHit(S)
           port == conf["metricsPorts"][a[1]]
           endpoint == conf["metricsEndpoints"][a[2]]
           answer == Answer(info.name, "metrics", port, endpoint)
           obs == Proven(info.obs, "metrics", port, endpoint)
           runtime == IF info.runtime = "nil" THEN "" ELSE info.runtime
           pressure == IF answer = "ok" THEN "" ELSE answer
<1>1. CASE S = {} \/ answer \in {"error", "garbled"}
  BY <1>1 DEF setMetrics
<1>2. CASE S # {} /\ answer \notin {"error", "garbled"}
  <2>1. setMetrics(info, conf) =
            [info EXCEPT !.obs = obs, !.runtime = runtime, !.pressure = pressure]
    BY <1>2 DEF setMetrics
  <2>2. PortsOf["metrics"] = "metricsPorts" /\ EndpointsOf["metrics"] = "metricsEndpoints"
    BY DEF PortsOf, EndpointsOf
  <2>3. port \in Values /\ endpoint \in Values /\ answer \in MetricsAnswers
    <3>1. "metrics" \in Services /\ info.name \in Pods
      BY DEF Services, Infos
    <3> QED BY <1>2, <2>2, <3>1, HitIs
  <2> HIDE DEF answer, port, endpoint
  <2>4. info.obs \in [Settings -> Values \cup {""}]
    BY DEF Infos
  <2>5. obs \in [Settings -> Values \cup {""}]
    BY <2>2, <2>3, <2>4 DEF Proven
  <2>6. runtime \in HealthStates \cup {"nil", "", "error"}
    BY DEF Infos
  <2>7. pressure \in Pressures \cup {""}
    BY <1>2, <2>3 DEF MetricsAnswers
  <2> HIDE DEF obs, runtime, pressure
  <2> QED BY <2>1, <2>5, <2>6, <2>7 DEF Infos
<1> QED BY <1>1, <1>2

LEMMA SameNames ==
    ASSUME NEW q \in Seq(Infos), NEW r \in Seq(Infos), Len(r) = Len(q),
           \A k \in 1..Len(q) : r[k].name = q[k].name, Distinct(q)
    PROVE  Distinct(r)
  BY DEF Distinct

(* The pod in work goes on, or is done with. *)
LEMMA PodGoesOn ==
    ASSUME Types, round # Nil, round.todo # <<>>, NEW info \in Infos,
           info.name = Head(round.todo).name,
           UNCHANGED <<kind, world, annotation, status>>,
           \/ /\ kind = "Deployment"
              /\ round' = [round EXCEPT !.stage = "metrics", !.todo[1] = info]
           \/ round' = [round EXCEPT !.stage = "health", !.todo = Tail(@),
                                     !.done = Append(@, info)]
    PROVE  Types'
<1> DEFINE p == round.done
           q == round.todo
<1>1. /\ DOMAIN round = {"phase", "conf", "todo", "stage", "done"}
      /\ round.conf \in [Settings -> Seq(Values)]
      /\ q \in Seq(Infos) /\ p \in Seq(Infos) /\ Distinct(p \o q)
  BY DEF Types, RoundTypes
<1>2. /\ DOMAIN round' = DOMAIN round /\ round'.conf = round.conf
      /\ kind = "CronJob" => round'.stage = "health"
      /\ \/ round'.todo = [q EXCEPT ![1] = info] /\ round'.done = p
         \/ round'.todo = Tail(q) /\ round'.done = Append(p, info)
  BY <1>1
<1>3. /\ [q EXCEPT ![1] = info] \in Seq(Infos)
      /\ Append(p, info) \in Seq(Infos) /\ Tail(q) \in Seq(Infos)
      /\ (p \o q)[Len(p) + 1] = Head(q) /\ Len(p) + 1 \in 1..Len(p \o q)
      /\ \A r \in {p \o [q EXCEPT ![1] = info], Append(p, info) \o Tail(q)} :
            /\ r \in Seq(Infos) /\ Len(r) = Len(p \o q)
            /\ \A k \in 1..Len(p \o q) :
                r[k] = IF k = Len(p) + 1 THEN info ELSE (p \o q)[k]
  BY <1>1, HeadReplaced
<1>4. round'.todo \in Seq(Infos) /\ round'.done \in Seq(Infos)
  BY <1>1, <1>2, <1>3
<1> DEFINE r == round'.done \o round'.todo
<1>5. r \in {p \o [q EXCEPT ![1] = info], Append(p, info) \o Tail(q)}
  BY <1>2
<1>6. p \o q \in Seq(Infos)
  BY <1>1
<1> HIDE DEF p, q, r
<1>7. Distinct(r)
  <2>1. /\ r \in Seq(Infos) /\ Len(r) = Len(p \o q)
        /\ \A k \in 1..Len(p \o q) :
                r[k] = IF k = Len(p) + 1 THEN info ELSE (p \o q)[k]
    BY <1>3, <1>5
  <2>2. \A k \in 1..Len(p \o q) : r[k].name = (p \o q)[k].name
    BY <1>3, <2>1 DEF q
  <2> QED BY <1>1, <1>6, <2>1, <2>2, SameNames
<1>8. RoundTypes'
  BY <1>1, <1>2, <1>4, <1>7 DEF RoundTypes, Distinct, r
<1> QED BY <1>8 DEF Types, LivePods, DeploymentPods, Distinct

LEMMA InitTypes == Init => Types
<1> SUFFICES ASSUME Init PROVE Types
  OBVIOUS
<1>1. world \in [Pods -> LivePods \cup {Nil}]
  BY DEF Init, Serving, LivePods
<1>2. status.pods = <<>>
  BY DEF Init, NoStatus
<1>3. <<>> \in Seq(Infos) /\ Distinct(<<>>)
  BY DEF Distinct
<1> QED BY <1>1, <1>2, <1>3 DEF Init, Types

(* Every pod is listed once, with nothing known of it. *)
LEMMA BeginTypes ==
    ASSUME Types, RoundBegins
    PROVE  Types'
<1>1. PICK listed \in SetToSeqs(Present) :
        round' = [phase |-> GetAppPhase, conf |-> GetAppObservabilityConf,
                  todo |-> [i \in DOMAIN listed |-> BlankInfo(listed[i])],
                  stage |-> "health", done |-> <<>>]
  BY DEF RoundBegins
<1> DEFINE todo == [i \in DOMAIN listed |-> BlankInfo(listed[i])]
<1>2. IsFiniteSet(Present)
  <2>1. Present \subseteq Pods
    BY DEF Present
  <2> QED BY <2>1, AppsAssumption, FS_Subset
<1>3. /\ listed \in Seq(Present)
      /\ \A i, j \in DOMAIN listed : i # j => listed[i] # listed[j]
  <2>1. listed \in Seq(Present)
    BY <1>2, OrderOfSet
  <2> QED BY <2>1 DEF SetToSeqs
<1>4. \A p \in Present : BlankInfo(p) \in Infos /\ BlankInfo(p).name = p
  <2>1. ASSUME NEW p \in Present
        PROVE  p \in Pods /\ world[p].ready \in BOOLEAN /\ PodPhase(p) \in JobPhases
    <3>1. p \in Pods /\ world[p] \in LivePods
      BY <2>1 DEF Present, Types
    <3> QED BY <3>1 DEF LivePods, JobPods, DeploymentPods, PodPhase, JobPhases
  <2>2. Unproven \in [Settings -> Values \cup {""}]
    BY DEF Unproven
  <2> QED BY <2>1, <2>2 DEF BlankInfo, Infos
<1>5. todo \in Seq(Infos) /\ DOMAIN todo = DOMAIN listed
      /\ \A i \in DOMAIN todo : todo[i].name = listed[i]
  <2>1. \A i \in DOMAIN listed : listed[i] \in Present
    BY <1>3
  <2>2. DOMAIN listed = 1..Len(listed) /\ Len(listed) \in Nat
    BY <1>3
  <2>3. \A i \in 1..Len(listed) : BlankInfo(listed[i]) \in Infos
                                  /\ BlankInfo(listed[i]).name = listed[i]
    BY <1>4, <2>1, <2>2
  <2> QED BY <2>2, <2>3
<1> HIDE DEF todo
<1>6. <<>> \o todo = todo /\ Distinct(todo)
  BY <1>3, <1>5 DEF Distinct
<1>7. /\ DOMAIN round' = {"phase", "conf", "todo", "stage", "done"}
      /\ round'.conf = GetAppObservabilityConf /\ round'.todo = todo
      /\ round'.stage = "health" /\ round'.done = <<>>
  BY <1>1 DEF todo
<1>8. <<>> \in Seq(Infos)
  OBVIOUS
<1>9. RoundTypes'
  BY <1>5, <1>6, <1>7, <1>8, ConfType DEF RoundTypes, Distinct
<1> QED BY <1>9 DEF RoundBegins, Types, LivePods, DeploymentPods, Distinct

(* The head of the list in work. *)
LEMMA HeadType ==
    ASSUME Types, round # Nil, round.todo # <<>>
    PROVE  /\ Head(round.todo) \in Infos /\ Head(round.todo) = round.todo[1]
           /\ round.conf \in [Settings -> Seq(Values)]
           /\ kind # "Deployment" => round.stage = "health"
<1>1. round.todo \in Seq(Infos)
  BY DEF Types, RoundTypes
<1>2. kind \in {"Deployment", "CronJob"}
  BY AnswersAssumption DEF Types
<1> QED BY <1>1, <1>2 DEF Types, RoundTypes

LEMMA StepTypes == Types /\ [Next]_vars => Types'
<1> SUFFICES ASSUME Types, [Next]_vars PROVE Types'
  OBVIOUS
<1> USE DEF Types
<1>1. CASE RoundBegins
  BY <1>1, BeginTypes
<1>2. CASE SkipNotReady
  <2>1. /\ round # Nil /\ round.todo # <<>> /\ round.stage = "health"
        /\ UNCHANGED <<kind, world, annotation, status>>
        /\ round' = [round EXCEPT !.todo = Tail(@),
                                  !.done = Append(@, Head(round.todo))]
    BY <1>2 DEF SkipNotReady, Scraping
  <2>2. round' = [round EXCEPT !.stage = "health", !.todo = Tail(@),
                               !.done = Append(@, Head(round.todo))]
    BY <2>1 DEF RoundTypes
  <2> QED BY <2>1, <2>2, HeadType, PodGoesOn
<1>3. CASE ScrapeHealth
  <2>1. /\ round # Nil /\ round.todo # <<>> /\ kind = "Deployment"
        /\ UNCHANGED <<kind, world, annotation, status>>
        /\ round' = [round EXCEPT !.stage = "metrics",
                                  !.todo[1] = setHealth(@, round.conf)]
    BY <1>3 DEF ScrapeHealth, Scraping, Inspected
  <2> DEFINE info == setHealth(Head(round.todo), round.conf)
  <2>2. round' = [round EXCEPT !.stage = "metrics", !.todo[1] = info]
    BY <2>1, HeadType
  <2>3. info \in Infos /\ info.name = Head(round.todo).name
    BY <2>1, HeadType, HealthType
  <2> HIDE DEF info
  <2> QED BY <2>1, <2>2, <2>3, PodGoesOn
<1>4. CASE ScrapeMetrics
  <2>1. /\ round # Nil /\ round.todo # <<>> /\ round.stage = "metrics"
        /\ UNCHANGED <<kind, world, annotation, status>>
        /\ round' = [round EXCEPT !.stage = "health", !.todo = Tail(@),
               !.done = Append(@, setMetrics(Head(round.todo), round.conf))]
    BY <1>4 DEF ScrapeMetrics, Scraping
  <2> DEFINE info == setMetrics(Head(round.todo), round.conf)
  <2>2. info \in Infos /\ info.name = Head(round.todo).name
    BY <2>1, HeadType, MetricsType
  <2> HIDE DEF info
  <2> QED BY <2>1, <2>2, PodGoesOn DEF info
<1>5. CASE RoundEnds
  <2>1. /\ round # Nil /\ round.todo = <<>> /\ round' = Nil
        /\ status'.pods = round.done
        /\ UNCHANGED <<kind, world, annotation>>
    BY <1>5 DEF RoundEnds
  <2>2. round.done \in Seq(Infos) /\ Distinct(round.done \o round.todo)
    BY <2>1 DEF RoundTypes
  <2>3. round.done \o round.todo = round.done
    BY <2>1, <2>2
  <2> QED BY <2>1, <2>2, <2>3 DEF LivePods, DeploymentPods, Distinct
<1>6. CASE ListFails
  <2>1. /\ round = Nil /\ UNCHANGED <<kind, world, annotation, round>>
        /\ status'.pods = <<>>
    BY <1>6 DEF ListFails, NoStatus
  <2>2. <<>> \in Seq(Infos) /\ Distinct(<<>>)
    BY DEF Distinct
  <2> QED BY <2>1, <2>2 DEF LivePods, DeploymentPods, Distinct
<1>7. CASE RoundLost
  BY <1>7 DEF RoundLost, LivePods, DeploymentPods, Distinct
<1>8. ASSUME NEW p \in Pods, NEW w \in LivePods \cup {Nil}, PodChanges(p, w)
      PROVE  Types'
  <2>1. /\ UNCHANGED <<kind, annotation, status, round>>
        /\ world' = [world EXCEPT ![p] = w]
    BY <1>8 DEF PodChanges
  <2>2. LivePods' = LivePods
    BY <2>1 DEF LivePods
  <2> QED BY <2>1, <2>2 DEF RoundTypes, Distinct
<1>9. ASSUME NEW x \in Annotations, AnnotationChanges(x)
      PROVE  Types'
  BY <1>9 DEF AnnotationChanges, RoundTypes, Distinct, LivePods, DeploymentPods
<1>10. CASE UNCHANGED vars
  BY <1>10 DEF vars, RoundTypes, Distinct, LivePods, DeploymentPods
<1> QED BY <1>1, <1>2, <1>3, <1>4, <1>5, <1>6, <1>7, <1>8, <1>9, <1>10
        DEF Next, Round

(* Whatever changes between two calls of a round, it knows every pod once, *)
(* stores only endpoints that a setting names, and asks no service of the  *)
(* pods of jobs.                                                           *)
THEOREM TypeCorrect == Spec => []TypeOK
<1> QED BY InitTypes, StepTypes, TypesAreOK, PTL DEF Spec

(* The summary of the jobs outlives them: only a newer one replaces it.    *)
THEOREM SummaryKept == Spec => InfoKept
<1>1. ASSUME [Next]_vars, status.info # <<>>
      PROVE  status'.info # <<>>
  <2>1. CASE RoundEnds
    <3>1. status'.info = Info(round.done)
      BY <2>1 DEF RoundEnds
    <3>2. \A a, b : <<a, b>> # <<>>
      OBVIOUS
    <3> QED BY <1>1, <3>1, <3>2 DEF Info
  <2>2. CASE ListFails
    BY <1>1, <2>2 DEF ListFails, NoStatus
  <2>3. CASE status' = status
    BY <1>1, <2>3
  <2>4. RoundEnds \/ ListFails \/ status' = status
    BY <1>1 DEF Next, Round, vars, RoundBegins, SkipNotReady, ScrapeHealth,
                ScrapeMetrics, Scraping, RoundLost, PodChanges, AnnotationChanges
  <2> QED BY <2>1, <2>2, <2>3, <2>4
<1>2. [Next]_vars => [status.info # <<>> => status'.info # <<>>]_vars
  BY <1>1
<1> QED BY <1>2, PTL DEF Spec, InfoKept
=============================================================================
