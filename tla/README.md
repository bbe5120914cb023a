# Camel Monitor Operator: TLA+ models, checks and proofs

The Camel Monitor Operator is a Kubernetes operator. It finds Camel
applications by a label on Deployments and CronJobs, keeps one `CamelMonitor`
custom resource per application, polls the application's pods over HTTP for
health and metrics, and writes what it finds into the status of the
`CamelMonitor`. On OpenShift it also installs a console plugin. This directory
models its core logic in TLA+, checks the models with TLC and proves some of
the results with TLAPS.

## The system and its hard parts

| Component | State it keeps | Operations | What is hard |
|---|---|---|---|
| Synthetic import (`pkg/controller/synthetic/synthetic.go`, the `CamelMonitor()` builders of the two adapters) | none of its own; informer stores, cached client | `onAdd`, `onDelete`, called by one goroutine per informer, on every replica | decisions from a stale cache, events lost in a crash or a broken watch, errors that are only logged, name collisions, replicas that act twice |
| CamelMonitor controller (`pkg/controller/camel_monitor`) | work queue, timers, the global `actions` | `Reconcile`, `monitorAction.Handle`, `update` | merge patches against stale copies, errors and retries, polling intervals that are not positive, deletion and recreation during a round |
| Pod scraping (`synthetic_support.go`, `synthetic_cronjob.go`) | proven ports and endpoints, the summary of jobs, in the status | `getPods`, `setHealth`, `setMetrics`, `setMonitoringCondition`, the CronJob's conditions | pods that change between two calls of a round, stale endpoints, answers that do not parse, jobs that were cleaned up |
| Exchange success rate (`monitor.go`) | last counters in the status | `getInfo`, `getSLIExchangeSuccessRate` | cumulative counters that reset or leave the sum, a status read from a cache that is behind |
| Version upgrade check (`releases.go`, `checkVersionUpgrade`) | one metadata cache per runtime provider | `GetCamel*Metadata` | stale cache, failed fetches |
| Console plugin (`pkg/controller/console`) | none; five resources in the cluster | `Reconcile`, `isUninstalling`, `handleUninstall`, `ensure*` | partial failure of five writes, uninstallation racing reconciliation |
| PodMonitor, Grafana dashboard (`prometheus.go`, `grafana.go`) | resources owned by the `CamelMonitor`; which of Prometheus and Grafana the process found when it started | create or update after a cached read | conflicts, requests that outlive a crashed leader, owners that are replaced, CRDs that come and go, pods that disagree |
| Platform settings, operator start-up (`pkg/platform`, `pkg/cmd/operator`) | environment variables | parsed once, with defaults and annotations that win | garbage and empty values |
| API types, generated client, manifests | | | data, or generated |

The import creates and deletes `CamelMonitor`s; the controller learns of them
through the manager's cache and only patches their status; Kubernetes' garbage
collector deletes them when their owner is gone. The two sides share nothing
but the API server, so that each is modelled with the other as part of its
environment. A round of the controller calls the scraping code, the rate, the
upgrade check and the writing of resources in sequence; these have models of
their own in which a round is a loop, because what makes them hard is what they
carry from one round to the next.

## Modules

| Module | Models | State and actions |
|---|---|---|
| `ImportPromise` | what the import promises, without informers, caches, queues, replicas and crashes | workloads, `CamelMonitor`s, and the claims and withdrawals that are pending between them; `SyntheticImport` implements it |
| `SyntheticImport` | the import, on any number of replicas | `obj`, `monitor`: the API server; per replica and kind `seen`, `inbox`, `handler`: an informer's store, pending notifications and the `Create` that `onAdd` is about to send; `mcache`, `mwatch`: the cached client and what it has not seen. `OnAddNew`, `OnAddRevision` and `OnAddBound` are the three cases of `onAdd`, each decided on the cache as it is (`Decides`; `misread` remembers the workloads whose last add the server would have decided otherwise), `CreateMonitor` is `createMonitor`, `OnDelete` and `OnTombstone` are the two cases of `DeleteFunc`; `Start` discovers the kinds a replica serves |
| `MonitorController` | queue, `Reconcile`, `Handle`, `update` | a round is three steps (`ReconcileBegin`, a `Handle...` step, a `Finish...` step), so that anything may happen between reading the `CamelMonitor`, looking at the workload and patching |
| `StatusPromise` | what the controller promises about statuses, without caches, queues, stale copies, errors and crashes | the statuses, the workload behind each, and what was found and is to be written; `MonitorController` implements it (`Found` is what the patch of the round in work sends) |
| `PodScrape` | one application's rounds, of a Deployment or a CronJob | one step per HTTP search (`ScrapeHealth`, `ScrapeMetrics`), `RoundEnds` computes the conditions; the pods of a CronJob are looked at by phase only (`CronJobConditions`, `Info`) |
| `MonitorResources` | PodMonitor and dashboard of one `CamelMonitor` | a round is the cached read of the `CamelMonitor`, then for each resource a cached `Get` and the `Create` or `Update`, then the status; `late` is the request a crashed process has sent and the server has not seen |
| `PlatformSettings` | settings, defaults and the annotations over them; when the operator starts at all and which namespaces it watches | operators only; used by `PodScrape`, `ExchangeRate` and `MonitorResources` |
| `ExchangeRate` | counters and success rate over rounds | `Round` is `getPods`, `getInfo` and `getSLIExchangeSuccessRate` against the cached status, and the merge patch; any pods may be missed, ready or not. `statuses` holds the versions of the status from the cached one to the server's. The pods exchange, join, stop, restart and change readiness |
| `ReleaseCache` | metadata cache and `UpgradeAvailable` | time is kept as ages that stop at the TTL |
| `ConsolePlugin` | the console controller | one step per call, except that the `Get` and the write of `createOrUpdate` are one: a change in between makes the write fail, which `CallFails` covers; CSVs, the operator's Deployment and the garbage collector are its environment |
| `MC...` | instances for TLC | small sets of workloads, labels, annotations, ports, environments |
| `DataLemmas`, `...Proofs` | lemmas and theorems | |

`PROJECT.json` maps every definition to the lines it stands for. Data are
abstracted to what the properties tell apart: a status is its phase, pods,
runtime info and the pods its conditions were computed from; a workload is its
UID and label; a manifest is ours or not; a version is a number. Definitions
whose name ends in an underscore and a word are mutants: plausible bugs that a
property has to detect when they replace the definition before the underscore.

Choices worth knowing:

- Names of `CamelMonitor`s are sequences of segments, so that a suffixed name
  (`<label>-<object>`) is a concatenation and can collide.
- A label selector on the manager's cache turns labelling into an add and
  unlabelling into a delete; a change of the label's value is an update, for
  which no handler is registered.
- The cached client answers at once, however old its answer is: no handler and no
  round waits for its cache, except for the first list of a kind.
- A relist after a broken watch reports disappeared objects as
  `DeletedFinalStateUnknown`, which `DeleteFunc` drops.
- `MonitorController` models Deployment-backed `CamelMonitor`s (a CronJob's
  conditions also write the info). Its `annotation` is the polling annotation
  that the target of a round carries. `time.Duration` is an integer that wraps
  at `HalfRange`.
- Lists of pods come in any order, as the cache gives no guarantee.
- The first read of a kind through the manager's cache waits until its informer
  has listed. `Hung` in `MonitorResources` is the worker waiting for a kind whose
  CRD has gone.
- At its start the process looks for the kinds `Prometheus` and `Grafana`, not for
  those it writes: what it finds (`known` in `Start`) and the CRDs there are
  (`crds`) are independent of each other.
- An application answers where its services are with what they say, and anywhere
  else with 404, a failure or a page (`other` in `PodScrape`); only 404 and a
  refused connection let the search go on.
- The controllers run one worker, as `MaxConcurrentReconciles` is not set.
- `Env` names what the environment does in an instance; every bound is a
  constant whose name starts with `Max`.

## Runs

| Run | Shows |
|---|---|
| `import_faults` | the import implements `ImportPromise` (`KeepsThePromise`); with distinct labels, no combination of relabelling, lost events, failed calls, crashes and stale reads binds a `CamelMonitor` to a foreign workload (`BoundByLabel`), deletes a foreign one (`DeletedOnlyBySource`), rebinds one (`BindingImmutable`) or leaves an orphan (`NoLastingOrphan`) |
| `import_recovers` | two replicas: without faults workloads and `CamelMonitor`s agree in the end unless the last add of a workload was decided wrongly on an old cache (`Converges`), though either replica may create or delete what the other just did; crashes, broken watches and a failed discovery lose no labelled workload whose kind is served as long as none was deleted or so misread (`EventuallyCovered`) |
| `import_twins` | two Deployments under one label, seen by two replicas, never get two `CamelMonitor`s each (`AtMostOneMonitor`), and get one each unless the second's add was decided before the cache had the first (`EventuallyCovered`) |
| `import_twin_out` | violation: unlabelling the twin with the suffixed `CamelMonitor` deletes the other one's |
| `controller_settles` | a known `CamelMonitor` is queued, in work, on a timer, or parked by its interval (`NeverForgotten`); its info changes only to what was scraped (`InfoOnlyFromScrape`); the controller implements `StatusPromise` (`StatusAsPromised`); the status settles on the workload (`StatusSettles`), none is starved or dropped (`PolledForever`), a deleted one leaves queue and timers (`DeletedDrains`) |
| `controller_rule` | violation: a PrometheusRule that fails in the first round is never written |
| `scrape_settles` | `Healthy` is only claimed for pods seen UP in that round (`HealthyIsWitnessed`); a moved application is found again (`Rediscovered`); the conditions of Deployments (`ConditionsSettle`) and CronJobs (`JobsSettle`) settle on the truth for every mix of UP, DOWN, failing and unreadable pods and of memory, CPU and no pressure; no round loses the summary of the jobs (`InfoKept`) |
| `rate_churn` | restarts, readiness, failed scrapes and old statuses raise no alarm by themselves if no threshold is negative (`NoFalseAlarm`); the percentage is one while pods only join and none that has counted goes unscraped (`PercentageOfJoining`); exchanges are sampled once unless one that has counted goes unscraped or a round has an old status (`SampledOnce`); the last exchange is a time that was (`LastIsPast`) |
| `rate_restart` | violation: after a restart an interval has more failures than exchanges |
| `console_lifecycle` | no plugin without backend (`PluginHasBackend`), all five resources in the end (`InstalledSettles`), no plugin while the last CSV is deleted (`UninstallSettles`) |
| `release_settles` | no release is overlooked for longer than the TTL (`NothingMissed`), the condition settles (`UpgradeSettles`) |
| `resources_settle` | what is wanted is written, owned and true in the end, whoever wrote before (`ResourcesSettle`); no step gives a resource back to an owner that was replaced (`NeverHandedBack`); a True condition is about a resource that is there (`ConditionsAreTrue`); the resources of a deleted `CamelMonitor` go (`DependentsCollected`) |

Bounds. The properties relate at most two actors, so two workloads (or
`CamelMonitor`s, pods, CSVs, providers) are enough to interleave; two or three
UIDs or incarnations allow one recreation next to another object; four or five
user steps allow label, unlabel, delete and create in any order, and one or two
faults meet each of them. `Second = 3` and `HalfRange = 8` make one annotation
positive, one zero, one negative and one overflow. `InitialWorlds` says which
workloads run already when the operator is installed. In `scrape_settles` the
pods start with one version of the application, and two changes are enough to
mix versions, lose readiness or an answer, and recover; its application that
follows Camel's convention fails anywhere else, the other one says 404. In
`resources_settle` the application serves one port, and two changes make its
pods disagree, take a CRD away or deploy the operator with other settings; an
operator that starts finds Grafana, and Prometheus or not (`Known`). In
`rate_churn` two exchanges, four rounds and one change let an exchange be
counted again after a missed scrape; the percentage leaves 0..100 by a missed
scrape with three exchanges only, so that there the theorem carries more than
the run. A TTL of 2 distinguishes young, older and expired. `import_twins` is a
small space because only creations, labels and faults happen in it: unlabelling
is the subject of `import_twin_out`.

Fairness. A running goroutine is scheduled again (`HandlerStep`, `Relist`,
`Worker`, `Reconcile`, `Round`), a connected watch delivers (`CacheUpdate`,
`MonitorCacheUpdate`), timers fire, time passes, the kubelet restarts the
operator, and Kubernetes' garbage collector runs. In `MonitorResources` the
cluster (watches, requests in flight, garbage collector, kubelet) is fair as a
whole, which is less than fairness of each. Users and faults have no
fairness; faults are bounded, so that "in the end" means "once they stop".
Deadlock is not checked where users or OLM may stop for good.

## What the code does against its own words

Three are shown by runs (`findings` in `PROJECT.json`): `onDelete` deletes by
label and not by the object; `actions` is set before the PrometheusRule is
written; the success percentage leaves 0..100 after a restart.

Others are steps of the models, excluded by the guard or condition of a
property and listed under `hazards`:

- `onAdd` reads a cache that may be behind (`synthetic.go:90`, `95`, `158-163`). A
  workload that is unlabelled and labelled again, or deleted and created again,
  before the cache has seen its `CamelMonitor` go, is taken as imported already;
  the second of two twins, always when one initial list brings both, finds no
  `CamelMonitor`, fails with AlreadyExists and is dropped (`:113-117`). Either
  stays without a `CamelMonitor` until it is labelled anew or the operator starts
  again: a relist of a workload the informer knows is an update, for which there
  is no handler (`misread` in `Converges` and `EventuallyCovered`). Two replicas
  that are behind each other are caught up by the late one's own events;
- a `Create` that fails is not retried (`import_faults` has it, the runs about
  coverage do not);
- a label removed while the operator is down leaves its `CamelMonitor`
  (`Converges` holds for `faults = 0` only);
- a workload recreated before its predecessor's `CamelMonitor` is collected is
  taken as imported already (`NothingDeleted` in `EventuallyCovered`);
- a place whose body does not parse is stored as the health endpoint: an
  application with a page where its health is not is asked there for ever, and a
  service behind a failing endpoint is not reached by the search (`Uniform` and
  `Findable` in `Rediscovered` and `ConditionsSettle`);
- a pod that was not scraped in one round, because it was not ready or because the
  search for its metrics failed, leaves the sum and counts its exchanges again
  when it comes back, and so does an interval whose round has an old status in its
  cache, as after a quick retry (`monitor.go:113`; `churn` in `SampledOnce`). A
  missed pod also makes the failures fall while others' totals rise, so that the
  percentage leaves 0..100 without a restart (`churn` in `PercentageOfJoining`);
- Error is reported above the warning percentage, Warning above the error one;
- two series of the last-exchange timestamp are added up (`LastIsPast` is about
  one series);
- pods that disagree about their metrics port make every round write another
  content (`Serves` in `ResourcesSettle`);
- a CRD that is removed after the start of the operator may hang its only worker
  (`Hung` in `Polled`), one that is installed later is ignored;
- a CSV list that fails during an uninstallation keeps the plugin (`blind` in
  `UninstallSettles`), and the removal of the CSV itself recreates it.

## Proofs

Every theorem holds for any values of the constants that satisfy the named
`ASSUME`s of its module (finite sets, special values outside the domains,
natural bounds); TLC evaluates those in every run.

| Module | Theorem | Establishes |
|---|---|---|
| `SyntheticImportProofs` | `TypeCorrect`, `LabelBinding`, `SourceDeletion` | `TypeOK`; `BoundByLabel` and `DeletedOnlyBySource` for unique labels |
| | `ImportImplementsPromise`, `BindingHolds` | `KeepsThePromise`: every step of the import is a step of `ImportPromise` or a stutter; `BindingImmutable`. Neither needs unique labels |
| | `OneMonitorEach` | `AtMostOneMonitor`, if workloads keep their labels, and labels are unique or no workload is deleted (`StableLabels`) |
| `MonitorControllerProofs` | `TypeCorrect`, `NothingForgotten`, `InfoFromScrape` | `TypeOK`, `NeverForgotten`, `InfoOnlyFromScrape` |
| | `StatusPromised` | `StatusAsPromised`: every step of the controller is a step of `StatusPromise` or a stutter |
| `PodScrapeProofs` | `TypeCorrect`, `HealthyWitnessed`, `SummaryKept` | `TypeOK`, `HealthyIsWitnessed`, `InfoKept` |
| `ExchangeRateProofs` | `NeverAFalseAlarm`, `PercentageWhileJoining`, `NoExchangeTwice`, `LastExchangeIsPast` | `NoFalseAlarm`, `PercentageOfJoining`, `SampledOnce`, `LastIsPast` |
| `MonitorResourcesProofs` | `TypeCorrect`, `OwnerNeverHandedBack` | `TypeOK`, `NeverHandedBack` |
| `ReleaseCacheProofs` | `NoReleaseMissed` | `NothingMissed` |
| `ConsolePluginProofs` | `TypeCorrect`, `BackendFirst` | `TypeOK`, `PluginHasBackend` |

Few of these invariants are inductive. What each proof adds:

- `BoundByLabel`: a `Create` in flight, an event in an inbox, an entry of the
  cache or of its watch could each bring in a wrong binding. `IInv` adds that
  each of them carries a label of the object it names: the names in `handler`,
  the labels of `inbox` and `seen`, and the bindings in `mcache` and `mwatch`.
  With unique labels a cached `CamelMonitor` under the label of an event was
  then imported from the same object, so that `OnAddRevision` is never enabled.
- `ImportImplementsPromise`: the refinement mapping takes the claims from the adds
  that wait for a handler and the creates in flight (`PendingClaims`), and the
  withdrawals from the deletes that wait (`PendingWithdrawals`). What an informer
  announces has to be what the workload is or was: `Mirrors` says that the store
  of an informer that watches equals the selected workloads.
- `AtMostOneMonitor`: what a handler asks for depends on what the cache said
  when it looked. `SInv` follows a workload's label through every place that
  mentions the workload by its uid: a notification, a store, a `Create` in flight
  or a `CamelMonitor` with the uid of the present workload names its present
  label (`Reported`, `Remembered`), or its revision name while the label is bound
  to another workload (`Claimed`, `Settled`). A label once taken stays taken: with
  unique labels it never is, and where nothing is deleted no `CamelMonitor` goes,
  so that what a cache holds is true, however far behind it is (`CachedIsSo`).
  `StableLabels` is needed: no update of a workload is handled, so a relabelled
  one keeps its old `CamelMonitor` and gets a second one after the next restart.
  `import_twins` is an instance of it (no deletion, shared labels).
- `NeverForgotten` and `InfoOnlyFromScrape`: `TargetInfo` says that the target of
  a round keeps the info of its base unless it scraped another, from which the
  merge patch can only send a scraped one.
- `StatusPromised`: in the abstract view a round that has looked holds the fields
  in which its target differs from its base. `NotYet` says that a round has found
  nothing before `Handle` runs. `SentIsFound` is the argument about `Handle`: a
  target, complete or partial, differs from the base only in fields of that one
  look (an info it did not scrape is the base's, so it is not sent).
  `WritePromised` is the argument about the merge patch: on whatever status the
  server has by then, another incarnation's included, the fields sent are
  replaced and the others kept.
- `HealthyIsWitnessed`: `RoundOK` follows one round. The pods still to come have
  not been asked (`Unasked`), and one that says UP was ready and answered on a
  port of its application (`Witnessed`). Metrics never make a pod UP.
- `TypeOK` of `PodScrape`: an endpoint in a status was found by a search, and a
  search only returns what a setting or an annotation lists. That a round knows
  every pod once needs the pods it has done and those it has to do together.
- `PercentageOfJoining`, `SampledOnce`, `NoFalseAlarm`, `LastIsPast` speak of every
  version of the status from the cached one to the server's, and so do their
  invariants, because a merge patch mixes fields of the base, the target and the
  server's version. What was reported, and what the pods count now beyond the
  server's status, are together no more than the exchanges there were, as long as
  no counter was missed and no base was old (`Accounted`); while pods only join
  and are scraped, each has since any version of the status failed between zero
  and as many exchanges as it had (`Joining`); no pod and no version counts a
  failure before one happens (`NoFailures`) and no time is ahead of the exchanges
  (`NothingAhead`). `RoundStep` and `PatchStep` are the argument about a round.
- `NeverHandedBack`: a round, or a request in flight, may still work for a
  predecessor of the present `CamelMonitor`. `KnowsOwner` says that once anything
  was written for the present one, cache and round know of no other;
  `LateKeepsOwner` that an update in flight which the server would still take
  was begun for it. They rest on rounds that take their `CamelMonitor` from the
  cache (`RoundFromCache`), on uids that are never used twice (`UidsGiven`) and
  on a crash that ends the round (`DownHasNoRound`).
- `NothingMissed`: versions come out in turn (`InTurn`), and what the cached
  metadata does not know is no older than the metadata (`Reflected`), which
  expire at the TTL.
- `PluginHasBackend`: while Reconcile writes one resource, those before it in its
  order are there (`InOrder`), since they go only with their owner and the first
  operator Deployment is still there (`FirstIsFirst`, `OwnerWasThere`).

`DataLemmas` holds what several proofs need about sequences (`Append`, `Tail`,
`\o`, the sequences of a set) and about sums. A sum over pods (`SumFunction`) is a
recursive function on finite sets, and induction over it takes an operator as a
parameter; the lemmas avoid it by taking the smallest subset at which a claim
fails (`SmallestSubset`, from the well-foundedness of strict inclusion): a sum of
natural numbers is one, it grows with its terms, and it changes by as much as the
one term that changes. Which element the recursion chooses first plays no part.

Every safety invariant and action property of the runs that pass is proved. Only
model-checked: every liveness property, `NoLastingOrphan` included, and with them
every fairness argument (out of the prover's reach, like `ENABLED`), and the three
violations. Assumptions that the proofs added are `SettingsAssumption` (settings
are lists of strings) and in `RateAssumption` that thresholds are numbers, unset
or garbage, and that `Nil` is no record. No module declares a `RECURSIVE`
operator.

## Not modelled

The generated client, manifests, Helm chart, build tools and end-to-end tests
have no logic of their own. The text of environment variables and of the
Prometheus format, the JSON of dashboards (but for the values they depend on)
and the wording of messages and conditions are data without effect on control.
Leader election, probes and metrics servers are the manager library's: of the
leader-elected controllers one runs at a time, after a crash with what the old
one has sent still in flight (`late`).

Left out of a module that models the code around it: an unknown runtime
provider (its condition is always Unknown) and metadata without a release
(`ReleaseCache`); the conditions and info of CronJobs in `MonitorController`,
which has Deployments only (`PodScrape` has both); more than one namespace, and
with it where the one PrometheusRule ends up.

## What is left

- One module in which import, controller and resources share an API server. Each
  has the others' effects as environment steps now, so what it would add is that
  those environments are no wider or narrower than needed.
- Abstract specifications of the resources and of the console plugin, as
  `ImportPromise` is of the import and `StatusPromise` of the controller, and
  theorems that they are implemented.
- Thresholds: a statement of which order of warning and error percentage the
  operator means, which neither code nor documentation makes.
