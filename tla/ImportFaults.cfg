SPECIFICATION FairSpec
CONSTANTS
    Replicas = {r1}
    Optional <- CronJobs
    Kinds <- BothKinds
    Objects <- MixedObjects
    LabelsOf <- MovingLabels
    None = None
    NoMonitor = NoMonitor
    Idle = Idle
    Env = {"delete", "label", "unlabel", "relabel", "crash", "watch", "api"}
    MaxUid = 3
    MaxOps = 4
    MaxFaults = 2
INVARIANT TypeOK
INVARIANT BoundByLabel
PROPERTY DeletedOnlyBySource
PROPERTY BindingImmutable
PROPERTY KeepsThePromise
PROPERTY NoLastingOrphan
\* The users may stop for good: a state without a step is no error.
CHECK_DEADLOCK FALSE
