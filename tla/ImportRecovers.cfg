SPECIFICATION FairSpec
CONSTANTS
    Replicas = {r1, r2}
    Optional <- CronJobs
    Kinds <- CronJobs
    Objects <- LoneCronJob
    LabelsOf <- LoneLabels
    None = None
    NoMonitor = NoMonitor
    Idle = Idle
    Env = {"delete", "label", "unlabel", "crash", "watch", "discovery"}
    MaxUid = 2
    MaxOps = 4
    MaxFaults = 2
PROPERTY Converges
PROPERTY EventuallyCovered
\* The users may stop for good: a state without a step is no error.
CHECK_DEADLOCK FALSE
