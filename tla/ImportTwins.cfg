SPECIFICATION FairSpec
CONSTANTS
    Replicas = {r1, r2}
    Optional <- NoKind
    Kinds <- DeploymentOnly
    Objects <- TwinObjects
    LabelsOf <- TwinLabels
    None = None
    NoMonitor = NoMonitor
    Idle = Idle
    Env = {"label", "crash", "watch"}
    MaxUid = 2
    MaxOps = 4
    MaxFaults = 2
INVARIANT AtMostOneMonitor
PROPERTY EventuallyCovered
\* The users may stop for good: a state without a step is no error.
CHECK_DEADLOCK FALSE
