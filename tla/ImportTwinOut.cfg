SPECIFICATION FairSpec
CONSTANTS
    Replicas = {r1}
    Optional <- NoKind
    Kinds <- DeploymentOnly
    Objects <- TwinObjects
    LabelsOf <- TwinLabels
    None = None
    NoMonitor = NoMonitor
    Idle = Idle
    Env = {"unlabel"}
    MaxUid = 2
    MaxOps = 3
    MaxFaults = 0
PROPERTY EventuallyReleased
\* The users may stop for good: a state without a step is no error.
CHECK_DEADLOCK FALSE
