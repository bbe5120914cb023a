SPECIFICATION FairSpec
CONSTANTS
    Pods = {p1, p2}
    Ports = {"9876", "8080"}
    Limits <- SomeLimits
    Nil = Nil
    Foreign = Foreign
    Unset = Unset
    Garbage = Garbage
    Environments <- SomeEnvironments
    Installed <- PlainFirst
    Known <- GrafanaOrBoth
    Deployed <- AllOnOnePort
    Namespace = "apps"
    MaxUid = 2
    MaxOps = 2
    MaxFaults = 1
INVARIANT TypeOK
PROPERTY NeverHandedBack
PROPERTY ResourcesSettle
PROPERTY ConditionsAreTrue
PROPERTY DependentsCollected
\* A hung or undeployable operator, or no CamelMonitor, leaves nothing to do.
CHECK_DEADLOCK FALSE
