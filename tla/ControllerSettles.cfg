SPECIFICATION FairSpec
CONSTANTS
    Monitors = {m1, m2}
    Phases = {"Running"}
    Runtimes = {"r1"}
    Nil = Nil
    NotANumber = NotANumber
    Annotations <- SomeAnnotations
    InitialWorlds <- Running
    DefaultSeconds = 1
    Second = 3
    HalfRange = 8
    RuleWanted = TRUE
    Env = {"delete", "owner", "annotate", "api", "watch", "crash", "stale"}
    MaxIncarnation = 2
    MaxChanges = 1
    MaxFaults = 1
    MaxLag = 2
INVARIANT TypeOK
INVARIANT NeverForgotten
PROPERTY InfoOnlyFromScrape
PROPERTY StatusAsPromised
PROPERTY StatusSettles
PROPERTY PolledForever
PROPERTY DeletedDrains
\* Deleted CamelMonitors leave nothing to do.
CHECK_DEADLOCK FALSE
