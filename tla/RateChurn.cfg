SPECIFICATION Spec
CONSTANTS
    Pods = {p1, p2}
    AppInfos = 1
    SeriesCounts = {1, 2}
    Percentages <- TwoSources
    Unset = Unset
    Garbage = Garbage
    WarnPerc = 10
    Nil = Nil
    Env = {"restart", "stop", "unready", "metrics", "lost", "list"}
    MaxExchanges = 2
    MaxRounds = 4
    MaxChanges = 1
SYMMETRY AnyOrder
INVARIANT NoFalseAlarm
INVARIANT PercentageOfJoining
INVARIANT SampledOnce
INVARIANT LastIsPast
\* The bounds end every behaviour.
CHECK_DEADLOCK FALSE
