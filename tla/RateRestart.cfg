SPECIFICATION Spec
CONSTANTS
    Pods = {p1, p2}
    AppInfos = 1
    SeriesCounts = {1}
    Percentages <- Defaults
    Unset = Unset
    Garbage = Garbage
    WarnPerc = 10
    Nil = Nil
    Env = {"restart"}
    MaxExchanges = 4
    MaxRounds = 3
    MaxChanges = 1
INVARIANT PercentageInRange
\* The bounds end every behaviour.
CHECK_DEADLOCK FALSE
