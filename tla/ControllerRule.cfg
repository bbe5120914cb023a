SPECIFICATION FairSpec
CONSTANTS
    Monitors = {m1}
    Phases = {"Running", "Error"}
    Runtimes = {"r1"}
    Nil = Nil
    NotANumber = NotANumber
    Annotations <- OnlyDefault
    InitialWorlds <- NotStarted
    DefaultSeconds = 1
    Second = 3
    HalfRange = 8
    RuleWanted = TRUE
    Env = {"api"}
    MaxIncarnation = 1
    MaxChanges = 0
    MaxFaults = 1
    MaxLag = 2
PROPERTY RuleWithActions
