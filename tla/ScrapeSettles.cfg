SPECIFICATION FairSpec
CONSTANTS
    Kinds = {"Deployment", "CronJob"}
    Pods = {"a", "b"}
    Apps <- TwoApps
    Answers <- SomeAnswers
    Defaults <- Conventions
    Operator <- NoSettings
    Annotations <- SomeAnnotations
    Nil = Nil
    Env = {"annotate", "api"}
    MaxChanges = 2
INVARIANT TypeOK
INVARIANT HealthyIsWitnessed
PROPERTY Rediscovered
PROPERTY ConditionsSettle
PROPERTY JobsSettle
PROPERTY InfoKept
