SPECIFICATION FairSpec
CONSTANTS
    Providers = {main, quarkus}
    TTL = 2
    Nil = Nil
    Env = {"upgrade", "fetch", "restart"}
    MaxVersion = 3
    MaxUpgrades = 2
    MaxFaults = 2
INVARIANT NothingMissed
PROPERTY UpgradeSettles
