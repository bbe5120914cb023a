SPECIFICATION FairSpec
CONSTANTS
    CSVs = {c1, c2}
    Nil = Nil
    Env = {"touch", "upgrade", "uninstall", "vanish", "redeploy", "list", "api", "crash"}
    MaxUid = 3
    MaxOps = 4
    MaxFaults = 3
INVARIANT TypeOK
INVARIANT PluginHasBackend
PROPERTY InstalledSettles
PROPERTY UninstallSettles
\* An operator that was uninstalled stops for good.
CHECK_DEADLOCK FALSE
