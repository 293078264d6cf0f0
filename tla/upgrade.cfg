CONSTANTS
    s1 = s1
    s2 = s2
    Session = {s1, s2}
    Workloads <- UpgradeWorkloads
    Sync = {y1, y2}
    OpcuaSync = {y1}
    NewSync = {y2}
    Latest = 3
    CmMigration = 3
    TemplateBackfill = 3
    Compatible <- Supported
    MaxFaults = 1
    None = None
SPECIFICATION FairSpec
INVARIANT NoSecretLost
PROPERTY OpsHasCertManager
PROPERTY NoDowngrade
PROPERTY Converges
