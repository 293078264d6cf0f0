CONSTANTS
    broker = broker
    listener = listener
    profile = profile
    Session = {s1}
    Arguments <- AnyCommand
    Default = {broker, listener, profile}
    DependsOn <- Resources3
    Guided = TRUE
    StaleIndex = FALSE
    MaxFaults = 3
SPECIFICATION FairSpec
INVARIANTS TrustIsBacked InstanceLinked CompleteIsWhole
PROPERTIES KeepsDependencies GuidanceConverges
