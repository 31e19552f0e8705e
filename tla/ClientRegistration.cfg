SPECIFICATION APSpec
CONSTANTS
    Operators = {1, 2}
    PublicURL = FALSE
    Attempts = 2
    MaxFaults = 2
    Names = {"a", "b"}
    Accounts <- InstanceAccounts
    Setups <- InstanceSetups
    Realms <- InstanceRealms
    GateMaps <- InstanceGates
    Kinds <- InstanceKinds
    Platform = {"rossoctl"}
INVARIANTS
    ReferencesResolve
    
    PortsFree
    ConfigFitsPod
    PlatformObeyed
PROPERTIES
    
    RegistrationSettles
    InjectedOnce
    
CHECK_DEADLOCK FALSE
