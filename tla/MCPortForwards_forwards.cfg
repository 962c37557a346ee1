SPECIFICATION FairSpec
CONSTANTS
    Ports = {1}
    HostPorts = {1, 2}
    InitialForwards <- FewInitial
    MaxCalls = 2
    MaxDrops = 1
    MaxPersistFails = 1
    MayClose = TRUE
    None = None
INVARIANTS
    TypeOK
    PermissionIsManaged
    ListenerIsKnown
    StateIsLatest
    TroubleIsItsOwn
    NoForwardLoop
    RegistryIsCurrent
PROPERTIES
    KeepsPermissions
    MutationsEnd
    InitialIsSettled
CHECK_DEADLOCK FALSE
