SPECIFICATION CalmSpec
CONSTANTS
    None = None
    Payload = {p1, p2}
    Environment = {"production", "test", "archive"}
    Revision = {"r1", "r2"}
    Settings <- Mixed
    EnvOf <- MCEnvOf
    RevOf <- MCRevOf
    ProviderOf <- MCProviderOf
    MaxThreads = 1
    MaxWindow = 1
    MaxCrash = 1
SYMMETRY Symmetry
CHECK_DEADLOCK FALSE
INVARIANTS TypeOK OnePlace RoutedWithinRevision NoneForgotten
PROPERTIES AtMostOnceDelivery
