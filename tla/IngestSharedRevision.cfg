SPECIFICATION Spec
CONSTANTS
    None = None
    Payload = {p1, p2}
    Environment = {"production", "staging"}
    Revision = {"r1"}
    Settings <- SharedRevision
    EnvOf <- MCEnvOf
    RevOf <- MCRevOf
    ProviderOf <- MCProviderOf
    MaxThreads = 1
    MaxWindow = 1
    MaxCrash = 0
SYMMETRY Symmetry
INVARIANTS StoredWhereSent
CHECK_DEADLOCK FALSE
