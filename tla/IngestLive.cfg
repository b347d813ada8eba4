SPECIFICATION FairSpec
CONSTANTS
    None = None
    Payload = {p1, p2}
    Environment = {"production"}
    Revision = {"r1"}
    Settings <- Single
    EnvOf <- MCEnvOf
    RevOf <- MCRevOf
    ProviderOf <- MCProviderOf
    MaxThreads = 1
    MaxWindow = 2
    MaxCrash = 1
PROPERTIES PushEnds QueueReclaimed
\* The system may stop: push waits for a discarded job, every payload is settled
\* or waits for push, and the clock has reached its bound.
CHECK_DEADLOCK FALSE
