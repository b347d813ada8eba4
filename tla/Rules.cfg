SPECIFICATION FairSpec
CONSTANTS
    None = None
    Rules = 3
    Groups = 2
    Event = {"click", "scroll", "load"}
    Trigger = {"t1", "t2"}
    GroupOf <- MCGroupOf
    TriggerOf <- TwoTriggers
    EventsOf <- TwoEvents
    ClearAfter <- ClearSome
    Interval <- MCInterval
    Immediate = {"scroll"}
    Watched = {"t1", "t2"}
    MaxTime = 2
    MaxOccur = 2
    MaxChange = 1
CHECK_DEADLOCK FALSE
INVARIANTS AppliedPerOccurrence NothingMissed EveryGroupServed
PROPERTIES OwnHeldUntilCleared EventCleared
