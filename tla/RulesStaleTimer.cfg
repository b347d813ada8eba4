SPECIFICATION Spec
CONSTANTS
    None = None
    Rules = 3
    Groups = 2
    Event = {"click"}
    Trigger = {"t1"}
    GroupOf <- MCGroupOf
    TriggerOf <- GlobalTrigger
    EventsOf <- GlobalEvents
    ClearAfter <- ClearAll
    Interval <- MCInterval
    Immediate = {}
    Watched = {"t1"}
    MaxTime = 2
    MaxOccur = 2
    MaxChange = 1
PROPERTIES HeldUntilCleared
CHECK_DEADLOCK FALSE
