\* Tasks that keep running across two of a crash, a stop and a Redis error, each at any step
\* of a save or a load, with room for all of two messages.
SPECIFICATION FairSpec
CONSTANTS
    MaxSize = 2
    MaxMessages = 2
    MaxStops = 1
    MaxCrashes = 1
    MaxFaults = 1
    MaxTroubles = 2
INVARIANTS
    TypeOK
    OneCopy
    SavedSurvives
    SavedIsStored
    NothingLost
PROPERTIES
    FirstInFirstOut
    DeadMessagesGo
    EveryMessageIsSaved
CHECK_DEADLOCK FALSE
