\* Two captures, two flushes
CONSTANTS
    Captures = {c1, c2}
    Flushes = {poll, save}
SPECIFICATION FairQueueSpec
INVARIANT JournalledOnce
INVARIANT LostOnlyByRefusalOverlapOrCut
PROPERTY QueueDrains
