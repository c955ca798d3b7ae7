CONSTANTS
    r1 = r1
    r2 = r2
    l1 = l1
    l2 = l2
    NoFile = NoFile
    OtherFile = OtherFile
    NoGoal = NoGoal
    None = None
    Recorders <- MCRecorders
    Listeners <- MCListeners
    BigEvents <- MCBigEvents
    Goals <- MCGoals
    Workloads <- MCWorkloads
    EventMax = 2
    Backlog = 1
    CallMax = 2
SPECIFICATION FairSpec
CHECK_DEADLOCK FALSE
INVARIANTS CollectedInOrder OkEventsKept AtMostOneLate
PROPERTIES RecordEnds CollectEnds
