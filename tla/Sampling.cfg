SPECIFICATION SamplingSpec
CONSTANTS
    MinPoll = 1
    MaxPoll = 2
    UnknownPoll = 1
    Heartbeat = 2
    MaxFixAge = 2
    Spacing = 12
    Enter = 3
    Exit = 1
    Confirm = 2
    BatchMin = 2
    BatchMax = 1
    FlushMoving = 1
    FlushStationary = 2
    QueueCap = 2
    TimeMod = 9
    Speeds <- MCSpeeds
    NaN <- MCNaN
    Places = {p1, p2}
    MaxStall = 1
    MaxPost = 1
    MaxStuck = 3
SYMMETRY MCSymmetry
INVARIANTS SampledOnTime
PROPERTIES SwitchesConfirmed EnqueuesFresh
