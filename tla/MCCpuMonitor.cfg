SPECIFICATION Spec
CONSTANTS
    Tids = {1, 2}
    NoTid = NoTid
    Tick = 2
    Period = 100
    Slack = 6
    Shares <- MCShares
    Wakes <- MCWakes
    Delays <- MCDelays
    Modulus = 65536
    MaxTime = 400
    MaxSamples = 3
    MaxDelays = 1
    MaxExits = 1
    MaxStarts = 2
INVARIANTS
    TypeOK
    AlarmsJustified
    SpinnersCaught
CHECK_DEADLOCK FALSE
