SPECIFICATION FairSpec
CONSTANTS
    N = 2
    MaxInt = 3
    InitPriority = 1
    Increment = {1}
    MaxAlarm = 1
    Signals = {9, 14}
    Mask = {{}, {9, 14}}
    Alive = {1, 2}
    Mortal = {1, 2}
INVARIANT TypeOK
 
 
PROPERTY AlarmEndsPause
 
