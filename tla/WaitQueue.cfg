SPECIFICATION FairSpec
CONSTANTS
    Task = {t1, t2, t3}
    Mortal = {t2}
    Target = {t1}
    InodeLock = {inode}
    SuperLock = {}
    IoLock = {buffer}
    NoTask = NoTask
    Device = Device
INVARIANT TypeOK
INVARIANT NoSleeperCutOff
INVARIANT FreeLockHasWaker
 
