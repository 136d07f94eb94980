SPECIFICATION Spec
CONSTANTS
    Task = {t1, t2, t3}
    Mortal = {t2}
    Target = {t1, t2, t3}
    InodeLock = {inode}
    SuperLock = {}
    IoLock = {buffer}
    NoTask = NoTask
    Device = Device
PROPERTY ZombieStaysDead
