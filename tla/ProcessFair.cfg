SPECIFICATION FairSpec
CONSTANTS
    N = 3
    MaxPid = 4
    Signals = {9}
    Handled = {1}
    WaitArgs <- ChildOrGroup
    KillArgs = {2}
    Groups = {3}
INVARIANT TypeOK
INVARIANT UniquePids
INVARIANT FatherAlive
INVARIANT DeathNoticed
INVARIANT LeaderLeads
 
