CONSTANTS
    t1 = t1
    t2 = t2
    Task = {t1, t2}
    Nobody = Nobody
    NBuf = 2
    NBlock = 3
    NrRequest = 2
    Value = {0}
    Zero = 0
    Use = {"read", "file_write", "block_write", "new_block", "sync"}
    MaxErrors = 1
SPECIFICATION Spec
SYMMETRY Symmetry
INVARIANT TypeOK
INVARIANT LockOwned
INVARIANT NoDuplicate
INVARIANT HoldersExact
