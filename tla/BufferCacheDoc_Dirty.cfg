CONSTANTS
    t1 = t1
    t2 = t2
    Task = {t1, t2}
    Nobody = Nobody
    NBuf = 2
    NBlock = 2
    NrRequest = 2
    Value = {0, 1}
    Zero = 0
    Use = {"read", "block_write", "sync"}
    MaxErrors = 0
SPECIFICATION Spec
SYMMETRY Symmetry
PROPERTY DirtyIsWritten
