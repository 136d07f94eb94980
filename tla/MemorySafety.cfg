SPECIFICATION Spec
CONSTANTS
    NProc = 2
    NFrame = 9
    Page = {1, 2, 3}
    FilePage = {1}
    ArgPage = 3
    DirOf <- TextAndStack
    Program = {sh, cc}
    Value = {x, y}
    Zero = Zero
VIEW Layout
SYMMETRY Symmetry
INVARIANT TypeOK
INVARIANT RefCountExact
INVARIANT WritableIsPrivate
PROPERTY ImplementsAddressSpace
CHECK_DEADLOCK FALSE
