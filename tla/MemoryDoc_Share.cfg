SPECIFICATION Spec
CONSTANTS
    NProc = 2
    NFrame = 11
    Page = {1, 2, 3}
    FilePage = {1}
    ArgPage = 3
    DirOf <- TextAndStack
    Program = {sh}
    Value = {x}
    Zero = Zero
VIEW Layout
SYMMETRY Symmetry
PROPERTY DemandPageIsImage
CHECK_DEADLOCK FALSE
