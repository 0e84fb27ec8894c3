SPECIFICATION Spec
CONSTANTS
    Names = {s1}
    Exprs <- MCExprs
    MaxTime = 6
    MaxOps = 2
CHECK_DEADLOCK FALSE
 
PROPERTIES FiresExactly 
