SPECIFICATION Spec
CONSTANTS
    Rows = {r1, r2}
    Sessions = {s1, s2}
    NoSession = NoSession
    Existing = {r1}
    Amounts = {1}
    MaxRetries = 3
    LateRow = FALSE
    MaxBalance = 2
    MaxVersion = 4
SYMMETRY Symmetry
INVARIANT NoOverdraft
 
 
 
CHECK_DEADLOCK FALSE
