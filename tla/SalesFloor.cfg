SPECIFICATION Spec
CONSTANTS
    Tables = {t1, t2}
    Tills = {w1}
    MaxOrders = 2
    MaxLines = 2
    MaxBills = 2
    MaxRecent = 1
    VoidsPaid = FALSE
    Apart = TRUE
    None = None
SYMMETRY Symmetric
INVARIANTS
    TypeOK
    
    NoLineLeavesUnbilled
PROPERTIES
    SettledStays
