SPECIFICATION Spec
CONSTANTS
    Tables = {t1}
    Tills = {w1, w2}
    MaxOrders = 1
    MaxLines = 1
    MaxBills = 1
    MaxRecent = 2
    VoidsPaid = FALSE
    Apart = FALSE
    None = None
INVARIANTS
    PaidOnce
