SPECIFICATION Spec
CONSTANTS
    Tables = {t1}
    Tills = {w1}
    MaxOrders = 2
    MaxLines = 2
    MaxBills = 2
    MaxRecent = 1
    VoidsPaid = TRUE
    Apart = TRUE
    None = None
INVARIANTS
    OpenBillAwaits
