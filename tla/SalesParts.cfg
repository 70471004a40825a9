SPECIFICATION Spec
CONSTANTS
    Tables = {t1}
    Tills = {w1, w2}
    MaxOrders = 1
    MaxLines = 2
    MaxBills = 3
    MaxRecent = 3
    VoidsPaid = TRUE
    Apart = TRUE
    None = None
SYMMETRY Symmetric
INVARIANTS
    AwaitedBillExists
    LineChargedOnce
    PaidOnce
    DrawerHoldsSettled
    ReceiptsDistinct
    
