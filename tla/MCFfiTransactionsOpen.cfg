SPECIFICATION TxnSpec
CONSTANTS
    Txn = {t1, t2, t3}
    MaxStaged = 2
SYMMETRY Symmetry
CHECK_DEADLOCK FALSE
INVARIANTS
    AtMostOneOpen
