SPECIFICATION Spec
CONSTANTS
    a = a
    b = b
    c = c
    r1 = r1
    r2 = r2
    None = None
    Emails <- MCEmails
    Requests <- MCRequests
    MaxAccounts = 2
    Limit = 1
SYMMETRY Symmetric
INVARIANTS CapacityKept RedeemedOnce ErasedIsNameless
