SPECIFICATION Spec
CONSTANTS
    c1 = c1
    c2 = c2
    c3 = c3
    Callers = {c1, c2, c3}
    Requests <- MCRequests
    Seed <- SeedRows
    Admin = Admin
    NoRequest = NoRequest
    MaxFaults = 1
SYMMETRY Symmetry
INVARIANTS TablesSound AnswersTrue RevokedIsRefused
PROPERTIES ActsForItsTenant ReadsOnlyItsOwn LockedOutStays
