--------------------------- MODULE MCMacPermission ---------------------------
\* m1 writes, m2 reads and writes.
EXTENDS MacPermission
CONSTANTS m1, m2, x1, D1, D2

MCRequested == [m \in Message |-> IF m = m1 THEN {"write"} ELSE Flag]
MCDeadline == [m \in Message |-> IF m = m1 THEN D1 ELSE D2]
=============================================================================
