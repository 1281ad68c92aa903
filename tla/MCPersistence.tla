----------------------------- MODULE MCPersistence ----------------------------
EXTENDS Persistence

CONSTANTS k1, l1

\* The string comes with the RDB file, the list does not.
LoadedK1 == [k \in {k1, l1} |-> IF k = k1 THEN 3 ELSE None]

===============================================================================
