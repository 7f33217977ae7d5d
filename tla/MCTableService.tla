--------------------------- MODULE MCTableService ---------------------------
(***************************************************************************)
(* Small instances of TableService for TLC.  The interchangeable ids are   *)
(* model values; Symmetry permutes each kind of them.                      *)
(***************************************************************************)
EXTENDS TableService, TLC

CONSTANTS t1, t2, s1, s2, o1, o2, c1, c2

MCTables1 == {t1}
MCTables2 == {t1, t2}
MCSessions2 == {s1, s2}
MCOrders2 == {o1, o2}
MCClients2 == {c1, c2}

\* Every operation except deactivating a table, which multiplies the states by
\* the tables' activity and is checked with LockOps.
FloorOps == Operations \ {"delete", "activate"}

\* The operations whose locks can form a cycle of waits, and the deactivation.
LockOps == {"create", "pay", "move", "merge", "delete", "activate"}

CreatePayOps == {"create", "pay"}

Symmetry ==
    Permutations(MCTables2) \cup Permutations(MCSessions2) \cup Permutations(MCOrders2)
        \cup Permutations(MCClients2)

=============================================================================
