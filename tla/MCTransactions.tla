---------------------------- MODULE MCTransactions ----------------------------
(* Transactions on two connections, in a table with a row that is unique and *)
(* one that is not.                                                          *)
EXTENDS Transactions, TLC

CONSTANTS c1, c2, k1, k2

MCPrograms == {{"transaction", "insertOrUpdate"},
               {"transaction", "batchInsert", "insert"},
               {"transaction", "upsert", "update"},
               {"batchUpdate", "insertOrUpdate", "insert"}}

MCNested == {{"transaction", "insertOrUpdate"}}

Symmetry == Permutations(Conns)
=============================================================================
