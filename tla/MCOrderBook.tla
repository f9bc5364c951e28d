------------------------------ MODULE MCOrderBook ------------------------------
(* Values a configuration file cannot write, the symmetry of the ids, and a *)
(* bound on how far the sequence numbers go wrong.                          *)
EXTENDS OrderBook, TLC

\* A late, the expected and an early sequence number.
MCSkews == {-2, 0, 2}

\* An 'X' may carry a negative remaining quantity; the parser lets it pass.
MCCancelQuantities == {-1, 0, 3}

MCSymmetry == Permutations(OrderIds)

\* At most two numbers skipped or repeated, or one of each.
FewOddNumbers ==
  sequenceGapsDetected + totalMessagesProcessed - Cardinality(seen) <= 2

================================================================================
