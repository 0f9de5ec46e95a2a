--------------------------- MODULE MCCoordinator ---------------------------
EXTENDS Coordinator

Budget(c, m, f, v) ==
    [e \in Events |-> CASE e = "changes" -> c [] e = "moves" -> m [] e = "faults" -> f [] e = "visits" -> v]

\* A change, or a move, among a fault and a visit; two changes and a fault, a move or a visit;
\* two moves, or a change and a move, with a fault; two visits that overlap, and a fault.
MCBudgets ==
    {Budget(1, 0, 1, 1), Budget(0, 1, 1, 1), Budget(2, 0, 1, 0), Budget(2, 1, 0, 0),
     Budget(2, 0, 0, 1), Budget(0, 2, 1, 0), Budget(1, 1, 1, 0), Budget(0, 0, 1, 2)}
=============================================================================
