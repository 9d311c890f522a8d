--------------------------- MODULE MCNodeManager ---------------------------
(* NodeManager for TLC. Requests and process ids are interchangeable: they  *)
(* are numbers here, and the smallest one that is free comes first.         *)
EXTENDS NodeManager

SmallestFirst ==
    /\ \A p, q \in Pid : q < p /\ proc[p] = Null /\ proc'[p] # Null => proc'[q] # Null
    /\ \A r, s \in Request : s < r /\ req'[r].rounds > 0 => req'[s].rounds > 0
=============================================================================
