--------------------------- MODULE MCWebCatalog ---------------------------
(* One plugin with one function and one tool, bound to a child of the main  *)
(* agent; room for one more row of each kind.                               *)
EXTENDS WebCatalog, TLC

Symmetry == Permutations(Clients)

MCSeed ==
    [plugins   |-> [k \in {"p1"} |-> [deleted |-> FALSE, sha |-> "d1"]],
     functions |-> [f \in {"f1"} |-> "p1"],
     tools     |-> [t \in {"t1"} |-> "f1"],
     agents    |-> [a \in {"main", "a1"} |->
                      IF a = "main" THEN [parent |-> None, depth |-> 0, tools |-> {}]
                      ELSE [parent |-> "main", depth |-> 1, tools |-> {"t1"}]]]
=============================================================================
