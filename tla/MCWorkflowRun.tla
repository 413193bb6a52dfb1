--------------------------- MODULE MCWorkflowRun ---------------------------
(* All graphs of three nodes.  Node c may read the output of a with or      *)
(* without an edge between them; the edge from b to c only orders them.     *)
EXTENDS WorkflowRun

MCStrays == {<<"a", "c">>}
MCBare == {<<"b", "c">>}
MCDoubled == {<<"a", "b">>}
=============================================================================
