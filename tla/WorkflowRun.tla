---------------------------- MODULE WorkflowRun ----------------------------
(***************************************************************************)
(* A workflow of hiveweb: its graph, replaced as a whole by put_graph, and *)
(* its execution, layer by layer.  The executor reads the workflow, its    *)
(* nodes and its edges with three queries and no transaction; put_graph    *)
(* gives every node a new row id.  A graph is edited while it runs.        *)
(* A node is its key; version v of the graph stands for the row ids of     *)
(* its nodes.  Values are left out: a node is ok or it fails, its mapping  *)
(* reads the outputs of the nodes it names, and what a value decides may   *)
(* go either way.                                                          *)
(***************************************************************************)
EXTENDS Naturals, Sequences, FiniteSets, SequencesExt

CONSTANTS Keys,       \* node keys, the names that fit the column node_key
          Answers,    \* the keys used for generate_answer_node, which never fails
          Doubled,    \* edges <<from, to>> that, when drawn, are drawn twice
          Bare,       \* edges that carry no mapping
          Strays,     \* mappings <<from, to>> a graph may have besides its edges
          MaxPuts,    \* bound: requests to replace the graph
          MaxRuns     \* bound: executions

WorkflowConstants ==
    /\ IsFiniteSet(Keys)
    /\ Answers \subseteq Keys /\ Doubled \cup Bare \cup Strays \subseteq Keys \X Keys
    /\ {MaxPuts, MaxRuns} \subseteq Nat
ASSUME WorkflowAssumption == WorkflowConstants

VARIABLES wf,      \* the rows: exists?, version, node keys, edges, reads
          edit,    \* the put_graph in flight: the graph it has checked
          puts, runs,
          run      \* the execution

workflowVars == <<wf, edit, puts, runs, run>>

\* edges: a set, and those of them that are there twice (no unique key forbids it)
NoGraph == [keys |-> {}, edges |-> {}, twice |-> {}, reads |-> {}]
NoEdit == [graph |-> NoGraph, open |-> FALSE]
NoRun == [pc |-> "idle", v |-> 0, keys |-> {}, edges |-> {}, twice |-> {}, reads |-> {},
          remaining |-> {}, layer |-> {}, done |-> {}, failed |-> {}, outputs |-> {},
          indegree |-> <<>>, whole |-> TRUE]

WorkflowInit ==
    /\ wf = [exists |-> TRUE, v |-> 0, graph |-> NoGraph]
    /\ edit = NoEdit /\ puts = 0 /\ runs = 0 /\ run = NoRun

----------------------------------------------------------------------------
(* detect_cycle: depth-first search with an explicit stack                 *)
(***************************************************************************)
Successors(edges, k) == {e[2] : e \in {x \in edges : x[1] = k}}
\* Broken variant: a Gray successor is passed over.
EnteredWhite(color, S) == {k \in S : color[k] = "white"}
\* the first successor that is not Black decides: White is entered, Gray is a cycle
Entered(color, S) == {k \in S : color[k] # "black"}

\* One turn of the inner loop, or of the outer one when the stack is empty.  Nodes and
\* successors come in the order of a hash map and of the request: any of them may be first.
Paint(d, k, c, stack) == [color |-> [d.color EXCEPT ![k] = c], stack |-> stack, cycle |-> FALSE]
Enter(d, k) == Paint(d, k, "gray", Append(d.stack, k))
Search(edges, d) ==
    LET white == {k \in DOMAIN d.color : d.color[k] = "white"}
        node == Last(d.stack)
        open == Entered(d.color, Successors(edges, node))
        next == CHOOSE k \in open : TRUE
    IN  IF d.cycle \/ (d.stack = <<>> /\ white = {}) THEN d
        ELSE IF d.stack = <<>> THEN Enter(d, CHOOSE k \in white : TRUE)
        ELSE IF open = {} THEN Paint(d, node, "black", Front(d.stack))
        ELSE IF d.color[next] = "gray" THEN [d EXCEPT !.cycle = TRUE]
        ELSE Enter(d, next)

\* every node is entered once and left once
DetectCycle(keys, edges) ==
    LET rounds == 2 * Cardinality(keys)
        d[n \in 0..rounds] ==
            IF n = 0 THEN [color |-> [k \in keys |-> "white"], stack |-> <<>>, cycle |-> FALSE]
            ELSE Search(edges, d[n - 1])
    IN  d[rounds].cycle

AtMostOne(S) == {{}} \cup {{x} : x \in S}
Graphs == {[keys |-> K, edges |-> E, twice |-> {}, reads |-> {}] :
              K \in SUBSET Keys, E \in SUBSET (Keys \X Keys)}
\* the graphs the checks of put_graph let pass: edges between the graph's own nodes
\* (the virtual start and end are dropped before) and no cycle
Accepted == {g \in Graphs : g.edges \subseteq g.keys \X g.keys /\ ~DetectCycle(g.keys, g.edges)}

----------------------------------------------------------------------------
(* services/workflow.rs                                                    *)
(***************************************************************************)
PutCheck ==
    /\ ~edit.open /\ puts < MaxPuts /\ wf.exists
    /\ puts' = puts + 1
    /\ \E g \in Accepted, s \in AtMostOne(Strays) :
        edit' = [open |-> TRUE,
                 graph |-> [g EXCEPT !.twice = g.edges \cap Doubled,
                                     !.reads = (g.edges \ Bare) \cup {m \in s : m[2] \in g.keys}]]
    /\ UNCHANGED <<wf, runs, run>>

\* One transaction: nodes and edges are deleted and inserted anew; with the workflow
\* gone, or a function gone (foreign keys), it fails
PutCommit ==
    /\ edit.open
    /\ edit' = NoEdit
    /\ \/ wf.exists /\ wf' = [wf EXCEPT !.v = @ + 1, !.graph = edit.graph]
       \/ UNCHANGED wf
    /\ UNCHANGED <<puts, runs, run>>

\* refused while a tool refers to the workflow; nodes and edges cascade
Delete ==
    /\ wf.exists
    /\ wf' = [exists |-> FALSE, v |-> wf.v + 1, graph |-> NoGraph]
    /\ UNCHANGED <<edit, puts, runs, run>>

----------------------------------------------------------------------------
(* workflow_executor.rs: loading                                           *)
(***************************************************************************)
LoadWorkflow ==
    /\ run.pc = "idle" /\ runs < MaxRuns
    /\ runs' = runs + 1
    /\ run' = [NoRun EXCEPT !.pc = IF wf.exists THEN "nodes" ELSE "not_found"]
    /\ UNCHANGED <<wf, edit, puts>>

LoadNodes ==
    /\ run.pc = "nodes"
    /\ run' = [run EXCEPT !.pc = "edges", !.v = wf.v, !.keys = wf.graph.keys,
                          !.remaining = wf.graph.keys, !.reads = wf.graph.reads]
    /\ UNCHANGED <<wf, edit, puts, runs>>

\* An edge whose node id is unknown is skipped: all of them, when the graph was
\* replaced since the nodes were read
KnownEdges(r, graph) == IF r.v = wf.v THEN graph.edges ELSE {}
InDegree(edges, twice, k) == Cardinality({e \in edges : e[2] = k}) + Cardinality({e \in twice : e[2] = k})
LoadEdges ==
    /\ run.pc = "edges"
    /\ LET E == KnownEdges(run, wf.graph)
           D == wf.graph.twice \cap E
       IN  run' = [run EXCEPT !.pc = "layer", !.edges = E, !.twice = D, !.whole = (run.v = wf.v),
                              !.indegree = [k \in run.keys |-> InDegree(E, D, k)]]
    /\ UNCHANGED <<wf, edit, puts, runs>>

----------------------------------------------------------------------------
(* run_layers                                                              *)
(***************************************************************************)
\* Broken variant: a node is scheduled one edge early.
SchedulableEarly(r) == {k \in r.remaining : r.indegree[k] <= 1}
\* the nodes no remaining edge points to
Schedulable(r) == {k \in r.remaining : r.indegree[k] = 0}

\* the mappings of a layer that name a node without output
Unresolved(r, L) == {m \in r.reads : m[2] \in L /\ m[1] \notin r.outputs}

\* build_node_input for every node of the layer, before any of them has started: such a
\* mapping fails the run.  So may any layer on a value: a specification that does not
\* parse, a path an output lacks, an input that is no object, a key the context lacks.
BuildInputs(r, L) == {"mapping"} \cup {o \in {"running"} : Unresolved(r, L) = {}}

PickLayer ==
    /\ run.pc = "layer"
    /\ LET L == Schedulable(run) IN
       run' \in IF run.remaining = {} THEN {[run EXCEPT !.pc = "ok"]}
                ELSE IF L = {} THEN {[run EXCEPT !.pc = "topology"]}
                ELSE {[run EXCEPT !.pc = o, !.layer = L] : o \in BuildInputs(run, L)}
    /\ UNCHANGED <<wf, edit, puts, runs>>

\* execute_node: the nodes of a layer end in any order; join_all waits for all of them
NodeEnds ==
    /\ run.pc = "running"
    /\ \E k \in run.layer \ (run.done \cup run.failed) :
        \/ run' = [run EXCEPT !.done = @ \cup {k}]
        \/ k \notin Answers /\ run' = [run EXCEPT !.failed = @ \cup {k}]
    /\ UNCHANGED <<wf, edit, puts, runs>>

\* downstream indegrees, once per edge row
Lowered(r, S) == [k \in r.keys |->
    LET n == Cardinality({e \in r.edges : e[1] \in S /\ e[2] = k})
             + Cardinality({e \in r.twice : e[1] \in S /\ e[2] = k})
    IN  IF r.indegree[k] >= n THEN r.indegree[k] - n ELSE 0]

\* Results are applied in the layer's order up to the first failure, which ends the run:
\* what stands before it in that (hash) order is applied
ApplyLayer ==
    /\ run.pc = "running" /\ run.layer = run.done \cup run.failed
    /\ \E S \in SUBSET run.done :
        /\ run.failed = {} => S = run.done
        /\ run' = [run EXCEPT !.pc = IF run.failed = {} THEN "layer" ELSE "error",
                              !.outputs = @ \cup S, !.remaining = @ \ S,
                              !.indegree = Lowered(run, S), !.layer = {}, !.done = {}, !.failed = {}]
    /\ UNCHANGED <<wf, edit, puts, runs>>

\* timeout_ms over the whole of run_layers
Timeout ==
    /\ run.pc = "running"
    /\ run' = [run EXCEPT !.pc = "timeout", !.layer = {}, !.done = {}, !.failed = {}]
    /\ UNCHANGED <<wf, edit, puts, runs>>

Over == {"ok", "error", "mapping", "topology", "timeout", "not_found"}
Answer ==
    /\ run.pc \in Over
    /\ run' = NoRun
    /\ UNCHANGED <<wf, edit, puts, runs>>

WorkflowNext ==
    \/ PutCheck \/ PutCommit \/ Delete
    \/ LoadWorkflow \/ LoadNodes \/ LoadEdges
    \/ PickLayer \/ NodeEnds \/ ApplyLayer \/ Timeout \/ Answer
WorkflowSpec == WorkflowInit /\ [][WorkflowNext]_workflowVars

----------------------------------------------------------------------------
(* Properties                                                              *)
(***************************************************************************)
\* the nodes before k, however far: the least set with the predecessors of k and of
\* its own members
Ancestors(edges, k) ==
    {j \in Keys : \A S \in SUBSET Keys :
        (\A e \in edges : e[2] \in S \cup {k} => e[1] \in S) => j \in S}

\* A run that read one version of the graph builds the input of a node, and so starts it,
\* only when every node before it, however far, has its output: the indegrees kept by
\* run_layers say what the edges say, and a run that fails because a node "produced no
\* output" fails on a mapping that names no node before its own.
InputsReady ==
    run.whole /\ run.pc \in {"running", "mapping"} =>
        \A k \in run.layer : Ancestors(run.edges, k) \subseteq run.outputs

\* The defensive branch of run_layers (no schedulable node) is never taken: no cycle
\* passes detect_cycle when the graph is saved, and a graph replaced between the read of
\* the nodes and the read of the edges cannot leave a node waiting either.
NeverStuck == run.pc # "topology"
=============================================================================
