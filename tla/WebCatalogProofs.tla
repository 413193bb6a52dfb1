-------------------------- MODULE WebCatalogProofs --------------------------
(***************************************************************************)
(* Safety of WebCatalog for any clients, rows, catalog at the start,       *)
(* number of requests and of failures.                                     *)
(***************************************************************************)
EXTENDS WebCatalog, TLAPS

-----------------------------------------------------------------------------
(* The requests in flight and their locks                                  *)
(***************************************************************************)
Fields == {"op", "pc", "id", "ref", "bind", "depth", "old", "stale", "tools", "children", "alone"}
AgentWrites == {"create_agent", "update_agent"}
Held(c, row, x) == [c |-> c, row |-> row, x |-> x] \in locks

\* The rows a request names are of the table its operation is about
Names(q) ==
    /\ q.op = "upload" => q.id \in Plugins
    /\ q.op = "create_function" => q.id \in Funs /\ q.ref \in Plugins
    /\ q.op = "create_tool" => q.id \in Tools
    /\ q.op \in AgentWrites => q.id \in Agents /\ q.ref \in Agents \cup {None}
    /\ q.op \in {"delete_agent", "fetch_content"} => q.id \in Agents

\* What a request has locked, and what that lock keeps true until it is written
ClientInv(c) ==
    LET q == req[c] IN
    /\ q = Idle \/ (DOMAIN q = Fields /\ q.op # "idle")
    /\ Names(q)
    /\ q.op = "delete" /\ q.pc \in {"count", "write"} => Held(c, q.id, TRUE)
    /\ q.op = "delete" /\ q.pc = "write" => References(q.id) = {}
    /\ q.op = "create_function" /\ q.pc = "insert" =>
         Held(c, q.ref, FALSE) /\ q.ref \in DOMAIN plugins /\ ~plugins[q.ref].deleted
    /\ q.op \in AgentWrites /\ q.pc = "commit" =>
         \A t \in q.tools : Held(c, t, FALSE) /\ t \in DOMAIN tools

Exclusive == \A l, m \in locks : l.row = m.row /\ l.x => l.c = m.c

\* Tables: whose rows they hold, and the foreign keys
TableInv ==
    /\ DOMAIN plugins \subseteq Plugins /\ DOMAIN functions \subseteq Funs \cap used
    /\ DOMAIN tools \subseteq Tools \cap used /\ DOMAIN agents \subseteq Agents \cap used
    /\ \A k \in DOMAIN plugins : DOMAIN plugins[k] = {"deleted", "sha"}
    /\ \A f \in DOMAIN functions : functions[f] \in DOMAIN plugins /\ ~plugins[functions[f]].deleted
    /\ \A t \in DOMAIN tools : tools[t] \in DOMAIN functions
    /\ \A a \in DOMAIN agents : DOMAIN agents[a] = {"parent", "depth", "tools"}
                                /\ agents[a].tools \subseteq DOMAIN tools

CatalogInv == DOMAIN req = Clients /\ Exclusive /\ TableInv /\ \A c \in Clients : ClientInv(c)

-----------------------------------------------------------------------------
(* What a step does to the requests                                        *)
(***************************************************************************)
Others(c) == DOMAIN req' = Clients /\ \A d \in Clients \ {c} : req'[d] = req[d]

\* The request of c goes on to pc with the fields of r
Went(c, r, pc) ==
    /\ Others(c) /\ DOMAIN req'[c] = Fields /\ req'[c].pc = pc
    /\ req'[c].op = r.op /\ req'[c].id = r.id /\ req'[c].ref = r.ref /\ req'[c].bind = r.bind
    /\ req'[c].old = r.old /\ req'[c].stale = r.stale /\ req'[c].tools = r.tools
    /\ req'[c].children = r.children /\ req'[c].alone = r.alone

LEMMA GoWent ==
    ASSUME DOMAIN req = Clients, NEW c \in Clients, NEW r, DOMAIN r = Fields, NEW pc, Go(c, r, pc)
    PROVE  Went(c, r, pc)
BY DEF Go, Went, Others, Fields

LEMMA FinishOthers ==
    ASSUME DOMAIN req = Clients, NEW c \in Clients, Finish(c)
    PROVE  Others(c) /\ req'[c] = Idle /\ locks' = Released(c)
BY DEF Finish, Others

LEMMA IdleIs == Idle.op = "idle" /\ Names(Idle)
BY DEF Idle, Names, AgentWrites

\* A request that is at some pc is a full record
LEMMA AtBusy ==
    ASSUME CatalogInv, NEW c \in Clients, req[c].op # "idle"
    PROVE  DOMAIN req[c] = Fields /\ req[c] # Idle /\ Names(req[c])
BY IdleIs DEF CatalogInv, ClientInv

\* Steps that leave the tables alone and the locks of the others: what remains to be
\* shown is about the request that steps.
LEMMA QuietStep ==
    ASSUME CatalogInv, NEW c \in Clients, Others(c), UNCHANGED <<rows, used>>, Exclusive',
           \A l : l.c # c => (l \in locks' <=> l \in locks), ClientInv(c)'
    PROVE  CatalogInv'
<1>1. TableInv' BY DEF CatalogInv, TableInv, rows
<1>2. ASSUME NEW d \in Clients, d # c PROVE ClientInv(d)'
  <2>1. req'[d] = req[d] /\ ClientInv(d) BY <1>2 DEF Others, CatalogInv
  <2>2. ASSUME NEW row, NEW x PROVE Held(d, row, x)' <=> Held(d, row, x)
    <3> DEFINE l == [c |-> d, row |-> row, x |-> x]
    <3>1. l.c # c BY <1>2
    <3> HIDE DEF l
    <3>2. l \in locks' <=> l \in locks BY <3>1
    <3> QED BY <3>2 DEF Held, l
  <2>3. References(req[d].id)' = References(req[d].id)
    BY <2>1 DEF References, rows
  <2>4. UNCHANGED <<plugins, tools>> BY DEF rows
  <2> QED BY <2>1, <2>2, <2>3, <2>4 DEF ClientInv
<1> QED BY <1>1, <1>2 DEF CatalogInv, Others

LEMMA FinishQuiet ==
    ASSUME CatalogInv, NEW c \in Clients, Finish(c), UNCHANGED <<rows, used>>
    PROVE  CatalogInv'
<1>1. Others(c) /\ req'[c] = Idle /\ locks' = Released(c) BY FinishOthers DEF CatalogInv
<1>2. Exclusive' BY <1>1 DEF CatalogInv, Exclusive, Released
<1>3. \A l : l.c # c => (l \in locks' <=> l \in locks) BY <1>1 DEF Released
<1>4. ClientInv(c)' BY <1>1, IdleIs DEF ClientInv, AgentWrites
<1> QED BY <1>1, <1>2, <1>3, <1>4, QuietStep

\* Stages at which nothing is promised by a lock
Unlocked(op, pc) ==
    /\ ~(op = "delete" /\ pc \in {"count", "write"})
    /\ ~(op = "create_function" /\ pc = "insert")
    /\ ~(op \in AgentWrites /\ pc = "commit")

LEMMA GoQuiet ==
    ASSUME CatalogInv, NEW c \in Clients, req[c].op # "idle", NEW r, DOMAIN r = Fields,
           r.op = req[c].op, r.id = req[c].id, r.ref = req[c].ref,
           NEW pc, Unlocked(r.op, pc), Go(c, r, pc), UNCHANGED <<rows, used, locks>>
    PROVE  CatalogInv'
<1>1. Went(c, r, pc) BY GoWent DEF CatalogInv
<1>2. Names(req[c]) BY AtBusy
<1>3. ClientInv(c)' BY <1>1, <1>2 DEF ClientInv, Went, Names, Unlocked
<1>4. Others(c) BY <1>1 DEF Went
<1>5. Exclusive' BY DEF CatalogInv, Exclusive
<1> QED BY <1>3, <1>4, <1>5, QuietStep

LEMMA GoSelf ==
    ASSUME CatalogInv, NEW c \in Clients, req[c].op # "idle", NEW pc, Unlocked(req[c].op, pc),
           Go(c, req[c], pc), UNCHANGED <<rows, used, locks>>
    PROVE  CatalogInv'
BY AtBusy, GoQuiet

-----------------------------------------------------------------------------
(* Steps that do not write a table                                         *)
(***************************************************************************)
\* Begin: a new request, and the others are no longer alone
LEMMA BeginEffect ==
    ASSUME CatalogInv, NEW c \in Clients, Begin(c)
    PROVE  /\ DOMAIN req' = Clients /\ req[c] = Idle
           /\ DOMAIN req'[c] = Fields /\ req'[c].op # "idle" /\ Names(req'[c])
           /\ Unlocked(req'[c].op, req'[c].pc) /\ req'[c].pc \notin {"del", "count", "write", "set", "children", "tools"}
           /\ req'[c].op = "fetch_content" => req'[c].pc = "get"
           /\ req'[c].op \in AgentWrites => req'[c].pc = "fetch"
           /\ req'[c].op = "upload" => req'[c].pc = "put"
           /\ req'[c].alone => \A d \in Clients \ {c} : req[d] = Idle
           /\ \A d \in Clients \ {c} :
                /\ req[d] = Idle => req'[d] = Idle
                /\ req[d] # Idle => /\ DOMAIN req'[d] = Fields /\ req'[d].op = req[d].op
                                    /\ req'[d].pc = req[d].pc /\ req'[d].id = req[d].id
                                    /\ req'[d].ref = req[d].ref /\ req'[d].tools = req[d].tools
                                    /\ req'[d].stale = req[d].stale /\ ~req'[d].alone
<1> DEFINE busy == {d \in Clients : req[d] # Idle}
           q(r) == [r EXCEPT !.alone = (busy = {})]
<1>1. PICK r \in Requests :
        req' = [d \in Clients |->
                  IF d = c THEN q(r)
                  ELSE IF d \in busy THEN [req[d] EXCEPT !.alone = FALSE] ELSE req[d]]
  BY DEF Begin
<1>2. PICK op, pc, id, ref, bind :
        /\ r = Request(op, pc, id, ref, bind) /\ op # "idle" /\ Unlocked(op, pc)
        /\ pc \notin {"del", "count", "write", "set", "children", "tools"}
        /\ op = "fetch_content" => pc = "get"
        /\ op \in AgentWrites => pc = "fetch"
        /\ op = "upload" => pc = "put"
        /\ Names([op |-> op, id |-> id, ref |-> ref])
  BY DEF Requests, Fresh, Names, Unlocked, AgentWrites
<1>3. DOMAIN r = Fields BY <1>2 DEF Request, Fields
<1>4. /\ DOMAIN q(r) = Fields /\ q(r).op = op /\ q(r).pc = pc /\ q(r).id = id /\ q(r).ref = ref
      /\ q(r).alone <=> busy = {}
  BY <1>2, <1>3 DEF Request, Fields
<1> HIDE DEF q
<1>5. req'[c] = q(r) BY <1>1
<1>6. Names(q(r)) BY <1>2, <1>4 DEF Names
<1>7. ASSUME NEW d \in Clients \ {c}, req[d] # Idle
      PROVE  /\ DOMAIN req'[d] = Fields /\ req'[d].op = req[d].op
             /\ req'[d].pc = req[d].pc /\ req'[d].id = req[d].id
             /\ req'[d].ref = req[d].ref /\ req'[d].tools = req[d].tools
             /\ req'[d].stale = req[d].stale /\ ~req'[d].alone
  <2>1. DOMAIN req[d] = Fields BY <1>7 DEF CatalogInv, ClientInv
  <2>2. req'[d] = [req[d] EXCEPT !.alone = FALSE] BY <1>1, <1>7
  <2> QED BY <2>1, <2>2 DEF Fields
<1>8. ASSUME NEW d \in Clients \ {c}, req[d] = Idle PROVE req'[d] = Idle
  BY <1>1, <1>8
<1>9. DOMAIN req' = Clients /\ req[c] = Idle BY <1>1 DEF Begin
<1>10. req'[c].alone => \A d \in Clients \ {c} : req[d] = Idle BY <1>4, <1>5
<1> QED BY <1>2, <1>4, <1>5, <1>6, <1>7, <1>8, <1>9, <1>10

LEMMA BeginQuiet == ASSUME CatalogInv, NEW c \in Clients, Begin(c) PROVE CatalogInv'
<1>1. UNCHANGED <<rows, used, locks>> BY DEF Begin
<1>2. TableInv' /\ Exclusive' BY <1>1 DEF CatalogInv, TableInv, Exclusive, rows
<1>3. ClientInv(c)' BY BeginEffect DEF ClientInv, Unlocked
<1>4. ASSUME NEW d \in Clients \ {c} PROVE ClientInv(d)'
  <2>1. ClientInv(d) BY DEF CatalogInv
  <2>2. CASE req[d] = Idle
    <3>1. req'[d] = Idle BY <2>2, BeginEffect
    <3> QED BY <3>1, IdleIs DEF ClientInv, AgentWrites
  <2>3. CASE req[d] # Idle
    <3>1. /\ DOMAIN req'[d] = Fields /\ req'[d].op = req[d].op
          /\ req'[d].pc = req[d].pc /\ req'[d].id = req[d].id
          /\ req'[d].ref = req[d].ref /\ req'[d].tools = req[d].tools
      BY <2>3, BeginEffect
    <3>2. Names(req'[d]) BY <2>1, <3>1 DEF ClientInv, Names
    <3>5. req[d].op = "delete" /\ req[d].pc = "write" => References(req[d].id)' = {}
      <4> SUFFICES ASSUME req[d].op = "delete", req[d].pc = "write" PROVE References(req[d].id)' = {}
        OBVIOUS
      <4>1. References(req[d].id) = {} BY <2>1 DEF ClientInv
      <4>2. UNCHANGED <<functions, tools, agents>> BY <1>1 DEF rows
      <4> QED BY <3>1, <4>1, <4>2 DEF References
    <3>4. UNCHANGED <<plugins, tools, locks>> BY <1>1 DEF rows
    <3> QED BY <2>1, <2>3, <3>1, <3>2, <3>4, <3>5 DEF ClientInv, Held
  <2> QED BY <2>2, <2>3
<1> QED BY <1>2, <1>3, <1>4, BeginEffect DEF CatalogInv

LEMMA RefuseQuiet == ASSUME CatalogInv, NEW c \in Clients, Refuse(c) PROVE CatalogInv'
<1>1. Others(c) /\ req'[c] = Idle /\ UNCHANGED <<rows, used, locks>>
  BY DEF Refuse, Others, CatalogInv
<1>2. ClientInv(c)' BY <1>1, IdleIs DEF ClientInv, AgentWrites
<1>3. Exclusive' BY <1>1 DEF CatalogInv, Exclusive
<1> QED BY <1>1, <1>2, <1>3, QuietStep

\* The steps that only move on, or end
LEMMA PlainSteps ==
    ASSUME CatalogInv, NEW c \in Clients,
           \/ PutBytes(c) \/ DeleteFetch(c) \/ CheckFunction(c)
           \/ DeleteAgentCount(c) \/ Leave(c) \/ Answer(c) \/ CacheGet(c) \/ ReadAgent(c) \/ CacheSet(c)
    PROVE  CatalogInv'
<1>1. /\ UNCHANGED <<rows, used>>
      /\ Finish(c) \/ (/\ UNCHANGED locks /\ req[c].op # "idle"
                       /\ \E pc : Go(c, req[c], pc) /\ Unlocked(req[c].op, pc))
  <2>1. CASE PutBytes(c) BY <2>1 DEF PutBytes, At, Unlocked, AgentWrites
  <2>2. CASE DeleteFetch(c) BY <2>2 DEF DeleteFetch, At, Unlocked, AgentWrites
  <2>3. CASE CheckFunction(c) BY <2>3 DEF CheckFunction, At, Unlocked, AgentWrites
  <2>4. CASE DeleteAgentCount(c) BY <2>4 DEF DeleteAgentCount, At, Unlocked, AgentWrites
  <2>5. CASE Leave(c) \/ Answer(c) BY <2>5 DEF Leave, Answer
  <2>6. CASE CacheGet(c) BY <2>6 DEF CacheGet, At, Unlocked, AgentWrites
  <2>7. CASE ReadAgent(c) BY <2>7 DEF ReadAgent, At, Unlocked, AgentWrites
  <2>8. CASE CacheSet(c) BY <2>8 DEF CacheSet
  <2> QED BY <2>1, <2>2, <2>3, <2>4, <2>5, <2>6, <2>7, <2>8
<1> QED BY <1>1, FinishQuiet, GoSelf

LEMMA DeleteLockQuiet == ASSUME CatalogInv, NEW c \in Clients, DeleteLock(c) PROVE CatalogInv'
<1>1. UNCHANGED <<rows, used>> /\ req[c].op = "delete" BY DEF DeleteLock, At
<1>2. CASE Finish(c) BY <1>1, <1>2, FinishQuiet
<1>3. CASE LockRow(c, req[c].id)
  <2>1. Went(c, req[c], "count") BY <1>1, <1>3, AtBusy, GoWent DEF LockRow, CatalogInv
  <2>2. locks' = locks \cup {[c |-> c, row |-> req[c].id, x |-> TRUE]} BY <1>3 DEF LockRow, Lock
  <2>3. ~\E l \in locks : l.row = req[c].id /\ l.c # c BY <1>3 DEF LockRow, CanLock
  <2>4. Exclusive' BY <2>2, <2>3 DEF CatalogInv, Exclusive
  <2>5. \A l : l.c # c => (l \in locks' <=> l \in locks) BY <2>2
  <2>6. Names(req'[c]) BY <1>1, <2>1, AtBusy DEF Went, Names
  <2>7. Held(c, req[c].id, TRUE)' BY <2>1, <2>2 DEF Held, Went
  <2>8. ClientInv(c)' BY <1>1, <2>1, <2>6, <2>7 DEF ClientInv, Went, AgentWrites
  <2> QED BY <1>1, <2>1, <2>4, <2>5, <2>8, QuietStep DEF Went
<1> QED BY <1>2, <1>3 DEF DeleteLock

LEMMA DeleteCountQuiet == ASSUME CatalogInv, NEW c \in Clients, DeleteCount(c) PROVE CatalogInv'
<1>1. UNCHANGED <<rows, used>> /\ req[c].op = "delete" /\ req[c].pc = "count" BY DEF DeleteCount, At
<1>2. CASE Finish(c) BY <1>1, <1>2, FinishQuiet
<1>3. CASE References(req[c].id) = {} /\ Go(c, req[c], "write") /\ UNCHANGED locks
  <2>1. Went(c, req[c], "write") BY <1>1, <1>3, AtBusy, GoWent DEF CatalogInv
  <2>2. Exclusive' BY <1>3 DEF CatalogInv, Exclusive
  <2>3. Names(req'[c]) BY <1>1, <2>1, AtBusy DEF Went, Names
  <2>4. Held(c, req[c].id, TRUE) BY <1>1 DEF CatalogInv, ClientInv
  <2>5. Held(c, req[c].id, TRUE)' BY <1>3, <2>1, <2>4 DEF Held, Went
  <2>6. References(req[c].id)' = {}
    <3>1. UNCHANGED <<functions, tools, agents>> BY <1>1 DEF rows
    <3> QED BY <1>3, <2>1, <3>1 DEF References, Went
  <2>7. ClientInv(c)' BY <1>1, <2>1, <2>3, <2>5, <2>6 DEF ClientInv, Went, AgentWrites
  <2> QED BY <1>1, <1>3, <2>1, <2>2, <2>7, QuietStep DEF Went
<1> QED BY <1>2, <1>3 DEF DeleteCount

LEMMA CheckPluginQuiet == ASSUME CatalogInv, NEW c \in Clients, CheckPlugin(c) PROVE CatalogInv'
<1>1. UNCHANGED <<rows, used>> /\ req[c].op = "create_function" BY DEF CheckPlugin, At
<1>2. CASE Finish(c) BY <1>1, <1>2, FinishQuiet
<1>3. CASE Live(req[c].ref) /\ SharePlugin(c, req[c].ref)
  <2>1. Went(c, req[c], "insert") BY <1>1, <1>3, AtBusy, GoWent DEF SharePlugin, CatalogInv
  <2>2. locks' = locks \cup {[c |-> c, row |-> req[c].ref, x |-> FALSE]} BY <1>3 DEF SharePlugin, Share
  <2>3. ~\E l \in locks : l.row = req[c].ref /\ l.c # c /\ l.x BY <1>3 DEF SharePlugin, CanShare
  <2>4. Exclusive' BY <2>2, <2>3 DEF CatalogInv, Exclusive
  <2>5. \A l : l.c # c => (l \in locks' <=> l \in locks) BY <2>2
  <2>6. Names(req[c]) /\ Names(req'[c]) BY <1>1, <2>1, AtBusy DEF Went, Names
  <2>7. Held(c, req[c].ref, FALSE)' BY <2>1, <2>2 DEF Held, Went
  <2>8. req[c].ref \in DOMAIN plugins /\ ~plugins[req[c].ref].deleted
    <3>1. req[c].ref \in Plugins BY <1>1, <2>6 DEF Names
    <3>2. DOMAIN functions \subseteq Funs /\ DOMAIN tools \subseteq Tools BY DEF CatalogInv, TableInv
    <3> QED BY <1>3, <3>1, <3>2, CatalogAssumption DEF Live
  <2>9. plugins' = plugins BY <1>1 DEF rows
  <2>10. ClientInv(c)' BY <1>1, <2>1, <2>6, <2>7, <2>8, <2>9 DEF ClientInv, Went, AgentWrites
  <2> QED BY <1>1, <2>1, <2>4, <2>5, <2>10, QuietStep DEF Went
<1> QED BY <1>2, <1>3 DEF CheckPlugin

\* Reads that add fields to the request
LEMMA ReadSteps ==
    ASSUME CatalogInv, NEW c \in Clients,
           \/ CreateFetch(c) \/ UpdateFetch(c) \/ DeleteAgentFetch(c)
           \/ ReadTools(c) \/ ReadChildren(c)
    PROVE  CatalogInv'
<1> DEFINE Grows(r) == /\ DOMAIN r = Fields /\ r.op = req[c].op /\ r.id = req[c].id /\ r.ref = req[c].ref
           Done == Finish(c) \/ \E r, pc : /\ Grows(r) /\ Unlocked(r.op, pc) /\ Go(c, r, pc) /\ UNCHANGED locks
<1>1. UNCHANGED <<rows, used>> /\ req[c].op # "idle"
  BY DEF CreateFetch, UpdateFetch, DeleteAgentFetch, ReadTools, ReadChildren, At
<1>2. DOMAIN req[c] = Fields BY <1>1, AtBusy
<1>3. ASSUME NEW v, NEW w
      PROVE  /\ Grows([req[c] EXCEPT !.depth = v]) /\ Grows([req[c] EXCEPT !.old = v])
             /\ Grows([req[c] EXCEPT !.old = v, !.depth = w])
             /\ Grows([req[c] EXCEPT !.tools = v]) /\ Grows([req[c] EXCEPT !.children = v])
  BY <1>2 DEF Fields
<1>4. ASSUME NEW r, Grows(r), NEW x, NEW y, NEW z
      PROVE  Grows([r EXCEPT !.tools = x, !.children = y, !.alone = z])
  BY <1>4 DEF Fields
<1> HIDE DEF Grows
<1>5. ASSUME NEW r, Grows(r), NEW pc, Unlocked(req[c].op, pc), Go(c, r, pc), UNCHANGED locks PROVE CatalogInv'
  BY <1>1, <1>5, GoQuiet DEF Grows
<1>6. ASSUME Finish(c) PROVE CatalogInv'
  BY <1>1, <1>6, FinishQuiet
<1>7. CASE CreateFetch(c)
  <2>1. Unlocked(req[c].op, "row") BY <1>7 DEF CreateFetch, At, Unlocked, AgentWrites
  <2>2. Finish(c) \/ \E v : Go(c, [req[c] EXCEPT !.depth = v], "row") /\ UNCHANGED locks
    BY <1>7 DEF CreateFetch
  <2>3. ASSUME NEW v, Go(c, [req[c] EXCEPT !.depth = v], "row"), UNCHANGED locks PROVE CatalogInv'
    <3> DEFINE r == [req[c] EXCEPT !.depth = v]
    <3>1. Grows(r) /\ Go(c, r, "row") BY <1>3, <2>3
    <3> HIDE DEF r
    <3> QED BY <1>5, <2>1, <2>3, <3>1
  <2> QED BY <1>6, <2>2, <2>3
<1>8. CASE UpdateFetch(c)
  <2>1. Unlocked(req[c].op, "row") BY <1>8 DEF UpdateFetch, At, Unlocked, AgentWrites
  <2>2. \/ Finish(c)
        \/ \E v : Go(c, [req[c] EXCEPT !.old = v], "row") /\ UNCHANGED locks
        \/ \E v, w : Go(c, [req[c] EXCEPT !.old = v, !.depth = w], "row") /\ UNCHANGED locks
    BY <1>8 DEF UpdateFetch
  <2>3. ASSUME NEW v, Go(c, [req[c] EXCEPT !.old = v], "row"), UNCHANGED locks PROVE CatalogInv'
    <3> DEFINE r == [req[c] EXCEPT !.old = v]
    <3>1. Grows(r) /\ Go(c, r, "row") BY <1>3, <2>3
    <3> HIDE DEF r
    <3> QED BY <1>5, <2>1, <2>3, <3>1
  <2>4. ASSUME NEW v, NEW w, Go(c, [req[c] EXCEPT !.old = v, !.depth = w], "row"), UNCHANGED locks
        PROVE  CatalogInv'
    <3> DEFINE r == [req[c] EXCEPT !.old = v, !.depth = w]
    <3>1. Grows(r) /\ Go(c, r, "row") BY <1>3, <2>4
    <3> HIDE DEF r
    <3> QED BY <1>5, <2>1, <2>4, <3>1
  <2> QED BY <1>6, <2>2, <2>3, <2>4
<1>9. CASE DeleteAgentFetch(c)
  <2>1. Unlocked(req[c].op, "count") BY <1>9 DEF DeleteAgentFetch, At, Unlocked, AgentWrites
  <2>2. Finish(c) \/ \E v : Go(c, [req[c] EXCEPT !.old = v], "count") /\ UNCHANGED locks
    BY <1>9 DEF DeleteAgentFetch
  <2>3. ASSUME NEW v, Go(c, [req[c] EXCEPT !.old = v], "count"), UNCHANGED locks PROVE CatalogInv'
    <3> DEFINE r == [req[c] EXCEPT !.old = v]
    <3>1. Grows(r) /\ Go(c, r, "count") BY <1>3, <2>3
    <3> HIDE DEF r
    <3> QED BY <1>5, <2>1, <2>3, <3>1
  <2> QED BY <1>6, <2>2, <2>3
<1>10. ASSUME NEW found, NEW r, Grows(r), NEW pc, Unlocked(req[c].op, pc), Reads(c, found, r, pc),
              UNCHANGED locks
       PROVE  CatalogInv'
  <2> DEFINE q == [r EXCEPT !.tools = req[c].tools, !.children = {}, !.alone = FALSE]
  <2>1. Grows(q) BY <1>4, <1>10
  <2>2. Go(c, r, pc) \/ Go(c, q, pc) BY <1>10 DEF Reads
  <2> HIDE DEF q
  <2> QED BY <1>5, <1>10, <2>1, <2>2
<1>11. CASE ReadTools(c)
  <2> DEFINE found == IF req[c].id \in DOMAIN agents THEN agents[req[c].id].tools ELSE {}
             r == [req[c] EXCEPT !.tools = found]
  <2>1. Unlocked(req[c].op, "children") /\ UNCHANGED locks
    BY <1>11 DEF ReadTools, At, Unlocked, AgentWrites
  <2>2. Grows(r) /\ Reads(c, found, r, "children") BY <1>3, <1>11 DEF ReadTools
  <2> HIDE DEF r, found
  <2> QED BY <1>10, <2>1, <2>2
<1>12. CASE ReadChildren(c)
  <2> DEFINE found == Children(req[c].id)
             r == [req[c] EXCEPT !.children = found]
  <2>1. Unlocked(req[c].op, "set") /\ UNCHANGED locks
    BY <1>12 DEF ReadChildren, At, Unlocked, AgentWrites
  <2>2. Grows(r) /\ Reads(c, found, r, "set") BY <1>3, <1>12 DEF ReadChildren
  <2> HIDE DEF r, found
  <2> QED BY <1>10, <2>1, <2>2
<1> QED BY <1>7, <1>8, <1>9, <1>11, <1>12

LEMMA WriteRowQuiet == ASSUME CatalogInv, NEW c \in Clients, WriteRow(c) PROVE CatalogInv'
<1> DEFINE r == req[c]
           own == IF r.op = "update_agent" THEN {r.id} \cap DOMAIN agents ELSE {}
           writes == r.op = "create_agent" \/ own # {}
           fk == {p \in {r.ref} \ {None} : writes /\ \A a \in own : agents[a].parent # p}
<1>1. UNCHANGED <<rows, used>> /\ r.op \in AgentWrites
  BY DEF WriteRow, At, AgentWrites
<1>2. /\ \A a \in own : CanLock(c, a)
      /\ \A p \in fk : CanShare(c, p)
      /\ \/ Go(c, r, "bind") /\ locks' = Share(c, fk) \cup UNION {Lock(c, a) : a \in own}
         \/ Finish(c)
  BY DEF WriteRow
<1>3. CASE Finish(c) BY <1>1, <1>3, FinishQuiet
<1>4. CASE Go(c, r, "bind") /\ locks' = Share(c, fk) \cup UNION {Lock(c, a) : a \in own}
  <2>1. Went(c, r, "bind") BY <1>1, <1>4, AtBusy, GoWent DEF CatalogInv, AgentWrites
  <2> HIDE DEF r, own, fk
  <2>2. \A l : l \in locks' <=>
                 \/ l \in locks
                 \/ \E p \in fk : l = [c |-> c, row |-> p, x |-> FALSE]
                 \/ \E a \in own : l = [c |-> c, row |-> a, x |-> TRUE]
    <3>1. \A l : l \in Share(c, fk) <=> l \in locks \/ \E p \in fk : l = [c |-> c, row |-> p, x |-> FALSE]
      BY DEF Share
    <3>2. \A l : l \in UNION {Lock(c, a) : a \in own}
                 <=> \E a \in own : l \in locks \/ l = [c |-> c, row |-> a, x |-> TRUE]
      BY DEF Lock
    <3> QED BY <1>4, <3>1, <3>2
  <2>3. \A l : l.c # c => (l \in locks' <=> l \in locks) BY <2>2
  <2>4. Exclusive'
    <3> SUFFICES ASSUME NEW l \in locks', NEW m \in locks', l.row = m.row, l.x PROVE l.c = m.c
      BY DEF Exclusive
    <3>1. CASE l.c # c /\ m.c # c BY <2>3, <3>1 DEF CatalogInv, Exclusive
    <3>2. CASE l.c # c /\ m.c = c
      <4>1. l \in locks BY <2>3, <3>2
      <4>2. CASE m \in locks BY <4>1, <4>2 DEF CatalogInv, Exclusive
      <4>3. CASE \E p \in fk : m = [c |-> c, row |-> p, x |-> FALSE]
        BY <1>2, <3>2, <4>1, <4>3 DEF CanShare
      <4>4. CASE \E a \in own : m = [c |-> c, row |-> a, x |-> TRUE]
        BY <1>2, <3>2, <4>1, <4>4 DEF CanLock
      <4> QED BY <2>2, <4>2, <4>3, <4>4
    <3>3. CASE l.c = c /\ m.c # c
      <4>1. m \in locks BY <2>3, <3>3
      <4>2. CASE l \in locks BY <4>1, <4>2 DEF CatalogInv, Exclusive
      <4>3. CASE \E a \in own : l = [c |-> c, row |-> a, x |-> TRUE]
        BY <1>2, <3>3, <4>1, <4>3 DEF CanLock
      <4>4. CASE \E p \in fk : l = [c |-> c, row |-> p, x |-> FALSE] BY <4>4
      <4> QED BY <2>2, <4>2, <4>3, <4>4
    <3> QED BY <3>1, <3>2, <3>3
  <2>5. ClientInv(c)'
    <3>1. Names(req[c]) BY <1>1, AtBusy DEF r, AgentWrites
    <3>2. Names(req'[c]) BY <2>1, <3>1 DEF Went, Names, r
    <3> QED BY <1>1, <2>1, <3>2 DEF Went, ClientInv, AgentWrites
  <2> QED BY <1>1, <2>1, <2>3, <2>4, <2>5, QuietStep DEF Went
<1> QED BY <1>2, <1>3, <1>4

LEMMA BindToolsQuiet == ASSUME CatalogInv, NEW c \in Clients, BindTools(c) PROVE CatalogInv'
<1> DEFINE asked == IF req[c].bind = None \/ (req[c].op = "update_agent" /\ req[c].id \notin DOMAIN agents)
                    THEN {} ELSE req[c].bind
           found == asked \cap DOMAIN tools
           r == [req[c] EXCEPT !.tools = found]
<1>1. UNCHANGED <<rows, used>> /\ req[c].op \in AgentWrites /\ req[c].op # "idle"
  BY DEF BindTools, At, AgentWrites
<1>2. (\A t \in asked : CanShare(c, t)) /\ Go(c, r, "commit") /\ locks' = Share(c, found)
  BY DEF BindTools
<1>3. DOMAIN req[c] = Fields /\ Names(req[c]) BY <1>1, AtBusy
<1>4. /\ DOMAIN r = Fields /\ r.op = req[c].op /\ r.id = req[c].id /\ r.ref = req[c].ref
      /\ r.tools = found
  BY <1>3 DEF Fields
<1> HIDE DEF r, asked
<1>5. Went(c, r, "commit") BY <1>2, <1>4, GoWent DEF CatalogInv
<1>6. \A l : l \in locks' <=> l \in locks \/ \E t \in found : l = [c |-> c, row |-> t, x |-> FALSE]
  BY <1>2 DEF Share
<1>7. \A t \in found : ~\E l \in locks : l.row = t /\ l.c # c /\ l.x
  BY <1>2 DEF CanShare
<1> HIDE DEF found
<1>8. Exclusive'
  <2> SUFFICES ASSUME NEW l \in locks', NEW m \in locks', l.row = m.row, l.x PROVE l.c = m.c
    BY DEF Exclusive
  <2>1. l \in locks BY <1>6
  <2>2. CASE m \in locks BY <2>1, <2>2 DEF CatalogInv, Exclusive
  <2>3. CASE \E t \in found : m = [c |-> c, row |-> t, x |-> FALSE] BY <1>7, <2>1, <2>3
  <2> QED BY <1>6, <2>2, <2>3
<1>9. \A l : l.c # c => (l \in locks' <=> l \in locks) BY <1>6
<1>10. Names(req'[c]) BY <1>3, <1>4, <1>5 DEF Went, Names
<1>11. \A t \in req'[c].tools : Held(c, t, FALSE)' /\ t \in DOMAIN tools'
  <2>1. req'[c].tools = found BY <1>4, <1>5 DEF Went
  <2>2. tools' = tools BY <1>1 DEF rows
  <2>3. found \subseteq DOMAIN tools BY DEF found
  <2>4. \A t \in found : [c |-> c, row |-> t, x |-> FALSE] \in locks' BY <1>6
  <2> QED BY <2>1, <2>2, <2>3, <2>4 DEF Held
<1>12. ClientInv(c)' BY <1>1, <1>4, <1>5, <1>10, <1>11 DEF Went, ClientInv, AgentWrites
<1> QED BY <1>1, <1>5, <1>8, <1>9, <1>12, QuietStep DEF Went

LEMMA InvalidateOneQuiet == ASSUME CatalogInv, NEW c \in Clients, InvalidateOne(c) PROVE CatalogInv'
<1>1. UNCHANGED <<rows, used, locks>> /\ req[c] # Idle /\ req[c].pc = "del" BY DEF InvalidateOne
<1>2. PICK a \in req[c].stale : req' = [req EXCEPT ![c].stale = @ \ {a}] BY DEF InvalidateOne
<1>3. DOMAIN req[c] = Fields /\ Names(req[c]) /\ req[c].op # "idle" BY <1>1 DEF CatalogInv, ClientInv
<1>4. /\ Others(c) /\ DOMAIN req'[c] = Fields /\ req'[c].op = req[c].op /\ req'[c].pc = "del"
      /\ req'[c].id = req[c].id /\ req'[c].ref = req[c].ref
  BY <1>1, <1>2, <1>3 DEF Fields, Others, CatalogInv
<1>5. Names(req'[c]) BY <1>3, <1>4 DEF Names
<1>6. ClientInv(c)' BY <1>3, <1>4, <1>5 DEF ClientInv
<1>7. Exclusive' BY <1>1 DEF CatalogInv, Exclusive
<1> QED BY <1>1, <1>4, <1>6, <1>7, QuietStep

\* Steps that change neither a table, a lock nor a request
LEMMA StutterQuiet ==
    ASSUME CatalogInv, UNCHANGED <<rows, used, locks, req>> PROVE CatalogInv'
BY DEF CatalogInv, TableInv, Exclusive, ClientInv, Held, References, rows

-----------------------------------------------------------------------------
(* Steps that write a table                                                *)
(***************************************************************************)
\* What the locks of d have to protect from a write of another request
Kept(d) ==
    /\ req[d].op = "delete" /\ req[d].pc = "write" => \A k : k = req[d].id => References(k)' = {}
    /\ req[d].op = "create_function" /\ req[d].pc = "insert" =>
         req[d].ref \in DOMAIN plugins' /\ ~plugins'[req[d].ref].deleted
    /\ req[d].op \in AgentWrites /\ req[d].pc = "commit" => req[d].tools \subseteq DOMAIN tools'

LEMMA WriteStep ==
    ASSUME CatalogInv, NEW c \in Clients, Others(c), locks' = Released(c), ClientInv(c)', TableInv',
           \A d \in Clients \ {c} : Kept(d)
    PROVE  CatalogInv'
<1>1. Exclusive' BY DEF CatalogInv, Exclusive, Released
<1>2. ASSUME NEW d \in Clients, d # c PROVE ClientInv(d)'
  <2>1. req'[d] = req[d] /\ ClientInv(d) /\ Kept(d) BY <1>2 DEF Others, CatalogInv
  <2>2. ASSUME NEW row, NEW x PROVE Held(d, row, x)' <=> Held(d, row, x)
    <3> DEFINE l == [c |-> d, row |-> row, x |-> x]
    <3>1. l.c # c BY <1>2
    <3> HIDE DEF l
    <3>2. l \in locks' <=> l \in locks BY <3>1 DEF Released
    <3> QED BY <3>2 DEF Held, l
  <2>3. PICK k : k = req[d].id OBVIOUS
  <2>4. req[d].op = "delete" /\ req[d].pc = "write" => References(k)' = {} BY <2>1, <2>3 DEF Kept
  <2>5. k = req'[d].id BY <2>1, <2>3
  <2>6. req'[d].op = "delete" /\ req'[d].pc = "write" => References(req[d].id)' = {}
    BY <2>1, <2>4, <2>5 DEF References
  <2> QED BY <2>1, <2>2, <2>6 DEF ClientInv, Kept
<1> QED BY <1>1, <1>2 DEF CatalogInv, Others

\* A request that has written ends, or goes on without locks to drop cached content
LEMMA Written ==
    ASSUME CatalogInv, NEW c \in Clients, req[c].op # "idle",
           Finish(c) \/ \E S : Invalidate(c, req[c], S)
    PROVE  Others(c) /\ locks' = Released(c) /\ ClientInv(c)'
<1>1. CASE Finish(c)
  <2>1. Others(c) /\ req'[c] = Idle /\ locks' = Released(c) BY <1>1, FinishOthers DEF CatalogInv
  <2> QED BY <2>1, IdleIs DEF ClientInv, AgentWrites
<1>2. ASSUME NEW S, Invalidate(c, req[c], S)
      PROVE  Others(c) /\ locks' = Released(c) /\ ClientInv(c)'
  <2> DEFINE r == [req[c] EXCEPT !.stale = S \ {None}]
  <2>1. DOMAIN req[c] = Fields /\ Names(req[c]) BY AtBusy
  <2>2. DOMAIN r = Fields /\ r.op = req[c].op /\ r.id = req[c].id /\ r.ref = req[c].ref
    BY <2>1 DEF Fields
  <2>3. Go(c, r, "del") /\ locks' = Released(c) BY <1>2 DEF Invalidate
  <2> HIDE DEF r
  <2>4. Went(c, r, "del") BY <2>2, <2>3, GoWent DEF CatalogInv
  <2>5. Names(req'[c]) BY <2>1, <2>2, <2>4 DEF Went, Names
  <2> QED BY <2>2, <2>3, <2>4, <2>5 DEF Went, ClientInv
<1> QED BY <1>1, <1>2

\* Two requests never hold a row in conflict
LEMMA NoConflict ==
    ASSUME CatalogInv, NEW c, NEW d, c # d, NEW row, NEW x, Held(c, row, TRUE)
    PROVE  ~Held(d, row, x)
<1> DEFINE l == [c |-> c, row |-> row, x |-> TRUE]
           m == [c |-> d, row |-> row, x |-> x]
<1>1. l.row = m.row /\ l.x /\ l.c # m.c OBVIOUS
<1> HIDE DEF l, m
<1> QED BY <1>1 DEF CatalogInv, Exclusive, Held, l, m

LEMMA CannotShare ==
    ASSUME NEW c, NEW d, c # d, NEW row, Held(d, row, TRUE)
    PROVE  ~CanShare(c, row)
BY DEF Held, CanShare

LEMMA InsertPluginInv == ASSUME CatalogInv, NEW c \in Clients, InsertPlugin(c) PROVE CatalogInv'
<1>1. /\ req[c].op = "upload" /\ Finish(c) /\ UNCHANGED <<functions, tools, agents, used>>
      /\ plugins' = plugins \/ (/\ req[c].id \notin DOMAIN plugins
                                /\ plugins' = Put(plugins, req[c].id, [deleted |-> FALSE, sha |-> req[c].ref]))
  BY DEF InsertPlugin, At
<1>2. req[c].id \in Plugins BY <1>1, AtBusy DEF Names
<1>3. /\ DOMAIN plugins \subseteq DOMAIN plugins' /\ DOMAIN plugins' \subseteq Plugins
      /\ \A k \in DOMAIN plugins : plugins'[k] = plugins[k]
      /\ \A k \in DOMAIN plugins' : DOMAIN plugins'[k] = {"deleted", "sha"}
  BY <1>1, <1>2 DEF Put, CatalogInv, TableInv
<1>4. TableInv' BY <1>1, <1>3 DEF CatalogInv, TableInv
<1>5. ASSUME NEW d \in Clients \ {c} PROVE Kept(d)
  <2>1. ClientInv(d) BY DEF CatalogInv
  <2>2. \A k : References(k)' = References(k) BY <1>1 DEF References
  <2> QED BY <1>1, <1>3, <2>1, <2>2 DEF ClientInv, Kept
<1> QED BY <1>1, <1>4, <1>5, Written, WriteStep

\* A delete about to write holds its row, and nothing refers to it
LEMMA DeleteReady ==
    ASSUME CatalogInv, NEW c \in Clients, At(c, "delete", "write")
    PROVE  Held(c, req[c].id, TRUE) /\ References(req[c].id) = {}
BY DEF At, CatalogInv, ClientInv

LEMMA SoftDeleteInv == ASSUME CatalogInv, NEW c \in Clients, SoftDelete(c) PROVE CatalogInv'
<1>1. /\ At(c, "delete", "write") /\ req[c].op # "idle" /\ req[c].id \in DOMAIN plugins
      /\ Finish(c) /\ UNCHANGED <<functions, tools, agents, used>>
      /\ plugins' = [plugins EXCEPT ![req[c].id].deleted = TRUE]
  BY DEF SoftDelete, At
<1>2. DOMAIN plugins[req[c].id] = {"deleted", "sha"} BY <1>1 DEF CatalogInv, TableInv
<1>3. /\ DOMAIN plugins' = DOMAIN plugins
      /\ \A k \in DOMAIN plugins : k # req[c].id => plugins'[k] = plugins[k]
      /\ DOMAIN plugins'[req[c].id] = {"deleted", "sha"}
  BY <1>1, <1>2
<1>4. TableInv'
  <2>1. \A f \in DOMAIN functions : functions[f] # req[c].id BY <1>1, DeleteReady DEF References
  <2> QED BY <1>1, <1>3, <2>1 DEF CatalogInv, TableInv
<1>5. ASSUME NEW d \in Clients \ {c} PROVE Kept(d)
  <2>1. ClientInv(d) BY DEF CatalogInv
  <2>2. \A k : References(k)' = References(k) BY <1>1 DEF References
  <2>3. ~Held(d, req[c].id, FALSE) BY <1>1, DeleteReady, NoConflict
  <2> QED BY <1>1, <1>3, <2>1, <2>2, <2>3 DEF ClientInv, Kept
<1> QED BY <1>1, <1>4, <1>5, Written, WriteStep

LEMMA DeleteFunctionInv == ASSUME CatalogInv, NEW c \in Clients, DeleteFunction(c) PROVE CatalogInv'
<1>1. /\ At(c, "delete", "write") /\ req[c].op # "idle" /\ Finish(c)
      /\ UNCHANGED <<plugins, tools, agents, used>>
      /\ functions' = IF References(req[c].id) = {} THEN Drop(functions, {req[c].id}) ELSE functions
  BY DEF DeleteFunction, At
<1>2. References(req[c].id) = {} BY <1>1, DeleteReady
<1>3. /\ DOMAIN functions' = DOMAIN functions \ {req[c].id}
      /\ \A f \in DOMAIN functions' : functions'[f] = functions[f]
  BY <1>1, <1>2 DEF Drop, Restrict
<1>4. TableInv'
  <2>1. \A t \in DOMAIN tools : tools[t] # req[c].id BY <1>2 DEF References
  <2> QED BY <1>1, <1>3, <2>1 DEF CatalogInv, TableInv
<1>5. ASSUME NEW d \in Clients \ {c} PROVE Kept(d)
  <2>1. ClientInv(d) BY DEF CatalogInv
  <2>2. \A k : References(k)' \subseteq References(k) BY <1>1, <1>3 DEF References
  <2> QED BY <1>1, <2>1, <2>2 DEF ClientInv, Kept
<1> QED BY <1>1, <1>4, <1>5, Written, WriteStep

\* The cascade of a tool's deletion finds no binding
LEMMA DeleteToolEffect ==
    ASSUME CatalogInv, NEW c \in Clients, DeleteTool(c)
    PROVE  /\ At(c, "delete", "write") /\ req[c].op # "idle" /\ Finish(c)
           /\ UNCHANGED <<plugins, functions, used, cache>>
           /\ DOMAIN tools' = DOMAIN tools \ {req[c].id} /\ \A t \in DOMAIN tools' : tools'[t] = tools[t]
           /\ DOMAIN agents' = DOMAIN agents
           /\ \A a \in DOMAIN agents : /\ req[c].id \notin agents[a].tools
                                       /\ DOMAIN agents'[a] = DOMAIN agents[a]
                                       /\ agents'[a].tools = agents[a].tools
                                       /\ agents'[a].parent = agents[a].parent
<1>1. /\ At(c, "delete", "write") /\ req[c].op # "idle" /\ Finish(c)
      /\ UNCHANGED <<plugins, functions, used, cache>>
      /\ tools' = Drop(tools, {req[c].id})
      /\ agents' = [a \in DOMAIN agents |-> [agents[a] EXCEPT !.tools = @ \ {req[c].id}]]
  BY DEF DeleteTool, At
<1>2. DOMAIN tools' = DOMAIN tools \ {req[c].id} /\ \A t \in DOMAIN tools' : tools'[t] = tools[t]
  BY <1>1 DEF Drop, Restrict
<1>3. ASSUME NEW a \in DOMAIN agents
      PROVE  /\ req[c].id \notin agents[a].tools
             /\ DOMAIN agents'[a] = DOMAIN agents[a]
             /\ agents'[a].tools = agents[a].tools
             /\ agents'[a].parent = agents[a].parent
  <2>1. DOMAIN agents[a] = {"parent", "depth", "tools"} BY DEF CatalogInv, TableInv
  <2>2. req[c].id \notin agents[a].tools BY <1>1, DeleteReady DEF References
  <2>3. agents'[a] = [agents[a] EXCEPT !.tools = @ \ {req[c].id}] BY <1>1
  <2>4. /\ DOMAIN agents'[a] = DOMAIN agents[a]
        /\ agents'[a].tools = agents[a].tools \ {req[c].id}
        /\ agents'[a].parent = agents[a].parent
    BY <2>1, <2>3
  <2> QED BY <2>2, <2>4
<1>4. DOMAIN agents' = DOMAIN agents BY <1>1
<1> QED BY <1>1, <1>2, <1>3, <1>4

LEMMA DeleteToolInv == ASSUME CatalogInv, NEW c \in Clients, DeleteTool(c) PROVE CatalogInv'
<1>1. UNCHANGED <<plugins, functions, used>> /\ DOMAIN agents' = DOMAIN agents BY DeleteToolEffect
<1>2. ASSUME NEW a \in DOMAIN agents
      PROVE  DOMAIN agents'[a] = {"parent", "depth", "tools"} /\ agents'[a].tools \subseteq DOMAIN tools'
  <2>1. /\ DOMAIN agents[a] = {"parent", "depth", "tools"} /\ agents[a].tools \subseteq DOMAIN tools
    BY DEF CatalogInv, TableInv
  <2>2. /\ DOMAIN tools' = DOMAIN tools \ {req[c].id} /\ req[c].id \notin agents[a].tools
        /\ DOMAIN agents'[a] = DOMAIN agents[a] /\ agents'[a].tools = agents[a].tools
    BY DeleteToolEffect
  <2> QED BY <2>1, <2>2
<1>3. DOMAIN tools' \subseteq DOMAIN tools /\ \A t \in DOMAIN tools' : tools'[t] = tools[t]
  BY DeleteToolEffect
<1>4. TableInv' BY <1>1, <1>2, <1>3 DEF CatalogInv, TableInv
<1>5. ASSUME NEW d \in Clients \ {c} PROVE Kept(d)
  <2>1. ClientInv(d) BY DEF CatalogInv
  <2>2. \A k : References(k)' \subseteq References(k) BY DeleteToolEffect DEF References
  <2>3. ~Held(d, req[c].id, FALSE) BY DeleteToolEffect, DeleteReady, NoConflict
  <2> QED BY <2>1, <2>2, <2>3, DeleteToolEffect DEF ClientInv, Kept
<1> QED BY <1>4, <1>5, DeleteToolEffect, Written, WriteStep

LEMMA InsertFunctionInv == ASSUME CatalogInv, NEW c \in Clients, InsertFunction(c) PROVE CatalogInv'
<1>1. /\ At(c, "create_function", "insert") /\ req[c].op # "idle" /\ Finish(c)
      /\ functions' = Put(functions, req[c].id, req[c].ref) /\ used' = used \cup {req[c].id}
      /\ UNCHANGED <<plugins, tools, agents>>
  BY DEF InsertFunction, At
<1>2. /\ req[c].id \in Funs /\ Held(c, req[c].ref, FALSE)
      /\ req[c].ref \in DOMAIN plugins /\ ~plugins[req[c].ref].deleted
  BY <1>1 DEF At, CatalogInv, ClientInv, Names
<1>3. /\ DOMAIN functions' = DOMAIN functions \cup {req[c].id}
      /\ \A f \in DOMAIN functions' : functions'[f] = IF f = req[c].id THEN req[c].ref ELSE functions[f]
  BY <1>1 DEF Put
<1>4. TableInv' BY <1>1, <1>2, <1>3 DEF CatalogInv, TableInv
<1>5. ASSUME NEW d \in Clients \ {c} PROVE Kept(d)
  <2>1. ClientInv(d) BY DEF CatalogInv
  <2>2. \A k : k # req[c].ref => References(k)' \subseteq References(k) BY <1>1, <1>3 DEF References
  <2>3. ~Held(d, req[c].ref, TRUE) BY <1>2, NoConflict
  <2> QED BY <1>1, <2>1, <2>2, <2>3 DEF ClientInv, Kept
<1> QED BY <1>1, <1>4, <1>5, Written, WriteStep

LEMMA InsertToolInv == ASSUME CatalogInv, NEW c \in Clients, InsertTool(c) PROVE CatalogInv'
<1>1. /\ At(c, "create_tool", "insert") /\ req[c].op # "idle" /\ Finish(c) /\ CanShare(c, req[c].ref)
      /\ UNCHANGED <<plugins, functions, agents>>
      /\ \/ /\ req[c].ref \in DOMAIN functions
            /\ tools' = Put(tools, req[c].id, req[c].ref) /\ used' = used \cup {req[c].id}
         \/ UNCHANGED <<tools, used>>
  BY DEF InsertTool, At
<1>2. CASE UNCHANGED <<tools, used>> BY <1>1, <1>2, FinishQuiet DEF rows
<1>3. CASE /\ req[c].ref \in DOMAIN functions
           /\ tools' = Put(tools, req[c].id, req[c].ref) /\ used' = used \cup {req[c].id}
  <2>1. req[c].id \in Tools BY <1>1, AtBusy DEF At, Names
  <2>2. /\ DOMAIN tools' = DOMAIN tools \cup {req[c].id}
        /\ \A t \in DOMAIN tools' : tools'[t] = IF t = req[c].id THEN req[c].ref ELSE tools[t]
    BY <1>3 DEF Put
  <2>3. TableInv' BY <1>1, <1>3, <2>1, <2>2 DEF CatalogInv, TableInv
  <2>4. ASSUME NEW d \in Clients \ {c} PROVE Kept(d)
    <3>1. ClientInv(d) BY DEF CatalogInv
    <3>2. \A k : k # req[c].ref => References(k)' \subseteq References(k) BY <1>1, <2>2 DEF References
    <3>3. ~Held(d, req[c].ref, TRUE) BY <1>1, CannotShare
    <3> QED BY <1>1, <2>2, <3>1, <3>2, <3>3 DEF ClientInv, Kept
  <2> QED BY <1>1, <2>3, <2>4, Written, WriteStep
<1> QED BY <1>1, <1>2, <1>3

\* What a commit binds is there and is held: no delete of it is about to be written
LEMMA CommitReady ==
    ASSUME CatalogInv, NEW c \in Clients, req[c].op \in AgentWrites, req[c].pc = "commit"
    PROVE  /\ req[c].id \in Agents /\ req[c].tools \subseteq DOMAIN tools
           /\ \A d \in Clients \ {c} : req[d].op = "delete" /\ req[d].pc = "write" => req[d].id \notin req[c].tools
<1>1. ClientInv(c) BY DEF CatalogInv
<1>2. ASSUME NEW d \in Clients \ {c}, req[d].op = "delete", req[d].pc = "write", req[d].id \in req[c].tools
      PROVE  FALSE
  <2>1. ClientInv(d) BY DEF CatalogInv
  <2>2. Held(d, req[d].id, TRUE) /\ Held(c, req[d].id, FALSE) BY <1>1, <1>2, <2>1 DEF ClientInv
  <2> QED BY <2>2, NoConflict
<1> QED BY <1>1, <1>2 DEF ClientInv, Names

\* A step that writes agents only, binding no more than what a commit holds
LEMMA AgentStep ==
    ASSUME CatalogInv, NEW c \in Clients, req[c].op # "idle",
           Finish(c) \/ \E S : Invalidate(c, req[c], S),
           UNCHANGED <<plugins, functions, tools>>, used \subseteq used', DOMAIN agents' \subseteq Agents \cap used',
           NEW T, T \subseteq DOMAIN tools,
           \A d \in Clients \ {c} : req[d].op = "delete" /\ req[d].pc = "write" => req[d].id \notin T,
           \A a \in DOMAIN agents' :
             /\ DOMAIN agents'[a] = {"parent", "depth", "tools"}
             /\ agents'[a].tools = T \/ (a \in DOMAIN agents /\ agents'[a].tools = agents[a].tools)
    PROVE  CatalogInv'
<1>1. TableInv' BY DEF CatalogInv, TableInv
<1>2. ASSUME NEW d \in Clients \ {c} PROVE Kept(d)
  <2>1. ClientInv(d) BY DEF CatalogInv
  <2>2. \A k : k \notin T /\ References(k) = {} => References(k)' = {} BY DEF References
  <2> QED BY <2>1, <2>2 DEF ClientInv, Kept
<1> QED BY <1>1, <1>2, Written, WriteStep

LEMMA CommitCreateInv == ASSUME CatalogInv, NEW c \in Clients, CommitCreate(c) PROVE CatalogInv'
<1> DEFINE row == [parent |-> req[c].ref, depth |-> req[c].depth, tools |-> req[c].tools]
<1>1. /\ req[c].op \in AgentWrites /\ req[c].op # "idle" /\ req[c].pc = "commit"
      /\ agents' = Put(agents, req[c].id, row)
      /\ used' = used \cup {req[c].id} /\ UNCHANGED <<plugins, functions, tools>>
      /\ \E S : Invalidate(c, req[c], S)
  BY DEF CommitCreate, At, AgentWrites
<1>2. DOMAIN row = {"parent", "depth", "tools"} /\ row.tools = req[c].tools OBVIOUS
<1> HIDE DEF row
<1>3. /\ DOMAIN agents' = DOMAIN agents \cup {req[c].id}
      /\ \A a \in DOMAIN agents' : agents'[a] = IF a = req[c].id THEN row ELSE agents[a]
  BY <1>1 DEF Put
<1>4. DOMAIN agents' \subseteq Agents \cap used' BY <1>1, <1>3, CommitReady DEF CatalogInv, TableInv
<1>5. ASSUME NEW a \in DOMAIN agents'
      PROVE  /\ DOMAIN agents'[a] = {"parent", "depth", "tools"}
             /\ agents'[a].tools = req[c].tools \/ (a \in DOMAIN agents /\ agents'[a].tools = agents[a].tools)
  BY <1>2, <1>3 DEF CatalogInv, TableInv
<1> DEFINE T == req[c].tools
<1>6. /\ T \subseteq DOMAIN tools
      /\ \A d \in Clients \ {c} : req[d].op = "delete" /\ req[d].pc = "write" => req[d].id \notin T
      /\ \A a \in DOMAIN agents' :
           /\ DOMAIN agents'[a] = {"parent", "depth", "tools"}
           /\ agents'[a].tools = T \/ (a \in DOMAIN agents /\ agents'[a].tools = agents[a].tools)
  BY <1>1, <1>5, CommitReady
<1>7. used \subseteq used' BY <1>1
<1> HIDE DEF T
<1> QED BY <1>1, <1>4, <1>6, <1>7, AgentStep

\* The row an update leaves
LEMMA CommitUpdateEffect ==
    ASSUME CatalogInv, NEW c \in Clients, CommitUpdate(c)
    PROVE  /\ req[c].op \in AgentWrites /\ req[c].op # "idle" /\ req[c].pc = "commit"
           /\ UNCHANGED <<plugins, functions, tools, used>>
           /\ Invalidate(c, req[c], StaleAfter(req[c]))
           /\ DOMAIN agents' = DOMAIN agents
           /\ \A a \in DOMAIN agents : a # req[c].id => agents'[a] = agents[a]
           /\ req[c].id \in DOMAIN agents =>
                LET a == req[c].id IN
                /\ DOMAIN agents'[a] = {"parent", "depth", "tools"}
                /\ agents'[a].parent = IF req[c].ref = None THEN agents[a].parent ELSE req[c].ref
                /\ agents'[a].tools = IF req[c].bind = None THEN agents[a].tools ELSE req[c].tools
<1> DEFINE a == req[c].id
           row == [parent |-> IF req[c].ref = None THEN agents[a].parent ELSE req[c].ref,
                   depth  |-> IF req[c].depth = None THEN agents[a].depth ELSE req[c].depth,
                   tools  |-> IF req[c].bind = None THEN agents[a].tools ELSE req[c].tools]
<1>1. /\ req[c].op \in AgentWrites /\ req[c].op # "idle" /\ req[c].pc = "commit"
      /\ UNCHANGED <<plugins, functions, tools, used>>
      /\ Invalidate(c, req[c], StaleAfter(req[c]))
      /\ agents' = IF a \notin DOMAIN agents THEN agents ELSE [agents EXCEPT ![a] = row]
  BY DEF CommitUpdate, At, AgentWrites
<1>2. /\ DOMAIN row = {"parent", "depth", "tools"}
      /\ row.parent = IF req[c].ref = None THEN agents[a].parent ELSE req[c].ref
      /\ row.tools = IF req[c].bind = None THEN agents[a].tools ELSE req[c].tools
  OBVIOUS
<1> HIDE DEF row
<1>3. a \in DOMAIN agents => agents'[a] = row BY <1>1
<1>4. DOMAIN agents' = DOMAIN agents /\ \A b \in DOMAIN agents : b # a => agents'[b] = agents[b]
  BY <1>1
<1> QED BY <1>1, <1>2, <1>3, <1>4

LEMMA CommitUpdateInv == ASSUME CatalogInv, NEW c \in Clients, CommitUpdate(c) PROVE CatalogInv'
<1>1. /\ req[c].op \in AgentWrites /\ req[c].op # "idle" /\ req[c].pc = "commit"
      /\ UNCHANGED <<plugins, functions, tools, used>> /\ \E S : Invalidate(c, req[c], S)
      /\ DOMAIN agents' = DOMAIN agents
  BY CommitUpdateEffect
<1>2. ASSUME NEW a \in DOMAIN agents'
      PROVE  /\ DOMAIN agents'[a] = {"parent", "depth", "tools"}
             /\ agents'[a].tools = req[c].tools \/ (a \in DOMAIN agents /\ agents'[a].tools = agents[a].tools)
  <2>1. CASE a = req[c].id BY <1>1, <2>1, CommitUpdateEffect
  <2>2. CASE a # req[c].id BY <1>1, <2>2, CommitUpdateEffect DEF CatalogInv, TableInv
  <2> QED BY <2>1, <2>2
<1>3. DOMAIN agents' \subseteq Agents \cap used' BY <1>1 DEF CatalogInv, TableInv
<1> DEFINE T == req[c].tools
<1>4. /\ T \subseteq DOMAIN tools
      /\ \A d \in Clients \ {c} : req[d].op = "delete" /\ req[d].pc = "write" => req[d].id \notin T
      /\ \A a \in DOMAIN agents' :
           /\ DOMAIN agents'[a] = {"parent", "depth", "tools"}
           /\ agents'[a].tools = T \/ (a \in DOMAIN agents /\ agents'[a].tools = agents[a].tools)
  BY <1>1, <1>2, CommitReady
<1>5. used \subseteq used' BY <1>1
<1> HIDE DEF T
<1> QED BY <1>1, <1>3, <1>4, <1>5, AgentStep

LEMMA DeleteAgentInv == ASSUME CatalogInv, NEW c \in Clients, DeleteAgent(c) PROVE CatalogInv'
<1>1. /\ req[c].op # "idle" /\ UNCHANGED <<plugins, functions, tools, used>>
      /\ Finish(c) \/ \E S : Invalidate(c, req[c], S)
      /\ agents' = agents \/ agents' = Drop(agents, {req[c].id})
  BY DEF DeleteAgent, At
<1>2. DOMAIN agents' \subseteq DOMAIN agents /\ \A a \in DOMAIN agents' : agents'[a] = agents[a]
  BY <1>1 DEF Drop, Restrict
<1>3. DOMAIN agents' \subseteq Agents \cap used' BY <1>1, <1>2 DEF CatalogInv, TableInv
<1>4. ASSUME NEW a \in DOMAIN agents'
      PROVE  DOMAIN agents'[a] = {"parent", "depth", "tools"} /\ a \in DOMAIN agents
             /\ agents'[a].tools = agents[a].tools
  BY <1>2 DEF CatalogInv, TableInv
<1>5. PICK T : T = {} OBVIOUS
<1> QED BY <1>1, <1>3, <1>4, <1>5, AgentStep

-----------------------------------------------------------------------------
(* The catalog's invariant                                                 *)
(***************************************************************************)
LEMMA InitCatalog == Init => CatalogInv
<1> SUFFICES ASSUME Init PROVE CatalogInv
  OBVIOUS
<1>1. TableInv BY CatalogAssumption DEF Init, TableInv
<1>2. Exclusive BY DEF Init, Exclusive
<1>3. ASSUME NEW c \in Clients PROVE ClientInv(c)
  <2>1. req[c] = Idle BY DEF Init
  <2> QED BY <2>1, IdleIs DEF ClientInv, AgentWrites
<1> QED BY <1>1, <1>2, <1>3 DEF Init, CatalogInv

LEMMA StepCatalog == ASSUME CatalogInv, NEW c \in Clients, Step(c) PROVE CatalogInv'
BY BeginQuiet, RefuseQuiet, PlainSteps, DeleteLockQuiet, DeleteCountQuiet, CheckPluginQuiet, ReadSteps,
   WriteRowQuiet, BindToolsQuiet, InvalidateOneQuiet, InsertPluginInv, SoftDeleteInv, DeleteFunctionInv,
   DeleteToolInv, InsertFunctionInv, InsertToolInv, CommitCreateInv, CommitUpdateInv, DeleteAgentInv
   DEF Step

LEMMA NextCatalog == CatalogInv /\ [Next]_vars => CatalogInv'
<1> SUFFICES ASSUME CatalogInv, [Next]_vars PROVE CatalogInv'
  OBVIOUS
<1>1. CASE \E c \in Clients : Step(c) BY <1>1, StepCatalog
<1>2. CASE CacheExpire BY <1>2, StutterQuiet DEF CacheExpire
<1>3. CASE UNCHANGED vars BY <1>3, StutterQuiet DEF vars, rows
<1> QED BY <1>1, <1>2, <1>3 DEF Next

\* The tables refer to rows that are there, and each request's locks keep what it
\* read or counted true until it writes: SELECT ... FOR UPDATE and FOR SHARE of
\* plugin.rs, function.rs and tool.rs and the key locks of INSERT IGNORE are enough.
THEOREM LocksHold == Spec => []CatalogInv
BY InitCatalog, NextCatalog, PTL DEF Spec

-----------------------------------------------------------------------------
(* Bindings and bytes                                                      *)
(***************************************************************************)
\* Only tool.delete removes a tool, and it never takes a binding with it
LEMMA StepBindings ==
    ASSUME CatalogInv, [Next]_vars
    PROVE  \A a \in DOMAIN agents : agents[a].tools \subseteq DOMAIN tools'
<1>1. \A a \in DOMAIN agents : agents[a].tools \subseteq DOMAIN tools BY DEF CatalogInv, TableInv
<1>2. CASE \E c \in Clients : DeleteTool(c) BY <1>1, <1>2, DeleteToolEffect
<1>3. CASE \E c \in Clients : InsertTool(c)
  <2>1. DOMAIN tools \subseteq DOMAIN tools' BY <1>3 DEF InsertTool, Put
  <2> QED BY <1>1, <2>1
<1>4. CASE tools' = tools BY <1>1, <1>4
<1>5. tools' = tools \/ \E c \in Clients : DeleteTool(c) \/ InsertTool(c)
  <2>1. ASSUME NEW c \in Clients, Step(c) PROVE tools' = tools \/ DeleteTool(c) \/ InsertTool(c)
    <3>1. CASE Begin(c) \/ Refuse(c) BY <3>1 DEF Begin, Refuse, rows
    <3>2. CASE PutBytes(c) \/ InsertPlugin(c) BY <3>2 DEF PutBytes, InsertPlugin, rows
    <3>3. CASE DeleteFetch(c) \/ DeleteLock(c) \/ DeleteCount(c)
      BY <3>3 DEF DeleteFetch, DeleteLock, DeleteCount, rows
    <3>4. CASE SoftDelete(c) \/ DeleteFunction(c) BY <3>4 DEF SoftDelete, DeleteFunction
    <3>5. CASE CheckPlugin(c) \/ InsertFunction(c) \/ CheckFunction(c)
      BY <3>5 DEF CheckPlugin, InsertFunction, CheckFunction, rows
    <3>6. CASE CreateFetch(c) \/ UpdateFetch(c) \/ WriteRow(c) \/ BindTools(c)
      BY <3>6 DEF CreateFetch, UpdateFetch, WriteRow, BindTools, rows
    <3>7. CASE CommitCreate(c) \/ CommitUpdate(c) \/ DeleteAgent(c)
      BY <3>7 DEF CommitCreate, CommitUpdate, DeleteAgent
    <3>8. CASE DeleteAgentFetch(c) \/ DeleteAgentCount(c) \/ InvalidateOne(c) \/ Leave(c) \/ Answer(c)
      BY <3>8 DEF DeleteAgentFetch, DeleteAgentCount, InvalidateOne, Leave, Answer, rows
    <3>9. CASE CacheGet(c) \/ ReadAgent(c) \/ ReadTools(c) \/ ReadChildren(c) \/ CacheSet(c)
      BY <3>9 DEF CacheGet, ReadAgent, ReadTools, ReadChildren, CacheSet, rows
    <3> QED BY <2>1, <3>1, <3>2, <3>3, <3>4, <3>5, <3>6, <3>7, <3>8, <3>9 DEF Step
  <2> QED BY <2>1 DEF Next, CacheExpire, vars, rows
<1> QED BY <1>2, <1>3, <1>4, <1>5

\* A tool some agent is bound to is never deleted: the count of tool.rs delete, made
\* under the row lock, is still exact when the DELETE cascades.
THEOREM BindingsKeptHolds == Spec => BindingsKept
<1>1. CatalogInv /\ [Next]_vars => [\A a \in DOMAIN agents : agents[a].tools \subseteq DOMAIN tools']_vars
  BY StepBindings
<1> QED BY <1>1, LocksHold, PTL DEF Spec, BindingsKept

\* A request that is not beginning goes on as the same request, or ends
Moved(c) ==
    /\ Others(c) /\ req[c] # Idle
    /\ req'[c] # Idle => /\ DOMAIN req'[c] = Fields /\ req'[c].op = req[c].op /\ req'[c].id = req[c].id
                         /\ req'[c].ref = req[c].ref /\ req'[c].bind = req[c].bind
                         /\ req'[c].alone => req[c].alone

LEMMA FinishMoved ==
    ASSUME CatalogInv, NEW c \in Clients, req[c] # Idle, Finish(c) \/ Refuse(c) PROVE Moved(c) /\ req'[c] = Idle
<1>1. Others(c) /\ req'[c] = Idle BY FinishOthers DEF Refuse, Others, CatalogInv
<1> QED BY <1>1 DEF Moved

\* r continues the request of c
Same(c, r) ==
    /\ DOMAIN r = Fields /\ r.op = req[c].op /\ r.id = req[c].id /\ r.ref = req[c].ref
    /\ r.bind = req[c].bind /\ (r.alone => req[c].alone)

LEMMA GoMoved ==
    ASSUME CatalogInv, NEW c \in Clients, req[c] # Idle, NEW r, Same(c, r), NEW pc, Go(c, r, pc)
    PROVE  Moved(c) /\ req'[c] # Idle /\ Went(c, r, pc)
<1>1. Went(c, r, pc) BY GoWent DEF CatalogInv, Same
<1>2. req[c].op # "idle" BY DEF CatalogInv, ClientInv
<1> QED BY <1>1, <1>2, IdleIs DEF Went, Same, Moved

LEMMA SameSelf == ASSUME CatalogInv, NEW c \in Clients, req[c] # Idle PROVE Same(c, req[c])
BY DEF CatalogInv, ClientInv, Same

LEMMA SameDepth ==
    ASSUME CatalogInv, NEW c \in Clients, req[c] # Idle, NEW v, NEW r, r = [req[c] EXCEPT !.depth = v]
    PROVE  Same(c, r) /\ r.old = req[c].old
<1>1. DOMAIN req[c] = Fields BY DEF CatalogInv, ClientInv
<1> QED BY <1>1 DEF Same, Fields

LEMMA SameOld ==
    ASSUME CatalogInv, NEW c \in Clients, req[c] # Idle, NEW v, NEW r, r = [req[c] EXCEPT !.old = v]
    PROVE  Same(c, r) /\ r.old = v
<1>1. DOMAIN req[c] = Fields BY DEF CatalogInv, ClientInv
<1> QED BY <1>1 DEF Same, Fields

LEMMA SameTools ==
    ASSUME CatalogInv, NEW c \in Clients, req[c] # Idle, NEW v, NEW r, r = [req[c] EXCEPT !.tools = v]
    PROVE  Same(c, r) /\ r.tools = v /\ r.old = req[c].old /\ r.alone = req[c].alone
<1>1. DOMAIN req[c] = Fields BY DEF CatalogInv, ClientInv
<1> QED BY <1>1 DEF Same, Fields

LEMMA SameChildren ==
    ASSUME CatalogInv, NEW c \in Clients, req[c] # Idle, NEW v, NEW r, r = [req[c] EXCEPT !.children = v]
    PROVE  Same(c, r) /\ r.children = v /\ r.tools = req[c].tools /\ r.alone = req[c].alone
<1>1. DOMAIN req[c] = Fields BY DEF CatalogInv, ClientInv
<1> QED BY <1>1 DEF Same, Fields

LEMMA SameStale ==
    ASSUME CatalogInv, NEW c \in Clients, req[c] # Idle, NEW v, NEW r, r = [req[c] EXCEPT !.stale = v]
    PROVE  Same(c, r) /\ r.stale = v
<1>1. DOMAIN req[c] = Fields BY DEF CatalogInv, ClientInv
<1> QED BY <1>1 DEF Same, Fields

\* Ways on for a request
Continues(c) == Finish(c) \/ Refuse(c) \/ \E r, pc : Same(c, r) /\ Go(c, r, pc)

LEMMA ContinuesMoved ==
    ASSUME CatalogInv, NEW c \in Clients, req[c] # Idle, Continues(c) PROVE Moved(c)
BY FinishMoved, GoMoved DEF Continues

LEMMA AtNotIdle == ASSUME NEW c, NEW op, NEW pc, At(c, op, pc), op # "idle" PROVE req[c] # Idle
BY IdleIs DEF At

\* Steps of a request that is not an upload
LEMMA PlainMoved ==
    ASSUME CatalogInv, NEW c \in Clients,
           \/ Refuse(c) \/ DeleteFetch(c) \/ DeleteLock(c) \/ DeleteCount(c)
           \/ SoftDelete(c) \/ DeleteFunction(c) \/ DeleteTool(c)
           \/ CheckPlugin(c) \/ InsertFunction(c) \/ CheckFunction(c) \/ InsertTool(c)
           \/ WriteRow(c) \/ DeleteAgentCount(c) \/ CacheGet(c) \/ ReadAgent(c) \/ CacheSet(c)
    PROVE  Moved(c) /\ req[c].op # "upload" /\ req[c].pc # "del"
<1> DEFINE Goal == req[c].op # "upload" /\ req[c].op # "idle" /\ req[c].pc # "del"
                   /\ (Finish(c) \/ Refuse(c) \/ \E pc : Go(c, req[c], pc))
<1>10. Goal
  <2>1. CASE Refuse(c) BY <2>1 DEF Refuse, At
  <2>2. CASE DeleteFetch(c) \/ DeleteCount(c) BY <2>2 DEF DeleteFetch, DeleteCount, At
  <2>3. CASE DeleteLock(c) BY <2>3 DEF DeleteLock, LockRow, At
  <2>4. CASE SoftDelete(c) \/ DeleteFunction(c) \/ DeleteTool(c)
    BY <2>4 DEF SoftDelete, DeleteFunction, DeleteTool, At
  <2>5. CASE CheckPlugin(c) BY <2>5 DEF CheckPlugin, SharePlugin, At
  <2>6. CASE InsertFunction(c) \/ CheckFunction(c) \/ InsertTool(c)
    BY <2>6 DEF InsertFunction, CheckFunction, InsertTool, At
  <2>7. CASE WriteRow(c) BY <2>7 DEF WriteRow, At
  <2>8. CASE DeleteAgentCount(c) BY <2>8 DEF DeleteAgentCount, At
  <2>9. CASE CacheGet(c) \/ ReadAgent(c) \/ CacheSet(c) BY <2>9 DEF CacheGet, ReadAgent, CacheSet, At
  <2> QED BY <2>1, <2>2, <2>3, <2>4, <2>5, <2>6, <2>7, <2>8, <2>9
<1>11. req[c] # Idle BY <1>10, IdleIs
<1> QED BY <1>10, <1>11, SameSelf, ContinuesMoved DEF Continues

LEMMA InvalidateMoved ==
    ASSUME CatalogInv, NEW c \in Clients, req[c] # Idle, NEW S, Invalidate(c, req[c], S)
    PROVE  Moved(c) /\ req'[c] # Idle /\ req'[c].pc = "del" /\ req'[c].stale = S \ {None}
<1> DEFINE r == [req[c] EXCEPT !.stale = S \ {None}]
<1>1. PICK q : q = r OBVIOUS
<1> HIDE DEF r
<1>2. Go(c, q, "del") BY <1>1 DEF Invalidate, r
<1>3. Same(c, q) /\ q.stale = S \ {None} BY <1>1, SameStale DEF r
<1> QED BY <1>2, <1>3, GoMoved DEF Went

LEMMA CommitMoved ==
    ASSUME CatalogInv, NEW c \in Clients, CommitCreate(c) \/ CommitUpdate(c) \/ DeleteAgent(c)
    PROVE  Moved(c) /\ req[c].op # "upload" /\ req[c].pc # "del"
<1>1. /\ req[c].op # "upload" /\ req[c].op # "idle" /\ req[c].pc # "del"
      /\ Finish(c) \/ \E S : Invalidate(c, req[c], S)
  BY DEF CommitCreate, CommitUpdate, DeleteAgent, At
<1>2. req[c] # Idle BY <1>1, IdleIs
<1> QED BY <1>1, <1>2, FinishMoved, InvalidateMoved

LEMMA InvalidateOneEffect ==
    ASSUME CatalogInv, NEW c \in Clients, InvalidateOne(c)
    PROVE  /\ Moved(c) /\ req'[c] # Idle /\ req'[c].pc = "del" /\ req[c].pc = "del"
           /\ \E a : /\ req'[c].stale = req[c].stale \ {a}
                     /\ \/ cache' = Drop(cache, {a})
                        \/ cache' = [b \in DOMAIN cache |-> IF b = a THEN [cache[b] EXCEPT !.clean = FALSE]
                                                            ELSE cache[b]]
<1>1. req[c] # Idle /\ req[c].pc = "del" BY DEF InvalidateOne
<1>2. PICK a \in req[c].stale :
        /\ req' = [req EXCEPT ![c].stale = @ \ {a}]
        /\ \/ cache' = Drop(cache, {a})
           \/ cache' = [b \in DOMAIN cache |-> IF b = a THEN [cache[b] EXCEPT !.clean = FALSE] ELSE cache[b]]
  BY DEF InvalidateOne
<1>3. DOMAIN req[c] = Fields /\ req[c].op # "idle" BY <1>1 DEF CatalogInv, ClientInv
<1>4. /\ Others(c) /\ DOMAIN req'[c] = Fields /\ req'[c].op = req[c].op /\ req'[c].pc = "del"
      /\ req'[c].id = req[c].id /\ req'[c].ref = req[c].ref /\ req'[c].bind = req[c].bind
      /\ req'[c].alone = req[c].alone /\ req'[c].stale = req[c].stale \ {a}
  BY <1>1, <1>2, <1>3 DEF Fields, Others, CatalogInv
<1>5. req'[c] # Idle BY <1>3, <1>4, IdleIs
<1> QED BY <1>1, <1>2, <1>4, <1>5 DEF Moved

\* Reads that fill in fields: where they lead, and what they keep of the row they read
LEMMA CreateFetchEffect ==
    ASSUME CatalogInv, NEW c \in Clients, CreateFetch(c)
    PROVE  /\ Moved(c) /\ req[c].op = "create_agent" /\ req[c].pc = "fetch"
<1>1. At(c, "create_agent", "fetch") BY DEF CreateFetch
<1>2. req[c] # Idle BY <1>1, AtNotIdle
<1>3. Finish(c) \/ \E r : (\E v : r = [req[c] EXCEPT !.depth = v]) /\ Go(c, r, "row")
  BY DEF CreateFetch
<1> QED BY <1>1, <1>2, <1>3, FinishMoved, SameDepth, GoMoved DEF At

LEMMA UpdateFetchEffect ==
    ASSUME CatalogInv, NEW c \in Clients, UpdateFetch(c)
    PROVE  /\ Moved(c) /\ req[c].op = "update_agent" /\ req[c].pc = "fetch"
           /\ req'[c] # Idle => /\ req'[c].pc = "row" /\ req[c].id \in DOMAIN agents
                                /\ req'[c].old = agents[req[c].id].parent
<1>1. At(c, "update_agent", "fetch") BY DEF UpdateFetch
<1>2. req[c] # Idle BY <1>1, AtNotIdle
<1>3. \/ Finish(c)
      \/ /\ req[c].id \in DOMAIN agents
         /\ \E r : /\ \/ r = [req[c] EXCEPT !.old = agents[req[c].id].parent]
                      \/ \E w : r = [req[c] EXCEPT !.old = agents[req[c].id].parent, !.depth = w]
                   /\ Go(c, r, "row")
  BY DEF UpdateFetch
<1>4. CASE Finish(c) BY <1>1, <1>2, <1>4, FinishMoved DEF At
<1>5. ASSUME req[c].id \in DOMAIN agents, NEW r, Go(c, r, "row"), Same(c, r), r.old = agents[req[c].id].parent
      PROVE  /\ Moved(c) /\ req'[c].pc = "row" /\ req[c].id \in DOMAIN agents
             /\ req'[c].old = agents[req[c].id].parent
  BY <1>2, <1>5, GoMoved DEF Went
<1>6. CASE req[c].id \in DOMAIN agents /\ ~Finish(c)
  <2>1. PICK r : /\ \/ r = [req[c] EXCEPT !.old = agents[req[c].id].parent]
                    \/ \E w : r = [req[c] EXCEPT !.old = agents[req[c].id].parent, !.depth = w]
                 /\ Go(c, r, "row")
    BY <1>3, <1>6
  <2>2. Same(c, r) /\ r.old = agents[req[c].id].parent
    <3>1. CASE r = [req[c] EXCEPT !.old = agents[req[c].id].parent] BY <1>2, <3>1, SameOld
    <3>2. ASSUME NEW w, r = [req[c] EXCEPT !.old = agents[req[c].id].parent, !.depth = w]
          PROVE  Same(c, r) /\ r.old = agents[req[c].id].parent
      <4>1. PICK v : v = agents[req[c].id].parent OBVIOUS
      <4>2. r = [req[c] EXCEPT !.old = v, !.depth = w] BY <3>2, <4>1
      <4>3. DOMAIN req[c] = Fields BY <1>2 DEF CatalogInv, ClientInv
      <4>4. Same(c, r) /\ r.old = v BY <4>2, <4>3 DEF Same, Fields
      <4> QED BY <4>1, <4>4
    <3> QED BY <2>1, <3>1, <3>2
  <2> QED BY <1>1, <1>5, <1>6, <2>1, <2>2 DEF At
<1> QED BY <1>3, <1>4, <1>6

LEMMA DeleteAgentFetchEffect ==
    ASSUME CatalogInv, NEW c \in Clients, DeleteAgentFetch(c)
    PROVE  /\ Moved(c) /\ req[c].op = "delete_agent" /\ req[c].pc = "fetch"
           /\ req'[c] # Idle => /\ req'[c].pc = "count" /\ req[c].id \in DOMAIN agents
                                /\ req'[c].old = agents[req[c].id].parent
<1>1. At(c, "delete_agent", "fetch") BY DEF DeleteAgentFetch
<1>2. req[c] # Idle BY <1>1, AtNotIdle
<1>3. \/ Finish(c)
      \/ /\ req[c].id \in DOMAIN agents
         /\ \E r : r = [req[c] EXCEPT !.old = agents[req[c].id].parent] /\ Go(c, r, "count")
  BY DEF DeleteAgentFetch
<1>4. CASE Finish(c) BY <1>1, <1>2, <1>4, FinishMoved DEF At
<1>5. ASSUME req[c].id \in DOMAIN agents, NEW r, Go(c, r, "count"), Same(c, r), r.old = agents[req[c].id].parent
      PROVE  /\ Moved(c) /\ req'[c].pc = "count" /\ req[c].id \in DOMAIN agents
             /\ req'[c].old = agents[req[c].id].parent
  BY <1>2, <1>5, GoMoved DEF Went
<1> QED BY <1>1, <1>2, <1>3, <1>4, <1>5, SameOld DEF At

LEMMA BindToolsEffect ==
    ASSUME CatalogInv, NEW c \in Clients, BindTools(c)
    PROVE  /\ Moved(c) /\ req[c].op \in AgentWrites /\ req[c].pc = "bind" /\ req'[c] # Idle
           /\ req'[c].pc = "commit" /\ req'[c].old = req[c].old
<1>1. req[c].op \in AgentWrites /\ req[c].pc = "bind" /\ req[c].op # "idle" BY DEF BindTools, At, AgentWrites
<1>2. req[c] # Idle BY <1>1, IdleIs
<1>3. PICK r : (\E v : r = [req[c] EXCEPT !.tools = v]) /\ Go(c, r, "commit") BY DEF BindTools
<1>4. Same(c, r) /\ r.old = req[c].old BY <1>2, <1>3, SameTools
<1>5. Moved(c) /\ req'[c] # Idle /\ Went(c, r, "commit") BY <1>2, <1>3, <1>4, GoMoved
<1> QED BY <1>1, <1>4, <1>5 DEF Went

\* A read of fetch_content that does not fail keeps what it found
LEMMA ReadsEffect ==
    ASSUME CatalogInv, NEW c \in Clients, req[c] # Idle, NEW found, NEW r, Same(c, r), NEW pc, Reads(c, found, r, pc)
    PROVE  /\ Moved(c) /\ req'[c].pc = pc /\ req'[c] # Idle
           /\ req'[c].alone => req'[c].tools = r.tools /\ req'[c].children = r.children
<1> DEFINE q == [r EXCEPT !.tools = req[c].tools, !.children = {}, !.alone = FALSE]
<1>1. CASE Go(c, r, pc) BY <1>1, GoMoved DEF Went
<1>2. CASE Go(c, q, pc)
  <2>1. Same(c, q) /\ ~q.alone BY DEF Same, Fields
  <2> HIDE DEF q
  <2> QED BY <1>2, <2>1, GoMoved DEF Went
<1> QED BY <1>1, <1>2 DEF Reads

LEMMA ReadToolsEffect ==
    ASSUME CatalogInv, NEW c \in Clients, ReadTools(c)
    PROVE  /\ Moved(c) /\ req[c].op = "fetch_content" /\ req[c].pc = "tools"
           /\ req'[c] # Idle /\ req'[c].pc = "children"
           /\ req'[c].alone /\ req[c].id \in DOMAIN agents => req'[c].tools = agents[req[c].id].tools
<1> DEFINE found == IF req[c].id \in DOMAIN agents THEN agents[req[c].id].tools ELSE {}
<1>1. At(c, "fetch_content", "tools") BY DEF ReadTools
<1>2. req[c] # Idle BY <1>1, AtNotIdle
<1>3. PICK r : r = [req[c] EXCEPT !.tools = found] /\ Reads(c, found, r, "children") BY DEF ReadTools
<1>4. req[c].id \in DOMAIN agents => found = agents[req[c].id].tools OBVIOUS
<1> HIDE DEF found
<1>5. Same(c, r) /\ r.tools = found BY <1>2, <1>3, SameTools
<1>6. /\ Moved(c) /\ req'[c].pc = "children" /\ req'[c] # Idle
      /\ req'[c].alone => req'[c].tools = r.tools
  <2>1. Reads(c, found, r, "children") BY <1>3
  <2> QED BY <1>2, <1>5, <2>1, ReadsEffect
<1> QED BY <1>1, <1>4, <1>5, <1>6 DEF At

LEMMA ReadChildrenEffect ==
    ASSUME CatalogInv, NEW c \in Clients, ReadChildren(c)
    PROVE  /\ Moved(c) /\ req[c].op = "fetch_content" /\ req[c].pc = "children"
           /\ req'[c] # Idle /\ req'[c].pc = "set"
           /\ req'[c].alone => req'[c].tools = req[c].tools /\ req'[c].children = Children(req[c].id)
<1>1. At(c, "fetch_content", "children") BY DEF ReadChildren
<1>2. req[c] # Idle BY <1>1, AtNotIdle
<1>3. PICK found : found = Children(req[c].id) OBVIOUS
<1>4. PICK r : r = [req[c] EXCEPT !.children = found] /\ Reads(c, found, r, "set") BY <1>3 DEF ReadChildren
<1>5. Same(c, r) /\ r.children = found /\ r.tools = req[c].tools BY <1>2, <1>4, SameChildren
<1>6. /\ Moved(c) /\ req'[c].pc = "set" /\ req'[c] # Idle
      /\ req'[c].alone => req'[c].tools = r.tools /\ req'[c].children = r.children
  <2>1. Reads(c, found, r, "set") BY <1>4
  <2> QED BY <1>2, <1>5, <2>1, ReadsEffect
<1> QED BY <1>1, <1>3, <1>5, <1>6 DEF At

\* Uploads between the PUT of the object and the INSERT of the row
Uploading(c) == At(c, "upload", "insert")

\* Such an upload, unless its pair was uploaded again, has its bytes in place, and no
\* row and no other such upload has its pair
UploadInv(c) ==
    Uploading(c) /\ req[c].id \notin again =>
        /\ req[c].id \notin DOMAIN plugins
        /\ req[c].id \in DOMAIN bytes /\ bytes[req[c].id] = req[c].ref
        /\ \A d \in Clients \ {c} : ~(Uploading(d) /\ req[d].id = req[c].id)

BytesInv ==
    /\ \A k \in DOMAIN plugins : k \in again \/ (k \in DOMAIN bytes /\ bytes[k] = plugins[k].sha)
    /\ \A c \in Clients : UploadInv(c)

\* Steps that leave uploads, objects and the rows of plugins' contents alone
LEMMA BytesSame ==
    ASSUME BytesInv, UNCHANGED s3, DOMAIN plugins' = DOMAIN plugins,
           \A k \in DOMAIN plugins : plugins'[k].sha = plugins[k].sha,
           \A d \in Clients : Uploading(d)' => Uploading(d) /\ req'[d].id = req[d].id /\ req'[d].ref = req[d].ref
    PROVE  BytesInv'
<1>1. bytes' = bytes /\ again' = again BY DEF s3
<1>2. ASSUME NEW c \in Clients PROVE UploadInv(c)'
  <2>1. UploadInv(c) BY DEF BytesInv
  <2>2. \A d \in Clients \ {c} : ~(Uploading(d) /\ req[d].id = req[c].id) =>
                                 (Uploading(c)' => ~(Uploading(d)' /\ req'[d].id = req'[c].id))
    OBVIOUS
  <2> QED BY <1>1, <2>1, <2>2 DEF UploadInv
<1> QED BY <1>1, <1>2 DEF BytesInv

LEMMA MovedBytes ==
    ASSUME BytesInv, NEW c \in Clients, Moved(c), UNCHANGED s3, DOMAIN plugins' = DOMAIN plugins,
           \A k \in DOMAIN plugins : plugins'[k].sha = plugins[k].sha,
           req[c].op # "upload" \/ req'[c] = Idle \/ req'[c].pc = "del"
    PROVE  BytesInv'
<1>1. ASSUME NEW d \in Clients, Uploading(d)'
      PROVE  Uploading(d) /\ req'[d].id = req[d].id /\ req'[d].ref = req[d].ref
  <2>1. d # c BY <1>1, IdleIs DEF Moved, Uploading, At
  <2>2. req'[d] = req[d] BY <2>1 DEF Moved, Others
  <2> QED BY <1>1, <2>2 DEF Uploading, At
<1> QED BY <1>1, BytesSame

LEMMA PutBytesEffect ==
    ASSUME CatalogInv, NEW c \in Clients, PutBytes(c)
    PROVE  /\ Moved(c) /\ Uploading(c)' /\ req[c].pc = "put" /\ req'[c].id = req[c].id /\ req'[c].ref = req[c].ref
           /\ plugins' = plugins /\ bytes' = Put(bytes, req[c].id, req[c].ref)
           /\ again \subseteq again' /\ again' \subseteq again \cup {req[c].id}
           /\ req[c].id \notin again' =>
                req[c].id \notin DOMAIN plugins /\ \A d \in Clients \ {c} : ~(Uploading(d) /\ req[d].id = req[c].id)
<1> DEFINE same == {d \in Clients \ {c} : req[d].op = "upload" /\ req[d].id = req[c].id}
<1>1. /\ At(c, "upload", "put") /\ Go(c, req[c], "insert") /\ plugins' = plugins
      /\ bytes' = Put(bytes, req[c].id, req[c].ref)
      /\ again' = IF req[c].id \in DOMAIN plugins \/ same # {} THEN again \cup {req[c].id} ELSE again
  BY DEF PutBytes, rows
<1>2. req[c] # Idle BY <1>1, AtNotIdle
<1>3. Moved(c) /\ req'[c] # Idle /\ Went(c, req[c], "insert") BY <1>1, <1>2, SameSelf, GoMoved
<1>4. Uploading(c)' BY <1>1, <1>3 DEF Uploading, At, Went
<1>5. req'[c].id = req[c].id /\ req'[c].ref = req[c].ref BY <1>3 DEF Went
<1>6. again \subseteq again' /\ again' \subseteq again \cup {req[c].id} BY <1>1
<1>7. ASSUME req[c].id \notin again'
      PROVE  req[c].id \notin DOMAIN plugins /\ \A d \in Clients \ {c} : ~(Uploading(d) /\ req[d].id = req[c].id)
  BY <1>1, <1>7 DEF Uploading, At
<1> QED BY <1>1, <1>3, <1>4, <1>5, <1>6, <1>7 DEF At

LEMMA PutBytesBytes ==
    ASSUME CatalogInv, BytesInv, NEW c \in Clients, PutBytes(c) PROVE BytesInv'
<1> DEFINE k == req[c].id
<1>1. /\ Others(c) /\ Uploading(c)' /\ req'[c].id = k /\ req'[c].ref = req[c].ref
      /\ plugins' = plugins /\ again \subseteq again' /\ again' \subseteq again \cup {k}
      /\ k \notin again' => k \notin DOMAIN plugins /\ \A d \in Clients \ {c} : ~(Uploading(d) /\ req[d].id = k)
  BY PutBytesEffect DEF Moved
<1>2. /\ DOMAIN bytes' = DOMAIN bytes \cup {k} /\ bytes'[k] = req[c].ref
      /\ \A j \in DOMAIN bytes : j # k => bytes'[j] = bytes[j]
  BY PutBytesEffect DEF Put
<1> HIDE DEF k
<1>3. ASSUME NEW d \in Clients \ {c} PROVE req'[d] = req[d] /\ (Uploading(d)' <=> Uploading(d))
  BY <1>1 DEF Others, Uploading, At
<1>4. \A j \in DOMAIN plugins' : j \in again' \/ (j \in DOMAIN bytes' /\ bytes'[j] = plugins'[j].sha)
  BY <1>1, <1>2 DEF BytesInv
<1>5. UploadInv(c)' BY <1>1, <1>2, <1>3 DEF UploadInv
<1>6. ASSUME NEW d \in Clients \ {c} PROVE UploadInv(d)'
  <2> SUFFICES ASSUME Uploading(d)', req'[d].id \notin again'
               PROVE  /\ req'[d].id \notin DOMAIN plugins'
                      /\ req'[d].id \in DOMAIN bytes' /\ bytes'[req'[d].id] = req'[d].ref
                      /\ \A e \in Clients \ {d} : ~(Uploading(e)' /\ req'[e].id = req'[d].id)
    BY DEF UploadInv
  <2>1. Uploading(d) /\ req'[d] = req[d] /\ UploadInv(d) BY <1>3 DEF BytesInv
  <2>2. req[d].id # k BY <1>1, <2>1
  <2>3. \A e \in Clients \ {d} : ~(Uploading(e) /\ req[e].id = req[d].id) BY <1>1, <2>1 DEF UploadInv
  <2>4. \A e \in Clients \ {d} : ~(Uploading(e)' /\ req'[e].id = req'[d].id) BY <1>1, <1>3, <2>1, <2>2, <2>3
  <2> QED BY <1>1, <1>2, <2>1, <2>2, <2>4 DEF UploadInv
<1> QED BY <1>4, <1>5, <1>6 DEF BytesInv

LEMMA InsertPluginBytes ==
    ASSUME CatalogInv, BytesInv, NEW c \in Clients, InsertPlugin(c) PROVE BytesInv'
<1> DEFINE k == req[c].id
           row == [deleted |-> FALSE, sha |-> req[c].ref]
<1>1. /\ Uploading(c) /\ Finish(c) /\ again' = again
      /\ \/ k \in DOMAIN plugins /\ plugins' = plugins /\ bytes' = Drop(bytes, {k})
         \/ k \notin DOMAIN plugins /\ plugins' = Put(plugins, k, row) /\ bytes' = bytes
  BY DEF InsertPlugin, Uploading
<1>2. row.sha = req[c].ref OBVIOUS
<1>3. UploadInv(c) BY DEF BytesInv
<1>4. Others(c) /\ req'[c] = Idle BY <1>1, FinishOthers DEF CatalogInv
<1>5. ~Uploading(c)' BY <1>4, IdleIs DEF Uploading, At
<1> HIDE DEF row, k
<1>6. ASSUME NEW d \in Clients \ {c} PROVE req'[d] = req[d] /\ (Uploading(d)' <=> Uploading(d))
  BY <1>4 DEF Others, Uploading, At
<1>7. /\ k \in again \/ (k \in DOMAIN bytes' /\ k \in DOMAIN plugins' /\ bytes'[k] = plugins'[k].sha)
      /\ DOMAIN plugins' \subseteq DOMAIN plugins \cup {k}
      /\ \A j \in DOMAIN plugins : j # k => plugins'[j] = plugins[j]
      /\ \A j \in DOMAIN bytes : j # k => j \in DOMAIN bytes' /\ bytes'[j] = bytes[j]
  <2>1. CASE k \in DOMAIN plugins /\ plugins' = plugins /\ bytes' = Drop(bytes, {k})
    <3>1. k \in again BY <1>1, <1>3, <2>1 DEF UploadInv, k
    <3>2. \A j \in DOMAIN bytes : j # k => j \in DOMAIN bytes' /\ bytes'[j] = bytes[j]
      BY <2>1 DEF Drop, Restrict
    <3> QED BY <2>1, <3>1, <3>2
  <2>2. CASE k \notin DOMAIN plugins /\ plugins' = Put(plugins, k, row) /\ bytes' = bytes
    <3>1. /\ DOMAIN plugins' = DOMAIN plugins \cup {k} /\ plugins'[k] = row
          /\ \A j \in DOMAIN plugins : j # k => plugins'[j] = plugins[j]
      BY <2>2 DEF Put
    <3>2. k \in again \/ (k \in DOMAIN bytes /\ bytes[k] = req[c].ref) BY <1>1, <1>3 DEF UploadInv, k
    <3> QED BY <1>2, <2>2, <3>1, <3>2
  <2> QED BY <1>1, <2>1, <2>2
<1>8. \A j \in DOMAIN plugins' : j \in again' \/ (j \in DOMAIN bytes' /\ bytes'[j] = plugins'[j].sha)
  BY <1>1, <1>7 DEF BytesInv
<1>9. ASSUME NEW d \in Clients PROVE UploadInv(d)'
  <2> SUFFICES ASSUME Uploading(d)', req'[d].id \notin again'
               PROVE  /\ req'[d].id \notin DOMAIN plugins'
                      /\ req'[d].id \in DOMAIN bytes' /\ bytes'[req'[d].id] = req'[d].ref
                      /\ \A e \in Clients \ {d} : ~(Uploading(e)' /\ req'[e].id = req'[d].id)
    BY DEF UploadInv
  <2>1. d # c BY <1>5
  <2>2. Uploading(d) /\ req'[d] = req[d] /\ UploadInv(d) BY <1>6, <2>1 DEF BytesInv
  <2>3. /\ req[d].id \notin DOMAIN plugins /\ req[d].id \in DOMAIN bytes /\ bytes[req[d].id] = req[d].ref
        /\ \A e \in Clients \ {d} : ~(Uploading(e) /\ req[e].id = req[d].id)
    BY <1>1, <2>2 DEF UploadInv
  <2>4. req[d].id # k BY <1>1, <2>1, <2>3 DEF k
  <2>5. \A e \in Clients \ {d} : ~(Uploading(e)' /\ req'[e].id = req'[d].id) BY <1>5, <1>6, <2>2, <2>3
  <2> QED BY <1>7, <2>2, <2>3, <2>4, <2>5
<1> QED BY <1>8, <1>9 DEF BytesInv

LEMMA BeginBytes ==
    ASSUME CatalogInv, BytesInv, NEW c \in Clients, Begin(c) PROVE BytesInv'
<1>1. UNCHANGED s3 /\ plugins' = plugins BY DEF Begin, rows
<1>2. ASSUME NEW d \in Clients, Uploading(d)'
      PROVE  Uploading(d) /\ req'[d].id = req[d].id /\ req'[d].ref = req[d].ref
  <2>1. d # c BY <1>2, BeginEffect DEF Uploading, At
  <2>2. req[d] # Idle BY <1>2, <2>1, IdleIs, BeginEffect DEF Uploading, At
  <2>3. /\ req'[d].op = req[d].op /\ req'[d].pc = req[d].pc
        /\ req'[d].id = req[d].id /\ req'[d].ref = req[d].ref
    BY <2>1, <2>2, BeginEffect
  <2> QED BY <1>2, <2>3 DEF Uploading, At
<1> QED BY <1>1, <1>2, BytesSame

LEMMA SoftDeleteBytes ==
    ASSUME CatalogInv, BytesInv, NEW c \in Clients, SoftDelete(c) PROVE BytesInv'
<1>1. /\ req[c].id \in DOMAIN plugins /\ UNCHANGED s3
      /\ plugins' = [plugins EXCEPT ![req[c].id].deleted = TRUE]
  BY DEF SoftDelete
<1>2. DOMAIN plugins[req[c].id] = {"deleted", "sha"} BY <1>1 DEF CatalogInv, TableInv
<1>3. /\ DOMAIN plugins' = DOMAIN plugins
      /\ \A k \in DOMAIN plugins : k # req[c].id => plugins'[k] = plugins[k]
      /\ plugins'[req[c].id].sha = plugins[req[c].id].sha
  BY <1>1, <1>2
<1>4. \A k \in DOMAIN plugins : plugins'[k].sha = plugins[k].sha BY <1>3
<1> QED BY <1>1, <1>3, <1>4, PlainMoved, MovedBytes

\* A step that is neither an upload's nor a soft delete
LEMMA OtherBytes ==
    ASSUME CatalogInv, BytesInv, NEW c \in Clients, Step(c), ~Begin(c), ~PutBytes(c), ~InsertPlugin(c), ~SoftDelete(c)
    PROVE  BytesInv'
<1> DEFINE Goal == /\ Moved(c) /\ UNCHANGED s3 /\ plugins' = plugins
                   /\ req[c].op # "upload" \/ req'[c] = Idle \/ req'[c].pc = "del"
<1>1. Goal
  <2>1. CASE Refuse(c) BY <2>1, PlainMoved DEF Refuse, rows
  <2>2. CASE DeleteFetch(c) BY <2>2, PlainMoved DEF DeleteFetch, rows
  <2>3. CASE DeleteLock(c) BY <2>3, PlainMoved DEF DeleteLock, rows
  <2>4. CASE DeleteCount(c) BY <2>4, PlainMoved DEF DeleteCount, rows
  <2>5. CASE DeleteFunction(c) BY <2>5, PlainMoved DEF DeleteFunction
  <2>6. CASE DeleteTool(c) BY <2>6, PlainMoved DEF DeleteTool
  <2>7. CASE CheckPlugin(c) BY <2>7, PlainMoved DEF CheckPlugin, rows
  <2>8. CASE InsertFunction(c) BY <2>8, PlainMoved DEF InsertFunction
  <2>9. CASE CheckFunction(c) BY <2>9, PlainMoved DEF CheckFunction, rows
  <2>10. CASE InsertTool(c) BY <2>10, PlainMoved DEF InsertTool
  <2>11. CASE CreateFetch(c) BY <2>11, CreateFetchEffect DEF CreateFetch, rows
  <2>12. CASE UpdateFetch(c) BY <2>12, UpdateFetchEffect DEF UpdateFetch, rows
  <2>13. CASE WriteRow(c) BY <2>13, PlainMoved DEF WriteRow, rows
  <2>14. CASE BindTools(c) BY <2>14, BindToolsEffect DEF BindTools, rows, AgentWrites
  <2>15. CASE CommitCreate(c) BY <2>15, CommitMoved DEF CommitCreate
  <2>16. CASE CommitUpdate(c) BY <2>16, CommitMoved DEF CommitUpdate
  <2>17. CASE DeleteAgent(c) BY <2>17, CommitMoved DEF DeleteAgent
  <2>18. CASE DeleteAgentFetch(c) BY <2>18, DeleteAgentFetchEffect DEF DeleteAgentFetch, rows
  <2>19. CASE DeleteAgentCount(c) BY <2>19, PlainMoved DEF DeleteAgentCount, rows
  <2>20. CASE InvalidateOne(c) BY <2>20, InvalidateOneEffect DEF InvalidateOne, rows
  <2>21. CASE Leave(c) \/ Answer(c) BY <2>21, FinishMoved DEF Leave, Answer, rows
  <2>22. CASE CacheGet(c) BY <2>22, PlainMoved DEF CacheGet, rows
  <2>23. CASE ReadAgent(c) BY <2>23, PlainMoved DEF ReadAgent, rows
  <2>24. CASE ReadTools(c) BY <2>24, ReadToolsEffect DEF ReadTools, rows
  <2>25. CASE ReadChildren(c) BY <2>25, ReadChildrenEffect DEF ReadChildren, rows
  <2>26. CASE CacheSet(c) BY <2>26, PlainMoved DEF CacheSet, rows
  <2> QED BY <2>1, <2>2, <2>3, <2>4, <2>5, <2>6, <2>7, <2>8, <2>9, <2>10, <2>11, <2>12, <2>13, <2>14,
             <2>15, <2>16, <2>17, <2>18, <2>19, <2>20, <2>21, <2>22, <2>23, <2>24, <2>25, <2>26 DEF Step
<1> QED BY <1>1, MovedBytes

LEMMA InitBytes == Init => BytesInv
<1> SUFFICES ASSUME Init PROVE BytesInv
  OBVIOUS
<1>1. ASSUME NEW c \in Clients PROVE UploadInv(c)
  <2>1. req[c] = Idle BY DEF Init
  <2> QED BY <2>1, IdleIs DEF UploadInv, Uploading, At
<1> QED BY <1>1 DEF Init, BytesInv

LEMMA NextBytes == CatalogInv /\ BytesInv /\ [Next]_vars => BytesInv'
<1> SUFFICES ASSUME CatalogInv, BytesInv, [Next]_vars PROVE BytesInv'
  OBVIOUS
<1>1. ASSUME NEW c \in Clients, Step(c) PROVE BytesInv'
  BY <1>1, BeginBytes, PutBytesBytes, InsertPluginBytes, SoftDeleteBytes, OtherBytes
<1>2. CASE CacheExpire \/ UNCHANGED vars
  <2>1. UNCHANGED <<plugins, bytes, again, req>> BY <1>2 DEF CacheExpire, vars, rows, s3
  <2> QED BY <2>1 DEF BytesInv, UploadInv, Uploading, At
<1> QED BY <1>1, <1>2 DEF Next

\* A function can always be called: its plugin is there, not soft-deleted, and has the
\* bytes its sha256 was taken of; a tool never refers to a function that is gone.
\* Any number of administrators may upload, create and delete at once.
THEOREM ReferencesLiveHolds == Spec => []ReferencesLive
<1>1. CatalogInv /\ BytesInv => ReferencesLive BY DEF CatalogInv, TableInv, BytesInv, ReferencesLive
<1> QED BY <1>1, InitCatalog, NextCatalog, InitBytes, NextBytes, PTL DEF Spec

-----------------------------------------------------------------------------
(* Cached content                                                          *)
(***************************************************************************)
\* The entry of a says what the database says
FreshEntry(a) ==
    a \in DOMAIN agents /\ cache[a].tools = agents[a].tools /\ cache[a].children = Children(a)

\* A request that wrote has still to delete the entry of a
Dropping(a) == \E c \in Clients : req[c] # Idle /\ req[c].pc = "del" /\ a \in req[c].stale

EntriesInv ==
    \A a \in DOMAIN cache :
        /\ DOMAIN cache[a] = {"tools", "children", "clean"}
        /\ cache[a].clean => FreshEntry(a) \/ Dropping(a)

\* What a request that was alone all the time has read still is so
Seen(c) ==
    LET q == req[c] IN
    /\ q.op = "update_agent" /\ q.pc \in {"row", "bind", "commit"} =>
         q.id \in DOMAIN agents /\ agents[q.id].parent = q.old
    /\ q.op = "delete_agent" /\ q.pc \in {"count", "write"} =>
         q.id \in DOMAIN agents /\ agents[q.id].parent = q.old
    /\ q.op = "fetch_content" /\ q.pc \in {"tools", "children", "set"} => q.id \in DOMAIN agents
    /\ q.op = "fetch_content" /\ q.pc \in {"children", "set"} => q.tools = agents[q.id].tools
    /\ q.op = "fetch_content" /\ q.pc = "set" => q.children = Children(q.id)

AloneInv(c) ==
    req[c] # Idle /\ req[c].alone => (\A d \in Clients \ {c} : req[d] = Idle) /\ Seen(c)

CacheInv == EntriesInv /\ \A c \in Clients : AloneInv(c)

\* A step of one request: nobody else is alone, and nobody who was not becomes so
LEMMA MovedAlone ==
    ASSUME CacheInv, NEW c \in Clients, Moved(c),
           req[c].alone /\ req'[c] # Idle /\ req'[c].alone => Seen(c)'
    PROVE  \A d \in Clients : AloneInv(d)'
<1>1. AloneInv(c)'
  <2> SUFFICES ASSUME req'[c] # Idle, req'[c].alone
               PROVE  (\A d \in Clients \ {c} : req'[d] = Idle) /\ Seen(c)'
    BY DEF AloneInv
  <2>1. req[c] # Idle /\ req[c].alone BY DEF Moved
  <2>2. \A d \in Clients \ {c} : req[d] = Idle BY <2>1 DEF CacheInv, AloneInv
  <2>3. \A d \in Clients \ {c} : req'[d] = Idle BY <2>2 DEF Moved, Others
  <2> QED BY <2>1, <2>3
<1>2. ASSUME NEW d \in Clients \ {c} PROVE AloneInv(d)'
  <2>1. req'[d] = req[d] /\ req[c] # Idle BY DEF Moved, Others
  <2>2. ~(req[d] # Idle /\ req[d].alone) BY <2>1 DEF CacheInv, AloneInv
  <2> QED BY <2>1, <2>2 DEF AloneInv
<1> QED BY <1>1, <1>2

\* A step of a request that has nothing to delete deletes nothing
LEMMA MovedDropping ==
    ASSUME NEW c \in Clients, Moved(c), req[c].pc # "del" \/ req[c].stale = {}, NEW a, Dropping(a)
    PROVE  Dropping(a)'
<1>1. PICK d \in Clients : req[d] # Idle /\ req[d].pc = "del" /\ a \in req[d].stale BY DEF Dropping
<1>2. d # c BY <1>1
<1>3. req'[d] = req[d] BY <1>2 DEF Moved, Others
<1> QED BY <1>1, <1>3 DEF Dropping

LEMMA EntriesSame ==
    ASSUME EntriesInv, cache' = cache, \A a : Dropping(a) => Dropping(a)', DOMAIN agents' = DOMAIN agents,
           \A a \in DOMAIN agents : agents'[a].tools = agents[a].tools /\ agents'[a].parent = agents[a].parent
    PROVE  EntriesInv'
<1>1. \A a : Children(a)' = Children(a) BY DEF Children
<1>2. ASSUME NEW a, FreshEntry(a) PROVE FreshEntry(a)' BY <1>1, <1>2 DEF FreshEntry
<1> QED BY <1>2 DEF EntriesInv

\* Steps that write neither agents nor the cache
LEMMA QuietCache ==
    ASSUME CacheInv, NEW c \in Clients, Moved(c), req[c].pc # "del" \/ req[c].stale = {},
           UNCHANGED <<agents, cache>>,
           req[c].alone /\ req'[c] # Idle /\ req'[c].alone => Seen(c)'
    PROVE  CacheInv'
<1>1. \A d \in Clients : AloneInv(d)' BY MovedAlone
<1>2. \A a : Dropping(a) => Dropping(a)' BY MovedDropping
<1>3. EntriesInv' BY <1>2, EntriesSame DEF CacheInv
<1> QED BY <1>1, <1>3 DEF CacheInv

\* Nothing is kept of what a request of these kinds reads
LEMMA SeenNothing ==
    ASSUME NEW c \in Clients, Moved(c), req[c].op \notin {"update_agent", "delete_agent", "fetch_content"}
    PROVE  req[c].alone /\ req'[c] # Idle /\ req'[c].alone => Seen(c)'
BY DEF Moved, Seen

LEMMA BeginCache ==
    ASSUME CatalogInv, CacheInv, NEW c \in Clients, Begin(c) PROVE CacheInv'
<1>1. UNCHANGED <<agents, cache>> BY DEF Begin, rows
<1>2. ASSUME NEW d \in Clients \ {c}, req[d] # Idle
      PROVE  /\ req'[d] # Idle /\ ~req'[d].alone /\ req'[d].pc = req[d].pc /\ req'[d].stale = req[d].stale
  <2>1. /\ req'[d].op = req[d].op /\ ~req'[d].alone /\ req'[d].pc = req[d].pc
        /\ req'[d].stale = req[d].stale
    BY <1>2, BeginEffect
  <2>2. req[d].op # "idle" BY <1>2 DEF CatalogInv, ClientInv
  <2> QED BY <2>1, <2>2, IdleIs
<1>3. ASSUME NEW a, Dropping(a) PROVE Dropping(a)'
  <2>1. PICK d \in Clients : req[d] # Idle /\ req[d].pc = "del" /\ a \in req[d].stale BY <1>3 DEF Dropping
  <2>2. d # c BY <2>1, BeginEffect
  <2> QED BY <1>2, <2>1, <2>2 DEF Dropping
<1>4. EntriesInv' BY <1>1, <1>3, EntriesSame DEF CacheInv
<1>5. AloneInv(c)'
  <2>1. Seen(c)' BY BeginEffect DEF Seen, AgentWrites
  <2>2. req'[c].alone => \A d \in Clients \ {c} : req'[d] = Idle BY BeginEffect
  <2> QED BY <2>1, <2>2 DEF AloneInv
<1>6. ASSUME NEW d \in Clients \ {c} PROVE AloneInv(d)'
  <2>1. CASE req[d] = Idle
    <3>1. req'[d] = Idle BY <2>1, BeginEffect
    <3> QED BY <3>1 DEF AloneInv
  <2>2. CASE req[d] # Idle BY <1>2, <2>2 DEF AloneInv
  <2> QED BY <2>1, <2>2
<1> QED BY <1>4, <1>5, <1>6 DEF CacheInv

\* Steps that end the request, and steps of requests that read nothing of agents
LEMMA PlainCache ==
    ASSUME CatalogInv, CacheInv, NEW c \in Clients,
           \/ Refuse(c) \/ DeleteFetch(c) \/ DeleteLock(c) \/ DeleteCount(c) \/ SoftDelete(c)
           \/ DeleteFunction(c) \/ CheckPlugin(c) \/ InsertFunction(c) \/ CheckFunction(c)
           \/ InsertTool(c) \/ CreateFetch(c) \/ PutBytes(c) \/ InsertPlugin(c)
    PROVE  CacheInv'
<1>1. CASE Refuse(c)
  <2>1. req[c] # Idle BY <1>1, IdleIs DEF Refuse, At
  <2>2. Moved(c) /\ req'[c] = Idle BY <1>1, <2>1, FinishMoved
  <2> QED BY <1>1, <2>2, PlainMoved, QuietCache DEF Refuse, rows
<1>2. ASSUME Moved(c), req[c].pc # "del", UNCHANGED <<agents, cache>>,
             req[c].op \notin {"update_agent", "delete_agent", "fetch_content"}
      PROVE  CacheInv'
  BY <1>2, SeenNothing, QuietCache
<1>3. CASE DeleteFetch(c) BY <1>2, <1>3, PlainMoved DEF DeleteFetch, At, rows
<1>4. CASE DeleteLock(c) BY <1>2, <1>4, PlainMoved DEF DeleteLock, At, rows
<1>5. CASE DeleteCount(c) BY <1>2, <1>5, PlainMoved DEF DeleteCount, At, rows
<1>6. CASE SoftDelete(c) BY <1>2, <1>6, PlainMoved DEF SoftDelete, At
<1>7. CASE DeleteFunction(c) BY <1>2, <1>7, PlainMoved DEF DeleteFunction, At
<1>8. CASE CheckPlugin(c) BY <1>2, <1>8, PlainMoved DEF CheckPlugin, At, rows
<1>9. CASE InsertFunction(c) BY <1>2, <1>9, PlainMoved DEF InsertFunction, At
<1>10. CASE CheckFunction(c) BY <1>2, <1>10, PlainMoved DEF CheckFunction, At, rows
<1>11. CASE InsertTool(c) BY <1>2, <1>11, PlainMoved DEF InsertTool, At
<1>12. CASE CreateFetch(c) BY <1>2, <1>12, CreateFetchEffect DEF CreateFetch, rows
<1>13. CASE PutBytes(c) BY <1>2, <1>13, PutBytesEffect DEF PutBytes, At, rows
<1>14. CASE InsertPlugin(c)
  <2>1. At(c, "upload", "insert") /\ Finish(c) /\ UNCHANGED <<agents, cache>> BY <1>14 DEF InsertPlugin
  <2>2. req[c] # Idle BY <2>1, AtNotIdle
  <2> QED BY <1>2, <2>1, <2>2, FinishMoved DEF At
<1> QED BY <1>1, <1>3, <1>4, <1>5, <1>6, <1>7, <1>8, <1>9, <1>10, <1>11, <1>12, <1>13, <1>14

LEMMA DeleteToolCache ==
    ASSUME CatalogInv, CacheInv, NEW c \in Clients, DeleteTool(c) PROVE CacheInv'
<1>1. Moved(c) /\ req[c].op = "delete" /\ req[c].pc # "del" BY PlainMoved DEF DeleteTool, At
<1>2. \A d \in Clients : AloneInv(d)' BY <1>1, SeenNothing, MovedAlone
<1>3. \A a : Dropping(a) => Dropping(a)' BY <1>1, MovedDropping
<1>4. EntriesInv' BY <1>3, DeleteToolEffect, EntriesSame DEF CacheInv
<1> QED BY <1>2, <1>4 DEF CacheInv

LEMMA UpdateFetchCache ==
    ASSUME CatalogInv, CacheInv, NEW c \in Clients, UpdateFetch(c) PROVE CacheInv'
<1>1. UNCHANGED <<agents, cache>> BY DEF UpdateFetch, rows
<1>2. ASSUME req'[c] # Idle PROVE Seen(c)'
  BY <1>1, <1>2, UpdateFetchEffect DEF Seen, Moved
<1> QED BY <1>1, <1>2, UpdateFetchEffect, QuietCache

LEMMA DeleteAgentFetchCache ==
    ASSUME CatalogInv, CacheInv, NEW c \in Clients, DeleteAgentFetch(c) PROVE CacheInv'
<1>1. UNCHANGED <<agents, cache>> BY DEF DeleteAgentFetch, rows
<1>2. ASSUME req'[c] # Idle PROVE Seen(c)'
  BY <1>1, <1>2, DeleteAgentFetchEffect DEF Seen, Moved
<1> QED BY <1>1, <1>2, DeleteAgentFetchEffect, QuietCache

\* Steps that go on with the request as it is
LEMMA GoCache ==
    ASSUME CatalogInv, CacheInv, NEW c \in Clients,
           WriteRow(c) \/ DeleteAgentCount(c) \/ CacheGet(c) \/ ReadAgent(c)
    PROVE  CacheInv'
<1>1. UNCHANGED <<agents, cache>> BY DEF WriteRow, DeleteAgentCount, CacheGet, ReadAgent, rows
<1>2. /\ req[c].op # "idle"
      /\ \/ Finish(c)
         \/ \E pc : /\ Go(c, req[c], pc)
                    /\ \/ req[c].op \in AgentWrites /\ req[c].pc = "row" /\ pc = "bind"
                       \/ req[c].op = "delete_agent" /\ req[c].pc = "count" /\ pc = "write"
                       \/ req[c].op = "fetch_content" /\ req[c].pc = "get" /\ pc = "row"
                       \/ req[c].op = "fetch_content" /\ pc = "tools" /\ req[c].id \in DOMAIN agents
  <2>1. CASE WriteRow(c) BY <2>1 DEF WriteRow, At, AgentWrites
  <2>2. CASE DeleteAgentCount(c) BY <2>2 DEF DeleteAgentCount, At
  <2>3. CASE CacheGet(c) \/ ReadAgent(c) BY <2>3 DEF CacheGet, ReadAgent, At
  <2> QED BY <2>1, <2>2, <2>3
<1>3. Moved(c) /\ req[c].pc # "del" BY PlainMoved
<1>4. req[c] # Idle BY <1>3 DEF Moved
<1>5. CASE Finish(c)
  <2>1. req'[c] = Idle BY <1>4, <1>5, FinishMoved
  <2> QED BY <1>1, <1>3, <2>1, QuietCache
<1>6. ASSUME NEW pc, Go(c, req[c], pc),
             \/ req[c].op \in AgentWrites /\ req[c].pc = "row" /\ pc = "bind"
             \/ req[c].op = "delete_agent" /\ req[c].pc = "count" /\ pc = "write"
             \/ req[c].op = "fetch_content" /\ req[c].pc = "get" /\ pc = "row"
             \/ req[c].op = "fetch_content" /\ pc = "tools" /\ req[c].id \in DOMAIN agents
      PROVE  CacheInv'
  <2>1. Went(c, req[c], pc) BY <1>4, <1>6, SameSelf, GoMoved
  <2>2. ASSUME req[c].alone PROVE Seen(c)'
    <3>1. Seen(c) BY <1>4, <2>2 DEF CacheInv, AloneInv
    <3> QED BY <1>1, <1>6, <2>1, <3>1 DEF Went, Seen, AgentWrites
  <2> QED BY <1>1, <1>3, <2>2, QuietCache
<1> QED BY <1>2, <1>5, <1>6

LEMMA BindToolsCache ==
    ASSUME CatalogInv, CacheInv, NEW c \in Clients, BindTools(c) PROVE CacheInv'
<1>1. UNCHANGED <<agents, cache>> BY DEF BindTools, rows
<1>2. Moved(c) /\ req[c].pc = "bind" /\ req'[c].pc = "commit" /\ req'[c].old = req[c].old /\ req[c].op \in AgentWrites
  BY BindToolsEffect
<1>3. ASSUME req[c].alone, req'[c] # Idle PROVE Seen(c)'
  <2>1. Seen(c) BY <1>2, <1>3 DEF CacheInv, AloneInv, Moved
  <2> QED BY <1>1, <1>2, <1>3, <2>1 DEF Moved, Seen, AgentWrites
<1> QED BY <1>1, <1>2, <1>3, QuietCache

LEMMA ReadToolsCache ==
    ASSUME CatalogInv, CacheInv, NEW c \in Clients, ReadTools(c) PROVE CacheInv'
<1>1. UNCHANGED <<agents, cache>> BY DEF ReadTools, rows
<1>2. /\ Moved(c) /\ req[c].op = "fetch_content" /\ req[c].pc = "tools" /\ req'[c].pc = "children"
      /\ req'[c].alone /\ req[c].id \in DOMAIN agents => req'[c].tools = agents[req[c].id].tools
  BY ReadToolsEffect
<1>3. ASSUME req[c].alone, req'[c] # Idle, req'[c].alone PROVE Seen(c)'
  <2>1. Seen(c) BY <1>2, <1>3 DEF CacheInv, AloneInv, Moved
  <2> QED BY <1>1, <1>2, <1>3, <2>1 DEF Moved, Seen
<1> QED BY <1>1, <1>2, <1>3, QuietCache

LEMMA ReadChildrenCache ==
    ASSUME CatalogInv, CacheInv, NEW c \in Clients, ReadChildren(c) PROVE CacheInv'
<1>1. UNCHANGED <<agents, cache>> BY DEF ReadChildren, rows
<1>2. /\ Moved(c) /\ req[c].op = "fetch_content" /\ req[c].pc = "children" /\ req'[c].pc = "set"
      /\ req'[c].alone => req'[c].tools = req[c].tools /\ req'[c].children = Children(req[c].id)
  BY ReadChildrenEffect
<1>3. ASSUME req[c].alone, req'[c] # Idle, req'[c].alone PROVE Seen(c)'
  <2>1. Seen(c) BY <1>2, <1>3 DEF CacheInv, AloneInv, Moved
  <2>2. /\ req'[c].op = req[c].op /\ req'[c].id = req[c].id BY <1>3, <1>2 DEF Moved
  <2>3. Children(req[c].id)' = Children(req[c].id) BY <1>1, <2>2 DEF Children
  <2>4. req'[c].children = Children(req[c].id)' BY <1>2, <1>3, <2>3
  <2>5. req[c].id \in DOMAIN agents /\ req'[c].tools = agents[req[c].id].tools
    BY <1>2, <1>3, <2>1 DEF Seen
  <2> QED BY <1>1, <1>2, <2>2, <2>4, <2>5 DEF Seen
<1> QED BY <1>1, <1>2, <1>3, QuietCache

\* What is cached is what was read
LEMMA CacheSetCache ==
    ASSUME CatalogInv, CacheInv, NEW c \in Clients, CacheSet(c) PROVE CacheInv'
<1> DEFINE entry == [tools |-> req[c].tools, children |-> req[c].children, clean |-> req[c].alone]
<1>1. /\ req[c].op = "fetch_content" /\ req[c].pc = "set" /\ Finish(c) /\ agents' = agents
      /\ cache' = Put(cache, req[c].id, entry) \/ cache' = cache
  BY DEF CacheSet, At, rows
<1>2. /\ DOMAIN entry = {"tools", "children", "clean"} /\ entry.tools = req[c].tools
      /\ entry.children = req[c].children /\ entry.clean = req[c].alone
  OBVIOUS
<1> HIDE DEF entry
<1>3. req[c] # Idle BY <1>1, IdleIs
<1>4. Moved(c) /\ req'[c] = Idle BY <1>1, <1>3, FinishMoved
<1>5. \A d \in Clients : AloneInv(d)' BY <1>4, MovedAlone
<1>6. \A a : Dropping(a) => Dropping(a)' BY <1>1, <1>4, MovedDropping
<1>11. CASE cache' = cache BY <1>1, <1>3, <1>4, <1>11, QuietCache
<1> SUFFICES ASSUME cache' = Put(cache, req[c].id, entry) PROVE CacheInv'
  BY <1>1, <1>11
<1>7. /\ DOMAIN cache' = DOMAIN cache \cup {req[c].id} /\ cache'[req[c].id] = entry
      /\ \A a \in DOMAIN cache : a # req[c].id => cache'[a] = cache[a]
  BY DEF Put
<1>8. \A a : Children(a)' = Children(a) BY <1>1 DEF Children
<1>9. ASSUME NEW a \in DOMAIN cache'
      PROVE  /\ DOMAIN cache'[a] = {"tools", "children", "clean"}
             /\ cache'[a].clean => FreshEntry(a)' \/ Dropping(a)'
  <2>1. CASE a = req[c].id
    <3>1. ASSUME req[c].alone PROVE FreshEntry(a)'
      <4>1. Seen(c) BY <1>3, <3>1 DEF CacheInv, AloneInv
      <4>2. a \in DOMAIN agents /\ req[c].tools = agents[a].tools /\ req[c].children = Children(a)
        BY <1>1, <2>1, <4>1 DEF Seen
      <4> QED BY <1>1, <1>2, <1>7, <1>8, <2>1, <4>2 DEF FreshEntry
    <3> QED BY <1>2, <1>7, <2>1, <3>1
  <2>2. CASE a # req[c].id
    <3>1. a \in DOMAIN cache /\ cache'[a] = cache[a] BY <1>7, <2>2
    <3>2. /\ DOMAIN cache[a] = {"tools", "children", "clean"}
          /\ cache[a].clean => FreshEntry(a) \/ Dropping(a)
      BY <3>1 DEF CacheInv, EntriesInv
    <3>3. FreshEntry(a) => FreshEntry(a)' BY <1>1, <1>8, <3>1 DEF FreshEntry
    <3> QED BY <1>6, <3>1, <3>2, <3>3
  <2> QED BY <2>1, <2>2
<1>10. EntriesInv' BY <1>9 DEF EntriesInv
<1> QED BY <1>5, <1>10 DEF CacheInv

\* A write that was alone drops every entry it made stale; one that was not takes the
\* history's word from all of them
LEMMA InvalidateCache ==
    ASSUME CatalogInv, CacheInv, NEW c \in Clients, req[c] # Idle, req[c].pc # "del",
           NEW S, Invalidate(c, req[c], S),
           req[c].alone => \A a \in DOMAIN agents \ S :
                             /\ a \in DOMAIN agents' /\ agents'[a].tools = agents[a].tools
                             /\ \A b : (b \in DOMAIN agents' /\ agents'[b].parent = a)
                                        <=> (b \in DOMAIN agents /\ agents[b].parent = a)
    PROVE  CacheInv'
<1>1. Moved(c) /\ req'[c] # Idle /\ req'[c].pc = "del" /\ req'[c].stale = S \ {None} BY InvalidateMoved
<1>2. Seen(c)' BY <1>1 DEF Seen
<1>3. \A d \in Clients : AloneInv(d)' BY <1>1, <1>2, MovedAlone
<1>4. CASE req[c].alone
  <2>1. cache' = cache BY <1>4 DEF Invalidate, Marked
  <2>2. \A d \in Clients \ {c} : req[d] = Idle BY <1>4 DEF CacheInv, AloneInv
  <2>3. \A a : ~Dropping(a) BY <2>2 DEF Dropping
  <2>4. ASSUME NEW a \in DOMAIN cache, cache[a].clean PROVE FreshEntry(a)' \/ Dropping(a)'
    <3>1. FreshEntry(a) BY <2>3, <2>4 DEF CacheInv, EntriesInv
    <3>2. a \in DOMAIN agents /\ a # None BY <3>1, CatalogAssumption DEF FreshEntry, CatalogInv, TableInv
    <3>3. CASE a \in S BY <1>1, <3>2, <3>3 DEF Dropping
    <3>4. CASE a \notin S
      <4>1. /\ a \in DOMAIN agents' /\ agents'[a].tools = agents[a].tools
            /\ \A b : (b \in DOMAIN agents' /\ agents'[b].parent = a)
                       <=> (b \in DOMAIN agents /\ agents[b].parent = a)
        BY <1>4, <3>2, <3>4
      <4>2. Children(a)' = Children(a) BY <4>1 DEF Children
      <4> QED BY <2>1, <3>1, <4>1, <4>2 DEF FreshEntry
    <3> QED BY <3>3, <3>4
  <2>5. EntriesInv' BY <2>1, <2>4 DEF CacheInv, EntriesInv
  <2> QED BY <1>3, <2>5 DEF CacheInv
<1>5. CASE ~req[c].alone
  <2>1. cache' = [a \in DOMAIN cache |-> [cache[a] EXCEPT !.clean = FALSE]] BY <1>5 DEF Invalidate, Marked
  <2>2. ASSUME NEW a \in DOMAIN cache
        PROVE  DOMAIN cache'[a] = {"tools", "children", "clean"} /\ ~cache'[a].clean
    <3>1. DOMAIN cache[a] = {"tools", "children", "clean"} BY DEF CacheInv, EntriesInv
    <3>2. cache'[a] = [cache[a] EXCEPT !.clean = FALSE] BY <2>1
    <3> QED BY <3>1, <3>2
  <2>3. DOMAIN cache' = DOMAIN cache BY <2>1
  <2>4. EntriesInv' BY <2>2, <2>3 DEF EntriesInv
  <2> QED BY <1>3, <2>4 DEF CacheInv
<1> QED BY <1>4, <1>5

LEMMA CommitCreateCache ==
    ASSUME CatalogInv, CacheInv, NEW c \in Clients, CommitCreate(c) PROVE CacheInv'
<1> DEFINE row == [parent |-> req[c].ref, depth |-> req[c].depth, tools |-> req[c].tools]
<1>1. /\ At(c, "create_agent", "commit") /\ req[c].id \notin used
      /\ agents' = Put(agents, req[c].id, row) /\ Invalidate(c, req[c], {req[c].ref})
  BY DEF CommitCreate
<1>2. row.parent = req[c].ref OBVIOUS
<1> HIDE DEF row
<1>3. req[c].id \notin DOMAIN agents BY <1>1 DEF CatalogInv, TableInv
<1>4. /\ DOMAIN agents' = DOMAIN agents \cup {req[c].id} /\ agents'[req[c].id] = row
      /\ \A a \in DOMAIN agents : agents'[a] = agents[a]
  BY <1>1, <1>3 DEF Put
<1>5. ASSUME NEW a \in DOMAIN agents \ {req[c].ref}
      PROVE  /\ a \in DOMAIN agents' /\ agents'[a].tools = agents[a].tools
             /\ \A b : (b \in DOMAIN agents' /\ agents'[b].parent = a)
                        <=> (b \in DOMAIN agents /\ agents[b].parent = a)
  BY <1>2, <1>3, <1>4
<1>6. req[c] # Idle /\ req[c].pc # "del" BY <1>1, AtNotIdle DEF At
<1> QED BY <1>1, <1>5, <1>6, InvalidateCache

LEMMA CommitUpdateCache ==
    ASSUME CatalogInv, CacheInv, NEW c \in Clients, CommitUpdate(c) PROVE CacheInv'
<1> DEFINE S == StaleAfter(req[c])
<1>1. At(c, "update_agent", "commit") BY DEF CommitUpdate
<1>2. /\ Invalidate(c, req[c], S) /\ DOMAIN agents' = DOMAIN agents
      /\ \A a \in DOMAIN agents : a # req[c].id => agents'[a] = agents[a]
      /\ req[c].id \in DOMAIN agents =>
           agents'[req[c].id].parent = IF req[c].ref = None THEN agents[req[c].id].parent ELSE req[c].ref
  BY CommitUpdateEffect
<1>3. req[c] # Idle /\ req[c].pc # "del" BY <1>1, AtNotIdle DEF At
<1>4. req[c].id \in S /\ (req[c].ref \notin {None, req[c].old} => {req[c].old, req[c].ref} \subseteq S)
  BY DEF StaleAfter
<1> HIDE DEF S
<1>5. ASSUME req[c].alone, NEW a \in DOMAIN agents \ S
      PROVE  /\ a \in DOMAIN agents' /\ agents'[a].tools = agents[a].tools
             /\ \A b : (b \in DOMAIN agents' /\ agents'[b].parent = a)
                        <=> (b \in DOMAIN agents /\ agents[b].parent = a)
  <2>1. Seen(c) BY <1>3, <1>5 DEF CacheInv, AloneInv
  <2>2. req[c].id \in DOMAIN agents /\ agents[req[c].id].parent = req[c].old BY <1>1, <2>1 DEF Seen, At
  <2>3. a # req[c].id BY <1>4
  <2>4. agents'[req[c].id].parent = a <=> agents[req[c].id].parent = a BY <1>2, <1>4, <2>2
  <2> QED BY <1>2, <2>3, <2>4
<1> QED BY <1>2, <1>3, <1>5, InvalidateCache

LEMMA DeleteAgentCache ==
    ASSUME CatalogInv, CacheInv, NEW c \in Clients, DeleteAgent(c) PROVE CacheInv'
<1>1. At(c, "delete_agent", "write") BY DEF DeleteAgent
<1>2. req[c] # Idle /\ req[c].pc # "del" BY <1>1, AtNotIdle DEF At
<1>3. CASE Finish(c) /\ UNCHANGED <<agents, cache>> BY <1>2, <1>3, FinishMoved, QuietCache
<1>4. CASE agents' = Drop(agents, {req[c].id}) /\ Invalidate(c, req[c], {req[c].id, req[c].old})
  <2>1. DOMAIN agents' = DOMAIN agents \ {req[c].id} /\ \A a \in DOMAIN agents' : agents'[a] = agents[a]
    BY <1>4 DEF Drop, Restrict
  <2>2. ASSUME req[c].alone, NEW a \in DOMAIN agents \ {req[c].id, req[c].old}
        PROVE  /\ a \in DOMAIN agents' /\ agents'[a].tools = agents[a].tools
               /\ \A b : (b \in DOMAIN agents' /\ agents'[b].parent = a)
                          <=> (b \in DOMAIN agents /\ agents[b].parent = a)
    <3>1. Seen(c) BY <1>2, <2>2 DEF CacheInv, AloneInv
    <3>2. agents[req[c].id].parent = req[c].old BY <1>1, <3>1 DEF Seen, At
    <3> QED BY <2>1, <2>2, <3>2
  <2> QED BY <1>2, <1>4, <2>2, InvalidateCache
<1> QED BY <1>3, <1>4 DEF DeleteAgent

\* DEL of one key: an entry goes, or stays and is no longer vouched for
LEMMA InvalidateOneCache ==
    ASSUME CatalogInv, CacheInv, NEW c \in Clients, InvalidateOne(c) PROVE CacheInv'
<1>1. agents' = agents BY DEF InvalidateOne, rows
<1>2. PICK a : /\ req'[c].stale = req[c].stale \ {a}
               /\ \/ cache' = Drop(cache, {a})
                  \/ cache' = [b \in DOMAIN cache |-> IF b = a THEN [cache[b] EXCEPT !.clean = FALSE]
                                                      ELSE cache[b]]
  BY InvalidateOneEffect
<1>3. Moved(c) /\ req'[c] # Idle /\ req'[c].pc = "del" /\ req[c].pc = "del" BY InvalidateOneEffect
<1>4. Seen(c)' BY <1>3 DEF Seen
<1>5. \A d \in Clients : AloneInv(d)' BY <1>3, <1>4, MovedAlone
<1>6. ASSUME NEW b, b # a, Dropping(b) PROVE Dropping(b)'
  <2>1. PICK d \in Clients : req[d] # Idle /\ req[d].pc = "del" /\ b \in req[d].stale BY <1>6 DEF Dropping
  <2>2. CASE d = c BY <1>2, <1>3, <1>6, <2>1, <2>2 DEF Dropping
  <2>3. CASE d # c
    <3>1. req'[d] = req[d] BY <1>3, <2>3 DEF Moved, Others
    <3> QED BY <2>1, <3>1 DEF Dropping
  <2> QED BY <2>2, <2>3
<1>7. /\ DOMAIN cache' \subseteq DOMAIN cache
      /\ \A b \in DOMAIN cache' : b # a => cache'[b] = cache[b]
      /\ a \in DOMAIN cache' => DOMAIN cache'[a] = {"tools", "children", "clean"} /\ ~cache'[a].clean
  <2>1. CASE cache' = Drop(cache, {a}) BY <2>1 DEF Drop, Restrict
  <2>2. CASE cache' = [b \in DOMAIN cache |-> IF b = a THEN [cache[b] EXCEPT !.clean = FALSE] ELSE cache[b]]
    <3>1. DOMAIN cache' = DOMAIN cache /\ \A b \in DOMAIN cache : b # a => cache'[b] = cache[b] BY <2>2
    <3>2. ASSUME a \in DOMAIN cache PROVE DOMAIN cache'[a] = {"tools", "children", "clean"} /\ ~cache'[a].clean
      <4>1. DOMAIN cache[a] = {"tools", "children", "clean"} BY <3>2 DEF CacheInv, EntriesInv
      <4>2. cache'[a] = [cache[a] EXCEPT !.clean = FALSE] BY <2>2, <3>2
      <4> QED BY <4>1, <4>2
    <3> QED BY <3>1, <3>2
  <2> QED BY <1>2, <2>1, <2>2
<1>8. \A b : Children(b)' = Children(b) BY <1>1 DEF Children
<1>9. ASSUME NEW b \in DOMAIN cache', b # a
      PROVE  DOMAIN cache'[b] = {"tools", "children", "clean"} /\ (cache'[b].clean => FreshEntry(b)' \/ Dropping(b)')
  <2>1. cache'[b] = cache[b] /\ b \in DOMAIN cache BY <1>7, <1>9
  <2>2. DOMAIN cache[b] = {"tools", "children", "clean"} /\ (cache[b].clean => FreshEntry(b) \/ Dropping(b))
    BY <2>1 DEF CacheInv, EntriesInv
  <2>3. FreshEntry(b) => FreshEntry(b)' BY <1>1, <1>8, <2>1 DEF FreshEntry
  <2> QED BY <1>6, <1>9, <2>1, <2>2, <2>3
<1>10. EntriesInv' BY <1>7, <1>9 DEF EntriesInv
<1> QED BY <1>5, <1>10 DEF CacheInv

\* Whatever a handler that is dropped leaves behind is stale, and known to be
LEMMA LeaveCache ==
    ASSUME CatalogInv, CacheInv, NEW c \in Clients, Leave(c) PROVE CacheInv'
<1> DEFINE S == req[c].stale
<1>1. /\ req[c] # Idle /\ Finish(c) /\ agents' = agents
      /\ cache' = [b \in DOMAIN cache |-> IF b \in S THEN [cache[b] EXCEPT !.clean = FALSE] ELSE cache[b]]
  BY DEF Leave, rows
<1>2. Moved(c) /\ req'[c] = Idle BY <1>1, FinishMoved
<1>3. \A d \in Clients : AloneInv(d)' BY <1>2, MovedAlone
<1>4. ASSUME NEW b, b \notin S, Dropping(b) PROVE Dropping(b)'
  <2>1. PICK d \in Clients : req[d] # Idle /\ req[d].pc = "del" /\ b \in req[d].stale BY <1>4 DEF Dropping
  <2>2. d # c BY <1>4, <2>1
  <2>3. req'[d] = req[d] BY <1>2, <2>2 DEF Moved, Others
  <2> QED BY <2>1, <2>3 DEF Dropping
<1>5. \A b : Children(b)' = Children(b) BY <1>1 DEF Children
<1> HIDE DEF S
<1>6. ASSUME NEW b \in DOMAIN cache'
      PROVE  DOMAIN cache'[b] = {"tools", "children", "clean"} /\ (cache'[b].clean => FreshEntry(b)' \/ Dropping(b)')
  <2>1. /\ b \in DOMAIN cache /\ DOMAIN cache[b] = {"tools", "children", "clean"}
        /\ cache[b].clean => FreshEntry(b) \/ Dropping(b)
    BY <1>1, <1>6 DEF CacheInv, EntriesInv
  <2>2. CASE b \in S
    <3>1. cache'[b] = [cache[b] EXCEPT !.clean = FALSE] BY <1>1, <2>1, <2>2
    <3> QED BY <2>1, <3>1
  <2>3. CASE b \notin S
    <3>1. cache'[b] = cache[b] BY <1>1, <2>1, <2>3
    <3>2. FreshEntry(b) => FreshEntry(b)' BY <1>1, <1>5, <3>1 DEF FreshEntry
    <3> QED BY <1>4, <2>1, <2>3, <3>1, <3>2
  <2> QED BY <2>2, <2>3
<1>7. EntriesInv' BY <1>6 DEF EntriesInv
<1> QED BY <1>3, <1>7 DEF CacheInv

LEMMA AnswerCache ==
    ASSUME CatalogInv, CacheInv, NEW c \in Clients, Answer(c) PROVE CacheInv'
<1>1. req[c] # Idle /\ req[c].stale = {} /\ Finish(c) /\ UNCHANGED <<agents, cache>> BY DEF Answer, rows
<1> QED BY <1>1, FinishMoved, QuietCache

LEMMA ExpireCache == ASSUME CacheInv, CacheExpire PROVE CacheInv'
<1>1. UNCHANGED <<agents, req>> BY DEF CacheExpire, rows
<1>2. PICK a : cache' = Drop(cache, {a}) BY DEF CacheExpire
<1>3. DOMAIN cache' \subseteq DOMAIN cache /\ \A b \in DOMAIN cache' : cache'[b] = cache[b]
  BY <1>2 DEF Drop, Restrict
<1>4. \A b : Children(b)' = Children(b) BY <1>1 DEF Children
<1>5. ASSUME NEW b \in DOMAIN cache' PROVE FreshEntry(b)' <=> FreshEntry(b)
  BY <1>1, <1>3, <1>4 DEF FreshEntry
<1>6. \A b : Dropping(b)' <=> Dropping(b) BY <1>1 DEF Dropping
<1>7. EntriesInv' BY <1>3, <1>5, <1>6 DEF CacheInv, EntriesInv
<1>8. \A c \in Clients : AloneInv(c)' BY <1>1 DEF CacheInv, AloneInv, Seen, Children
<1> QED BY <1>7, <1>8 DEF CacheInv

LEMMA InitCache == Init => CacheInv
<1> SUFFICES ASSUME Init PROVE CacheInv
  OBVIOUS
<1>1. \A c \in Clients : AloneInv(c) BY DEF Init, AloneInv
<1>2. DOMAIN cache = {} BY DEF Init
<1>3. EntriesInv BY <1>2 DEF EntriesInv
<1> QED BY <1>1, <1>3 DEF CacheInv

LEMMA NextCache == CatalogInv /\ CacheInv /\ [Next]_vars => CacheInv'
<1> SUFFICES ASSUME CatalogInv, CacheInv, [Next]_vars PROVE CacheInv'
  OBVIOUS
<1>1. ASSUME NEW c \in Clients, Step(c) PROVE CacheInv'
  BY <1>1, BeginCache, PlainCache, DeleteToolCache, UpdateFetchCache, DeleteAgentFetchCache, GoCache,
     BindToolsCache, ReadToolsCache, ReadChildrenCache, CacheSetCache, CommitCreateCache, CommitUpdateCache,
     DeleteAgentCache, InvalidateOneCache, LeaveCache, AnswerCache DEF Step
<1>2. CASE CacheExpire BY <1>2, ExpireCache
<1>3. CASE UNCHANGED vars
  <2>1. UNCHANGED <<agents, cache, req>> BY <1>3 DEF vars
  <2> QED BY <2>1 DEF CacheInv, EntriesInv, FreshEntry, Dropping, AloneInv, Seen, Children
<1> QED BY <1>1, <1>2, <1>3 DEF Next

\* Requests that never overlapped leave no stale content behind, whatever was created,
\* moved or deleted: invalidate_content_cache of agent.rs drops the entries of the
\* agent, of its old parent and of its new one, and no other entry can be stale.
THEOREM CacheFreshHolds == Spec => []CacheFresh
<1>1. CatalogInv /\ CacheInv => CacheFresh
  BY DEF CacheInv, EntriesInv, FreshEntry, Dropping, CacheFresh
<1> QED BY <1>1, InitCatalog, NextCatalog, InitCache, NextCache, PTL DEF Spec
=============================================================================
