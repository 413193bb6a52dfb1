---------------------------- MODULE WebCatalog ----------------------------
(***************************************************************************)
(* The catalog services of hiveweb (plugins, functions, tools, agents) on  *)
(* MySQL, with the plugin bytes in S3 and the agents' runtime content in   *)
(* Redis.  A request is a sequence of statements; what another request     *)
(* committed between two of them is seen by the second.  A row lock is     *)
(* taken by SELECT ... FOR UPDATE / FOR SHARE, by UPDATE and DELETE, and   *)
(* (shared) on the referenced row by the foreign-key check of an INSERT;   *)
(* it is held to the end of the transaction.  Rows of an open transaction  *)
(* are kept in the request until it commits.                               *)
(* Names, prompts, schemas, tags, permissions, hooks and the tools every   *)
(* agent loads (is_always) are left out; skills follow the code of tools.  *)
(***************************************************************************)
EXTENDS Naturals, FiniteSets, Functions

CONSTANTS Clients,    \* administrators' requests in flight at once
          Plugins,    \* (identifier, version) pairs
          Funs, Tools, Agents,  \* row ids the database hands out, each once
          Main,       \* the entry agent
          Seed,       \* the catalog at the start
          Digests,    \* contents of uploads
          None,
          MaxDepth,   \* MAX_DEPTH of the agent tree
          MaxOps,     \* bound: requests
          MaxFaults   \* bound: failures of Redis or of a read

VARIABLES plugins,    \* rows: deleted_at set?, sha256
          bytes,      \* S3 objects
          functions,  \* rows: plugin_id
          tools,      \* rows: function_id
          agents,     \* rows: parent_agent_id, depth, and their agent_tools
          cache,      \* agent:content:{id} in Redis; clean is history
          locks,      \* row locks held: client, row, exclusive?
          used,       \* ids handed out
          req,        \* the requests in flight
          again,      \* history: pairs uploaded again, or twice at once
          ops, faults

vars == <<plugins, bytes, again, functions, tools, agents, cache, locks, used, req, ops, faults>>
s3 == <<bytes, again>>
rows == <<plugins, functions, tools, agents>>

\* A row belongs to one table, and the catalog at the start refers to rows it has.
ASSUME CatalogAssumption ==
    /\ Main \in DOMAIN Seed.agents /\ MaxDepth \in Nat /\ {MaxOps, MaxFaults} \subseteq Nat
    /\ Plugins \cap Funs = {} /\ Plugins \cap Tools = {} /\ Funs \cap Tools = {}
    /\ Agents \cap (Plugins \cup Funs \cup Tools) = {} /\ None \notin Agents
    /\ DOMAIN Seed.plugins \subseteq Plugins /\ DOMAIN Seed.functions \subseteq Funs
    /\ DOMAIN Seed.tools \subseteq Tools /\ DOMAIN Seed.agents \subseteq Agents
    /\ \A k \in DOMAIN Seed.plugins : DOMAIN Seed.plugins[k] = {"deleted", "sha"} /\ ~Seed.plugins[k].deleted
    /\ \A f \in DOMAIN Seed.functions : Seed.functions[f] \in DOMAIN Seed.plugins
    /\ \A t \in DOMAIN Seed.tools : Seed.tools[t] \in DOMAIN Seed.functions
    /\ \A a \in DOMAIN Seed.agents : /\ DOMAIN Seed.agents[a] = {"parent", "depth", "tools"}
                                     /\ Seed.agents[a].tools \subseteq DOMAIN Seed.tools

Idle == [op |-> "idle"]
\* alone: no other request has been in flight since this one began (history)
Request(op, pc, id, ref, bind) ==
    [op |-> op, pc |-> pc, id |-> id, ref |-> ref, bind |-> bind, depth |-> None,
     old |-> None, stale |-> {}, tools |-> {}, children |-> {}, alone |-> TRUE]

Init == /\ plugins = Seed.plugins /\ bytes = [k \in DOMAIN Seed.plugins |-> Seed.plugins[k].sha]
        /\ functions = Seed.functions /\ tools = Seed.tools /\ agents = Seed.agents
        /\ again = {} /\ cache = <<>> /\ locks = {} /\ req = [c \in Clients |-> Idle]
        /\ used = DOMAIN functions \cup DOMAIN tools \cup DOMAIN agents
        /\ ops = 0 /\ faults = 0

----------------------------------------------------------------------------
(* Transactions                                                            *)
(***************************************************************************)
CanShare(c, row) == ~\E l \in locks : l.row = row /\ l.c # c /\ l.x
CanLock(c, row) == ~\E l \in locks : l.row = row /\ l.c # c
Share(c, S) == locks \cup {[c |-> c, row |-> r, x |-> FALSE] : r \in S}
Lock(c, row) == locks \cup {[c |-> c, row |-> row, x |-> TRUE]}
Released(c) == {l \in locks : l.c # c}

At(c, op, pc) == req[c].op = op /\ req[c].pc = pc
Go(c, r, pc) == req' = [req EXCEPT ![c] = [r EXCEPT !.pc = pc]]
Put(f, k, v) == [x \in DOMAIN f \cup {k} |-> IF x = k THEN v ELSE f[x]]
Drop(f, S) == Restrict(f, DOMAIN f \ S)

\* the answer is sent, whatever it is: the transaction is over
Finish(c) == req' = [req EXCEPT ![c] = Idle] /\ locks' = Released(c)

Fresh(S) == S \ used
Requests ==
    {Request("upload", "put", k, d, {}) : k \in Plugins, d \in Digests}
    \cup {Request("delete", "lock", k, None, {}) : k \in Plugins}
    \cup {Request("create_function", "share", f, k, {}) : f \in Fresh(Funs), k \in Plugins}
    \cup {Request("delete", "fetch", r, None, {}) : r \in (Funs \cup Tools) \cap used}
    \cup {Request("create_tool", "check", t, f, {}) : t \in Fresh(Tools), f \in Funs \cap used}
    \cup {Request("create_agent", "fetch", a, p, B) :
              a \in Fresh(Agents), p \in (Agents \cap used) \cup {None}, B \in SUBSET (Tools \cap used)}
    \cup {Request("update_agent", "fetch", a, p, B) :
              a \in Agents \cap used, p \in (Agents \cap used) \cup {None},
              B \in SUBSET (Tools \cap used) \cup {None}}
    \cup {Request("delete_agent", "fetch", a, None, {}) : a \in Agents \cap used}
    \cup {Request("fetch_content", "get", a, None, {}) : a \in Agents \cap used}

Begin(c) ==
    /\ req[c] = Idle /\ ops < MaxOps
    /\ \E r \in Requests :
        LET busy == {d \in Clients : req[d] # Idle}
        IN  req' = [d \in Clients |->
                      IF d = c THEN [r EXCEPT !.alone = (busy = {})]
                      ELSE IF d \in busy THEN [req[d] EXCEPT !.alone = FALSE] ELSE req[d]]
    /\ ops' = ops + 1
    /\ UNCHANGED <<rows, s3, cache, locks, used, faults>>

\* Roles, schemas, presets, and the updated_at comparison of check_and_bump, each
\* before anything is written
Refuse(c) ==
    /\ \E op \in {"create_agent", "update_agent"} : At(c, op, "row") \/ At(c, op, "fetch")
    /\ locks' = locks /\ req' = [req EXCEPT ![c] = Idle]
    /\ UNCHANGED <<rows, s3, cache, used, ops, faults>>

----------------------------------------------------------------------------
(* plugin.rs                                                               *)
(***************************************************************************)
\* The object is written before the row is inserted, under the key of the pair
PutBytes(c) ==
    /\ At(c, "upload", "put")
    /\ LET k == req[c].id
           same == {d \in Clients \ {c} : req[d].op = "upload" /\ req[d].id = k}
       IN  /\ bytes' = Put(bytes, k, req[c].ref)
           /\ again' = IF k \in DOMAIN plugins \/ same # {} THEN again \cup {k} ELSE again
    /\ Go(c, req[c], "insert")
    /\ UNCHANGED <<rows, cache, locks, used, ops, faults>>

\* A duplicate pair fails the INSERT, and the error path deletes the object
InsertPlugin(c) ==
    /\ At(c, "upload", "insert")
    /\ LET k == req[c].id IN
       IF k \in DOMAIN plugins
       THEN bytes' = Drop(bytes, {k}) /\ UNCHANGED plugins
       ELSE /\ plugins' = Put(plugins, k, [deleted |-> FALSE, sha |-> req[c].ref])
            /\ UNCHANGED bytes
    /\ Finish(c)
    /\ UNCHANGED <<functions, tools, agents, again, cache, used, ops, faults>>

----------------------------------------------------------------------------
(* The deletes: fetch, lock the row, count what refers to it, write        *)
(***************************************************************************)
Live(row) == \/ row \in DOMAIN plugins /\ ~plugins[row].deleted
             \/ row \in DOMAIN functions \cup DOMAIN tools
\* Broken variant: the bindings of agents are not counted.
RowReferences(row) == {f \in DOMAIN functions : functions[f] = row}
                      \cup {t \in DOMAIN tools : tools[t] = row}
\* what the counts of plugin, function and tool deletion look for
References(row) == {f \in DOMAIN functions : functions[f] = row}
                   \cup {t \in DOMAIN tools : tools[t] = row}
                   \cup {a \in DOMAIN agents : row \in agents[a].tools}

DeleteFetch(c) ==
    /\ At(c, "delete", "fetch")
    /\ IF Live(req[c].id) THEN Go(c, req[c], "lock") /\ UNCHANGED locks ELSE Finish(c)
    /\ UNCHANGED <<rows, s3, cache, used, ops, faults>>

LockRow(c, row) == CanLock(c, row) /\ Go(c, req[c], "count") /\ locks' = Lock(c, row)
DeleteLock(c) ==
    /\ At(c, "delete", "lock")
    /\ IF Live(req[c].id) THEN LockRow(c, req[c].id)
       ELSE CanLock(c, req[c].id) /\ Finish(c)
    /\ UNCHANGED <<rows, s3, cache, used, ops, faults>>

DeleteCount(c) ==
    /\ At(c, "delete", "count")
    /\ IF References(req[c].id) = {} THEN Go(c, req[c], "write") /\ UNCHANGED locks ELSE Finish(c)
    /\ UNCHANGED <<rows, s3, cache, used, ops, faults>>

\* deleted_at is set: no foreign key guards a soft delete
SoftDelete(c) ==
    /\ At(c, "delete", "write") /\ req[c].id \in DOMAIN plugins
    /\ plugins' = [plugins EXCEPT ![req[c].id].deleted = TRUE]
    /\ Finish(c)
    /\ UNCHANGED <<functions, tools, agents, s3, cache, used, ops, faults>>

\* the foreign keys of tools and workflow nodes restrict it
DeleteFunction(c) ==
    /\ At(c, "delete", "write") /\ req[c].id \in DOMAIN functions
    /\ functions' = IF References(req[c].id) = {} THEN Drop(functions, {req[c].id}) ELSE functions
    /\ Finish(c)
    /\ UNCHANGED <<plugins, tools, agents, s3, cache, used, ops, faults>>

\* the foreign key of agent_tools cascades
DeleteTool(c) ==
    /\ At(c, "delete", "write") /\ req[c].id \in DOMAIN tools
    /\ tools' = Drop(tools, {req[c].id})
    /\ agents' = [a \in DOMAIN agents |-> [agents[a] EXCEPT !.tools = @ \ {req[c].id}]]
    /\ Finish(c)
    /\ UNCHANGED <<plugins, functions, s3, cache, used, ops, faults>>

----------------------------------------------------------------------------
(* function.rs and tool.rs: creation                                       *)
(***************************************************************************)
\* Broken variant: the plugin is read without a lock.
ReadPlugin(c, k) == Go(c, req[c], "insert") /\ UNCHANGED locks
\* SELECT ... FOR SHARE, held until the function is committed
SharePlugin(c, k) == CanShare(c, k) /\ Go(c, req[c], "insert") /\ locks' = Share(c, {k})
CheckPlugin(c) ==
    /\ At(c, "create_function", "share")
    /\ LET k == req[c].ref IN
       IF Live(k) THEN SharePlugin(c, k) ELSE CanShare(c, k) /\ Finish(c)
    /\ UNCHANGED <<rows, s3, cache, used, ops, faults>>

InsertFunction(c) ==
    /\ At(c, "create_function", "insert") /\ req[c].id \notin used
    /\ functions' = Put(functions, req[c].id, req[c].ref)
    /\ used' = used \cup {req[c].id}
    /\ Finish(c)
    /\ UNCHANGED <<plugins, tools, agents, s3, cache, ops, faults>>

\* validate_schemas_function reads the function outside any transaction
CheckFunction(c) ==
    /\ At(c, "create_tool", "check")
    /\ IF req[c].ref \in DOMAIN functions THEN Go(c, req[c], "insert") /\ UNCHANGED locks
       ELSE Finish(c)
    /\ UNCHANGED <<rows, s3, cache, used, ops, faults>>

InsertTool(c) ==
    /\ At(c, "create_tool", "insert") /\ req[c].id \notin used /\ CanShare(c, req[c].ref)
    /\ IF req[c].ref \in DOMAIN functions
       THEN tools' = Put(tools, req[c].id, req[c].ref) /\ used' = used \cup {req[c].id}
       ELSE UNCHANGED <<tools, used>>
    /\ Finish(c)
    /\ UNCHANGED <<plugins, functions, agents, s3, cache, ops, faults>>

----------------------------------------------------------------------------
(* agent.rs: writes                                                        *)
(***************************************************************************)
\* The parent's depth is read outside the transaction; a parent that is absent or
\* too deep ends the request
ParentFits(p) == p \in DOMAIN agents /\ agents[p].depth + 1 <= MaxDepth
CreateFetch(c) ==
    /\ At(c, "create_agent", "fetch")
    /\ LET p == req[c].ref IN
       CASE p = None -> Go(c, [req[c] EXCEPT !.depth = 0], "row") /\ UNCHANGED locks
         [] ParentFits(p) -> Go(c, [req[c] EXCEPT !.depth = agents[p].depth + 1], "row") /\ UNCHANGED locks
         [] OTHER -> Finish(c)
    /\ UNCHANGED <<rows, s3, cache, used, ops, faults>>

\* Only a parent that is given and differs is checked, against the agent itself alone
UpdateFetch(c) ==
    /\ At(c, "update_agent", "fetch")
    /\ LET r == req[c]
           a == r.id
           moves == r.ref \notin {None, agents[a].parent}
       IN  CASE a \notin DOMAIN agents -> Finish(c)
             [] a \in DOMAIN agents /\ ~moves ->
                  Go(c, [r EXCEPT !.old = agents[a].parent], "row") /\ UNCHANGED locks
             [] a \in DOMAIN agents /\ moves /\ r.ref # a /\ ParentFits(r.ref) ->
                  /\ Go(c, [r EXCEPT !.old = agents[a].parent, !.depth = agents[r.ref].depth + 1], "row")
                  /\ UNCHANGED locks
             [] OTHER -> Finish(c)
    /\ UNCHANGED <<rows, s3, cache, used, ops, faults>>

\* INSERT locks the parent's row by its foreign key; UPDATE its own row, and the
\* parent's when that column changes, and finds nothing when its row is gone
WriteRow(c) ==
    /\ \E op \in {"create_agent", "update_agent"} : At(c, op, "row")
    /\ LET r == req[c]
           own == IF r.op = "update_agent" THEN {r.id} \cap DOMAIN agents ELSE {}
           writes == r.op = "create_agent" \/ own # {}
           fk == {p \in {r.ref} \ {None} : writes /\ \A a \in own : agents[a].parent # p}
       IN  /\ \A a \in own : CanLock(c, a)
           /\ \A p \in fk : CanShare(c, p)
           /\ IF fk \subseteq DOMAIN agents
              THEN Go(c, r, "bind") /\ locks' = Share(c, fk) \cup UNION {Lock(c, a) : a \in own}
              ELSE Finish(c)
    /\ UNCHANGED <<rows, s3, cache, used, ops, faults>>

\* INSERT IGNORE skips a tool, or an agent, that is gone and locks the others
BindTools(c) ==
    /\ \E op \in {"create_agent", "update_agent"} : At(c, op, "bind")
    /\ LET r == req[c]
           asked == IF r.bind = None \/ (r.op = "update_agent" /\ r.id \notin DOMAIN agents)
                    THEN {} ELSE r.bind
           found == asked \cap DOMAIN tools
       IN  /\ \A t \in asked : CanShare(c, t)
           /\ Go(c, [r EXCEPT !.tools = found], "commit")
           /\ locks' = Share(c, found)
    /\ UNCHANGED <<rows, s3, cache, used, ops, faults>>

\* a write that was not alone takes the freshness of every entry with it (history)
Marked(c) == IF req[c].alone THEN cache ELSE [a \in DOMAIN cache |-> [cache[a] EXCEPT !.clean = FALSE]]
Invalidate(c, r, S) == /\ Go(c, [r EXCEPT !.stale = S \ {None}], "del")
                       /\ locks' = Released(c) /\ cache' = Marked(c)

CommitCreate(c) ==
    /\ At(c, "create_agent", "commit") /\ req[c].id \notin used
    /\ LET r == req[c] IN
       /\ agents' = Put(agents, r.id, [parent |-> r.ref, depth |-> r.depth, tools |-> r.tools])
       /\ used' = used \cup {r.id}
       /\ Invalidate(c, r, {r.ref})
    /\ UNCHANGED <<plugins, functions, tools, s3, ops, faults>>

\* Broken variant: only the agent's own entry goes.
StaleAfterSelf(r) == {r.id}
\* its own entry and, when it moved, those of the old and the new parent
StaleAfter(r) == {r.id} \cup IF r.ref \notin {None, r.old} THEN {r.old, r.ref} ELSE {}
CommitUpdate(c) ==
    /\ At(c, "update_agent", "commit")
    /\ LET r == req[c] IN
       /\ agents' = IF r.id \notin DOMAIN agents THEN agents
                    ELSE [agents EXCEPT ![r.id] =
                            [parent |-> IF r.ref = None THEN @.parent ELSE r.ref,
                             depth  |-> IF r.depth = None THEN @.depth ELSE r.depth,
                             tools  |-> IF r.bind = None THEN @.tools ELSE r.tools]]
       /\ Invalidate(c, r, StaleAfter(r))
    /\ UNCHANGED <<plugins, functions, tools, s3, used, ops, faults>>

Children(a) == {b \in DOMAIN agents : agents[b].parent = a}
DeleteAgentFetch(c) ==
    /\ At(c, "delete_agent", "fetch")
    /\ LET a == req[c].id IN
       IF a \in DOMAIN agents /\ a # Main
       THEN Go(c, [req[c] EXCEPT !.old = agents[a].parent], "count") /\ UNCHANGED locks
       ELSE Finish(c)
    /\ UNCHANGED <<rows, s3, cache, used, ops, faults>>

DeleteAgentCount(c) ==
    /\ At(c, "delete_agent", "count")
    /\ IF Children(req[c].id) = {} THEN Go(c, req[c], "write") /\ UNCHANGED locks ELSE Finish(c)
    /\ UNCHANGED <<rows, s3, cache, used, ops, faults>>

\* the foreign key of parent_agent_id restricts it
DeleteAgent(c) ==
    /\ At(c, "delete_agent", "write") /\ CanLock(c, req[c].id)
    /\ LET r == req[c] IN
       IF Children(r.id) = {}
       THEN agents' = Drop(agents, {r.id}) /\ Invalidate(c, r, {r.id, r.old})
       ELSE Finish(c) /\ UNCHANGED <<agents, cache>>
    /\ UNCHANGED <<plugins, functions, tools, s3, used, ops, faults>>

\* DEL of one key; a failure is only logged
InvalidateOne(c) ==
    /\ req[c] # Idle /\ req[c].pc = "del" /\ req[c].stale # {}
    /\ \E a \in req[c].stale :
        /\ req' = [req EXCEPT ![c].stale = @ \ {a}]
        /\ \/ cache' = Drop(cache, {a}) /\ UNCHANGED faults
           \/ /\ faults < MaxFaults /\ faults' = faults + 1
              /\ cache' = [b \in DOMAIN cache |-> IF b = a THEN [cache[b] EXCEPT !.clean = FALSE] ELSE cache[b]]
    /\ UNCHANGED <<rows, s3, locks, used, ops>>

\* The client leaves after the commit: the handler is dropped with keys still to delete
Leave(c) ==
    /\ req[c] # Idle /\ req[c].pc = "del" /\ req[c].stale # {}
    /\ faults < MaxFaults /\ faults' = faults + 1
    /\ cache' = [b \in DOMAIN cache |->
                    IF b \in req[c].stale THEN [cache[b] EXCEPT !.clean = FALSE] ELSE cache[b]]
    /\ Finish(c)
    /\ UNCHANGED <<rows, s3, used, ops>>

Answer(c) ==
    /\ req[c] # Idle /\ req[c].pc = "del" /\ req[c].stale = {}
    /\ Finish(c)
    /\ UNCHANGED <<rows, s3, cache, used, ops, faults>>

----------------------------------------------------------------------------
(* agent.rs: fetch_content through the cache                               *)
(***************************************************************************)
\* an entry that cannot be read falls back to the database
CacheGet(c) ==
    /\ At(c, "fetch_content", "get")
    /\ \/ req[c].id \in DOMAIN cache /\ Finish(c) /\ UNCHANGED faults
       \/ /\ Go(c, req[c], "row") /\ UNCHANGED locks
          /\ IF req[c].id \in DOMAIN cache THEN faults < MaxFaults /\ faults' = faults + 1
             ELSE UNCHANGED faults
    /\ UNCHANGED <<rows, s3, cache, used, ops>>

ReadAgent(c) ==
    /\ At(c, "fetch_content", "row")
    /\ IF req[c].id \in DOMAIN agents THEN Go(c, req[c], "tools") /\ UNCHANGED locks
       ELSE Finish(c)
    /\ UNCHANGED <<rows, s3, cache, used, ops, faults>>

\* a read that fails counts as an empty list (unwrap_or_default), and is cached as such
Reads(c, found, r, pc) ==
    \/ Go(c, r, pc) /\ UNCHANGED faults
    \/ /\ found # {} /\ faults < MaxFaults /\ faults' = faults + 1
       /\ Go(c, [r EXCEPT !.tools = req[c].tools, !.children = {}, !.alone = FALSE], pc)
ReadTools(c) ==
    /\ At(c, "fetch_content", "tools")
    /\ LET found == IF req[c].id \in DOMAIN agents THEN agents[req[c].id].tools ELSE {}
       IN  Reads(c, found, [req[c] EXCEPT !.tools = found], "children")
    /\ UNCHANGED <<rows, s3, cache, locks, used, ops>>

ReadChildren(c) ==
    /\ At(c, "fetch_content", "children")
    /\ Reads(c, Children(req[c].id), [req[c] EXCEPT !.children = Children(req[c].id)], "set")
    /\ UNCHANGED <<rows, s3, cache, locks, used, ops>>

\* SETEX; a failure is only logged
CacheSet(c) ==
    /\ At(c, "fetch_content", "set")
    /\ \/ /\ cache' = Put(cache, req[c].id,
                          [tools |-> req[c].tools, children |-> req[c].children, clean |-> req[c].alone])
          /\ UNCHANGED faults
       \/ faults < MaxFaults /\ faults' = faults + 1 /\ UNCHANGED cache
    /\ Finish(c)
    /\ UNCHANGED <<rows, s3, used, ops>>

\* SETEX: the entry's time to live ends
CacheExpire ==
    /\ \E a \in DOMAIN cache : cache' = Drop(cache, {a})
    /\ UNCHANGED <<rows, s3, locks, used, req, ops, faults>>

Step(c) ==
    \/ Begin(c) \/ Refuse(c)
    \/ PutBytes(c) \/ InsertPlugin(c)
    \/ DeleteFetch(c) \/ DeleteLock(c) \/ DeleteCount(c)
    \/ SoftDelete(c) \/ DeleteFunction(c) \/ DeleteTool(c)
    \/ CheckPlugin(c) \/ InsertFunction(c) \/ CheckFunction(c) \/ InsertTool(c)
    \/ CreateFetch(c) \/ UpdateFetch(c) \/ WriteRow(c) \/ BindTools(c)
    \/ CommitCreate(c) \/ CommitUpdate(c)
    \/ DeleteAgentFetch(c) \/ DeleteAgentCount(c) \/ DeleteAgent(c)
    \/ InvalidateOne(c) \/ Leave(c) \/ Answer(c)
    \/ CacheGet(c) \/ ReadAgent(c) \/ ReadTools(c) \/ ReadChildren(c) \/ CacheSet(c)

Next == (\E c \in Clients : Step(c)) \/ CacheExpire
Spec == Init /\ [][Next]_vars

----------------------------------------------------------------------------
(* Properties                                                              *)
(***************************************************************************)
\* A function can always be called: its plugin is there, is not soft-deleted, however
\* the creation (FOR SHARE) and the soft delete (FOR UPDATE, count) interleave, and has
\* the bytes its sha256 was taken of, unless the same pair was uploaded again.  A tool
\* never refers to a function that is gone.
ReferencesLive ==
    /\ \A f \in DOMAIN functions : LET k == functions[f] IN
        /\ k \in DOMAIN plugins /\ ~plugins[k].deleted
        /\ k \in again \/ (k \in DOMAIN bytes /\ bytes[k] = plugins[k].sha)
    /\ \A t \in DOMAIN tools : tools[t] \in DOMAIN functions

\* A tool some agent is bound to is never deleted: the count under the row lock of
\* tool.delete is never outrun by an INSERT IGNORE into agent_tools, whose binding
\* the cascading foreign key would take away without a word.
BindingsKept ==
    [][\A a \in DOMAIN agents : agents[a].tools \subseteq DOMAIN tools']_vars

\* Requests that never overlapped leave no stale content behind: once they are
\* answered, every entry filled and kept without a failed call is what the database
\* says of that agent's bound tools and children, whatever was created, moved or
\* deleted (update, create and delete of agent.rs, and invalidate_content_cache).
CacheFresh ==
    (\A c \in Clients : req[c] = Idle) =>
        \A a \in DOMAIN cache : cache[a].clean =>
            /\ a \in DOMAIN agents
            /\ cache[a].tools = agents[a].tools
            /\ cache[a].children = Children(a)
=============================================================================
