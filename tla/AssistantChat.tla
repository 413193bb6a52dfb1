--------------------------- MODULE AssistantChat ---------------------------
(***************************************************************************)
(* The public assistant endpoint of hiveweb: POST /api/assistant with its  *)
(* daily quota in Redis, the per-user slot, the user's chat session, and   *)
(* the orchestrator task the handler spawns (hops, hooks, tools, routing   *)
(* to sub-agents).  All requests are of one user.  The handler is a future *)
(* the server drops when the client goes away: Disconnect may hit it at    *)
(* any await, and then only the drop guards run.                           *)
(* A hop of the orchestrator is one step: between the cancel check at its  *)
(* start and the next one it touches only the task's own state.            *)
(***************************************************************************)
EXTENDS Integers, Sequences, FiniteSets

CONSTANTS Requests,     \* requests of the user, each sent once
          Agents, Main, \* agents of the catalog and the starting one (id 1)
          Children,     \* Children[a]: the sub-agents a may route to
          Hooks,        \* Hooks[p]: the hooks of trigger point p, in order
          MaxTimes,     \* daily limit of the user
          Cap,          \* CHAT_SSE_MAX_CONCURRENT_PER_USER
          MaxHops,      \* AGENT_MAX_HOPS
          MaxCalls,     \* bound: tool calls in one response
          MaxResets,    \* bound: expiries of the daily counter
          MaxSessions,  \* bound: calls of POST /api/newsession
          MaxFaults     \* bound: failures of Redis, the database or the task

Points == {"before_agent_start", "before_llm_call", "after_llm_call", "on_agent_error",
           "before_tool_call", "after_tool_call", "after_agent_end"}

ASSUME ChatAssumption ==
    /\ Agents \subseteq Nat \ {0} /\ Main \in Agents /\ Children \in [Agents -> SUBSET Agents]
    /\ Hooks \in [Points -> Seq([enabled : BOOLEAN, blocking : BOOLEAN])]
    /\ {MaxTimes, Cap, MaxHops} \subseteq Nat \ {0}
    /\ {MaxCalls, MaxResets, MaxSessions, MaxFaults} \subseteq Nat

VARIABLES quota,    \* the Redis key: value, and whether it has a time to live
          window,   \* expiries of the key so far
          slots,    \* SSE_COUNTERS entry of the user
          dropped,  \* guards dropped whose release task has not run yet
          live,     \* sessions of the user
          nSess,    \* ids given to sessions
          resets,   \* calls of newsession
          faults,
          drift,    \* history: refunds that hit the counter of a later window
          req,      \* the handlers
          orch      \* the orchestrator tasks

vars == <<quota, window, slots, dropped, live, nSess, resets, faults, drift, req, orch>>
redis == <<quota, window, drift>>
store == <<live, nSess, resets>>
slotVars == <<slots, dropped>>

None == 0
Work == 0      \* a call of any tool but route_to_subagent
\* paid: the window whose counter holds this request's charge, 0 for none, negated
\* when Redis failed on it; slot: it owns an SseConcurrencyGuard
NewReq == [pc |-> "idle", out |-> "none", paid |-> 0, sess |-> 0, slot |-> FALSE, conn |-> TRUE]
Quiet(o) == o.pc \in {"none", "over"}
NoTask == [pc |-> "none", hop |-> 0, agent |-> Main, visited |-> {}, left |-> {}, back |-> FALSE, routed |-> None,
           known |-> FALSE, extra |-> FALSE, brk |-> FALSE,
           error |-> FALSE, content |-> "none", saved |-> FALSE]

Init == /\ quota = [n |-> 0, ttl |-> FALSE] /\ window = 1
        /\ slots = 0 /\ dropped = 0
        /\ live = {} /\ nSess = 0 /\ resets = 0 /\ faults = 0
        /\ drift = 0
        /\ req = [r \in Requests |-> NewReq]
        /\ orch = [r \in Requests |-> NoTask]

----------------------------------------------------------------------------
(* Hooks.  A trigger point runs its enabled hooks in order; the first      *)
(* blocking one that fails (or times out) ends the run with an error.      *)
(***************************************************************************)
RunHooks(list, failed) ==
    LET stops == {i \in DOMAIN list : list[i].enabled /\ list[i].blocking /\ i \in failed}
    IN [ok  |-> stops = {},
        ran |-> {i \in DOMAIN list : list[i].enabled /\ \A j \in stops : i <= j}]

\* What a function, a workflow or a tool may leave in the AgentContext: something to
\* save (an extension, a response_content), and a request to leave the loop.
Writes(o) == {[o EXCEPT !.extra = @ \/ e, !.brk = @ \/ b] : e, b \in BOOLEAN}

HookStates(o, p, ok) ==
    UNION {IF v.ran = {} THEN {o} ELSE Writes(o) :
             v \in {w \in {RunHooks(Hooks[p], f) : f \in SUBSET DOMAIN Hooks[p]} : w.ok = ok}}
Passed(o, p)  == HookStates(o, p, TRUE)
Blocked(o, p) == HookStates(o, p, FALSE)
Observed(o, p) == Passed(o, p) \cup Blocked(o, p)     \* audit-only trigger points

----------------------------------------------------------------------------
(* One hop of run_session_internal_impl, as the set of states it may leave *)
(***************************************************************************)
Break(o, err, content) == [o EXCEPT !.pc = "final", !.error = @ \/ err, !.content = content,
                                     !.visited = {}, !.left = {}, !.routed = None, !.brk = FALSE,
                                     !.hop = 0, !.agent = Main]

\* The for loop: after the last hop it falls through to finalization.
NextHop(o) == IF o.hop + 1 = MaxHops THEN Break(o, FALSE, o.content)
              ELSE [o EXCEPT !.hop = @ + 1, !.routed = None]

\* Broken variant: the visited set is not consulted.
RouteUnvisited(o, a) == IF a \in Children[o.agent] THEN [o EXCEPT !.routed = a] ELSE o
\* handle_route_tool: only a child of the current agent, only one not visited
Route(o, a) == IF a \in Children[o.agent] \ o.visited
               THEN [o EXCEPT !.visited = @ \cup {a}, !.routed = a] ELSE o

CallTool(o, c) ==
    IF o.pc # "hop" THEN {o}
    ELSE {Break(q, TRUE, "text") : q \in Blocked(o, "before_tool_call")}
         \cup UNION {UNION {Observed(w, "after_tool_call") :
                              w \in IF c \in Agents THEN {Route(q, c)} ELSE Writes(q)}
                     : q \in Passed(o, "before_tool_call")}

EndRound(o, text) ==
    CASE o.pc # "hop" -> {o}
      [] o.pc = "hop" /\ o.brk -> {Break(o, FALSE, c) : c \in {"text", "empty"}}
      [] o.pc = "hop" /\ ~o.brk /\ o.routed # None -> {NextHop([o EXCEPT !.agent = o.routed, !.left = @ \cup {o.agent}])}
      [] OTHER -> {IF o.hop + 1 = MaxHops THEN Break(o, TRUE, text) ELSE NextHop(o)}

\* A route to an agent that is no child is refused: it does less than Work may do.
CallSeqs(o) == UNION {[1 .. n -> Children[o.agent] \cup {Work}] : n \in 1 .. MaxCalls}
AfterCalls(o, cs) ==
    LET after[k \in 0 .. Len(cs)] ==
            IF k = 0 THEN {o} ELSE UNION {CallTool(q, cs[k]) : q \in after[k - 1]}
    IN after[Len(cs)]
ToolRound(o, cs) == UNION {EndRound(q, t) : q \in AfterCalls(o, cs), t \in {"text", "empty"}}

Answered(o) ==
    {Break(q, TRUE, "none") : q \in Observed(o, "on_agent_error")}
    \cup UNION {{Break(q, FALSE, c) : c \in {"text", "empty"}}
                  \cup UNION {ToolRound(q, cs) : cs \in CallSeqs(q)}
                : q \in Observed(o, "after_llm_call")}

HopStates(o) ==
    LET loaded == [o EXCEPT !.known = TRUE, !.back = @ \/ o.agent \in o.left]
        started == Passed(loaded, "before_agent_start")
    IN {Break(o, TRUE, "none")}                                      \* fetch_content fails
       \cup {Break(q, TRUE, "none") : q \in Blocked(loaded, "before_agent_start")}
       \cup {Break(q, TRUE, "none") : q \in started}                 \* build_primary fails
       \cup {Break(q, TRUE, "none") : q \in UNION {Blocked(s, "before_llm_call") : s \in started}}
       \cup UNION {Answered(q) : q \in UNION {Passed(s, "before_llm_call") : s \in started}}

----------------------------------------------------------------------------
(* The orchestrator task                                                   *)
(***************************************************************************)
Over(o) == [NoTask EXCEPT !.pc = "over", !.error = o.error, !.saved = o.saved, !.back = o.back]
Fault == faults < MaxFaults /\ faults' = faults + 1
HandlerVars == <<redis, slotVars, req>>

Hop(r) ==
    /\ orch[r].pc = "hop"
    /\ IF ~req[r].conn THEN orch' = [orch EXCEPT ![r] = Over(@)]    \* cancelled: nothing is saved
       ELSE \E q \in HopStates(orch[r]) : orch' = [orch EXCEPT ![r] = q]
    /\ UNCHANGED <<HandlerVars, store, faults>>

\* finalize_with_variant: the after_agent_end hooks, then the reply that counts,
\* then its row.  Nothing to say at all is not saved, no content is saved as "".
Saves(o) == o.content # "empty" \/ o.extra

Finalize(r) ==
    /\ orch[r].pc = "final"
    /\ \E q \in (IF orch[r].known THEN Observed(orch[r], "after_agent_end") ELSE {orch[r]}) :
         \/ /\ Saves(q) /\ req[r].sess \in live
            /\ orch' = [orch EXCEPT ![r] = Over([q EXCEPT !.saved = TRUE])] /\ UNCHANGED faults
         \/ /\ ~Saves(q) \/ req[r].sess \notin live      \* the foreign key refuses the row
            /\ orch' = [orch EXCEPT ![r] = Over(q)] /\ UNCHANGED faults
         \/ /\ Saves(q) /\ Fault                         \* the insert fails
            /\ orch' = [orch EXCEPT ![r] = Over(q)]
    /\ UNCHANGED <<HandlerVars, store>>

\* The task panics: its sender is dropped and the handle yields a JoinError.
Panic(r) == /\ orch[r].pc = "hop" /\ Fault
            /\ orch' = [orch EXCEPT ![r] = Over(@)]
            /\ UNCHANGED <<HandlerVars, store>>

----------------------------------------------------------------------------
(* The handler                                                             *)
(***************************************************************************)
AtPc(r, pc) == req[r].pc = pc
To(r, pc, out) == req' = [req EXCEPT ![r].pc = pc, ![r].out = out]
Refunds(r, out) == To(r, "refund", out) /\ UNCHANGED slotVars

\* Broken variant: the guard is not released when the client goes away.
LeavesNoGuard(r, rec) ==
    /\ req' = [req EXCEPT ![r] = [rec EXCEPT !.pc = "ended", !.slot = FALSE]]
    /\ dropped' = IF req[r].slot /\ rec.conn THEN dropped + 1 ELSE dropped
    /\ UNCHANGED slots
\* The future is dropped, its guard with it: the release runs as a task of its own.
Leaves(r, rec) ==
    /\ req' = [req EXCEPT ![r] = [rec EXCEPT !.pc = "ended", !.slot = FALSE]]
    /\ dropped' = IF req[r].slot THEN dropped + 1 ELSE dropped
    /\ UNCHANGED slots
Ends(r, out) == Leaves(r, [req[r] EXCEPT !.out = out])

\* content type, signature, JSON, user, message and word-filter checks
Refuse(r) == /\ AtPc(r, "idle") /\ Ends(r, "refused")
             /\ UNCHANGED <<redis, store, faults, orch>>

\* check_and_incr_daily_limit: INCR
\* Broken variant: the limit is compared one too late.
OverLimitByOne(n) == n > MaxTimes + 1
OverLimit(n) == n > MaxTimes
Creates(n) == n = 1
Charge(r) ==
    /\ AtPc(r, "idle")
    /\ LET n == quota.n + 1
       IN \/ /\ quota' = [quota EXCEPT !.n = n]
             /\ req' = [req EXCEPT ![r].paid = window,
                          ![r].pc = CASE Creates(n) -> "expire" [] OverLimit(n) -> "refund" [] OTHER -> "slot",
                          ![r].out = IF OverLimit(n) THEN "limited" ELSE @]
             /\ UNCHANGED <<slotVars, faults>>
          \/ /\ Fault /\ quota' = [quota EXCEPT !.n = n]        \* done, but the answer is lost
             /\ Leaves(r, [req[r] EXCEPT !.out = "failed", !.paid = -window])
          \/ /\ Fault /\ Ends(r, "failed") /\ UNCHANGED quota
    /\ UNCHANGED <<window, drift, store, orch>>

\* EXPIRE, by the request that created the key; its failure is ignored
SetExpiry(r) ==
    /\ AtPc(r, "expire") /\ To(r, "slot", "none")
    /\ \/ quota' = [quota EXCEPT !.ttl = TRUE] /\ UNCHANGED faults
       \/ Fault /\ UNCHANGED quota
    /\ UNCHANGED <<window, drift, slotVars, store, orch>>

\* Broken variant: a busy request is refunded by the slot check and by the caller.
RefundTwice(r) ==
    /\ AtPc(r, "refund") /\ Ends(r, req[r].out)
    /\ quota' = [quota EXCEPT !.n = @ - (IF req[r].out = "busy" THEN 2 ELSE 1)]
    /\ UNCHANGED <<window, drift, store, faults, orch>>
\* decr_daily_limit, and the DECR of a request over the limit; then the response.
\* On a key that expired meanwhile DECR starts a new one at -1, with no expiry.
Refund(r) ==
    /\ AtPc(r, "refund")
    /\ \/ /\ quota' = [quota EXCEPT !.n = @ - 1]
          /\ drift' = IF req[r].paid = window THEN drift ELSE drift + 1
          /\ Leaves(r, [req[r] EXCEPT !.paid = 0])
          /\ UNCHANGED faults
       \/ /\ Fault /\ Leaves(r, [req[r] EXCEPT !.paid = -@]) /\ UNCHANGED <<quota, drift>>
    /\ UNCHANGED <<window, store, orch>>

\* try_acquire_slot
\* Broken variant: one turn over the cap is let in.
SlotFreeOffByOne == slots <= Cap
SlotFree == slots < Cap
TakeSlot(r) ==
    /\ AtPc(r, "slot")
    /\ \/ /\ SlotFree /\ slots' = slots + 1 /\ UNCHANGED dropped
          /\ req' = [req EXCEPT ![r].pc = "session", ![r].slot = TRUE]
       \/ ~SlotFree /\ Refunds(r, "busy")
    /\ UNCHANGED <<redis, store, faults, orch>>

\* get_or_create_session_user: the latest session, or else a new one
FindSession(r) ==
    /\ AtPc(r, "session")
    /\ \/ live = {} /\ To(r, "create", "none")
       \/ \E s \in live : req' = [req EXCEPT ![r].pc = "append", ![r].sess = s]
    /\ UNCHANGED <<redis, slotVars, store, faults, orch>>
CreateSession(r) ==
    /\ AtPc(r, "create")
    /\ nSess' = nSess + 1 /\ live' = live \cup {nSess'}
    /\ req' = [req EXCEPT ![r].pc = "append", ![r].sess = nSess']
    /\ UNCHANGED <<redis, slotVars, resets, faults, orch>>

\* append_user_message_user, list_messages_user, then the task is spawned
Ask(r) ==
    /\ AtPc(r, "append")
    /\ \/ /\ req[r].sess \in live
          /\ orch' = [orch EXCEPT ![r] = [NoTask EXCEPT !.pc = "hop", !.visited = {Main}]]
          /\ To(r, "drain", "none") /\ UNCHANGED slotVars
       \/ req[r].sess \notin live /\ Refunds(r, "failed") /\ UNCHANGED orch
    /\ UNCHANGED <<redis, store, faults>>

\* user sync, session or message write fails
StoreFails(r) == /\ req[r].pc \in {"session", "create", "append"}
                 /\ Fault /\ Refunds(r, "failed")
                 /\ UNCHANGED <<redis, store, orch>>

\* The channel closes when the task ends: an error event, or no saved row, refunds.
\* Broken variant: only a missing row counts as a failure.
FailedUnsaved(o) == ~o.saved
Failed(o) == o.error \/ ~o.saved
Collect(r) ==
    /\ AtPc(r, "drain") /\ Quiet(orch[r])
    /\ \/ Failed(orch[r]) /\ Refunds(r, "failed")
       \/ ~Failed(orch[r]) /\ Ends(r, "ok")
    /\ UNCHANGED <<redis, store, faults, orch>>

----------------------------------------------------------------------------
(* The client goes away; the release task; the counter expires; newsession *)
(***************************************************************************)
Disconnect(r) ==
    /\ req[r].pc \notin {"idle", "ended"}
    /\ Leaves(r, [req[r] EXCEPT !.conn = FALSE, !.out = "gone"])
    /\ UNCHANGED <<quota, window, drift, store, faults, orch>>

ReleaseSlot ==
    /\ dropped > 0 /\ dropped' = dropped - 1
    /\ slots' = IF slots = 0 THEN 0 ELSE slots - 1
    /\ UNCHANGED <<redis, store, faults, req, orch>>

Expire == /\ quota.ttl /\ window <= MaxResets
          /\ quota' = [n |-> 0, ttl |-> FALSE] /\ window' = window + 1
          /\ drift' = 0
          /\ UNCHANGED <<slotVars, store, faults, req, orch>>

\* clear_and_create_session, one transaction
NewSession == /\ resets < MaxSessions /\ resets' = resets + 1
              /\ nSess' = nSess + 1 /\ live' = {nSess'}
              /\ UNCHANGED <<redis, slotVars, faults, req, orch>>

HandlerStep(r) == \/ SetExpiry(r) \/ Refund(r) \/ TakeSlot(r) \/ FindSession(r)
                  \/ CreateSession(r) \/ Ask(r) \/ Collect(r)
TaskStep(r) == Hop(r) \/ Finalize(r)

Next == \/ \E r \in Requests : \/ Refuse(r) \/ Charge(r) \/ HandlerStep(r) \/ StoreFails(r)
                               \/ TaskStep(r) \/ Panic(r) \/ Disconnect(r)
        \/ ReleaseSlot \/ Expire \/ NewSession

\* WF_vars(TaskStep(r)), with ENABLED TaskStep(r) written out: a hop has many
\* outcomes, and TLC need not enumerate them to see that the task moved.
TaskFairness(r) == []<>Quiet(orch[r]) \/ []<><<orch[r]' # orch[r]>>_orch

\* Tokio polls ready tasks; every await inside is bounded by a timeout.
Spec == /\ Init /\ [][Next]_vars
        /\ \A r \in Requests : WF_vars(HandlerStep(r)) /\ TaskFairness(r)
        /\ WF_vars(ReleaseSlot)

----------------------------------------------------------------------------
(* Properties                                                              *)
(***************************************************************************)
Owing == {r \in Requests : req[r].paid \in {window, -window}}

\* The counter in Redis is what the requests of this window have paid and not got
\* back, less the refunds that came after the window of their charge had closed:
\* every early return of assistant_chat gives back exactly what it took.
QuotaExact == quota.n = Cardinality(Owing) - drift

\* No more answers in one window than the daily limit, plus one for each refund
\* that was booked on the wrong window (chat_assistant.rs check_and_incr_daily_limit).
WithinLimit == Cardinality({r \in Requests : req[r].paid = window /\ req[r].out = "ok"}) <= MaxTimes + drift

\* A client that got an error, or whose task reported one, has not paid for it,
\* unless Redis itself failed on the charge or the refund.
FailureIsFree == \A r \in Requests :
    AtPc(r, "ended") /\ req[r].conn /\ (req[r].out # "ok" \/ orch[r].error) => req[r].paid <= 0

\* The slot keeps the turns of one user apart: tasks whose client is still there
\* never outnumber the cap, whatever guards are still to be released.
TurnsApart == Cardinality({r \in Requests : req[r].conn /\ ~Quiet(orch[r])}) <= Cap

\* Routing never comes back to an agent it has left, even over a cyclic catalog.
NoReturn == \A r \in Requests : ~orch[r].back

\* Every request that was taken up ends, its task ends, and its slot comes back.
Settles == <>[](/\ \A r \in Requests : req[r].pc \in {"idle", "ended"} /\ Quiet(orch[r])
                /\ slots = 0)

=============================================================================
