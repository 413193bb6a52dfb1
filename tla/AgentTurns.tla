----------------------------- MODULE AgentTurns -----------------------------
(***************************************************************************)
(* Turns of the agent loop in the gateway (crates/agent/src/loop_.rs, run  *)
(* and process_inbound).  run() spawns one task per inbound message; a     *)
(* task waits for one of the permits of the concurrency gate and then runs *)
(* process_inbound.  Cron jobs call process_inbound without the gate.  All *)
(* turns share the session manager behind one async mutex                  *)
(* (crates/session/src/manager.rs) and the one MessageTool, whose context  *)
(* and `sent_in_turn` flag live behind a mutex of their own                *)
(* (crates/agent/src/tools/message.rs).                                    *)
(*                                                                         *)
(* A step of the model is one critical section of one of those mutexes.    *)
(* Text is not kept: an entry of a session is the turn that wrote it and   *)
(* its role.  A session is identified with the chat it belongs to.  No     *)
(* caller installs a command prefilter or writes a runtime checkpoint or a *)
(* pending turn to a saved session, so the first critical section of       *)
(* process_inbound only loads the session.  Heartbeat turns, whose session *)
(* is not that of a chat and is trimmed after each turn, are left out.     *)
(***************************************************************************)
EXTENDS Naturals, Sequences, SequencesExt, FiniteSets

CONSTANTS
    Turns,      \* inbound messages, each processed by its own task
    Ungated,    \* the turns started by cron jobs
    Chats,      \* (channel, chat_id)
    Origins,    \* Origins[t]: the chats the message of turn t may come from
    Permits,    \* permits of the concurrency gate (3 in the code)
    MaxSends,   \* bound: uses of the message tool, all turns together
    MaxFaults,  \* bound: failed saves
    NoChat

Entry == [turn : Turns, role : {"user", "assistant"}]

ASSUME TurnsAssumption ==
    /\ IsFiniteSet(Turns) /\ Ungated \subseteq Turns
    /\ Origins \in [Turns -> SUBSET Chats]
    /\ Permits \in Nat /\ Permits > 0
    /\ MaxSends \in Nat /\ MaxFaults \in Nat
    /\ NoChat \notin Chats

VARIABLES
    pc,         \* where each turn is
    chat,       \* the chat of a turn's message
    hist,       \* the copy of the history a turn was started with
    final,      \* whether the run produced final content
    sends,      \* message tool calls made
    target,     \* the tool's default chat when its last call read it
    mine,       \* whether this turn's tool delivered to this turn's chat
    permits,    \* permits left in the gate
    tool,       \* MessageContext: default chat and sent_in_turn
    cache,      \* SessionManager.cache (a missing session is an empty one)
    disk,       \* the session files
    out,        \* messages published: [turn, to, via]
    faults,     \* saves that have failed
    crossed     \* history: turns that used the shared tool context while another did

turnVars == <<chat, hist, final, sends, target, mine>>
storeVars == <<cache, disk, faults>>
vars == <<pc, chat, hist, final, sends, target, mine, permits, tool, cache,
          disk, out, faults, crossed>>

Init ==
    /\ pc = [t \in Turns |-> "new"]
    /\ chat = [t \in Turns |-> NoChat]
    /\ hist = [t \in Turns |-> <<>>]
    /\ final = [t \in Turns |-> FALSE]
    /\ sends = [t \in Turns |-> 0]
    /\ target = [t \in Turns |-> NoChat]
    /\ mine = [t \in Turns |-> FALSE]
    /\ permits = Permits
    /\ tool = [chat |-> NoChat, sent |-> FALSE]
    /\ cache = [c \in Chats |-> <<>>]
    /\ disk = [c \in Chats |-> <<>>]
    /\ out = {}
    /\ faults = 0
    /\ crossed = {}

\* Turns between their set_context and their reply, when places are p.
UsingTool(p) ==
    {t \in Turns : p[t] \in {"start", "history", "run", "mark", "record", "clear", "publish"}}

Moves(t, next) ==
    /\ pc' = [pc EXCEPT ![t] = next]
    /\ crossed' = IF Cardinality(UsingTool(pc')) > 1 THEN crossed \cup UsingTool(pc')
                  ELSE crossed

At(t, here, next) == pc[t] = here /\ Moves(t, next)

\* run(): consume_inbound, then spawn; a cron job's handler calls directly.
Receive(t, c) ==
    /\ At(t, "new", IF t \in Ungated THEN "load" ELSE "queued")
    /\ chat' = [chat EXCEPT ![t] = c]
    /\ UNCHANGED <<hist, final, sends, target, mine, permits, tool, storeVars, out>>

\* acquire_owned on the gate
Acquire(t) ==
    /\ permits > 0
    /\ At(t, "queued", "load")
    /\ permits' = permits - 1
    /\ UNCHANGED <<turnVars, tool, storeVars, out>>

\* The first session lock finds nothing to restore; then apply_tool_contexts:
\* MessageTool::set_context...
SetContext(t) ==
    /\ At(t, "load", "start")
    /\ tool' = [chat |-> chat[t], sent |-> tool.sent]
    /\ UNCHANGED <<turnVars, permits, storeVars, out>>

\* Broken variant: the flag of the previous turn is kept.
StartTurnNoReset(t) ==
    /\ At(t, "start", "history")
    /\ UNCHANGED <<turnVars, permits, tool, storeVars, out>>

\* ... and MessageTool::start_turn
StartTurn(t) ==
    /\ At(t, "start", "history")
    /\ tool' = [chat |-> tool.chat, sent |-> FALSE]
    /\ UNCHANGED <<turnVars, permits, storeVars, out>>

\* The history is copied under the session lock and the lock released.
CopyHistory(t) ==
    /\ At(t, "history", "run")
    /\ hist' = [hist EXCEPT ![t] = cache[chat[t]]]
    /\ UNCHANGED <<chat, final, sends, target, mine, permits, tool, storeVars, out>>

\* The model calls the message tool during runner.run, with an explicit chat
\* (d # NoChat) or with the default one; the message is published.
ToolSend(t, d) ==
    LET to == IF d = NoChat THEN tool.chat ELSE d IN
    /\ FoldFunction(LAMBDA a, b : a + b, 0, sends) < MaxSends
    /\ At(t, "run", "mark")
    /\ sends' = [sends EXCEPT ![t] = @ + 1]
    /\ target' = [target EXCEPT ![t] = IF to = tool.chat THEN to ELSE NoChat]
    /\ mine' = [mine EXCEPT ![t] = @ \/ to = chat[t]]
    /\ out' = out \cup {[turn |-> t, to |-> to,
                         via |-> IF d = NoChat THEN "default" ELSE "explicit"]}
    /\ UNCHANGED <<chat, hist, final, permits, tool, storeVars>>

\* Then, in a second critical section, a send to the default chat is recorded.
ToolMark(t) ==
    /\ At(t, "mark", "run")
    /\ tool' = [chat |-> tool.chat, sent |-> tool.sent \/ target[t] # NoChat]
    /\ target' = [target EXCEPT ![t] = NoChat]
    /\ UNCHANGED <<chat, hist, final, sends, mine, permits, storeVars, out>>

\* runner.run returns, with or without final content.
RunEnds(t, f) ==
    /\ At(t, "run", IF f THEN "record" ELSE "clear")
    /\ final' = [final EXCEPT ![t] = f]
    /\ UNCHANGED <<chat, hist, sends, target, mine, permits, tool, storeVars, out>>

\* Broken variant: the cache is updated before the file is written.
SaveCacheFirst(c, s) ==
    \/ cache' = [cache EXCEPT ![c] = s] /\ disk' = [disk EXCEPT ![c] = s] /\ UNCHANGED faults
    \/ cache' = [cache EXCEPT ![c] = s] /\ faults < MaxFaults /\ faults' = faults + 1 /\ UNCHANGED disk

\* SessionManager::save writes a temporary file, renames it and then updates the
\* cache; an error on the way is only logged by process_inbound.
Save(c, s) ==
    \/ cache' = [cache EXCEPT ![c] = s] /\ disk' = [disk EXCEPT ![c] = s] /\ UNCHANGED faults
    \/ faults < MaxFaults /\ faults' = faults + 1 /\ UNCHANGED <<cache, disk>>

Exchange(t) == <<[turn |-> t, role |-> "user"], [turn |-> t, role |-> "assistant"]>>

\* Broken variant: the exchange is added to the copy taken before the run.
RecordStale(t) ==
    /\ At(t, "record", "clear")
    /\ Save(chat[t], hist[t] \o Exchange(t))
    /\ UNCHANGED <<turnVars, permits, tool, out>>

\* Broken variant: the user's message is recorded and the answer only later.
RecordUserOnly(t) ==
    /\ At(t, "record", "clear")
    /\ Save(chat[t], Append(cache[chat[t]], [turn |-> t, role |-> "user"]))
    /\ UNCHANGED <<turnVars, permits, tool, out>>

\* A run with final content adds the exchange to the session as it is now.
Record(t) ==
    /\ At(t, "record", "clear")
    /\ Save(chat[t], cache[chat[t]] \o Exchange(t))
    /\ UNCHANGED <<turnVars, permits, tool, out>>

\* Checkpoint and pending turn are cleared and the session saved again; the copy of
\* the history is not used any more.
ClearCheckpoint(t) ==
    /\ At(t, "clear", "publish")
    /\ Save(chat[t], cache[chat[t]])
    /\ hist' = [hist EXCEPT ![t] = <<>>]
    /\ UNCHANGED <<chat, final, sends, target, mine, permits, tool, out>>

Release(t) == permits' = IF t \in Ungated THEN permits ELSE permits + 1

\* The final text is published unless sent_in_turn() is set; the task ends and
\* its permit is dropped.
PublishReply(t) ==
    /\ At(t, "publish", "done")
    /\ out' = IF final[t] /\ ~tool.sent
              THEN out \cup {[turn |-> t, to |-> chat[t], via |-> "final"]} ELSE out
    /\ Release(t)
    /\ UNCHANGED <<turnVars, tool, storeVars>>

\* Broken variant: an aborted task keeps its permit.
CancelKeepsPermit(t) ==
    /\ t \notin Ungated /\ pc[t] \in {"queued", "load", "history", "run", "record", "clear"}
    /\ Moves(t, "cancelled")
    /\ UNCHANGED <<turnVars, permits, tool, storeVars, out>>

\* cancel_active_tasks aborts a spawned task at an await.
Cancel(t) ==
    /\ t \notin Ungated /\ pc[t] \in {"queued", "load", "history", "run", "record", "clear"}
    /\ Moves(t, "cancelled")
    /\ permits' = IF pc[t] = "queued" THEN permits ELSE permits + 1
    /\ hist' = [hist EXCEPT ![t] = <<>>]
    /\ UNCHANGED <<chat, final, sends, target, mine, tool, storeVars, out>>

Progress(t) ==
    \/ Acquire(t) \/ SetContext(t) \/ StartTurn(t) \/ CopyHistory(t)
    \/ ToolMark(t) \/ \E f \in BOOLEAN : RunEnds(t, f)
    \/ Record(t) \/ ClearCheckpoint(t) \/ PublishReply(t)

Next ==
    \E t \in Turns :
        \/ \E c \in Origins[t] : Receive(t, c)
        \/ \E d \in Chats \cup {NoChat} : ToolSend(t, d)
        \/ Progress(t)
        \/ Cancel(t)

Spec == Init /\ [][Next]_vars

\* A spawned task is polled and a run ends (the runner bounds its iterations).
FairSpec == Spec /\ \A t \in Turns : WF_vars(Progress(t))

-----------------------------------------------------------------------------
(* Properties *)

Stages == {"new", "queued", "load", "start", "history", "run", "mark",
           "record", "clear", "publish", "done", "cancelled"}

TypeOK ==
    /\ pc \in [Turns -> Stages]
    /\ chat \in [Turns -> Chats \cup {NoChat}]
    /\ hist \in [Turns -> Seq(Entry)]
    /\ final \in [Turns -> BOOLEAN]
    /\ sends \in [Turns -> 0..MaxSends]
    /\ target \in [Turns -> Chats \cup {NoChat}]
    /\ mine \in [Turns -> BOOLEAN]
    /\ permits \in 0..Permits
    /\ tool \in [chat : Chats \cup {NoChat}, sent : BOOLEAN]
    /\ cache \in [Chats -> Seq(Entry)] /\ disk \in [Chats -> Seq(Entry)]
    /\ out \subseteq [turn : Turns, to : Chats, via : {"default", "explicit", "final"}]
    /\ faults \in 0..MaxFaults
    /\ crossed \subseteq Turns

\* A session is a list of whole exchanges, one per turn that answered: concurrent
\* turns of one chat neither split an exchange nor write it twice (Record and
\* ClearCheckpoint take the session lock once each and re-read the session).
ExchangesWhole ==
    \A c \in Chats :
        /\ Len(disk[c]) % 2 = 0
        /\ \A i \in DOMAIN disk[c] :
              i % 2 = 1 => SubSeq(disk[c], i, i + 1) = Exchange(disk[c][i].turn)
        /\ \A i, j \in DOMAIN disk[c] : disk[c][i] = disk[c][j] => i = j

\* The cache never runs ahead of the files: what later turns read as history is
\* what a restart would load, save errors included (SessionManager::save).
CacheIsDurable == cache = disk

\* No turn overwrites what another turn recorded while its model call was running
\* without the lock: session files only grow (process_inbound's re-read under the
\* lock; no command that clears a session reaches this loop).
HistoryOnlyGrows == [][\A c \in Chats : IsPrefix(disk[c], disk'[c])]_vars

\* Every message taken off the bus is processed to the end or aborted, also when
\* more messages arrive than the gate has permits.
EveryTurnEnds ==
    <>[](\A t \in Turns : pc[t] \in {"new", "done", "cancelled"})

\* "only if the `message` tool hasn't already delivered something during this
\* turn" (process_inbound): a turn whose use of the tool's context no other turn
\* crossed publishes its final content exactly when its own use of the tool did
\* not reach its chat, and sends without a target go to its own chat.  Other turns
\* may run before, after or beside it, waiting for the gate or being aborted.
RepliesWhenAlone ==
    \A t \in Turns \ crossed :
        /\ pc[t] = "done" /\ final[t] =>
              ([turn |-> t, to |-> chat[t], via |-> "final"] \in out <=> ~mine[t])
        /\ \A m \in out : m.turn = t /\ m.via = "default" => m.to = chat[t]

=============================================================================
