------------------------------ MODULE ApiTurns ------------------------------
(***************************************************************************)
(* Turns of the HTTP API server: AgentLoopApi::generate                    *)
(* (crates/cli/src/adapter.rs) takes a one-permit semaphore per session    *)
(* and runs the turn state machine process_message                         *)
(* (crates/agent/src/loop_.rs): RESTORE, COMPACT, COMMAND, BUILD, RUN,     *)
(* SAVE, RESPOND.  Turns of different sessions run concurrently and share  *)
(* the session manager's mutex and the message tool.                       *)
(*                                                                         *)
(* A request is one call of generate; the second one that                  *)
(* non_stream_response (crates/api/src/server.rs) makes after a blank      *)
(* answer is another request, and the server's own lock per session, which *)
(* only orders calls the semaphore orders too, is left out.                *)
(*                                                                         *)
(* A message is the turn that caused it and its role; the request of a     *)
(* turn may have no text and no media.  A session file may come from an    *)
(* earlier version (migrate_legacy) that was interrupted after it stored   *)
(* the user's message and the pending marker.                              *)
(***************************************************************************)
EXTENDS Naturals, Sequences, SequencesExt, FiniteSets

CONSTANTS
    Requests,   \* API requests
    Sessions,   \* session keys
    MaxNew,     \* bound: messages a run appends
    MaxFailures,  \* bound: failed saves
    Legacy, NoSession, NoOne

ApiConstants ==
    /\ MaxNew \in Nat /\ MaxFailures \in Nat
    /\ Legacy \notin Requests /\ NoSession \notin Sessions /\ NoOne \notin Requests
ASSUME ApiAssumption == ApiConstants

Roles == {"user", "assistant", "tool"}

Msg == [turn : Requests \cup {Legacy}, role : Roles, text : BOOLEAN]

Session == [msgs : Seq(Msg), pending : BOOLEAN]

VARIABLES
    state,      \* TurnState of each turn, "new" and "wait" before it starts
    sess,       \* the session of a turn
    text,       \* whether the request has text or media
    history,    \* ctx.history
    early,      \* ctx.user_persisted_early
    all,        \* ctx.all_messages without the system prompt
    permit,     \* per session: the turn that holds its semaphore, or NoOne
    sent,       \* MessageTool's sent_in_turn
    sessions,   \* SessionManager.cache
    files,      \* the session files
    answer,     \* what generate returned: "none", "text", "empty", "error"
    failures    \* saves that have failed

contextVars == <<sess, text, history, early, all>>
apiVars ==
    <<state, sess, text, history, early, all, permit, sent, sessions, files, answer, failures>>

\* The messages of s that are in S, in their order.
Only(s, S) ==
    LET upto[i \in 0 .. Len(s)] ==
            IF i = 0 THEN <<>>
            ELSE IF s[i] \in S THEN Append(upto[i - 1], s[i]) ELSE upto[i - 1]
    IN  upto[Len(s)]

User(t, x) == [turn |-> t, role |-> "user", text |-> x]
Assistant(t) == [turn |-> t, role |-> "assistant", text |-> TRUE]

EmptySession == [msgs |-> <<>>, pending |-> FALSE]
Interrupted == [msgs |-> <<User(Legacy, TRUE)>>, pending |-> TRUE]

ApiInit ==
    /\ state = [t \in Requests |-> "new"]
    /\ sess = [t \in Requests |-> NoSession]
    /\ text = [t \in Requests |-> FALSE]
    /\ history = [t \in Requests |-> <<>>]
    /\ early = [t \in Requests |-> FALSE]
    /\ all = [t \in Requests |-> <<>>]
    /\ permit = [s \in Sessions |-> NoOne]
    /\ sent = FALSE
    /\ files \in [Sessions -> {EmptySession, Interrupted}]
    /\ sessions = files
    /\ answer = [t \in Requests |-> "none"]
    /\ failures = 0

InState(t, here, next) == state[t] = here /\ state' = [state EXCEPT ![t] = next]

\* A request arrives for session s.
Request(t, s, x) ==
    /\ InState(t, "new", "wait")
    /\ sess' = [sess EXCEPT ![t] = s] /\ text' = [text EXCEPT ![t] = x]
    /\ UNCHANGED <<history, early, all, permit, sent, sessions, files, answer, failures>>

\* Broken variant: requests of one session are not serialised.
AcquireUnchecked(t) ==
    /\ InState(t, "wait", "restore")
    /\ permit' = [permit EXCEPT ![sess[t]] = t]
    /\ UNCHANGED <<contextVars, sent, sessions, files, answer, failures>>

\* acquire_session, then the semaphore's permit
AcquireSession(t) ==
    /\ InState(t, "wait", "restore")
    /\ permit[sess[t]] = NoOne
    /\ permit' = [permit EXCEPT ![sess[t]] = t]
    /\ UNCHANGED <<contextVars, sent, sessions, files, answer, failures>>

\* The turn ends with `a`; its permit is dropped.
Ends(t, a) ==
    /\ state' = [state EXCEPT ![t] = "done"]
    /\ answer' = [answer EXCEPT ![t] = a]
    /\ permit' = [permit EXCEPT ![sess[t]] = NoOne]

\* SessionManager::save; an error ends the turn.
SaveThen(t, s, next) ==
    \/ /\ state' = [state EXCEPT ![t] = next]
       /\ sessions' = [sessions EXCEPT ![sess[t]] = s] /\ files' = [files EXCEPT ![sess[t]] = s]
       /\ UNCHANGED <<permit, answer, failures>>
    \/ /\ failures < MaxFailures /\ failures' = failures + 1
       /\ Ends(t, "error")
       /\ UNCHANGED <<sessions, files>>

\* restore_pending_user_turn
Restored(s) ==
    [msgs |-> IF s.msgs # <<>> /\ Last(s.msgs).role = "user"
              THEN Append(s.msgs, Assistant(Legacy)) ELSE s.msgs,
     pending |-> FALSE]

\* state_restore; state_compact and state_command that follow change nothing here.
StateRestore(t) ==
    LET s == sessions[sess[t]] IN
    /\ state[t] = "restore"
    /\ IF s.pending
       THEN SaveThen(t, Restored(s), "build")
       ELSE /\ state' = [state EXCEPT ![t] = "build"]
            /\ UNCHANGED <<sessions, files, permit, answer, failures>>
    /\ UNCHANGED <<contextVars, sent>>

\* state_build: start_turn and the history copy.  persist_user_message_early
\* works on a clone that is dropped, so of it only its answer remains.
StateBuild(t) ==
    /\ InState(t, "build", "run")
    /\ sent' = FALSE
    /\ history' = [history EXCEPT ![t] = sessions[sess[t]].msgs]
    /\ early' = [early EXCEPT ![t] = text[t]]
    /\ UNCHANGED <<sess, text, all, permit, sessions, files, answer, failures>>

\* build_messages: a user message after a user message is merged into it.
InitialMessages(t) ==
    IF history[t] # <<>> /\ Last(history[t]).role = "user" THEN history[t]
    ELSE Append(history[t], User(t, text[t]))

\* The message tool sends to the default chat.
MessageToolSend(t) ==
    /\ state[t] = "run" /\ ~sent
    /\ sent' = TRUE
    /\ UNCHANGED <<state, contextVars, permit, sessions, files, answer, failures>>

\* What a run adds: rounds of a tool call and its result, then the answer, cut
\* short anywhere.
RunOutputs(t) ==
    {[i \in 1..k |-> IF i % 2 = 0
                     THEN [turn |-> t, role |-> "tool", text |-> TRUE]
                     ELSE Assistant(t)] : k \in 0..MaxNew}

\* state_run
StateRun(t, new) ==
    /\ InState(t, "run", "save")
    /\ all' = [all EXCEPT ![t] = InitialMessages(t) \o new]
    /\ UNCHANGED <<sess, text, history, early, permit, sent, sessions, files, answer, failures>>

\* Broken variant: one message too many is skipped.
SaveSkipOneMore(t) == Len(history[t]) + 1 + (IF early[t] THEN 1 ELSE 0)

\* ctx.save_skip, the system prompt not counted
SaveSkip(t) == Len(history[t]) + (IF early[t] THEN 1 ELSE 0)

\* save_turn: what is after the skipped prefix, without a user message that holds
\* the runtime context only.
TurnMessages(t) ==
    Only(SubSeq(all[t], SaveSkip(t) + 1, Len(all[t])), {m \in Msg : m.role # "user" \/ m.text})

\* state_save, on the session as it is now
StateSave(t) ==
    LET s == sessions[sess[t]] IN
    /\ state[t] = "save"
    /\ SaveThen(t, [msgs |-> s.msgs \o TurnMessages(t), pending |-> FALSE], "respond")
    /\ UNCHANGED <<contextVars, sent>>

\* Broken variant: the permit is forgotten when there is nothing to answer.
StateRespondKeepsPermit(t) ==
    /\ state[t] = "respond"
    /\ IF sent
       THEN /\ state' = [state EXCEPT ![t] = "done"]
            /\ answer' = [answer EXCEPT ![t] = "empty"]
            /\ UNCHANGED permit
       ELSE Ends(t, "text")
    /\ UNCHANGED <<contextVars, sent, sessions, files, failures>>

\* state_respond: nothing is answered when the message tool has spoken.
StateRespond(t) ==
    /\ state[t] = "respond"
    /\ Ends(t, IF sent THEN "empty" ELSE "text")
    /\ UNCHANGED <<contextVars, sent, sessions, files, failures>>

\* The server drops generate when request_timeout is over, or its client has gone, at
\* one of the awaits: for the permit, for a lock or for the model.  The permit is
\* dropped with it; behind the save there is no await.
TimedOut(t) ==
    /\ \/ /\ InState(t, "wait", "done")
          /\ answer' = [answer EXCEPT ![t] = "error"]
          /\ UNCHANGED permit
       \/ state[t] \in {"restore", "build", "run", "save"} /\ Ends(t, "error")
    /\ UNCHANGED <<contextVars, sent, sessions, files, failures>>

Step(t) ==
    \/ AcquireSession(t) \/ StateRestore(t) \/ StateBuild(t)
    \/ \E new \in RunOutputs(t) : StateRun(t, new)
    \/ StateSave(t) \/ StateRespond(t)

ApiNext ==
    \E t \in Requests :
        \/ \E s \in Sessions, x \in BOOLEAN : Request(t, s, x)
        \/ MessageToolSend(t)
        \/ TimedOut(t)
        \/ Step(t)

ApiSpec == ApiInit /\ [][ApiNext]_apiVars

\* The server polls each request's future and runs end.
ApiFairSpec == ApiSpec /\ \A t \in Requests : WF_apiVars(Step(t))

-----------------------------------------------------------------------------
(* Properties *)

ApiTypeOK ==
    /\ state \in [Requests -> {"new", "wait", "restore", "build", "run", "save", "respond", "done"}]
    /\ sess \in [Requests -> Sessions \cup {NoSession}]
    /\ text \in [Requests -> BOOLEAN] /\ early \in [Requests -> BOOLEAN]
    /\ history \in [Requests -> Seq(Msg)] /\ all \in [Requests -> Seq(Msg)]
    /\ permit \in [Sessions -> Requests \cup {NoOne}]
    /\ sent \in BOOLEAN
    /\ sessions \in [Sessions -> Session] /\ files \in [Sessions -> Session]
    /\ answer \in [Requests -> {"none", "text", "empty", "error"}]
    /\ failures \in 0..MaxFailures

\* "Serialise per-session requests so we don't race on session state": the history
\* a turn was built from is still the session when it saves, so its answer is
\* appended to the conversation it answers.
NoSessionRace ==
    \A t \in Requests : state[t] \in {"run", "save"} => history[t] = sessions[sess[t]].msgs

OutputsIn(s, t) == Only(s, {m \in Msg : m.turn = t /\ m.role # "user"})

\* save_skip counts exactly what was there before the run: everything a turn's run
\* produced is in its session once the turn was saved, whole and once, for a
\* request with or without text and for a session left open by an interrupted turn.
OutputsSaved ==
    \A t \in Requests : state[t] = "respond" \/ answer[t] \in {"text", "empty"} =>
        OutputsIn(files[sess[t]].msgs, t) = OutputsIn(all[t], t)

\* Every request is answered, with text, nothing or an error, and gives its
\* session's permit back.
EveryRequestEnds == \A t \in Requests : (state[t] = "wait") ~> (state[t] = "done")

=============================================================================
