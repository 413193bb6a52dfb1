---------------------------- MODULE AgentRunner ----------------------------
(***************************************************************************)
(* The tool-using model loop of crates/agent/src/runner.rs: one run of     *)
(* AgentRunner::run on a transcript, from the initial messages to the      *)
(* AgentRunResult.  Every request to the model is the transcript passed    *)
(* through the context governance pipeline (drop orphans, backfill,        *)
(* microcompact, result budget, snip, and the first two again); tools are  *)
(* executed one after the other and their results are appended together.   *)
(*                                                                         *)
(* The initial transcripts are what a session file can hold: a line that   *)
(* does not parse is skipped on load, so any subsequence of a well-formed  *)
(* conversation may come before the new user message.                      *)
(*                                                                         *)
(* Left out, because no caller in the repository switches them on: message *)
(* injection, checkpoint and progress callbacks, streaming to a hook and   *)
(* concurrent tool batches.  Message text is abstracted to its length in    *)
(* characters.                                                             *)
(***************************************************************************)
EXTENDS Integers, Sequences, SequencesExt, FiniteSetsExt

CONSTANTS
    Conversation,     \* a well-formed stored conversation (sequence of messages)
    MaxIterations,    \* spec.max_iterations
    Budgets,          \* budgets of snip_history: context window less reserves, saturating
    SnipFloor,        \* tokens a snipped request may always hold: 128
    Media,            \* characters of the parts of a user message that are not text
    MaxResult,        \* spec.max_tool_result_chars
    KeepRecent,       \* MICROCOMPACT_KEEP_RECENT
    MaxLookups,       \* MAX_REPEAT_EXTERNAL_LOOKUPS
    MaxEmpty,         \* MAX_EMPTY_RETRIES
    MaxLength,        \* MAX_LENGTH_RECOVERIES
    Tools,            \* names of tools, registered now or when the history was stored
    Menus,            \* the lists of tools one response may call
    ResultSizes       \* lengths of raw tool results

VARIABLES
    caller,           \* the AgentRunSpec: who built it, and the budget of its requests
    initial,          \* spec.initial_messages
    messages,         \* the transcript of the run
    iteration,        \* iterations begun
    phase,            \* "ask" | "model" | "tools" | "finalize" | "done"
    request,          \* the messages of the last request to the model
    pending,          \* tool calls of the current response still to execute
    results,          \* result messages of the calls executed so far
    lookups,          \* external_lookup_counts, one lookup signature
    emptyRetries,     \* empty_retries
    lengthRecoveries, \* length_recoveries
    events,           \* tool_events, as the sequence of their statuses
    result            \* [stop, events] of AgentRunResult, or NoResult

vars == <<caller, initial, messages, iteration, phase, request, pending, results,
          lookups, emptyRetries, lengthRecoveries, events, result>>

\* AgentLoop and Dream give a workspace (oversized results go to a file), only
\* AgentLoop a context window (requests are snipped), only a subagent asks
\* that a failing tool ends its run.
Callers ==
    [who : {"loop"}, budget : Budgets] \cup [who : {"subagent", "dream"}, budget : {0}]
HasWorkspace == caller.who \in {"loop", "dream"}
HasWindow == caller.who = "loop"
FailOnToolError == caller.who = "subagent"
Budget == caller.budget

-----------------------------------------------------------------------------
(* Messages.  calls is non-empty only for an assistant message that asks   *)
(* for tools, id is the tool_call_id of a tool message (0 otherwise).      *)

Compactable == {"web_search"}     \* COMPACTABLE_TOOLS
LookupTools == {"web_search"}     \* tools with an external_lookup_signature

System == [role |-> "system", calls |-> <<>>, id |-> 0, name |-> "", size |-> 1]
User == [role |-> "user", calls |-> <<>>, id |-> 0, name |-> "", size |-> 1]
Plain == [role |-> "assistant", calls |-> <<>>, id |-> 0, name |-> "", size |-> 1]
Asking(calls) == [role |-> "assistant", calls |-> calls, id |-> 0, name |-> "", size |-> 1]
ToolMessage(call, n) ==
    [role |-> "tool", calls |-> <<>>, id |-> call.id, name |-> call.tool, size |-> n]

Ids(calls) == {calls[k].id : k \in DOMAIN calls}
\* Characters are estimated as tokens, four to one, and a message costs four more.
CharTokens(n) == (n + 3) \div 4
\* estimate_message_tokens, the sum over s: every part of a message counts.
MessageTokens(m) == CharTokens(m.size + IF m.role = "user" THEN Media ELSE 0) + 4
Tokens(s) ==
    LET upto[i \in 0..Len(s)] == IF i = 0 THEN 0 ELSE upto[i - 1] + MessageTokens(s[i])
    IN  upto[Len(s)]
\* estimate_prompt_tokens: the texts joined by newlines; parts that are not text do not count.
PromptTokens(s) ==
    LET chars[i \in 0..Len(s)] == IF i = 0 THEN 0 ELSE chars[i - 1] + s[i].size
    IN  CharTokens(chars[Len(s)] + Len(s) - 1) + 4 * Len(s)
From(s, i) == SubSeq(s, i, Len(s))
\* The members of s at the positions in S, in their order.
KeepAt(s, S) ==
    LET upto[i \in 0..Len(s)] ==
            IF i = 0 THEN <<>> ELSE IF i \in S THEN Append(upto[i - 1], s[i]) ELSE upto[i - 1]
    IN  upto[Len(s)]
\* s with the sequence more[i] behind its i-th member.
InsertBehind(s, more) ==
    LET upto[i \in 0..Len(s)] ==
            IF i = 0 THEN <<>> ELSE Append(upto[i - 1], s[i]) \o more[i]
    IN  upto[Len(s)]

\* A reference to a persisted result and the one-line summary of an old one.
ReferenceSize == 1
SummarySize == 1
BackfillSize == 1

Call == [id : Nat \ {0}, tool : Tools]
Message ==
    [role : {"system", "user", "assistant", "tool"}, calls : Seq(Call), id : Nat,
     name : Tools \cup {""}, size : Nat]

\* Only an assistant calls tools, no two responses use the same call id, and a result whose
\* call is there stands in the block of results right behind it.
Threaded(s) ==
    /\ \A i \in DOMAIN s : s[i].role # "assistant" => s[i].calls = <<>>
    /\ \A i, j \in DOMAIN s : i # j => Ids(s[i].calls) \cap Ids(s[j].calls) = {}
    /\ \A i, j \in DOMAIN s : s[i].role = "tool" /\ s[i].id \in Ids(s[j].calls) =>
          j < i /\ \A k \in (j + 1)..i : s[k].role = "tool"

RunnerConstants ==
    /\ Conversation \in Seq(Message) /\ Threaded(Conversation)
    /\ \A i \in DOMAIN Conversation : Conversation[i].role # "system"
    /\ MaxIterations \in Nat
    /\ Budgets \subseteq Nat /\ SnipFloor \in Nat /\ Media \in Nat /\ MaxResult \in Nat /\ KeepRecent \in Nat
    /\ MaxLookups \in Nat /\ MaxEmpty \in Nat /\ MaxLength \in Nat
    /\ Menus \subseteq Seq(Tools) /\ Menus # {} /\ IsFiniteSet(Menus)
    /\ ResultSizes \subseteq Nat \ {0}
ASSUME RunnerAssumption == RunnerConstants

-----------------------------------------------------------------------------
(* Context governance.                                                     *)

DeclaredBefore(s, i) == UNION {Ids(s[j].calls) : j \in 1..(i - 1)}

DropOrphanToolResults(s) ==
    KeepAt(s, {i \in DOMAIN s : s[i].role = "tool" => s[i].id \in DeclaredBefore(s, i)})

Fulfilled(s) == {s[i].id : i \in {j \in DOMAIN s : s[j].role = "tool"}}
MissingCalls(s, j) ==
    LET calls == s[j].calls IN KeepAt(calls, {k \in DOMAIN calls : calls[k].id \notin Fulfilled(s)})
Backfilled(calls) == [k \in DOMAIN calls |-> ToolMessage(calls[k], BackfillSize)]

\* The message that opens the block of tool results position i is in.
BlockOwner(s, i) ==
    LET openers == {j \in 1..i : s[j].role # "tool"}
    IN  IF openers = {} THEN i ELSE Max(openers)
EndsBlock(s, i) == i = Len(s) \/ s[i + 1].role # "tool"

\* Broken variant: results inserted right behind the call, before the ones that exist.
BackfillBehindCall(s) ==
    InsertBehind(s, [i \in DOMAIN s |->
        IF EndsBlock(s, i) THEN Backfilled(MissingCalls(s, i)) ELSE <<>>])

BackfillMissing(s) ==
    InsertBehind(s, [i \in DOMAIN s |->
        IF EndsBlock(s, i) THEN Backfilled(MissingCalls(s, BlockOwner(s, i))) ELSE <<>>])

Microcompact(s) ==
    LET compactable == {i \in DOMAIN s : s[i].role = "tool" /\ s[i].name \in Compactable}
        Stale(i) == Cardinality({j \in compactable : j >= i}) > KeepRecent
    IN  [i \in DOMAIN s |->
            IF i \in compactable /\ Stale(i) THEN [s[i] EXCEPT !.size = SummarySize] ELSE s[i]]

Normalize(n) == IF HasWorkspace /\ n > MaxResult THEN ReferenceSize ELSE n
ApplyResultBudget(s) ==
    [i \in DOMAIN s |->
        IF s[i].role = "tool" THEN [s[i] EXCEPT !.size = Normalize(@)] ELSE s[i]]

\* Index of the first message of the longest suffix whose results are declared.
FindLegalStart(s) ==
    LET DeclaredIn(from, i) == UNION {Ids(s[j].calls) : j \in from..(i - 1)}
        start[i \in 0..Len(s)] ==
            IF i = 0 THEN 1
            ELSE LET before == start[i - 1]
                 IN  IF s[i].role = "tool" /\ s[i].id \notin DeclaredIn(before, i)
                     THEN i + 1 ELSE before
    IN  start[Len(s)]

Users(s) == {i \in DOMAIN s : s[i].role = "user"}

\* The tail that fits, moved to a user message: forward inside the tail, or
\* back to the nearest one before it even when that exceeds the budget.
FittingTail(s, room) ==
    LET fits == {i \in DOMAIN s : Tokens(From(s, i)) <= room}
    IN  IF fits = {} THEN Len(s) ELSE Min(fits)
\* Broken variant: the tail is kept as it is when it holds no user message.
TailAsItIs(s, i) ==
    LET inside == {j \in Users(s) : j >= i} IN IF inside # {} THEN Min(inside) ELSE i
TailFromUser(s, i) ==
    LET inside == {j \in Users(s) : j >= i}
    IN  IF inside # {} THEN Min(inside) ELSE IF Users(s) # {} THEN Max(Users(s)) ELSE i

\* The tokens a snipped request may hold, and what a system prompt leaves of them.
SnipLimit == IF Budget > SnipFloor THEN Budget ELSE SnipFloor
Room(system) == IF Tokens(system) < SnipLimit THEN SnipLimit - Tokens(system) ELSE 0

SnipHistory(s) ==
    LET system == KeepAt(s, {i \in DOMAIN s : s[i].role = "system"})
        rest == KeepAt(s, {i \in DOMAIN s : s[i].role # "system"})
        kept == From(rest, TailFromUser(rest, FittingTail(rest, Room(system))))
        legal == From(kept, FindLegalStart(kept))
        lastFour == From(rest, Max({1, Len(rest) - 3}))
    IN  IF ~HasWindow \/ Budget = 0 \/ PromptTokens(s) <= Budget \/ rest = <<>> THEN s
        ELSE system \o IF legal # <<>> THEN legal ELSE From(lastFour, FindLegalStart(lastFour))

Govern(s) ==
    LET matched == BackfillMissing(DropOrphanToolResults(s))
        snipped == SnipHistory(ApplyResultBudget(Microcompact(matched)))
    IN  BackfillMissing(DropOrphanToolResults(snipped))

-----------------------------------------------------------------------------
(* The run.                                                                *)

NoResult == [stop |-> "none", events |-> <<>>]
StopReasons == {"completed", "tool_error", "error", "empty_final_response", "max_iterations"}

\* Lines of the session file that do not parse are skipped.
Histories == {KeepAt(Conversation, S) : S \in SUBSET DOMAIN Conversation}

Init ==
    /\ caller \in Callers
    /\ initial \in {<<System>> \o h \o <<User>> :
                       h \in IF caller.who = "loop" THEN Histories ELSE {<<>>}}
    /\ messages = initial
    /\ iteration = 0
    /\ phase = "ask"
    /\ request = <<>> /\ pending = <<>> /\ results = <<>> /\ events = <<>>
    /\ lookups = 0 /\ emptyRetries = 0 /\ lengthRecoveries = 0
    /\ result = NoResult

End(stop, reported) ==
    /\ phase' = "done"
    /\ result' = [stop |-> stop, events |-> reported]

Counters == <<lookups, emptyRetries, lengthRecoveries>>
ToolState == <<pending, results, events>>

\* One iteration begins: the governed transcript goes to the model.
Ask ==
    /\ phase = "ask" /\ iteration < MaxIterations
    /\ iteration' = iteration + 1
    /\ request' = Govern(messages)
    /\ phase' = "model"
    /\ UNCHANGED <<caller, initial, messages, ToolState, Counters, result>>

\* Broken variant: the bound is reached without the closing message.
MaxIterationsSilent ==
    /\ phase = "ask" /\ iteration = MaxIterations
    /\ End("max_iterations", events)
    /\ UNCHANGED <<caller, initial, messages, iteration, request, ToolState, Counters>>

MaxIterationsReached ==
    /\ phase = "ask" /\ iteration = MaxIterations
    /\ messages' = Append(messages, Plain)
    /\ End("max_iterations", events)
    /\ UNCHANGED <<caller, initial, iteration, request, ToolState, Counters>>

\* What the provider may answer; a timed-out request is an "error" response.
Finishes == {"stop", "tool_calls", "length", "content_filter", "error"}
NextId == 1 + Max({0} \cup (UNION {Ids(messages[i].calls) : i \in DOMAIN messages})
                      \cup {messages[i].id : i \in DOMAIN messages})
CallLists ==
    {[k \in DOMAIN names |-> [id |-> NextId + k - 1, tool |-> names[k]]] :
        names \in Menus}
Responses == [calls : CallLists, finish : Finishes, blank : BOOLEAN]
ShouldExecuteTools(r) == r.calls # <<>> /\ r.finish \in {"stop", "tool_calls"}

\* Blank answers are retried, then a last request is made without tools.
IsEmpty(r) == r.finish # "error" /\ r.blank
RecoversLength(r) == r.finish = "length" /\ lengthRecoveries < MaxLength

RespondTools(r) ==
    /\ phase = "model" /\ ShouldExecuteTools(r)
    /\ messages' = Append(messages, Asking(r.calls))
    /\ pending' = r.calls
    /\ results' = <<>>
    /\ phase' = "tools"
    /\ UNCHANGED <<caller, initial, iteration, request, events, Counters, result>>

\* Broken variant: an empty answer is retried inside the same iteration.
RespondEmptyAgain(r) ==
    /\ phase = "model" /\ ~ShouldExecuteTools(r) /\ IsEmpty(r)
    /\ emptyRetries' = emptyRetries + 1
    /\ emptyRetries' < MaxEmpty
    /\ UNCHANGED <<caller, initial, messages, iteration, phase, request, ToolState, lookups,
                   lengthRecoveries, result>>

RespondEmpty(r) ==
    /\ phase = "model" /\ ~ShouldExecuteTools(r) /\ IsEmpty(r)
    /\ emptyRetries' = emptyRetries + 1
    /\ IF emptyRetries' < MaxEmpty
       THEN phase' = "ask" /\ UNCHANGED request
       ELSE phase' = "finalize" /\ request' = Append(messages, User)
    /\ UNCHANGED <<caller, initial, messages, iteration, ToolState, lookups, lengthRecoveries, result>>

RespondTruncated(r) ==
    /\ phase = "model" /\ ~ShouldExecuteTools(r) /\ ~IsEmpty(r) /\ RecoversLength(r)
    /\ lengthRecoveries' = lengthRecoveries + 1
    /\ messages' = messages \o <<Plain, User>>
    /\ phase' = "ask"
    /\ UNCHANGED <<caller, initial, iteration, request, ToolState, lookups, emptyRetries, result>>

\* handle_final_content: the run ends; it reports no tool event on this path.
EndsPlain(s) == s[Len(s)].role = "assistant" /\ s[Len(s)].calls = <<>>
HandleFinal(r) ==
    /\ messages' = IF r.finish = "error" /\ EndsPlain(messages)
                   THEN messages ELSE Append(messages, Plain)
    /\ End(IF r.finish = "error" THEN "error"
           ELSE IF r.blank THEN "empty_final_response" ELSE "completed", <<>>)
    /\ UNCHANGED <<caller, initial, iteration, request, ToolState, Counters>>

RespondFinal(r) ==
    /\ phase = "model" /\ ~ShouldExecuteTools(r) /\ ~IsEmpty(r)
    /\ r.finish = "length" => lengthRecoveries >= MaxLength
    /\ HandleFinal(r)

RespondFinalization(r) ==
    /\ phase = "finalize"
    /\ HandleFinal(r)

\* execute_single_tool: a lookup over its budget is refused without running.
ExecuteTool ==
    /\ phase = "tools" /\ pending # <<>>
    /\ LET call == Head(pending)
           isLookup == call.tool \in LookupTools
           refused == isLookup /\ lookups >= MaxLookups
           Finish(status, n) ==
               /\ results' = Append(results, ToolMessage(call, n))
               /\ events' = Append(events, [tool |-> call.tool, status |-> status])
       IN  /\ lookups' = IF isLookup THEN lookups + 1 ELSE lookups
           /\ \/ refused /\ Finish("refused", 1) /\ pending' = Tail(pending)
              \/ ~refused /\ (\E n \in ResultSizes : Finish("ok", n)) /\ pending' = Tail(pending)
              \/ ~refused /\ Finish("violation", 1) /\ pending' = Tail(pending)
              \/ /\ ~refused /\ Finish("error", 1)
                 /\ pending' = IF FailOnToolError THEN <<>> ELSE Tail(pending)
    /\ UNCHANGED <<caller, initial, messages, iteration, phase, request, emptyRetries,
                   lengthRecoveries, result>>

\* A failing tool ends the batch; later calls of the response get no result.
Fatal == FailOnToolError /\ events # <<>> /\ events[Len(events)].status = "error"

ToolsDone ==
    /\ phase = "tools" /\ pending = <<>>
    /\ LET normalized == [k \in DOMAIN results |-> [results[k] EXCEPT !.size = Normalize(@)]]
       IN  messages' = messages \o normalized \o IF Fatal THEN <<Plain>> ELSE <<>>
    /\ IF Fatal
       THEN End("tool_error", events) /\ UNCHANGED <<emptyRetries, lengthRecoveries>>
       ELSE phase' = "ask" /\ emptyRetries' = 0 /\ lengthRecoveries' = 0 /\ UNCHANGED result
    /\ results' = <<>>
    /\ UNCHANGED <<caller, initial, iteration, request, pending, events, lookups>>

Respond ==
    \E r \in Responses :
        \/ RespondTools(r) \/ RespondEmpty(r) \/ RespondTruncated(r) \/ RespondFinal(r)
        \/ RespondFinalization(r)

Finished == phase = "done" /\ UNCHANGED vars

Step == Ask \/ MaxIterationsReached \/ Respond \/ ExecuteTool \/ ToolsDone
Next == Step \/ Finished
Spec == Init /\ [][Next]_vars

-----------------------------------------------------------------------------
(* Properties.                                                             *)

\* Every tool result follows its call in the block of the assistant message
\* that asked for it, and every call has a result in that block.
BlockOf(s, j) == {i \in (j + 1)..Len(s) : \A k \in (j + 1)..i : s[k].role = "tool"}
Legal(s) ==
    \A j \in DOMAIN s :
        /\ s[j].role # "tool" => Ids(s[j].calls) = {s[i].id : i \in BlockOf(s, j)}
        /\ s[j].role = "tool" => \E i \in 1..(j - 1) : s[j].id \in Ids(s[i].calls)

(* Whatever lines the session file lost, the governance pipeline hands the  *)
(* model a transcript in which calls and results match; the finalization   *)
(* retry sends the transcript as it is, so it is legal when the stored     *)
(* history was.                                                            *)
RequestsLegal ==
    /\ phase = "model" => Legal(request)
    /\ phase = "finalize" /\ Legal(initial) => Legal(request)

Shape(s) == [i \in DOMAIN s |-> <<s[i].role, s[i].id, s[i].calls>>]

(* Snipping drops the past only: every message since the newest user       *)
(* message reaches the model.  With a budget, a request is within it by    *)
(* the prompt estimate, or it was cut to the larger of the budget and the  *)
(* floor by the message estimates, or it is the system prompt and the      *)
(* newest exchange alone.                                                  *)
RequestKeepsTurn ==
    phase = "model" =>
        LET turn == From(messages, Max(Users(messages)))
            tail == From(request, Len(request) - Len(turn) + 1)
        IN  /\ Len(request) >= Len(turn)
            /\ Shape(tail) = Shape(turn)
            /\ HasWindow /\ Budget # 0 =>
                  \/ PromptTokens(request) <= Budget
                  \/ Tokens(request) <= SnipLimit
                  \/ request = <<System>> \o tail

(* A run only appends to the transcript it was given, leaves it ending in  *)
(* an assistant message without calls, leaves a call of its own            *)
(* unanswered only when a failing tool ended the run, and never executes   *)
(* the same external lookup more than its budget allows.                   *)
TranscriptSound ==
    phase = "done" =>
        /\ IsPrefix(initial, messages)
        /\ EndsPlain(messages)
        /\ result.stop \in StopReasons
        /\ Legal(From(messages, Len(initial))) \/ result.stop = "tool_error"
        /\ Cardinality({k \in DOMAIN events : events[k].tool \in LookupTools
                            /\ events[k].status # "refused"}) <= MaxLookups

MostCalls == Max({Len(names) : names \in Menus})
Distance ==
    LET left == (MaxIterations - iteration) * (MostCalls + 3)
    IN  CASE phase = "done" -> 0
          [] phase = "ask" -> 1 + left
          [] phase = "tools" -> 2 + left + Len(pending)
          [] phase = "finalize" -> 1 + left
          [] phase = "model" -> 3 + left + MostCalls

(* Every run ends: empty answers, truncated answers, refused and failed    *)
(* tools and the finalization retry all bring it closer to its end, so a   *)
(* model that never gives a final answer is asked MaxIterations times.     *)
RunEnds == [][Distance' < Distance]_vars
=============================================================================
