-------------------------- MODULE ChannelDispatch --------------------------
(***************************************************************************)
(* The outbound dispatcher of the channel manager                          *)
(* (crates/channels/src/manager.rs): one task takes messages off the bus,  *)
(* filters them, merges runs of stream deltas for one chat, and sends with *)
(* a bounded number of attempts.  Publishers and the dispatcher            *)
(* interleave at every message the dispatcher takes.                       *)
(*                                                                         *)
(* A message is its target (channel, chat), the set of truthy flags of its *)
(* metadata and its parts: one part, numbered by publication, when it is   *)
(* published, and one more for each message coalescing merges into it.     *)
(***************************************************************************)
EXTENDS Naturals, Sequences, SequencesExt

CONSTANTS
    Targets,        \* (channel, chat_id) pairs
    Known,          \* targets whose channel is enabled
    FlagSets,       \* metadata that publishers use
    SendProgress, SendToolHints,    \* config.channels
    SendMaxRetries, \* config.channels.send_max_retries
    MaxMsgs,        \* bound: messages published
    NoMsg

Flags == {"_stream_delta", "_stream_end", "_streamed", "_progress", "_tool_hint",
          "_retry_wait"}

Part == [id : 1..MaxMsgs, flags : SUBSET Flags]

Message == [to : Targets, flags : SUBSET Flags, parts : Seq(Part)]

ASSUME DispatchAssumption ==
    /\ Known \subseteq Targets
    /\ FlagSets \subseteq SUBSET Flags
    /\ SendProgress \in BOOLEAN /\ SendToolHints \in BOOLEAN
    /\ SendMaxRetries \in Nat /\ MaxMsgs \in Nat
    /\ NoMsg \notin Message

VARIABLES
    bus,        \* the outbound lane
    pending,    \* messages set aside by coalescing, replayed from the back
    hand,       \* the message being handled, or NoMsg
    pc,         \* "stopped" | "take" | "merge" | "send"
    attempt,    \* sends of `hand` that have failed
    sent,       \* per target: messages as the channel accepted them
    n           \* messages published

vars == <<bus, pending, hand, pc, attempt, sent, n>>

Init ==
    /\ bus = <<>> /\ pending = <<>> /\ hand = NoMsg
    /\ pc = "stopped" /\ attempt = 0 /\ n = 0
    /\ sent = [t \in Targets |-> <<>>]

\* start_all spawns the dispatcher.
StartAll ==
    /\ pc = "stopped"
    /\ pc' = "take"
    /\ UNCHANGED <<bus, pending, hand, attempt, sent, n>>

\* stop_all aborts the dispatcher at whatever await it is in.
StopAll ==
    /\ pc # "stopped"
    /\ pc' = "stopped" /\ hand' = NoMsg /\ pending' = <<>> /\ attempt' = 0
    /\ UNCHANGED <<bus, sent, n>>

\* publish_outbound by the agent, a tool, a cron job, the restart notice.
Publish(t, f) ==
    /\ n < MaxMsgs
    /\ n' = n + 1
    /\ bus' = Append(bus, [to |-> t, flags |-> f,
                           parts |-> <<[id |-> n', flags |-> f]>>])
    /\ UNCHANGED <<pending, hand, pc, attempt, sent>>

\* Messages the configuration keeps from the chat.
Filtered(m) ==
    \/ /\ "_progress" \in m.flags
       /\ IF "_tool_hint" \in m.flags THEN ~SendToolHints ELSE ~SendProgress
    \/ "_retry_wait" \in m.flags

\* A delta that does not end its stream starts a merge.
OpensMerge(m) == "_stream_delta" \in m.flags /\ "_stream_end" \notin m.flags

Handle(m) ==
    /\ hand' = IF Filtered(m) THEN NoMsg ELSE m
    /\ pc' = IF Filtered(m) THEN "take" ELSE IF OpensMerge(m) THEN "merge" ELSE "send"
    /\ UNCHANGED attempt

\* pending.pop()
TakePending ==
    /\ pc = "take" /\ pending # <<>>
    /\ Handle(Last(pending))
    /\ pending' = Front(pending)
    /\ UNCHANGED <<bus, sent, n>>

\* consume_outbound() under a 1 s timeout, which only loops.
TakeBus ==
    /\ pc = "take" /\ pending = <<>> /\ bus # <<>>
    /\ Handle(Head(bus))
    /\ bus' = Tail(bus)
    /\ UNCHANGED <<pending, sent, n>>

\* A message coalesce_stream_deltas may append to the one in hand.
Joins(m) == m.to = hand.to /\ "_stream_delta" \in m.flags /\ "_stream_end" \notin hand.flags

\* Broken variant: the end of a stream does not close the merge, and is not seen.
MergePastEnd ==
    LET m == Head(bus) IN
    /\ pc = "merge" /\ bus # <<>>
    /\ bus' = Tail(bus)
    /\ IF Joins(m)
       THEN /\ hand' = [hand EXCEPT !.parts = @ \o m.parts]
            /\ UNCHANGED <<pending, pc>>
       ELSE /\ pending' = Append(pending, m) /\ pc' = "send" /\ UNCHANGED hand
    /\ UNCHANGED <<attempt, sent, n>>

\* Broken variant: a message that does not join is set aside and the drain goes on.
MergeGoesOn ==
    LET m == Head(bus) IN
    /\ pc = "merge" /\ bus # <<>>
    /\ bus' = Tail(bus)
    /\ IF Joins(m)
       THEN /\ hand' = [hand EXCEPT !.parts = @ \o m.parts,
                                    !.flags = @ \cup (m.flags \cap {"_stream_end"})]
            /\ pc' = IF "_stream_end" \in m.flags THEN "send" ELSE "merge"
            /\ UNCHANGED pending
       ELSE /\ pending' = Append(pending, m) /\ UNCHANGED <<hand, pc>>
    /\ UNCHANGED <<attempt, sent, n>>

\* coalesce_stream_deltas takes what is ready: a delta for the same target joins,
\* the one that ends the stream closes the merge, anything else is set aside and
\* closes it as well.
Merge ==
    LET m == Head(bus) IN
    /\ pc = "merge" /\ bus # <<>>
    /\ bus' = Tail(bus)
    /\ IF Joins(m)
       THEN /\ hand' = [to |-> hand.to,
                       flags |-> hand.flags \cup (m.flags \cap {"_stream_end"}),
                       parts |-> hand.parts \o m.parts]
            /\ pc' = IF "_stream_end" \in m.flags THEN "send" ELSE "merge"
            /\ UNCHANGED pending
       ELSE /\ pending' = Append(pending, m) /\ pc' = "send" /\ UNCHANGED hand
    /\ UNCHANGED <<attempt, sent, n>>

\* The zero-length timeout of the drain expires.
MergeTimeout ==
    /\ pc = "merge"
    /\ pc' = "send"
    /\ UNCHANGED <<bus, pending, hand, attempt, sent, n>>

Done == hand' = NoMsg /\ pc' = "take" /\ attempt' = 0

\* send_once hands the message to the channel, except a final message whose text
\* was streamed already.
Delivers(m) == "_streamed" \in m.flags => m.flags \cap {"_stream_delta", "_stream_end"} # {}

\* No channel of that name, or nothing left to send.
Skip ==
    /\ pc = "send"
    /\ hand.to \notin Known \/ ~Delivers(hand)
    /\ Done
    /\ UNCHANGED <<bus, pending, sent, n>>

\* send_once succeeds
SendOk ==
    /\ pc = "send" /\ hand.to \in Known /\ Delivers(hand)
    /\ sent' = [sent EXCEPT ![hand.to] = Append(@, hand)]
    /\ Done
    /\ UNCHANGED <<bus, pending, n>>

MaxAttempts == IF SendMaxRetries > 1 THEN SendMaxRetries ELSE 1

\* Broken variant: the dispatcher retries the same message for ever.
SendFailForever ==
    /\ pc = "send" /\ hand.to \in Known /\ Delivers(hand)
    /\ attempt' = (attempt + 1) % MaxAttempts
    /\ UNCHANGED <<bus, pending, hand, pc, sent, n>>

\* send_once fails: retry after a delay, give up after the last attempt.
SendFail ==
    /\ pc = "send" /\ hand.to \in Known /\ Delivers(hand)
    /\ IF attempt = MaxAttempts - 1
       THEN Done
       ELSE attempt' = attempt + 1 /\ UNCHANGED <<hand, pc>>
    /\ UNCHANGED <<bus, pending, sent, n>>

Dispatch ==
    TakePending \/ TakeBus \/ Merge \/ MergeTimeout \/ Skip \/ SendOk \/ SendFail

Next ==
    \/ StartAll \/ StopAll
    \/ \E t \in Targets, f \in FlagSets : Publish(t, f)
    \/ Dispatch

Spec == Init /\ [][Next]_vars

\* The runtime polls the dispatcher; an attempt to send ends one way or the other.
FairSpec == Spec /\ WF_vars(Dispatch)

-----------------------------------------------------------------------------
(* Properties *)

TypeOK ==
    /\ bus \in Seq(Message) /\ pending \in Seq(Message)
    /\ hand \in Message \cup {NoMsg}
    /\ pc \in {"stopped", "take", "merge", "send"}
    /\ (hand = NoMsg) = (pc \in {"take", "stopped"})
    /\ attempt \in 0..(MaxAttempts - 1)
    /\ sent \in [Targets -> Seq(Message)]
    /\ n \in 0..MaxMsgs

\* The ids of m's parts, if m is for target t
IdsOf(t, m) == IF m.to = t THEN [i \in DOMAIN m.parts |-> m.parts[i].id] ELSE <<>>

\* The ids of all the parts for target t, in order
IdsFor(t, msgs) ==
    LET upto[i \in 0..Len(msgs)] == IF i = 0 THEN <<>> ELSE upto[i - 1] \o IdsOf(t, msgs[i])
    IN  upto[Len(msgs)]

\* Everything published and not decided yet: the message in hand, then what
\* coalescing set aside, then the bus.
Undecided == (IF hand = NoMsg THEN <<>> ELSE <<hand>>) \o pending \o bus

Fifo == INSTANCE OutboundFifo WITH
            Ids <- 1..MaxMsgs,
            queue <- [t \in Targets |-> IdsFor(t, Undecided)],
            out <- [t \in Targets |-> IdsFor(t, sent[t])]

\* Coalescing, the replay buffer (popped from its back) and retries implement a
\* FIFO per chat: no message overtakes another one of its chat, none is shown
\* twice, none comes back (dispatch_outbound, coalesce_stream_deltas,
\* send_with_retry).
FifoPerChat == Fifo!Spec

\* A message a chat receives is one message, or deltas of one stream: every part
\* of a merge is a delta, only the last may end the stream, and the channel is
\* told of that end.  The deltas of the next answer are never appended to a
\* finished one (the already_ended test and the breaks of coalesce_stream_deltas).
StreamsStaySeparate ==
    \A t \in Targets : \A k \in DOMAIN sent[t] :
        LET m == sent[t][k] IN
        Len(m.parts) > 1 =>
            \A i \in DOMAIN m.parts :
                /\ "_stream_delta" \in m.parts[i].flags
                /\ "_stream_end" \in m.parts[i].flags =>
                       i = Len(m.parts) /\ "_stream_end" \in m.flags

Waiting(i) == \E t \in Targets : i \in Range(IdsFor(t, Undecided))

\* Every message published is shown, filtered or given up in finite time while
\* the dispatcher is not stopped: a chat whose sends always fail, or a stream that
\* never ends, does not block the others (send_with_retry's bound, the drain's
\* zero timeout).
EveryMessageDecided ==
    \A i \in 1..MaxMsgs : Waiting(i) ~> (pc = "stopped" \/ ~Waiting(i))
=============================================================================
