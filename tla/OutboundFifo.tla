---------------------------- MODULE OutboundFifo ----------------------------
(***************************************************************************)
(* What the outbound path promises a chat: its messages come out in the    *)
(* order they were published, each at most once, and a message that does   *)
(* not come out was discarded as a whole, never overtaken.                 *)
(***************************************************************************)
EXTENDS Naturals, Sequences

CONSTANTS Targets, Ids

VARIABLES
    queue,      \* per target: ids published and not decided yet
    out         \* per target: ids the chat has been shown

vars == <<queue, out>>

Init == queue = [t \in Targets |-> <<>>] /\ out = [t \in Targets |-> <<>>]

Publish(t, id) ==
    /\ queue' = [queue EXCEPT ![t] = Append(@, id)]
    /\ UNCHANGED out

\* The first k messages of a target are shown as one (coalesced) message.
Deliver(t, k) ==
    /\ out' = [out EXCEPT ![t] = @ \o SubSeq(queue[t], 1, k)]
    /\ queue' = [queue EXCEPT ![t] = SubSeq(@, k + 1, Len(@))]

\* Some of the oldest messages of each target are discarded.
Discard ==
    /\ DOMAIN queue' = Targets
    /\ \A t \in Targets : \E k \in 0..Len(queue[t]) :
           queue'[t] = SubSeq(queue[t], k + 1, Len(queue[t]))
    /\ UNCHANGED out

Next ==
    \/ \E t \in Targets, id \in Ids : Publish(t, id)
    \/ \E t \in Targets : \E k \in 1..Len(queue[t]) : Deliver(t, k)
    \/ Discard

Spec == Init /\ [][Next]_vars
=============================================================================
