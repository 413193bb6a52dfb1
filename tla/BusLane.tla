------------------------------ MODULE BusLane ------------------------------
(***************************************************************************)
(* One lane of the message bus (crates/bus/src/queue.rs, struct Lane): an  *)
(* unbounded channel, its receiver behind an async mutex, and an atomic    *)
(* counter `pending` that is bumped AFTER the item is in the channel and   *)
(* lowered AFTER the item left it.  The inbound and the outbound lane are  *)
(* two copies of this module.                                              *)
(*                                                                         *)
(* Producers are the threads that call publish_inbound/publish_outbound,   *)
(* consumers the tasks that call consume_* under tokio::time::timeout, so  *)
(* a waiting consume may be dropped at either of its two await points.     *)
(* The word size of AtomicUsize is kept: arithmetic is modulo WordSize.    *)
(***************************************************************************)
EXTENDS Integers, Sequences, FiniteSets

CONSTANTS Producers,    \* threads that publish
          Consumers,    \* tasks that consume
          WordSize,     \* 2^64 in the program
          NoOne,        \* the receiver's mutex is free
          MaxSends      \* bound: messages published in a behaviour

ASSUME LaneAssumption ==
    /\ IsFiniteSet(Producers) /\ IsFiniteSet(Consumers)
    /\ MaxSends \in Nat
    /\ WordSize \in Nat
    /\ WordSize > MaxSends + Cardinality(Producers)
    /\ Producers \cap Consumers = {}
    /\ NoOne \notin Consumers

VARIABLES
    chan,       \* items in the unbounded channel, oldest first
    pending,    \* the AtomicUsize
    rxLock,     \* the consumer that holds the receiver's mutex, or NoOne
    pc,         \* where each producer and consumer is
    sent,       \* number of items ever sent (numbers the items)
    got         \* items returned by consume(), in the order they were taken

vars == <<chan, pending, rxLock, pc, sent, got>>

Init ==
    /\ chan = <<>>
    /\ pending = 0
    /\ rxLock = NoOne
    /\ pc = [x \in Producers \cup Consumers |-> "idle"]
    /\ sent = 0
    /\ got = <<>>

(***************************************************************************)
(* publish: tx.send(item), then pending.fetch_add(1).                      *)
(***************************************************************************)
Send(p) ==
    /\ pc[p] = "idle"
    /\ sent < MaxSends
    /\ sent' = sent + 1
    /\ chan' = Append(chan, sent')
    /\ pc' = [pc EXCEPT ![p] = "count"]
    /\ UNCHANGED <<pending, rxLock, got>>

FetchAdd(p) ==
    /\ pc[p] = "count"
    /\ pending' = (pending + 1) % WordSize
    /\ pc' = [pc EXCEPT ![p] = "idle"]
    /\ UNCHANGED <<chan, rxLock, sent, got>>

(***************************************************************************)
(* consume: rx.lock().await, rx.recv().await, pending.fetch_sub(1).        *)
(***************************************************************************)
StartConsume(c) ==
    /\ pc[c] = "idle"
    /\ pc' = [pc EXCEPT ![c] = "lock"]
    /\ UNCHANGED <<chan, pending, rxLock, sent, got>>

LockRx(c) ==
    /\ pc[c] = "lock"
    /\ rxLock = NoOne
    /\ rxLock' = c
    /\ pc' = [pc EXCEPT ![c] = "recv"]
    /\ UNCHANGED <<chan, pending, sent, got>>

\* Broken variant: the receiver is only woken by a second item.
RecvNeedsTwo(c) ==
    /\ pc[c] = "recv"
    /\ Len(chan) > 1
    /\ got' = Append(got, Head(chan))
    /\ chan' = Tail(chan)
    /\ pc' = [pc EXCEPT ![c] = "uncount"]
    /\ UNCHANGED <<pending, rxLock, sent>>

\* Broken variant: the item is taken before the future is known to survive.
RecvForgets(c) ==
    /\ pc[c] = "recv"
    /\ chan # <<>>
    /\ chan' = Tail(chan)
    /\ pc' = [pc EXCEPT ![c] = "uncount"]
    /\ UNCHANGED <<pending, rxLock, sent, got>>

Recv(c) ==
    /\ pc[c] = "recv"
    /\ chan # <<>>
    /\ got' = Append(got, Head(chan))
    /\ chan' = Tail(chan)
    /\ pc' = [pc EXCEPT ![c] = "uncount"]
    /\ UNCHANGED <<pending, rxLock, sent>>

FetchSub(c) ==
    /\ pc[c] = "uncount"
    /\ pending' = (pending - 1) % WordSize
    /\ rxLock' = NoOne
    /\ pc' = [pc EXCEPT ![c] = "idle"]
    /\ UNCHANGED <<chan, sent, got>>

\* Broken variant: a dropped consume lowers the counter anyway.
DropConsumeCounts(c) ==
    /\ pc[c] \in {"lock", "recv"}
    /\ pending' = (pending - 1) % WordSize
    /\ rxLock' = IF rxLock = c THEN NoOne ELSE rxLock
    /\ pc' = [pc EXCEPT ![c] = "idle"]
    /\ UNCHANGED <<chan, sent, got>>

\* The caller's timeout drops the future at one of its awaits; the mutex
\* guard, when held, is dropped with it.
DropConsume(c) ==
    /\ pc[c] \in {"lock", "recv"}
    /\ rxLock' = IF rxLock = c THEN NoOne ELSE rxLock
    /\ pc' = [pc EXCEPT ![c] = "idle"]
    /\ UNCHANGED <<chan, pending, sent, got>>

Next ==
    \/ \E p \in Producers : Send(p) \/ FetchAdd(p)
    \/ \E c \in Consumers :
          StartConsume(c) \/ LockRx(c) \/ Recv(c) \/ FetchSub(c) \/ DropConsume(c)

\* A polled consume makes progress and a publisher finishes its call; nobody
\* is obliged to call, and timeouts are never forced.
Fairness ==
    /\ \A p \in Producers : WF_vars(FetchAdd(p))
    /\ \A c \in Consumers :
          /\ WF_vars(StartConsume(c))
          /\ SF_vars(LockRx(c)) /\ SF_vars(Recv(c)) /\ WF_vars(FetchSub(c))

Spec == Init /\ [][Next]_vars

FairSpec == Spec /\ Fairness

-----------------------------------------------------------------------------
(* Properties *)

TypeOK ==
    /\ chan \in Seq(1..MaxSends)
    /\ pending \in 0..(WordSize - 1)
    /\ rxLock \in Consumers \cup {NoOne}
    /\ pc \in [Producers \cup Consumers ->
                  {"idle", "count", "lock", "recv", "uncount"}]
    /\ sent \in 0..MaxSends
    /\ got \in Seq(1..MaxSends)

Counting   == {p \in Producers : pc[p] = "count"}
Uncounting == {c \in Consumers : pc[c] = "uncount"}

\* Lane::publish and Lane::consume touch the counter in a step of their own,
\* so `pending` is the queue length corrected by the calls in flight, modulo
\* the word size; once no call is in flight, size() is exact.  No timeout that
\* drops a consume may disturb this.
PendingAccurate ==
    pending = (Len(chan) + Cardinality(Uncounting) - Cardinality(Counting)) % WordSize

\* No message is lost, duplicated or reordered between publish and consume,
\* whichever consumer takes it and however often a consume is dropped by its
\* timeout (Lane::consume, run() and dispatch_outbound wrap it in timeout()).
FifoNoLoss == got \o chan = [i \in 1..sent |-> i]

\* Whatever a channel publishes is eventually handed to the consumer: the lane
\* cannot wedge on a dropped consume that kept the receiver's mutex.
EventuallyConsumed ==
    \A n \in 1..MaxSends : (sent >= n) ~> (Len(got) >= n)
=============================================================================
