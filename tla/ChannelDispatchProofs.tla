----------------------- MODULE ChannelDispatchProofs -----------------------
(***************************************************************************)
(* Safety of the outbound dispatcher for any targets, any metadata, any    *)
(* number of messages and any configuration of filters and retries.        *)
(***************************************************************************)
EXTENDS ChannelDispatch, SequenceTheorems, WellFoundedInduction, TLAPS

-----------------------------------------------------------------------------
(* What the dispatcher knows of a message *)

\* As it was published: one part with the message's own flags.
Plain(m) == Len(m.parts) = 1 /\ m.parts[1].flags = m.flags

\* One message, or deltas of which only the last ends the stream.
Clean(m) ==
    /\ Len(m.parts) > 1 => \A i \in DOMAIN m.parts : "_stream_delta" \in m.parts[i].flags
    /\ \A i \in DOMAIN m.parts : "_stream_end" \in m.parts[i].flags =>
           i = Len(m.parts) /\ "_stream_end" \in m.flags

\* A merge that more deltas may join.
Open(m) ==
    /\ "_stream_end" \notin m.flags
    /\ \A i \in DOMAIN m.parts : "_stream_delta" \in m.parts[i].flags

\* Parts are numbered by publication.
AtMost(m, k) == \A i \in DOMAIN m.parts : m.parts[i].id <= k

Sorted(m) == \A i, j \in DOMAIN m.parts : i < j => m.parts[i].id < m.parts[j].id

Earlier(a, b) ==
    \A i \in DOMAIN a.parts, j \in DOMAIN b.parts : a.parts[i].id < b.parts[j].id

-----------------------------------------------------------------------------
(* The inductive invariant *)

BusInv ==
    /\ \A i \in DOMAIN bus : Plain(bus[i]) /\ AtMost(bus[i], n)
    /\ \A i, j \in DOMAIN bus : i < j => Earlier(bus[i], bus[j])

\* Coalescing sets one message aside at most, and only when the merge is over.
PendingInv ==
    /\ Len(pending) <= 1
    /\ pc \in {"merge", "stopped"} => pending = <<>>
    /\ \A p \in DOMAIN pending :
          /\ Plain(pending[p]) /\ AtMost(pending[p], n)
          /\ \A i \in DOMAIN bus : Earlier(pending[p], bus[i])

\* m was published before everything that is set aside or on the bus.
Ahead(m) ==
    /\ \A p \in DOMAIN pending : Earlier(m, pending[p])
    /\ \A i \in DOMAIN bus : Earlier(m, bus[i])

HandInv ==
    hand # NoMsg =>
        /\ Clean(hand) /\ Sorted(hand) /\ AtMost(hand, n) /\ Ahead(hand)
        /\ pc = "merge" => Open(hand)

SentInv ==
    \A t \in Targets :
        /\ \A k \in DOMAIN sent[t] :
              /\ Clean(sent[t][k]) /\ Sorted(sent[t][k]) /\ AtMost(sent[t][k], n)
              /\ Ahead(sent[t][k])
              /\ hand # NoMsg => Earlier(sent[t][k], hand)
        /\ \A k, l \in DOMAIN sent[t] : k < l => Earlier(sent[t][k], sent[t][l])

DispatchInv == TypeOK /\ BusInv /\ PendingInv /\ HandInv /\ SentInv

\* What a chat is shown is in the order of publication, nothing twice: parts that
\* come later, in the same message or in another one, were published later.
ShownInOrder ==
    \A t \in Targets : \A k, l \in DOMAIN sent[t] :
        /\ Sorted(sent[t][k])
        /\ k < l => Earlier(sent[t][k], sent[t][l])

-----------------------------------------------------------------------------
(* Messages and their parts *)

\* A message as Publish makes it
LEMMA Published ==
    ASSUME NEW t \in Targets, NEW f \in SUBSET Flags, NEW k \in 1..MaxMsgs
    PROVE  LET e == [to |-> t, flags |-> f, parts |-> <<[id |-> k, flags |-> f]>>] IN
           /\ e \in Message
           /\ Plain(e) /\ AtMost(e, k)
           /\ \A m \in Message : AtMost(m, k - 1) => Earlier(m, e) /\ AtMost(m, k)
<1> DEFINE p == [id |-> k, flags |-> f]
           e == [to |-> t, flags |-> f, parts |-> <<p>>]
<1>1. p \in Part /\ p.id = k /\ p.flags = f BY DEF Part
<1>2. e \in Message /\ e.flags = f /\ e.parts = <<p>> BY <1>1 DEF Message
<1>3. Len(<<p>>) = 1 /\ DOMAIN <<p>> = {1} /\ <<p>>[1] = p OBVIOUS
<1> HIDE DEF p, e
<1>4. Plain(e) /\ AtMost(e, k)
  <2>1. Plain(e) BY <1>1, <1>2, <1>3 DEF Plain
  <2>2. k <= k OBVIOUS
  <2> QED BY <1>1, <1>2, <1>3, <2>1, <2>2, Zenon DEF AtMost
<1>5. ASSUME NEW m \in Message, AtMost(m, k - 1) PROVE Earlier(m, e) /\ AtMost(m, k)
  <2>1. m.parts \in Seq(Part) BY DEF Message
  <2>2. \A i \in DOMAIN m.parts : m.parts[i] \in Part BY <2>1
  <2>3. \A q \in Part : q.id \in Int BY DispatchAssumption DEF Part
  <2> QED BY <1>1, <1>2, <1>3, <1>5, <2>2, <2>3 DEF Earlier, AtMost
<1> QED BY <1>2, <1>4, <1>5 DEF e, p

LEMMA PlainMessage ==
    ASSUME NEW m \in Message, Plain(m)
    PROVE  Clean(m) /\ Sorted(m) /\ (OpensMerge(m) => Open(m))
<1>1. DOMAIN m.parts = {1} BY DEF Plain, Message
<1> QED BY <1>1 DEF Plain, Clean, Sorted, Open, OpensMerge

\* What joining a delta to an open merge gives
LEMMA Joined ==
    ASSUME NEW h \in Message, NEW m \in Message, Open(h), Plain(m),
           "_stream_delta" \in m.flags
    PROVE  LET g == [to |-> h.to,
                     flags |-> h.flags \cup (m.flags \cap {"_stream_end"}),
                     parts |-> h.parts \o m.parts] IN
           /\ g \in Message
           /\ g.to = h.to
           /\ Clean(h) => Clean(g)
           /\ "_stream_end" \notin m.flags => Open(g)
           /\ Sorted(h) /\ Earlier(h, m) => Sorted(g)
           /\ \A k \in Nat : AtMost(h, k) /\ AtMost(m, k) => AtMost(g, k)
           /\ \A x \in Message : Earlier(h, x) /\ Earlier(m, x) => Earlier(g, x)
           /\ \A x \in Message : Earlier(x, h) /\ Earlier(x, m) => Earlier(x, g)
<1> DEFINE ff == h.flags \cup (m.flags \cap {"_stream_end"})
           pp == h.parts \o m.parts
           g == [to |-> h.to, flags |-> ff, parts |-> pp]
<1>2. /\ h.to \in Targets /\ h.flags \subseteq Flags /\ h.parts \in Seq(Part)
      /\ m.flags \subseteq Flags /\ m.parts \in Seq(Part)
  BY DEF Message
<1>3. ff \subseteq Flags /\ pp \in Seq(Part) BY <1>2
<1>4. g \in Message /\ g.to = h.to /\ g.flags = ff /\ g.parts = pp BY <1>2, <1>3 DEF Message
<1>5. /\ Len(m.parts) = 1 /\ m.parts[1].flags = m.flags BY DEF Plain
<1>6. ASSUME NEW a \in Seq(Part), NEW b \in Seq(Part), Len(b) = 1
      PROVE  /\ Len(a) \in Nat /\ Len(a \o b) = Len(a) + 1
             /\ DOMAIN a = 1..Len(a) /\ DOMAIN b = {1}
             /\ \A i \in DOMAIN (a \o b) :
                   \/ i \in DOMAIN a /\ i < Len(a) + 1 /\ (a \o b)[i] = a[i]
                   \/ i = Len(a) + 1 /\ (a \o b)[i] = b[1]
  <2>1. Len(a) \in Nat /\ DOMAIN a = 1..Len(a) /\ DOMAIN b = {1} BY <1>6
  <2>2. /\ a \o b \in Seq(Part) /\ Len(a \o b) = Len(a) + Len(b)
        /\ \A i \in 1..(Len(a) + Len(b)) :
              (a \o b)[i] = IF i <= Len(a) THEN a[i] ELSE b[i - Len(a)]
    BY ConcatProperties, Zenon
  <2>3. Len(a \o b) = Len(a) + 1 /\ DOMAIN (a \o b) = 1..(Len(a) + 1)
    BY <1>6, <2>2
  <2>4. \A i \in 1..(Len(a) + 1) : \/ i \in 1..Len(a) /\ i < Len(a) + 1 /\ i <= Len(a)
                                   \/ i = Len(a) + 1 /\ ~(i <= Len(a)) /\ i - Len(a) = 1
    BY <2>1
  <2>5. \A i \in 1..(Len(a) + 1) :
              (a \o b)[i] = IF i <= Len(a) THEN a[i] ELSE b[i - Len(a)]
    BY <1>6, <2>2
  <2>6. ASSUME NEW i \in 1..(Len(a) + 1)
        PROVE  \/ i \in 1..Len(a) /\ i < Len(a) + 1 /\ (a \o b)[i] = a[i]
               \/ i = Len(a) + 1 /\ (a \o b)[i] = b[1]
    <3>1. (a \o b)[i] = IF i <= Len(a) THEN a[i] ELSE b[i - Len(a)] BY <2>5
    <3>2. CASE i <= Len(a) BY <2>1, <3>1, <3>2
    <3>3. CASE ~(i <= Len(a))
      <4>1. i = Len(a) + 1 /\ i - Len(a) = 1 BY <2>4, <3>3
      <4> QED BY <3>1, <3>3, <4>1
    <3> QED BY <3>2, <3>3
  <2> QED BY <2>1, <2>3, <2>6
<1>7. /\ Len(h.parts) \in Nat /\ Len(pp) = Len(h.parts) + 1
      /\ DOMAIN h.parts = 1..Len(h.parts) /\ DOMAIN m.parts = {1}
      /\ \A i \in DOMAIN pp :
            \/ i \in DOMAIN h.parts /\ i < Len(h.parts) + 1 /\ pp[i] = h.parts[i]
            \/ i = Len(h.parts) + 1 /\ pp[i] = m.parts[1]
  BY <1>2, <1>5, <1>6
<1> HIDE DEF g, ff, pp
<1>8. ("_stream_end" \in ff) = ("_stream_end" \in m.flags)
  BY DEF ff, Open
<1>9. Clean(h) => Clean(g)
  <2> SUFFICES ASSUME Clean(h) PROVE Clean(g) OBVIOUS
  <2>1. \A i \in DOMAIN h.parts : "_stream_delta" \in h.parts[i].flags BY DEF Open
  <2>2. \A i \in DOMAIN h.parts : "_stream_end" \notin h.parts[i].flags BY DEF Open, Clean
  <2> QED BY <1>4, <1>5, <1>7, <1>8, <2>1, <2>2 DEF Clean
<1>10. "_stream_end" \notin m.flags => Open(g)
  BY <1>4, <1>5, <1>7, <1>8 DEF Open
<1>11. Sorted(h) /\ Earlier(h, m) => Sorted(g)
  BY <1>4, <1>5, <1>7 DEF Sorted, Earlier
<1>12. \A k \in Nat : AtMost(h, k) /\ AtMost(m, k) => AtMost(g, k)
  BY <1>4, <1>5, <1>7 DEF AtMost
<1>13. \A x \in Message : Earlier(h, x) /\ Earlier(m, x) => Earlier(g, x)
  BY <1>4, <1>5, <1>7 DEF Earlier
<1>14. \A x \in Message : Earlier(x, h) /\ Earlier(x, m) => Earlier(x, g)
  BY <1>4, <1>5, <1>7 DEF Earlier
<1> QED BY <1>4, <1>9, <1>10, <1>11, <1>12, <1>13, <1>14 DEF g, ff, pp

\* The lanes as sequences
LEMMA TailOf ==
    ASSUME NEW s \in Seq(Message), s # <<>>
    PROVE  /\ Head(s) \in Message /\ Head(s) = s[1] /\ 1 \in DOMAIN s
           /\ Tail(s) \in Seq(Message)
           /\ \A i \in DOMAIN Tail(s) : i + 1 \in DOMAIN s /\ 1 < i + 1 /\ Tail(s)[i] = s[i + 1]
OBVIOUS

LEMMA AppendOf ==
    ASSUME NEW s \in Seq(Message), NEW e \in Message
    PROVE  /\ Append(s, e) \in Seq(Message)
           /\ \A i \in DOMAIN Append(s, e) :
                 \/ i \in DOMAIN s /\ i < Len(s) + 1 /\ Append(s, e)[i] = s[i]
                 \/ i = Len(s) + 1 /\ Append(s, e)[i] = e
           /\ \A i \in DOMAIN s : i \in Nat /\ i < Len(s) + 1
           /\ Len(s) \in Nat
OBVIOUS

-----------------------------------------------------------------------------
(* The actions *)

LEMMA InitInv == Init => DispatchInv
<1> SUFFICES ASSUME Init PROVE DispatchInv OBVIOUS
<1>1. MaxAttempts \in Nat /\ MaxAttempts >= 1 BY DispatchAssumption DEF MaxAttempts
<1>2. <<>> \in Seq(Message) /\ DOMAIN <<>> = {} /\ Len(<<>>) = 0 OBVIOUS
<1>3. TypeOK BY <1>1, <1>2, DispatchAssumption DEF Init, TypeOK
<1>4. \A t \in Targets : DOMAIN sent[t] = {} BY <1>2 DEF Init
<1> QED
  BY <1>2, <1>3, <1>4 DEF Init, DispatchInv, BusInv, PendingInv, HandInv, SentInv

LEMMA AttemptRange == MaxAttempts \in Nat /\ MaxAttempts >= 1 /\ 0 \in 0..(MaxAttempts - 1)
BY DispatchAssumption DEF MaxAttempts

LEMMA StartAllInv == DispatchInv /\ StartAll => DispatchInv'
<1> SUFFICES ASSUME DispatchInv, StartAll PROVE DispatchInv' OBVIOUS
<1> USE DEF DispatchInv, StartAll
<1>1. TypeOK' BY DEF TypeOK
<1>2. BusInv' BY DEF BusInv
<1>3. PendingInv' BY DEF PendingInv
<1>4. HandInv' BY DEF HandInv, TypeOK
<1>5. SentInv' BY DEF SentInv, Ahead
<1> QED BY <1>1, <1>2, <1>3, <1>4, <1>5

LEMMA StopAllInv == DispatchInv /\ StopAll => DispatchInv'
<1> SUFFICES ASSUME DispatchInv, StopAll PROVE DispatchInv' OBVIOUS
<1> USE DEF DispatchInv, StopAll
<1>0. <<>> \in Seq(Message) /\ DOMAIN <<>> = {} /\ Len(<<>>) = 0 OBVIOUS
<1>1. TypeOK' BY <1>0, AttemptRange DEF TypeOK
<1>2. BusInv' BY DEF BusInv
<1>3. PendingInv' BY <1>0 DEF PendingInv
<1>4. HandInv' BY DEF HandInv
<1>5. SentInv' BY <1>0 DEF SentInv, Ahead
<1> QED BY <1>1, <1>2, <1>3, <1>4, <1>5

LEMMA PublishInv ==
    ASSUME DispatchInv, NEW t \in Targets, NEW f \in FlagSets, Publish(t, f)
    PROVE  DispatchInv'
<1> DEFINE e == [to |-> t, flags |-> f, parts |-> <<[id |-> n + 1, flags |-> f]>>]
<1>0. TypeOK /\ BusInv /\ PendingInv /\ HandInv /\ SentInv BY DEF DispatchInv
<1>1. n \in Nat /\ n + 1 \in 1..MaxMsgs /\ (n + 1) - 1 = n /\ f \in SUBSET Flags
  BY <1>0, DispatchAssumption DEF TypeOK, Publish
<1>2. /\ n' = n + 1 /\ bus' = Append(bus, e)
      /\ UNCHANGED <<pending, hand, pc, attempt, sent>>
  BY DEF Publish
<1>3. /\ e \in Message /\ Plain(e) /\ AtMost(e, n')
      /\ \A m \in Message : AtMost(m, n) => Earlier(m, e) /\ AtMost(m, n')
  <2>1. /\ e \in Message /\ Plain(e) /\ AtMost(e, n + 1)
        /\ \A m \in Message : AtMost(m, (n + 1) - 1) => Earlier(m, e) /\ AtMost(m, n + 1)
    BY ONLY <1>1, Published, Zenon
  <2> HIDE DEF e
  <2> QED BY <1>1, <1>2, <2>1
<1> HIDE DEF e
<1>4. /\ bus \in Seq(Message) /\ pending \in Seq(Message)
      /\ \A i \in DOMAIN bus : bus[i] \in Message
      /\ \A p \in DOMAIN pending : pending[p] \in Message
      /\ hand # NoMsg => hand \in Message
      /\ \A u \in Targets : \A k \in DOMAIN sent[u] : sent[u][k] \in Message
  BY <1>0 DEF TypeOK
<1>5. /\ bus' \in Seq(Message)
      /\ \A i \in DOMAIN bus' : \/ i \in DOMAIN bus /\ i < Len(bus) + 1 /\ bus'[i] = bus[i]
                                \/ i = Len(bus) + 1 /\ bus'[i] = e
      /\ \A i \in DOMAIN bus : i \in Nat /\ i < Len(bus) + 1
      /\ Len(bus) \in Nat
  BY <1>2, <1>3, <1>4, AppendOf
<1>6. TypeOK' BY <1>0, <1>1, <1>2, <1>5 DEF TypeOK
<1>7. BusInv'
  <2>1. \A i \in DOMAIN bus' : Plain(bus'[i]) /\ AtMost(bus'[i], n')
    BY <1>0, <1>3, <1>4, <1>5 DEF BusInv
  <2>2. ASSUME NEW i \in DOMAIN bus', NEW j \in DOMAIN bus', i < j
        PROVE  Earlier(bus'[i], bus'[j])
    <3>1. i \in DOMAIN bus /\ bus'[i] = bus[i] BY <1>5, <2>2
    <3> QED BY <1>0, <1>3, <1>4, <1>5, <2>2, <3>1 DEF BusInv
  <2> QED BY <2>1, <2>2 DEF BusInv
<1>8. PendingInv'
  BY <1>0, <1>2, <1>3, <1>4, <1>5 DEF PendingInv
<1>9. ASSUME NEW m \in Message, AtMost(m, n), Ahead(m) PROVE Ahead(m)'
  BY <1>2, <1>3, <1>5, <1>9 DEF Ahead
<1>10. HandInv'
  BY <1>0, <1>2, <1>3, <1>4, <1>9 DEF HandInv, TypeOK
<1>11. SentInv'
  BY <1>0, <1>2, <1>3, <1>4, <1>9 DEF SentInv, TypeOK
<1> QED BY <1>6, <1>7, <1>8, <1>10, <1>11 DEF DispatchInv

\* Handling a plain message that was published after all that was sent and
\* before all that is left
LEMMA HandleInv ==
    ASSUME TypeOK, SentInv, pc = "take", NEW m \in Message,
           Handle(m), Plain(m), AtMost(m, n),
           UNCHANGED <<sent, n>>,
           bus' \in Seq(Message), pending' \in Seq(Message), pending' = <<>>,
           \A i \in DOMAIN bus' : Earlier(m, bus'[i]),
           \A t \in Targets : \A k \in DOMAIN sent[t] :
               /\ Earlier(sent[t][k], m)
               /\ \A i \in DOMAIN bus' : Earlier(sent[t][k], bus'[i]),
           BusInv'
    PROVE  TypeOK' /\ HandInv' /\ SentInv' /\ (PendingInv)'
<1>1. m # NoMsg BY DispatchAssumption
<1>2. /\ hand' \in {m, NoMsg} /\ (hand' = NoMsg) = (pc' \in {"take", "stopped"})
      /\ pc' \in {"take", "merge", "send"}
      /\ pc' = "merge" => OpensMerge(m)
      /\ attempt' = attempt
  BY <1>1 DEF Handle
<1>3. TypeOK' BY <1>2 DEF TypeOK
<1>4. DOMAIN pending' = {} /\ Len(pending') = 0 OBVIOUS
<1>5. PendingInv' BY <1>4 DEF PendingInv
<1>6. Clean(m) /\ Sorted(m) /\ (OpensMerge(m) => Open(m)) BY PlainMessage
<1>7. Ahead(m)' BY <1>4 DEF Ahead
<1>8. HandInv' BY <1>2, <1>6, <1>7 DEF HandInv
<1>9. \A t \in Targets : \A k \in DOMAIN sent[t] : Ahead(sent[t][k])'
  BY <1>4 DEF Ahead
<1>10. SentInv' BY <1>2, <1>9 DEF SentInv
<1> QED BY <1>3, <1>5, <1>8, <1>10

LEMMA TakePendingInv == DispatchInv /\ TakePending => DispatchInv'
<1> SUFFICES ASSUME DispatchInv, TakePending PROVE DispatchInv' OBVIOUS
<1>0. TypeOK /\ BusInv /\ PendingInv /\ HandInv /\ SentInv BY DEF DispatchInv
<1>1. /\ pending \in Seq(Message) /\ pending # <<>> /\ Len(pending) = 1 /\ bus \in Seq(Message)
      /\ DOMAIN pending = {1}
  <2>1. pending \in Seq(Message) /\ bus \in Seq(Message) /\ Len(pending) <= 1 /\ pending # <<>>
    BY <1>0 DEF TypeOK, PendingInv, TakePending
  <2>2. Len(pending) \in Nat \ {0} /\ DOMAIN pending = 1..Len(pending)
    BY <2>1, EmptySeq, LenProperties
  <2>3. Len(pending) = 1 BY <2>1, <2>2
  <2> QED BY <2>1, <2>2, <2>3
<1> DEFINE m == pending[1]
<1>2. m \in Message BY <1>1
<1>3. Last(pending) = m /\ Front(pending) = <<>> BY <1>1 DEF Last, Front
<1>4. pc = "take" /\ Handle(m) /\ pending' = <<>> /\ UNCHANGED <<bus, sent, n>>
  BY <1>3 DEF TakePending
<1>5. BusInv' BY <1>0, <1>4 DEF BusInv
<1>6. Plain(m) /\ AtMost(m, n) /\ \A i \in DOMAIN bus' : Earlier(m, bus'[i])
  BY <1>0, <1>1, <1>4 DEF PendingInv
<1>7. \A t \in Targets : \A k \in DOMAIN sent[t] :
          Earlier(sent[t][k], m) /\ \A i \in DOMAIN bus' : Earlier(sent[t][k], bus'[i])
  BY <1>0, <1>1, <1>4 DEF SentInv, Ahead
<1>8. pending' \in Seq(Message) /\ bus' \in Seq(Message) BY <1>1, <1>4
<1> HIDE DEF m
<1> QED BY <1>0, <1>2, <1>4, <1>5, <1>6, <1>7, <1>8, HandleInv DEF DispatchInv

\* What a message taken off the bus leaves behind
LEMMA TakenOff ==
    ASSUME DispatchInv, bus # <<>>, bus' = Tail(bus), n' = n
    PROVE  /\ Head(bus) \in Message /\ Plain(Head(bus)) /\ AtMost(Head(bus), n)
           /\ bus' \in Seq(Message) /\ BusInv'
           /\ \A i \in DOMAIN bus' : Earlier(Head(bus), bus'[i])
           /\ \A m \in Message : (\A i \in DOMAIN bus : Earlier(m, bus[i])) =>
                  /\ Earlier(m, Head(bus))
                  /\ \A i \in DOMAIN bus' : Earlier(m, bus'[i])
<1>0. TypeOK /\ BusInv BY DEF DispatchInv
<1>1. bus \in Seq(Message) BY <1>0 DEF TypeOK
<1>2. /\ Head(bus) \in Message /\ Head(bus) = bus[1] /\ 1 \in DOMAIN bus
      /\ bus' \in Seq(Message)
      /\ \A i \in DOMAIN bus' : i + 1 \in DOMAIN bus /\ 1 < i + 1 /\ bus'[i] = bus[i + 1]
  BY <1>1, TailOf
<1>3. \A i, j \in DOMAIN bus' : i < j => i + 1 < j + 1 BY <1>2
<1>4. BusInv' BY <1>0, <1>2, <1>3 DEF BusInv
<1> QED BY <1>0, <1>2, <1>4 DEF BusInv

LEMMA TakeBusInv == DispatchInv /\ TakeBus => DispatchInv'
<1> SUFFICES ASSUME DispatchInv, TakeBus PROVE DispatchInv' OBVIOUS
<1>0. TypeOK /\ BusInv /\ PendingInv /\ HandInv /\ SentInv BY DEF DispatchInv
<1> DEFINE m == Head(bus)
<1>1. /\ pc = "take" /\ pending = <<>> /\ bus # <<>> /\ Handle(m) /\ bus' = Tail(bus)
      /\ UNCHANGED <<pending, sent, n>>
  BY DEF TakeBus
<1>2. /\ m \in Message /\ Plain(m) /\ AtMost(m, n)
      /\ bus' \in Seq(Message) /\ BusInv'
      /\ \A i \in DOMAIN bus' : Earlier(m, bus'[i])
      /\ \A x \in Message : (\A i \in DOMAIN bus : Earlier(x, bus[i])) =>
                  /\ Earlier(x, m)
                  /\ \A i \in DOMAIN bus' : Earlier(x, bus'[i])
  BY <1>1, TakenOff
<1>3. \A t \in Targets : \A k \in DOMAIN sent[t] : sent[t][k] \in Message BY <1>0 DEF TypeOK
<1>4. \A t \in Targets : \A k \in DOMAIN sent[t] :
          Earlier(sent[t][k], m) /\ \A i \in DOMAIN bus' : Earlier(sent[t][k], bus'[i])
  BY <1>0, <1>2, <1>3 DEF SentInv, Ahead
<1>5. pending' \in Seq(Message) /\ pending' = <<>> BY <1>0, <1>1 DEF TypeOK
<1> HIDE DEF m
<1> QED BY <1>0, <1>1, <1>2, <1>4, <1>5, HandleInv DEF DispatchInv

LEMMA MergeInv == DispatchInv /\ Merge => DispatchInv'
<1> SUFFICES ASSUME DispatchInv, Merge PROVE DispatchInv' OBVIOUS
<1>0. TypeOK /\ BusInv /\ PendingInv /\ HandInv /\ SentInv BY DEF DispatchInv
<1> DEFINE m == Head(bus)
           g == [to |-> hand.to,
                 flags |-> hand.flags \cup (m.flags \cap {"_stream_end"}),
                 parts |-> hand.parts \o m.parts]
<1>1. /\ pc = "merge" /\ bus # <<>> /\ bus' = Tail(bus)
      /\ UNCHANGED <<attempt, sent, n>>
  BY DEF Merge
<1>2. /\ m \in Message /\ Plain(m) /\ AtMost(m, n)
      /\ bus' \in Seq(Message) /\ BusInv'
      /\ \A i \in DOMAIN bus' : Earlier(m, bus'[i])
      /\ \A x \in Message : (\A i \in DOMAIN bus : Earlier(x, bus[i])) =>
                  /\ Earlier(x, m)
                  /\ \A i \in DOMAIN bus' : Earlier(x, bus'[i])
  BY <1>1, TakenOff
<1>3. /\ hand \in Message /\ hand # NoMsg /\ pending = <<>> /\ n \in Nat
      /\ Clean(hand) /\ Sorted(hand) /\ AtMost(hand, n) /\ Open(hand)
      /\ \A i \in DOMAIN bus : Earlier(hand, bus[i])
  <2>1. hand # NoMsg /\ n \in Nat BY <1>0, <1>1, DispatchAssumption DEF TypeOK
  <2> QED BY <1>0, <1>1, <2>1 DEF TypeOK, PendingInv, HandInv, Ahead
<1>4. /\ Earlier(hand, m) /\ \A i \in DOMAIN bus' : Earlier(hand, bus'[i])
  BY <1>2, <1>3
<1>5. \A t \in Targets : \A k \in DOMAIN sent[t] :
          /\ sent[t][k] \in Message
          /\ Earlier(sent[t][k], hand)
          /\ Earlier(sent[t][k], m) /\ \A i \in DOMAIN bus' : Earlier(sent[t][k], bus'[i])
  <2>1. \A t \in Targets : \A k \in DOMAIN sent[t] : sent[t][k] \in Message BY <1>0 DEF TypeOK
  <2> QED BY <1>0, <1>2, <1>3, <2>1 DEF SentInv, Ahead
<1>6. CASE Joins(m)
  <2>1. /\ hand' = g /\ pending' = <<>>
        /\ pc' = IF "_stream_end" \in m.flags THEN "send" ELSE "merge"
        /\ "_stream_delta" \in m.flags
    BY <1>3, <1>6 DEF Merge, Joins
  <2>2. /\ g \in Message
        /\ Clean(hand) => Clean(g)
        /\ "_stream_end" \notin m.flags => Open(g)
        /\ Sorted(hand) /\ Earlier(hand, m) => Sorted(g)
        /\ \A k \in Nat : AtMost(hand, k) /\ AtMost(m, k) => AtMost(g, k)
        /\ \A x \in Message : Earlier(hand, x) /\ Earlier(m, x) => Earlier(g, x)
        /\ \A x \in Message : Earlier(x, hand) /\ Earlier(x, m) => Earlier(x, g)
    BY <1>2, <1>3, <2>1, Joined
  <2> HIDE DEF g, m
  <2>3. g # NoMsg /\ DOMAIN pending' = {} /\ Len(pending') = 0 BY <2>1, <2>2, DispatchAssumption
  <2>4. TypeOK' BY <1>0, <1>1, <1>2, <2>1, <2>2, <2>3 DEF TypeOK
  <2>5. PendingInv' BY <2>1, <2>3 DEF PendingInv
  <2>6. \A i \in DOMAIN bus' : bus'[i] \in Message BY <1>2
  <2>7. \A i \in DOMAIN bus' : Earlier(g, bus'[i]) BY <1>2, <1>4, <2>2, <2>6
  <2>8. HandInv'
    <3>1. Clean(g) /\ Sorted(g) /\ AtMost(g, n') /\ (pc' = "merge" => Open(g))
      BY <1>1, <1>2, <1>3, <1>4, <2>1, <2>2
    <3>2. Ahead(hand)' BY <2>1, <2>3, <2>7 DEF Ahead
    <3> QED BY <2>1, <3>1, <3>2 DEF HandInv
  <2>9. \A t \in Targets : \A k \in DOMAIN sent[t] : Ahead(sent[t][k])'
    BY <1>1, <1>5, <2>3 DEF Ahead
  <2>10. \A t \in Targets : \A k \in DOMAIN sent[t] : Earlier(sent[t][k], g)
    BY <1>5, <2>2
  <2>11. SentInv' BY <1>0, <1>1, <2>1, <2>9, <2>10 DEF SentInv
  <2> QED BY <1>2, <2>4, <2>5, <2>8, <2>11 DEF DispatchInv
<1>7. CASE ~Joins(m)
  <2>1. pending' = <<m>> /\ pc' = "send" /\ hand' = hand BY <1>3, <1>7 DEF Merge
  <2> HIDE DEF m
  <2>2. DOMAIN pending' = {1} /\ Len(pending') = 1 /\ pending'[1] = m /\ pending' \in Seq(Message)
    BY <1>2, <2>1
  <2>3. TypeOK' BY <1>0, <1>1, <1>2, <1>3, <2>1, <2>2 DEF TypeOK
  <2>4. PendingInv' BY <1>1, <1>2, <2>1, <2>2 DEF PendingInv
  <2>5. Ahead(hand)' BY <1>4, <2>1, <2>2 DEF Ahead
  <2>6. HandInv' BY <1>1, <1>3, <2>1, <2>5 DEF HandInv
  <2>7. \A t \in Targets : \A k \in DOMAIN sent[t] : Ahead(sent[t][k])'
    BY <1>1, <1>5, <2>2 DEF Ahead
  <2>8. SentInv' BY <1>0, <1>1, <2>1, <2>7 DEF SentInv
  <2> QED BY <1>2, <2>3, <2>4, <2>6, <2>8 DEF DispatchInv
<1> QED BY <1>6, <1>7

LEMMA MergeTimeoutInv == DispatchInv /\ MergeTimeout => DispatchInv'
<1> SUFFICES ASSUME DispatchInv, MergeTimeout PROVE DispatchInv' OBVIOUS
<1> USE DEF DispatchInv, MergeTimeout
<1>1. TypeOK' BY DEF TypeOK
<1>2. BusInv' BY DEF BusInv
<1>3. PendingInv' BY DEF PendingInv
<1>4. HandInv' BY DEF HandInv, Ahead
<1>5. SentInv' BY DEF SentInv, Ahead
<1> QED BY <1>1, <1>2, <1>3, <1>4, <1>5

\* A message that is decided without being sent
LEMMA DropInv ==
    ASSUME DispatchInv, pc = "send", Done, UNCHANGED <<bus, pending, sent, n>>
    PROVE  DispatchInv'
<1> USE DEF DispatchInv, Done
<1>1. TypeOK' BY AttemptRange DEF TypeOK
<1>2. BusInv' BY DEF BusInv
<1>3. PendingInv' BY DEF PendingInv
<1>4. HandInv' BY DEF HandInv
<1>5. SentInv' BY DEF SentInv, Ahead
<1> QED BY <1>1, <1>2, <1>3, <1>4, <1>5

LEMMA SkipInv == DispatchInv /\ Skip => DispatchInv'
BY DropInv DEF Skip

LEMMA SendFailInv == DispatchInv /\ SendFail => DispatchInv'
<1> SUFFICES ASSUME DispatchInv, SendFail PROVE DispatchInv' OBVIOUS
<1>1. CASE attempt = MaxAttempts - 1 BY <1>1, DropInv DEF SendFail
<1>2. CASE attempt # MaxAttempts - 1
  <2> USE DEF DispatchInv
  <2>0. attempt' = attempt + 1 /\ UNCHANGED <<bus, pending, sent, n, hand, pc>>
    BY <1>2 DEF SendFail
  <2>1. TypeOK' BY <1>2, <2>0, AttemptRange DEF TypeOK
  <2>2. BusInv' BY <2>0 DEF BusInv
  <2>3. PendingInv' BY <2>0 DEF PendingInv
  <2>4. HandInv' BY <2>0 DEF HandInv, Ahead
  <2>5. SentInv' BY <2>0 DEF SentInv, Ahead
  <2> QED BY <2>1, <2>2, <2>3, <2>4, <2>5
<1> QED BY <1>1, <1>2

LEMMA SendOkInv == DispatchInv /\ SendOk => DispatchInv'
<1> SUFFICES ASSUME DispatchInv, SendOk PROVE DispatchInv' OBVIOUS
<1>0. TypeOK /\ BusInv /\ PendingInv /\ HandInv /\ SentInv BY DEF DispatchInv
<1> DEFINE c == hand.to
<1>1. /\ pc = "send" /\ sent' = [sent EXCEPT ![c] = Append(sent[c], hand)]
      /\ hand' = NoMsg /\ pc' = "take" /\ attempt' = 0 /\ UNCHANGED <<bus, pending, n>>
  BY DEF SendOk, Done
<1>2. /\ hand \in Message /\ hand # NoMsg /\ c \in Targets /\ sent \in [Targets -> Seq(Message)]
  <2>1. hand \in Message /\ hand # NoMsg BY <1>0, <1>1 DEF TypeOK
  <2> QED BY <1>0, <2>1 DEF TypeOK, Message
<1>3. /\ Clean(hand) /\ Sorted(hand) /\ AtMost(hand, n) /\ Ahead(hand)
  BY <1>0, <1>2 DEF HandInv
<1>4. \A m : Ahead(m) => Ahead(m)' BY <1>1 DEF Ahead
<1> HIDE DEF c
<1>5. /\ sent'[c] = Append(sent[c], hand)
      /\ \A t \in Targets : t # c => sent'[t] = sent[t]
      /\ sent' \in [Targets -> Seq(Message)]
  BY <1>1, <1>2, AppendOf
<1>6. /\ \A i \in DOMAIN sent'[c] :
            \/ i \in DOMAIN sent[c] /\ i < Len(sent[c]) + 1 /\ sent'[c][i] = sent[c][i]
            \/ i = Len(sent[c]) + 1 /\ sent'[c][i] = hand
      /\ \A i \in DOMAIN sent[c] : i \in Nat /\ i < Len(sent[c]) + 1
      /\ Len(sent[c]) \in Nat
  BY <1>2, <1>5, AppendOf
<1>7. TypeOK' BY <1>0, <1>1, <1>5, AttemptRange DEF TypeOK
<1>8. BusInv' BY <1>0, <1>1 DEF BusInv
<1>9. PendingInv' BY <1>0, <1>1 DEF PendingInv
<1>10. HandInv' BY <1>1 DEF HandInv
<1>11. SentInv'
  <2> SUFFICES ASSUME NEW t \in Targets
               PROVE  /\ \A k \in DOMAIN sent'[t] :
                            /\ Clean(sent'[t][k]) /\ Sorted(sent'[t][k]) /\ AtMost(sent'[t][k], n)
                            /\ Ahead(sent[t][k])'
                      /\ \A k, l \in DOMAIN sent'[t] : k < l => Earlier(sent'[t][k], sent'[t][l])
    BY <1>1 DEF SentInv
  <2>0. \A k \in DOMAIN sent[t] :
           /\ Clean(sent[t][k]) /\ Sorted(sent[t][k]) /\ AtMost(sent[t][k], n)
           /\ Ahead(sent[t][k]) /\ Earlier(sent[t][k], hand)
    BY <1>0, <1>2 DEF SentInv
  <2>1. ASSUME NEW k \in DOMAIN sent'[t]
        PROVE  \/ k \in DOMAIN sent[t] /\ sent'[t][k] = sent[t][k]
               \/ t = c /\ k = Len(sent[c]) + 1 /\ sent'[t][k] = hand
    BY <1>5, <1>6
  <2>2. ASSUME NEW k \in DOMAIN sent'[t]
        PROVE  /\ Clean(sent'[t][k]) /\ Sorted(sent'[t][k]) /\ AtMost(sent'[t][k], n)
    BY <1>3, <2>0, <2>1
  <2>3. ASSUME NEW k \in DOMAIN sent'[t] PROVE Ahead(sent[t][k])'
    <3>1. PICK x : x = sent'[t][k] /\ Ahead(x) BY <1>3, <2>0, <2>1
    <3>2. Ahead(x)' BY <1>1, <3>1 DEF Ahead
    <3> QED BY <3>1, <3>2 DEF Ahead
  <2>4. ASSUME NEW k \in DOMAIN sent'[t], NEW l \in DOMAIN sent'[t], k < l
        PROVE  Earlier(sent'[t][k], sent'[t][l])
    <3>1. CASE t = c
      <4>1. k \in DOMAIN sent[t] /\ sent'[t][k] = sent[t][k] BY <1>6, <2>4, <3>1
      <4>2. CASE l \in DOMAIN sent[t] /\ sent'[t][l] = sent[t][l]
        BY <1>0, <2>4, <4>1, <4>2 DEF SentInv
      <4>3. CASE sent'[t][l] = hand BY <2>0, <4>1, <4>3
      <4> QED BY <2>1, <4>2, <4>3
    <3>2. CASE t # c BY <1>0, <1>5, <2>4, <3>2 DEF SentInv
    <3> QED BY <3>1, <3>2
  <2> QED BY <2>2, <2>3, <2>4
<1> QED BY <1>7, <1>8, <1>9, <1>10, <1>11 DEF DispatchInv

LEMMA NextInv == DispatchInv /\ [Next]_vars => DispatchInv'
<1> SUFFICES ASSUME DispatchInv, [Next]_vars PROVE DispatchInv' OBVIOUS
<1>1. CASE UNCHANGED vars
  BY <1>1 DEF vars, DispatchInv, TypeOK, BusInv, PendingInv, HandInv, SentInv, Ahead
<1>2. CASE Dispatch
  BY <1>2, TakePendingInv, TakeBusInv, MergeInv, MergeTimeoutInv, SkipInv, SendOkInv,
     SendFailInv DEF Dispatch
<1> QED BY <1>1, <1>2, StartAllInv, StopAllInv, PublishInv DEF Next

-----------------------------------------------------------------------------
(* What IdsFor computes *)

\* Induction over the natural numbers with a set in place of a predicate.
LEMMA NatInduct ==
    ASSUME NEW T, 0 \in T, \A i \in Nat : i \in T => i + 1 \in T
    PROVE  Nat \subseteq T
<1> DEFINE X == Nat \ T
           R == {ss \in Nat \X Nat : ss[1] < ss[2]}
<1> SUFFICES ASSUME X # {} PROVE FALSE
  OBVIOUS
<1>1. IsWellFoundedOn(R, Nat) BY NatLessThanWellFounded DEF OpToRel
<1>2. PICK m \in X : \A i \in X : ~(<<i, m>> \in R)
  <2>1. X \subseteq Nat OBVIOUS
  <2> HIDE DEF R, X
  <2> QED BY <1>1, <2>1, WFMin
<1>3. m \in Nat /\ m # 0 OBVIOUS
<1>4. m - 1 \in Nat /\ (m - 1) + 1 = m /\ <<m - 1, m>> \in Nat \X Nat /\ m - 1 < m BY <1>3
<1>5. m - 1 \in X
  <2>1. m - 1 \notin T BY <1>4
  <2> QED BY <1>4, <2>1
<1>6. <<m - 1, m>> \in R BY <1>4
<1> QED BY <1>2, <1>5, <1>6

\* Induction over sequences with a set in place of a predicate.
LEMMA SeqInduct ==
    ASSUME NEW A, NEW T, <<>> \in T, \A s \in Seq(A), e \in A : s \in T => Append(s, e) \in T
    PROVE  Seq(A) \subseteq T
<1> DEFINE N == {i \in Nat : \A s \in Seq(A) : Len(s) = i => s \in T}
<1>1. 0 \in N BY EmptySeq
<1>2. ASSUME NEW i \in Nat, i \in N PROVE i + 1 \in N
  <2> SUFFICES ASSUME NEW s \in Seq(A), Len(s) = i + 1 PROVE s \in T
    OBVIOUS
  <2>1. s # <<>> BY EmptySeq
  <2>2. PICK q \in Seq(A), e \in A : s = Append(q, e) BY <2>1, SequenceEmptyOrAppend
  <2>3. Len(q) \in Nat /\ Len(s) = Len(q) + 1 BY <2>2, AppendProperties, LenProperties
  <2>4. Len(q) = i BY <2>3
  <2> QED BY <1>2, <2>2, <2>4
<1>3. Nat \subseteq N
  <2> HIDE DEF N
  <2> QED BY <1>1, <1>2, NatInduct
<1> SUFFICES ASSUME NEW s \in Seq(A) PROVE s \in T
  OBVIOUS
<1>4. Len(s) \in N BY <1>3, LenProperties
<1> QED BY <1>4

\* The recursive function inside IdsFor exists.
LEMMA IdsForRec ==
    ASSUME NEW t, NEW s, Len(s) \in Nat
    PROVE  \E f : /\ f = [i \in 0..Len(s) |-> IF i = 0 THEN <<>> ELSE f[i - 1] \o IdsOf(t, s[i])]
                  /\ IdsFor(t, s) = f[Len(s)]
<1> DEFINE Round(x, k) == x \o IdsOf(t, s[k])
           Rec(f, m) == f = [k \in 0..m |-> IF k = 0 THEN <<>> ELSE Round(f[k - 1], k)]
           T == {m \in Nat : \E f : Rec(f, m)}
<1>1. IdsFor(t, s) = (CHOOSE f : Rec(f, Len(s)))[Len(s)] BY DEF IdsFor
<1> HIDE DEF Round
<1>2. 0 \in T
  <2> DEFINE g == [k \in 0..0 |-> <<>>]
  <2>1. Rec(g, 0) OBVIOUS
  <2> QED BY <2>1
<1>3. ASSUME NEW m \in Nat, m \in T PROVE m + 1 \in T
  <2>1. PICK f : Rec(f, m) BY <1>3
  <2> DEFINE q == m + 1
             g == [k \in 0..q |-> IF k = q THEN Round(f[m], q) ELSE f[k]]
             h == [k \in 0..q |-> IF k = 0 THEN <<>> ELSE Round(g[k - 1], k)]
  <2>2. \A k \in 0..q : g[k] = h[k]
    <3> SUFFICES ASSUME NEW k \in 0..q PROVE g[k] = h[k]
      OBVIOUS
    <3>1. CASE k = q
      <4>1. m \in 0..q /\ m # q /\ k - 1 = m /\ k # 0 BY <3>1
      <4>2. g[m] = f[m] BY <4>1
      <4> QED BY <3>1, <4>1, <4>2
    <3>2. CASE k # q
      <4>1. k \in 0..m BY <3>2
      <4>2. f[k] = IF k = 0 THEN <<>> ELSE Round(f[k - 1], k) BY <2>1, <4>1
      <4>3. CASE k = 0 BY <3>2, <4>2, <4>3
      <4>4. CASE k # 0
        <5>1. k - 1 \in 0..q /\ k - 1 # q BY <3>2, <4>4
        <5>2. g[k - 1] = f[k - 1] BY <5>1
        <5> QED BY <3>2, <4>2, <4>4, <5>2
      <4> QED BY <4>3, <4>4
    <3> QED BY <3>1, <3>2
  <2>3. g = h BY <2>2
  <2>4. Rec(g, q) BY <2>3
  <2>5. q \in Nat OBVIOUS
  <2> QED BY <2>4, <2>5
<1>4. Len(s) \in T
  <2> HIDE DEF T
  <2> QED BY <1>2, <1>3, NatInduct
<1> DEFINE f == CHOOSE g : Rec(g, Len(s))
<1>5. Rec(f, Len(s)) BY <1>4
<1> HIDE DEF f
<1>6. f = [i \in 0..Len(s) |-> IF i = 0 THEN <<>> ELSE f[i - 1] \o IdsOf(t, s[i])]
  BY <1>5 DEF Round
<1>7. IdsFor(t, s) = f[Len(s)] BY <1>1 DEF f
<1> QED BY <1>6, <1>7

LEMMA IdsForEmpty ==
    ASSUME NEW t
    PROVE  IdsFor(t, <<>>) = <<>>
<1>1. Len(<<>>) = 0 /\ 0 \in Nat OBVIOUS
<1>2. PICK f : /\ f = [i \in 0..Len(<<>>) |->
                          IF i = 0 THEN <<>> ELSE f[i - 1] \o IdsOf(t, <<>>[i])]
               /\ IdsFor(t, <<>>) = f[Len(<<>>)]
  BY <1>1, IdsForRec
<1> QED BY <1>1, <1>2

LEMMA IdsForAppend ==
    ASSUME NEW t, NEW s \in Seq(Message), NEW e \in Message
    PROVE  IdsFor(t, Append(s, e)) = IdsFor(t, s) \o IdsOf(t, e)
<1> DEFINE r == Append(s, e)
<1>1. /\ Len(s) \in Nat /\ Len(r) = Len(s) + 1 /\ r[Len(s) + 1] = e
      /\ \A i \in 1..Len(s) : r[i] = s[i]
  BY AppendProperties, LenProperties
<1> HIDE DEF r
<1>2. PICK f : /\ f = [i \in 0..Len(s) |-> IF i = 0 THEN <<>> ELSE f[i - 1] \o IdsOf(t, s[i])]
               /\ IdsFor(t, s) = f[Len(s)]
  BY <1>1, IdsForRec
<1>3. PICK g : /\ g = [i \in 0..Len(r) |-> IF i = 0 THEN <<>> ELSE g[i - 1] \o IdsOf(t, r[i])]
               /\ IdsFor(t, r) = g[Len(r)]
  <2>1. Len(r) \in Nat BY <1>1
  <2> QED BY <2>1, IdsForRec
<1> DEFINE T == {m \in Nat : m <= Len(s) => g[m] = f[m]}
<1>4. 0 \in T BY <1>1, <1>2, <1>3
<1>5. ASSUME NEW m \in Nat, m \in T PROVE m + 1 \in T
  <2> SUFFICES ASSUME m + 1 <= Len(s) PROVE g[m + 1] = f[m + 1]
    OBVIOUS
  <2>1. /\ m + 1 \in 0..Len(s) /\ m + 1 \in 1..Len(s) /\ m + 1 \in 0..Len(r)
        /\ m + 1 # 0 /\ (m + 1) - 1 = m /\ m <= Len(s)
    BY <1>1
  <2>2. g[m + 1] = g[m] \o IdsOf(t, r[m + 1]) BY <1>3, <2>1
  <2>3. f[m + 1] = f[m] \o IdsOf(t, s[m + 1]) BY <1>2, <2>1
  <2> QED BY <1>1, <1>5, <2>1, <2>2, <2>3
<1>6. g[Len(s)] = f[Len(s)]
  <2>1. Nat \subseteq T
    <3> HIDE DEF T
    <3> QED BY <1>4, <1>5, NatInduct
  <2> QED BY <1>1, <2>1
<1>7. Len(r) \in 0..Len(r) /\ Len(r) # 0 /\ Len(r) - 1 = Len(s) BY <1>1
<1>8. g[Len(r)] = g[Len(s)] \o IdsOf(t, e) BY <1>1, <1>3, <1>7
<1> QED BY <1>2, <1>3, <1>6, <1>8 DEF r

LEMMA IdsOfType ==
    ASSUME NEW t, NEW m \in Message
    PROVE  IdsOf(t, m) \in Seq(Nat) /\ Len(IdsOf(t, m)) = IF m.to = t THEN Len(m.parts) ELSE 0
<1> DEFINE ids == [i \in DOMAIN m.parts |-> m.parts[i].id]
<1>1. m.parts \in Seq(Part) BY DEF Message
<1>2. \A q \in Part : q.id \in Nat BY DispatchAssumption DEF Part
<1>3. \A i \in DOMAIN m.parts : m.parts[i].id \in Nat BY <1>1, <1>2
<1>4. Len(m.parts) \in Nat /\ DOMAIN m.parts = 1..Len(m.parts) BY <1>1, LenProperties
<1>5. ids \in [1..Len(m.parts) -> Nat] BY <1>3, <1>4
<1>6. ids \in Seq(Nat) /\ Len(ids) = Len(m.parts) BY <1>4, <1>5
<1>7. <<>> \in Seq(Nat) /\ Len(<<>>) = 0 OBVIOUS
<1> HIDE DEF ids
<1>8. IdsOf(t, m) = IF m.to = t THEN ids ELSE <<>> BY DEF IdsOf, ids
<1> QED BY <1>6, <1>7, <1>8

LEMMA IdsForType ==
    ASSUME NEW t, NEW s \in Seq(Message)
    PROVE  IdsFor(t, s) \in Seq(Nat)
<1> DEFINE T == {x \in Seq(Message) : IdsFor(t, x) \in Seq(Nat)}
<1>1. <<>> \in T
  <2>1. <<>> \in Seq(Message) /\ <<>> \in Seq(Nat) OBVIOUS
  <2> QED BY <2>1, IdsForEmpty
<1>2. ASSUME NEW x \in Seq(Message), NEW e \in Message, x \in T PROVE Append(x, e) \in T
  <2>1. IdsFor(t, x) \in Seq(Nat) /\ IdsOf(t, e) \in Seq(Nat) BY <1>2, IdsOfType
  <2>2. IdsFor(t, x) \o IdsOf(t, e) \in Seq(Nat) BY <2>1, ConcatProperties
  <2>3. Append(x, e) \in Seq(Message) BY AppendProperties
  <2> QED BY <2>2, <2>3, IdsForAppend
<1>3. Seq(Message) \subseteq T
  <2> HIDE DEF T
  <2> QED BY <1>1, <1>2, SeqInduct
<1> QED BY <1>3

\* Concatenation of ids is associative, and the empty sequence is neutral.
LEMMA Regroup ==
    ASSUME NEW a \in Seq(Nat), NEW b \in Seq(Nat), NEW c \in Seq(Nat)
    PROVE  (a \o b) \o c = a \o (b \o c)
BY ConcatAssociative

LEMMA NothingMore ==
    ASSUME NEW a \in Seq(Nat)
    PROVE  a \o <<>> = a /\ <<>> \o a = a
BY ConcatEmptySeq

LEMMA JoinedIds ==
    ASSUME NEW a \in Seq(Nat), NEW b \in Seq(Nat)
    PROVE  a \o b \in Seq(Nat)
BY ConcatProperties

\* IdsFor is a homomorphism: the ids of two lanes are those of the first, then those
\* of the second.
LEMMA IdsForConcat ==
    ASSUME NEW t, NEW s \in Seq(Message), NEW r \in Seq(Message)
    PROVE  IdsFor(t, s \o r) = IdsFor(t, s) \o IdsFor(t, r)
<1> DEFINE T == {x \in Seq(Message) : IdsFor(t, s \o x) = IdsFor(t, s) \o IdsFor(t, x)}
<1>0. IdsFor(t, s) \in Seq(Nat) BY IdsForType
<1>1. <<>> \in T
  <2>1. <<>> \in Seq(Message) /\ s \o <<>> = s BY ConcatEmptySeq, EmptySeq
  <2>2. IdsFor(t, s) \o <<>> = IdsFor(t, s) BY ONLY <1>0, NothingMore, Zenon
  <2> QED BY <2>1, <2>2, IdsForEmpty
<1>2. ASSUME NEW x \in Seq(Message), NEW e \in Message, x \in T PROVE Append(x, e) \in T
  <2>1. s \o x \in Seq(Message) /\ Append(x, e) \in Seq(Message)
    BY ConcatProperties, AppendProperties
  <2>2. s \o Append(x, e) = Append(s \o x, e)
    <3>1. <<e>> \in Seq(Message) OBVIOUS
    <3>2. Append(x, e) = x \o <<e>> /\ Append(s \o x, e) = (s \o x) \o <<e>>
      BY <2>1, AppendIsConcat
    <3>3. (s \o x) \o <<e>> = s \o (x \o <<e>>) BY <3>1, ConcatAssociative
    <3> QED BY <3>2, <3>3, Zenon
  <2>3. IdsFor(t, x) \in Seq(Nat) /\ IdsOf(t, e) \in Seq(Nat) BY IdsForType, IdsOfType
  <2>4. IdsFor(t, Append(s \o x, e)) = IdsFor(t, s \o x) \o IdsOf(t, e)
    BY <2>1, IdsForAppend
  <2>5. IdsFor(t, Append(x, e)) = IdsFor(t, x) \o IdsOf(t, e) BY IdsForAppend
  <2>6. IdsFor(t, s \o x) = IdsFor(t, s) \o IdsFor(t, x) BY <1>2
  <2>7. (IdsFor(t, s) \o IdsFor(t, x)) \o IdsOf(t, e)
            = IdsFor(t, s) \o (IdsFor(t, x) \o IdsOf(t, e))
    BY ONLY <1>0, <2>3, Regroup, Zenon
  <2>8. IdsFor(t, s \o Append(x, e)) = IdsFor(t, s) \o IdsFor(t, Append(x, e))
    BY ONLY <2>2, <2>4, <2>5, <2>6, <2>7, Zenon
  <2> QED BY <2>1, <2>8
<1>3. Seq(Message) \subseteq T
  <2> HIDE DEF T
  <2> QED BY <1>1, <1>2, SeqInduct
<1> QED BY <1>3

LEMMA IdsForOne ==
    ASSUME NEW t, NEW m \in Message
    PROVE  IdsFor(t, <<m>>) = IdsOf(t, m)
<1>1. <<>> \in Seq(Message) /\ Append(<<>>, m) = <<m>> OBVIOUS
<1>2. IdsFor(t, Append(<<>>, m)) = IdsFor(t, <<>>) \o IdsOf(t, m) BY <1>1, IdsForAppend
<1>3. IdsOf(t, m) \in Seq(Nat) BY IdsOfType
<1>4. <<>> \o IdsOf(t, m) = IdsOf(t, m) BY ONLY <1>3, NothingMore, Zenon
<1> QED BY <1>1, <1>2, <1>4, IdsForEmpty

\* The oldest message of a lane, then the rest
LEMMA IdsForHead ==
    ASSUME NEW t, NEW s \in Seq(Message), s # <<>>
    PROVE  /\ Head(s) \in Message /\ Tail(s) \in Seq(Message)
           /\ IdsFor(t, s) = IdsOf(t, Head(s)) \o IdsFor(t, Tail(s))
<1>1. Head(s) \in Message /\ Tail(s) \in Seq(Message) /\ <<Head(s)>> \in Seq(Message)
  BY HeadTailProperties
<1>2. s = <<Head(s)>> \o Tail(s) OBVIOUS
<1>3. IdsFor(t, <<Head(s)>> \o Tail(s)) = IdsFor(t, <<Head(s)>>) \o IdsFor(t, Tail(s))
  BY <1>1, IdsForConcat
<1>4. IdsFor(t, <<Head(s)>>) = IdsOf(t, Head(s)) BY <1>1, IdsForOne
<1>5. IdsFor(t, s) = IdsOf(t, Head(s)) \o IdsFor(t, Tail(s)) BY ONLY <1>2, <1>3, <1>4, Zenon
<1> QED BY <1>1, <1>5

-----------------------------------------------------------------------------
(* The refinement: every step of the dispatcher is one of OutboundFifo *)

InHand == IF hand = NoMsg THEN <<>> ELSE <<hand>>

\* The abstract queue of a chat: the message in hand, the one set aside, the bus
LEMMA QueueParts ==
    ASSUME NEW t, NEW h \in Seq(Message), NEW p \in Seq(Message), NEW b \in Seq(Message)
    PROVE  /\ IdsFor(t, h) \in Seq(Nat) /\ IdsFor(t, p) \in Seq(Nat) /\ IdsFor(t, b) \in Seq(Nat)
           /\ IdsFor(t, h \o p \o b) = IdsFor(t, h) \o (IdsFor(t, p) \o IdsFor(t, b))
<1>1. IdsFor(t, h) \in Seq(Nat) /\ IdsFor(t, p) \in Seq(Nat) /\ IdsFor(t, b) \in Seq(Nat)
  BY IdsForType
<1>2. h \o p \in Seq(Message) BY ConcatProperties
<1>3. IdsFor(t, (h \o p) \o b) = IdsFor(t, h \o p) \o IdsFor(t, b) BY <1>2, IdsForConcat
<1>4. IdsFor(t, h \o p) = IdsFor(t, h) \o IdsFor(t, p) BY IdsForConcat
<1>5. (IdsFor(t, h) \o IdsFor(t, p)) \o IdsFor(t, b)
          = IdsFor(t, h) \o (IdsFor(t, p) \o IdsFor(t, b))
  BY ONLY <1>1, Regroup, Zenon
<1>6. IdsFor(t, h \o p \o b) = IdsFor(t, h) \o (IdsFor(t, p) \o IdsFor(t, b))
  BY ONLY <1>3, <1>4, <1>5, Zenon
<1> QED BY <1>1, <1>6

LEMMA QueueNow ==
    ASSUME TypeOK, NEW t
    PROVE  /\ InHand \in Seq(Message) /\ pending \in Seq(Message) /\ bus \in Seq(Message)
           /\ IdsFor(t, InHand) \in Seq(Nat)
           /\ IdsFor(t, pending) \in Seq(Nat)
           /\ IdsFor(t, bus) \in Seq(Nat)
           /\ IdsFor(t, Undecided) = IdsFor(t, InHand) \o (IdsFor(t, pending) \o IdsFor(t, bus))
<1>1. pending \in Seq(Message) /\ bus \in Seq(Message) BY DEF TypeOK
<1>2. InHand \in Seq(Message) BY DEF TypeOK, InHand
<1>3. Undecided = InHand \o pending \o bus BY DEF Undecided, InHand
<1> QED BY <1>1, <1>2, <1>3, QueueParts

LEMMA QueueNext ==
    ASSUME TypeOK', NEW t
    PROVE  /\ InHand' \in Seq(Message) /\ pending' \in Seq(Message) /\ bus' \in Seq(Message)
           /\ IdsFor(t, InHand') \in Seq(Nat)
           /\ IdsFor(t, pending') \in Seq(Nat)
           /\ IdsFor(t, bus') \in Seq(Nat)
           /\ IdsFor(t, Undecided') = IdsFor(t, InHand') \o (IdsFor(t, pending') \o IdsFor(t, bus'))
<1>1. pending' \in Seq(Message) /\ bus' \in Seq(Message) BY DEF TypeOK
<1>2. InHand' \in Seq(Message) BY DEF TypeOK, InHand
<1>3. Undecided' = InHand' \o pending' \o bus' BY DEF Undecided, InHand
<1> QED BY <1>1, <1>2, <1>3, QueueParts

\* Splitting a sequence of ids
LEMMA SplitIds ==
    ASSUME NEW a \in Seq(Nat), NEW b \in Seq(Nat)
    PROVE  /\ Len(a) \in 0..Len(a \o b) /\ Len(a \o b) = Len(a) + Len(b)
           /\ SubSeq(a \o b, 1, Len(a)) = a
           /\ SubSeq(a \o b, Len(a) + 1, Len(a \o b)) = b
<1>1. a \o b \in Seq(Nat) /\ Len(a \o b) = Len(a) + Len(b) /\ Len(a) \in Nat /\ Len(b) \in Nat
  BY ConcatProperties, LenProperties
<1>2. SubSeq(a \o b, 1, Len(a)) = a OBVIOUS
<1>3. SubSeq(a \o b, Len(a) + 1, Len(a \o b)) = b OBVIOUS
<1> QED BY <1>1, <1>2, <1>3

\* A step that shows nothing and leaves the later part of every chat's queue
LEMMA DiscardStep ==
    ASSUME sent' = sent,
           \A t \in Targets : /\ IdsFor(t, Undecided') \in Seq(Nat)
                              /\ \E a \in Seq(Nat) : IdsFor(t, Undecided) = a \o IdsFor(t, Undecided')
    PROVE  Fifo!Discard
<1> DEFINE q == [t \in Targets |-> IdsFor(t, Undecided)]
<1>1. \A t \in Targets : q[t] = IdsFor(t, Undecided) /\ q'[t] = IdsFor(t, Undecided') OBVIOUS
<1>2. DOMAIN q' = Targets OBVIOUS
<1>3. [t \in Targets |-> IdsFor(t, sent[t])]' = [t \in Targets |-> IdsFor(t, sent[t])] OBVIOUS
<1>4. ASSUME NEW t \in Targets
      PROVE  \E k \in 0..Len(q[t]) : q'[t] = SubSeq(q[t], k + 1, Len(q[t]))
  <2>1. PICK a \in Seq(Nat) : IdsFor(t, Undecided) = a \o IdsFor(t, Undecided') OBVIOUS
  <2>2. IdsFor(t, Undecided') \in Seq(Nat) OBVIOUS
  <2>3. /\ Len(a) \in 0..Len(a \o IdsFor(t, Undecided'))
        /\ SubSeq(a \o IdsFor(t, Undecided'), Len(a) + 1, Len(a \o IdsFor(t, Undecided')))
              = IdsFor(t, Undecided')
    BY <2>2, SplitIds
  <2>4. q[t] = a \o IdsFor(t, Undecided') /\ q'[t] = IdsFor(t, Undecided') BY <1>1, <2>1
  <2> HIDE DEF q
  <2>5. Len(a) \in 0..Len(q[t]) /\ q'[t] = SubSeq(q[t], Len(a) + 1, Len(q[t]))
    BY ONLY <2>3, <2>4, Zenon
  <2> QED BY ONLY <2>5, Zenon
<1> QED BY <1>2, <1>3, <1>4 DEF Fifo!Discard

\* A step that changes what the dispatcher holds, not what is queued for a chat
LEMMA SameQueues ==
    ASSUME sent' = sent,
           \A t \in Targets : /\ IdsFor(t, Undecided') \in Seq(Nat)
                              /\ IdsFor(t, Undecided) = IdsFor(t, Undecided')
    PROVE  Fifo!Discard
<1>1. <<>> \in Seq(Nat) OBVIOUS
<1>2. \A t \in Targets : IdsFor(t, Undecided) = <<>> \o IdsFor(t, Undecided') BY NothingMore
<1> QED BY <1>1, <1>2, DiscardStep

LEMMA EmptyHand == hand = NoMsg => InHand = <<>>
BY DEF InHand

\* The message in hand is decided: nothing of it is left, all the rest is.
LEMMA DropRefines ==
    ASSUME TypeOK, TypeOK', hand' = NoMsg, UNCHANGED <<bus, pending, sent>>
    PROVE  Fifo!Discard
<1>1. InHand' = <<>> BY DEF InHand
<1> SUFFICES ASSUME NEW t \in Targets
             PROVE  /\ IdsFor(t, Undecided') \in Seq(Nat)
                    /\ \E a \in Seq(Nat) : IdsFor(t, Undecided) = a \o IdsFor(t, Undecided')
  BY DiscardStep
<1> DEFINE rest == IdsFor(t, pending) \o IdsFor(t, bus)
<1>2. /\ IdsFor(t, InHand) \in Seq(Nat)
      /\ IdsFor(t, pending) \in Seq(Nat) /\ IdsFor(t, bus) \in Seq(Nat)
      /\ IdsFor(t, Undecided) = IdsFor(t, InHand) \o rest
  BY QueueNow
<1>3. IdsFor(t, Undecided') = IdsFor(t, InHand') \o rest BY QueueNext
<1>4. rest \in Seq(Nat) BY ONLY <1>2, JoinedIds, Zenon
<1> HIDE DEF rest
<1>5. IdsFor(t, InHand') = <<>> BY <1>1, IdsForEmpty
<1>6. <<>> \o rest = rest BY ONLY <1>4, NothingMore, Zenon
<1> QED BY <1>2, <1>3, <1>4, <1>5, <1>6

\* stop_all drops what the dispatcher holds; the bus keeps what it has.
LEMMA StopAllRefines ==
    ASSUME TypeOK, TypeOK', StopAll
    PROVE  Fifo!Discard
<1>1. InHand' = <<>> /\ pending' = <<>> /\ bus' = bus /\ sent' = sent BY DEF InHand, StopAll
<1> SUFFICES ASSUME NEW t \in Targets
             PROVE  /\ IdsFor(t, Undecided') \in Seq(Nat)
                    /\ \E a \in Seq(Nat) : IdsFor(t, Undecided) = a \o IdsFor(t, Undecided')
  BY <1>1, DiscardStep
<1>2. /\ IdsFor(t, InHand) \in Seq(Nat)
      /\ IdsFor(t, pending) \in Seq(Nat) /\ IdsFor(t, bus) \in Seq(Nat)
      /\ IdsFor(t, Undecided) = IdsFor(t, InHand) \o (IdsFor(t, pending) \o IdsFor(t, bus))
  BY QueueNow
<1>3. IdsFor(t, Undecided') = <<>> \o (<<>> \o IdsFor(t, bus)) BY <1>1, QueueNext, IdsForEmpty
<1>4. IdsFor(t, Undecided') = IdsFor(t, bus) BY ONLY <1>2, <1>3, NothingMore, Zenon
<1>5. /\ IdsFor(t, InHand) \o IdsFor(t, pending) \in Seq(Nat)
      /\ IdsFor(t, Undecided) = (IdsFor(t, InHand) \o IdsFor(t, pending)) \o IdsFor(t, bus)
  <2>1. IdsFor(t, InHand) \o IdsFor(t, pending) \in Seq(Nat) BY ONLY <1>2, JoinedIds, Zenon
  <2>2. IdsFor(t, Undecided) = (IdsFor(t, InHand) \o IdsFor(t, pending)) \o IdsFor(t, bus)
    BY ONLY <1>2, Regroup, Zenon
  <2> QED BY ONLY <2>1, <2>2, Zenon
<1> QED BY <1>2, <1>4, <1>5

\* The message m was the oldest and is filtered or is now in hand.
LEMMA HandleRefines ==
    ASSUME TypeOK, TypeOK', NEW m \in Message, Handle(m), hand = NoMsg, sent' = sent,
           pending' = <<>>,
           \A t \in Targets : IdsFor(t, pending) \o IdsFor(t, bus) = IdsOf(t, m) \o IdsFor(t, bus')
    PROVE  Fifo!Discard
<1>1. m # NoMsg BY DispatchAssumption
<1> SUFFICES ASSUME NEW t \in Targets
             PROVE  /\ IdsFor(t, Undecided') \in Seq(Nat)
                    /\ \E a \in Seq(Nat) : IdsFor(t, Undecided) = a \o IdsFor(t, Undecided')
  BY DiscardStep
<1>2. IdsOf(t, m) \in Seq(Nat) BY IdsOfType
<1>3. /\ IdsFor(t, pending) \in Seq(Nat) /\ IdsFor(t, bus) \in Seq(Nat)
      /\ IdsFor(t, Undecided) = <<>> \o (IdsFor(t, pending) \o IdsFor(t, bus))
  BY EmptyHand, QueueNow, IdsForEmpty
<1>4. IdsFor(t, pending) \o IdsFor(t, bus) \in Seq(Nat) BY ONLY <1>3, JoinedIds, Zenon
<1>5. IdsFor(t, Undecided) = IdsOf(t, m) \o IdsFor(t, bus')
  <2>1. IdsFor(t, Undecided) = IdsFor(t, pending) \o IdsFor(t, bus)
    BY ONLY <1>3, <1>4, NothingMore, Zenon
  <2> QED BY <2>1
<1>6. /\ IdsFor(t, bus') \in Seq(Nat)
      /\ IdsFor(t, Undecided') = IdsFor(t, InHand') \o (<<>> \o IdsFor(t, bus'))
  BY QueueNext, IdsForEmpty
<1>7. IdsFor(t, Undecided') = IdsFor(t, InHand') \o IdsFor(t, bus')
  BY ONLY <1>6, NothingMore, Zenon
<1>8. CASE Filtered(m)
  <2>1. InHand' = <<>> BY <1>8 DEF Handle, InHand
  <2>2. IdsFor(t, Undecided') = <<>> \o IdsFor(t, bus') BY <1>7, <2>1, IdsForEmpty
  <2>3. IdsFor(t, Undecided') = IdsFor(t, bus') BY ONLY <1>6, <2>2, NothingMore, Zenon
  <2> QED BY <1>2, <1>5, <1>6, <2>3
<1>9. CASE ~Filtered(m)
  <2>1. InHand' = <<m>> BY <1>1, <1>9 DEF Handle, InHand
  <2>2. IdsFor(t, InHand') = IdsOf(t, m) BY <2>1, IdsForOne
  <2>3. IdsFor(t, Undecided') = IdsFor(t, Undecided) BY <1>5, <1>7, <2>2
  <2>4. IdsFor(t, Undecided') \in Seq(Nat)
    <3>1. IdsOf(t, m) \o IdsFor(t, bus') \in Seq(Nat) BY ONLY <1>2, <1>6, JoinedIds, Zenon
    <3> QED BY <1>5, <2>3, <3>1
  <2>5. <<>> \in Seq(Nat) /\ <<>> \o IdsFor(t, Undecided') = IdsFor(t, Undecided')
    <3>1. <<>> \in Seq(Nat) OBVIOUS
    <3>2. <<>> \o IdsFor(t, Undecided') = IdsFor(t, Undecided') BY ONLY <2>4, NothingMore, Zenon
    <3> QED BY <3>1, <3>2
  <2> QED BY <2>3, <2>4, <2>5
<1> QED BY <1>8, <1>9

\* The replay buffer holds one message at most, so popping its back takes the oldest.
LEMMA TakePendingRefines ==
    ASSUME DispatchInv, TypeOK', TakePending
    PROVE  Fifo!Discard
<1>0. TypeOK /\ PendingInv BY DEF DispatchInv
<1>1. pending \in Seq(Message) /\ Len(pending) <= 1 /\ pending # <<>> /\ bus \in Seq(Message)
  BY <1>0 DEF TypeOK, PendingInv, TakePending
<1> DEFINE m == pending[1]
<1>2. Len(pending) = 1 /\ m \in Message /\ pending = <<m>>
  <2>1. Len(pending) \in Nat \ {0} /\ Len(pending) <= 1 BY <1>1, EmptySeq
  <2>2. Len(pending) = 1
    <3>1. \A k \in Nat \ {0} : k <= 1 => k = 1 OBVIOUS
    <3> QED BY ONLY <2>1, <3>1, Zenon
  <2>3. pending[1] \in Message /\ pending = <<pending[1]>> BY <1>1, <2>2
  <2> QED BY <2>2, <2>3
<1>3. Last(pending) = m /\ Front(pending) = <<>> BY <1>1, <1>2 DEF Last, Front
<1>4. pc = "take" /\ Handle(m) /\ pending' = <<>> /\ UNCHANGED <<bus, sent>>
  BY <1>3 DEF TakePending
<1>5. hand = NoMsg BY <1>0, <1>4 DEF TypeOK
<1> HIDE DEF m
<1>6. \A t \in Targets : IdsFor(t, pending) = IdsOf(t, m) BY <1>2, IdsForOne
<1> QED BY <1>0, <1>2, <1>4, <1>5, <1>6, HandleRefines

LEMMA TakeBusRefines ==
    ASSUME DispatchInv, TypeOK', TakeBus
    PROVE  Fifo!Discard
<1>0. TypeOK BY DEF DispatchInv
<1> DEFINE m == Head(bus)
<1>1. /\ pc = "take" /\ pending = <<>> /\ bus # <<>> /\ Handle(m) /\ bus' = Tail(bus)
      /\ UNCHANGED <<pending, sent>>
  BY DEF TakeBus
<1>2. hand = NoMsg /\ bus \in Seq(Message) BY <1>0, <1>1 DEF TypeOK
<1>3. m \in Message /\ Tail(bus) \in Seq(Message) BY <1>1, <1>2, HeadTailProperties
<1>4. \A t \in Targets : IdsFor(t, bus) = IdsOf(t, m) \o IdsFor(t, bus') BY <1>1, <1>2, IdsForHead
<1>5. \A t \in Targets : IdsFor(t, pending) \o IdsFor(t, bus) = IdsFor(t, bus)
  <2>1. \A t \in Targets : IdsFor(t, bus) \in Seq(Nat) BY <1>2, IdsForType
  <2>2. \A t \in Targets : IdsFor(t, pending) = <<>> BY <1>1, IdsForEmpty
  <2> QED BY <2>1, <2>2, NothingMore
<1> HIDE DEF m
<1> QED BY <1>0, <1>1, <1>2, <1>3, <1>4, <1>5, HandleRefines

\* A delta that joins the message in hand keeps its place behind it; a message that
\* does not is set aside in front of the bus it came from.
LEMMA MergeRefines ==
    ASSUME DispatchInv, TypeOK', Merge
    PROVE  Fifo!Discard
<1>0. TypeOK /\ PendingInv BY DEF DispatchInv
<1> DEFINE m == Head(bus)
           g == [to |-> hand.to,
                 flags |-> hand.flags \cup (m.flags \cap {"_stream_end"}),
                 parts |-> hand.parts \o m.parts]
<1>1. pc = "merge" /\ bus # <<>> /\ bus' = Tail(bus) /\ sent' = sent BY DEF Merge
<1>2. hand # NoMsg /\ hand \in Message /\ pending = <<>> /\ bus \in Seq(Message)
  BY <1>0, <1>1 DEF TypeOK, PendingInv
<1>3. m \in Message /\ Tail(bus) \in Seq(Message) BY <1>1, <1>2, HeadTailProperties
<1> SUFFICES ASSUME NEW t \in Targets
             PROVE  /\ IdsFor(t, Undecided') \in Seq(Nat)
                    /\ IdsFor(t, Undecided) = IdsFor(t, Undecided')
  BY <1>1, SameQueues
<1>4. IdsFor(t, bus) = IdsOf(t, m) \o IdsFor(t, bus') BY <1>1, <1>2, IdsForHead
<1>5. InHand = <<hand>> BY <1>2 DEF InHand
<1>6. /\ IdsOf(t, hand) \in Seq(Nat) /\ IdsOf(t, m) \in Seq(Nat) /\ IdsFor(t, bus') \in Seq(Nat)
      /\ IdsFor(t, bus) \in Seq(Nat)
  BY <1>1, <1>2, <1>3, IdsOfType, IdsForType
<1>7. IdsFor(t, Undecided) = IdsOf(t, hand) \o (IdsOf(t, m) \o IdsFor(t, bus'))
  <2>1. IdsFor(t, InHand) = IdsOf(t, hand) /\ IdsFor(t, pending) = <<>>
    BY <1>2, <1>5, IdsForOne, IdsForEmpty
  <2>2. IdsFor(t, Undecided) = IdsOf(t, hand) \o (<<>> \o IdsFor(t, bus))
    BY <1>0, <2>1, QueueNow
  <2>3. <<>> \o IdsFor(t, bus) = IdsFor(t, bus) BY ONLY <1>6, NothingMore, Zenon
  <2> QED BY ONLY <1>4, <2>2, <2>3, Zenon
<1>8. CASE Joins(m)
  <2>1. hand' = g /\ pending' = <<>> /\ m.to = hand.to BY <1>2, <1>8 DEF Merge, Joins
  <2>2. /\ hand.parts \in Seq(Part) /\ m.parts \in Seq(Part) /\ hand.flags \subseteq Flags
        /\ m.flags \subseteq Flags /\ hand.to \in Targets
    BY <1>2, <1>3 DEF Message
  <2>3. g.to = hand.to /\ g.parts = hand.parts \o m.parts OBVIOUS
  <2>4. hand.parts \o m.parts \in Seq(Part) BY <2>2, ConcatProperties
  <2>5. g \in Message BY <2>2, <2>4 DEF Message
  <2> HIDE DEF g
  <2>6. IdsOf(t, g) = IdsOf(t, hand) \o IdsOf(t, m)
    <3>1. CASE hand.to # t
      <4>1. IdsOf(t, g) = <<>> /\ IdsOf(t, hand) = <<>> /\ IdsOf(t, m) = <<>>
        BY <2>1, <2>3, <3>1 DEF IdsOf
      <4>2. <<>> \o <<>> = <<>> OBVIOUS
      <4> QED BY <4>1, <4>2
    <3>2. CASE hand.to = t
      <4>1. ASSUME NEW x \in Seq(Part), NEW y \in Seq(Part)
            PROVE  [i \in DOMAIN (x \o y) |-> (x \o y)[i].id]
                     = [i \in DOMAIN x |-> x[i].id] \o [i \in DOMAIN y |-> y[i].id]
        <5> DEFINE u == [i \in DOMAIN x |-> x[i].id]
                   v == [i \in DOMAIN y |-> y[i].id]
                   w == [i \in DOMAIN (x \o y) |-> (x \o y)[i].id]
        <5>1. \A q \in Part : q.id \in Nat BY DispatchAssumption DEF Part
        <5>2. ASSUME NEW z \in Seq(Part)
              PROVE  /\ [i \in DOMAIN z |-> z[i].id] \in Seq(Nat)
                     /\ Len([i \in DOMAIN z |-> z[i].id]) = Len(z)
                     /\ \A i \in 1..Len(z) : [j \in DOMAIN z |-> z[j].id][i] = z[i].id
          <6>1. Len(z) \in Nat /\ DOMAIN z = 1..Len(z) BY LenProperties
          <6>2. \A i \in 1..Len(z) : z[i].id \in Nat BY <5>1, ElementOfSeq
          <6> DEFINE ids == [i \in DOMAIN z |-> z[i].id]
          <6>3. ids \in [1..Len(z) -> Nat] BY <6>1, <6>2
          <6>4. ids \in Seq(Nat) /\ Len(ids) = Len(z) BY <6>1, <6>3
          <6> QED BY <6>1, <6>4
        <5>3. /\ x \o y \in Seq(Part) /\ Len(x \o y) = Len(x) + Len(y)
              /\ \A i \in 1..(Len(x) + Len(y)) :
                    (x \o y)[i] = IF i <= Len(x) THEN x[i] ELSE y[i - Len(x)]
          BY ConcatProperties
        <5>4. /\ u \in Seq(Nat) /\ Len(u) = Len(x) /\ \A i \in 1..Len(x) : u[i] = x[i].id
              /\ v \in Seq(Nat) /\ Len(v) = Len(y) /\ \A i \in 1..Len(y) : v[i] = y[i].id
          BY <5>2
        <5>5. /\ w \in Seq(Nat) /\ Len(w) = Len(x) + Len(y)
              /\ \A i \in 1..(Len(x) + Len(y)) : w[i] = (x \o y)[i].id
          BY <5>2, <5>3
        <5> HIDE DEF u, v, w
        <5>6. /\ u \o v \in Seq(Nat) /\ Len(u \o v) = Len(x) + Len(y)
              /\ \A i \in 1..(Len(x) + Len(y)) :
                    (u \o v)[i] = IF i <= Len(x) THEN u[i] ELSE v[i - Len(x)]
          BY <5>4, ConcatProperties
        <5>7. Len(x) \in Nat /\ Len(y) \in Nat BY LenProperties
        <5>8. ASSUME NEW i \in 1..(Len(x) + Len(y)) PROVE w[i] = (u \o v)[i]
          <6>1. CASE i <= Len(x)
            <7>1. i \in 1..Len(x) BY <5>7, <6>1
            <7> QED BY <5>3, <5>4, <5>5, <5>6, <6>1, <7>1
          <6>2. CASE ~(i <= Len(x))
            <7>1. i - Len(x) \in 1..Len(y) BY <5>7, <6>2
            <7> QED BY <5>3, <5>4, <5>5, <5>6, <6>2, <7>1
          <6> QED BY <6>1, <6>2
        <5>9. w = u \o v BY <5>5, <5>6, <5>8, SeqEqual
        <5> QED BY <5>9 DEF u, v, w
      <4> QED BY <2>1, <2>2, <2>3, <3>2, <4>1 DEF IdsOf
    <3> QED BY <3>1, <3>2
  <2>7. InHand' = <<g>>
    <3>1. g # NoMsg BY <2>5, DispatchAssumption
    <3> QED BY <2>1, <3>1 DEF InHand
  <2>8. IdsFor(t, InHand') = IdsOf(t, g) /\ IdsFor(t, pending') = <<>>
    BY <2>1, <2>5, <2>7, IdsForOne, IdsForEmpty
  <2>9. IdsFor(t, Undecided') = IdsOf(t, g) \o (<<>> \o IdsFor(t, bus')) BY <2>8, QueueNext
  <2>10. /\ <<>> \o IdsFor(t, bus') = IdsFor(t, bus')
         /\ (IdsOf(t, hand) \o IdsOf(t, m)) \o IdsFor(t, bus')
               = IdsOf(t, hand) \o (IdsOf(t, m) \o IdsFor(t, bus'))
         /\ IdsOf(t, hand) \o (IdsOf(t, m) \o IdsFor(t, bus')) \in Seq(Nat)
    <3>1. <<>> \o IdsFor(t, bus') = IdsFor(t, bus') BY ONLY <1>6, NothingMore, Zenon
    <3>2. (IdsOf(t, hand) \o IdsOf(t, m)) \o IdsFor(t, bus')
               = IdsOf(t, hand) \o (IdsOf(t, m) \o IdsFor(t, bus'))
      BY ONLY <1>6, Regroup, Zenon
    <3>3. IdsOf(t, m) \o IdsFor(t, bus') \in Seq(Nat) BY ONLY <1>6, JoinedIds, Zenon
    <3>4. IdsOf(t, hand) \o (IdsOf(t, m) \o IdsFor(t, bus')) \in Seq(Nat)
      BY ONLY <1>6, <3>3, JoinedIds, Zenon
    <3> QED BY ONLY <3>1, <3>2, <3>3, <3>4, Zenon
  <2>11. IdsFor(t, Undecided') = IdsOf(t, hand) \o (IdsOf(t, m) \o IdsFor(t, bus'))
    BY ONLY <2>6, <2>9, <2>10, Zenon
  <2> QED BY ONLY <1>7, <2>10, <2>11, Zenon
<1>9. CASE ~Joins(m)
  <2>1. hand' = hand /\ pending' = <<m>> BY <1>2, <1>9 DEF Merge
  <2>2. InHand' = <<hand>> BY <1>2, <2>1 DEF InHand
  <2>3. IdsFor(t, InHand') = IdsOf(t, hand) /\ IdsFor(t, pending') = IdsOf(t, m)
    BY <1>2, <1>3, <2>1, <2>2, IdsForOne
  <2>4. IdsFor(t, Undecided') = IdsOf(t, hand) \o (IdsOf(t, m) \o IdsFor(t, bus'))
    BY <2>3, QueueNext
  <2>5. IdsOf(t, hand) \o (IdsOf(t, m) \o IdsFor(t, bus')) \in Seq(Nat)
    BY ONLY <1>6, JoinedIds, Zenon
  <2> QED BY ONLY <1>7, <2>4, <2>5, Zenon
<1> QED BY <1>8, <1>9

\* A new message goes behind everything that is queued for its chat.
LEMMA PublishRefines ==
    ASSUME DispatchInv, TypeOK', NEW t \in Targets, NEW f \in FlagSets, Publish(t, f)
    PROVE  Fifo!Publish(t, n + 1) /\ n + 1 \in 1..MaxMsgs
<1> DEFINE p == [id |-> n + 1, flags |-> f]
           e == [to |-> t, flags |-> f, parts |-> <<p>>]
           q == [u \in Targets |-> IdsFor(u, Undecided)]
<1>0. TypeOK BY DEF DispatchInv
<1>1. n \in Nat /\ n + 1 \in 1..MaxMsgs /\ f \in SUBSET Flags
  BY <1>0, DispatchAssumption DEF TypeOK, Publish
<1>2. bus' = Append(bus, e) /\ UNCHANGED <<pending, hand, sent>> BY DEF Publish
<1>3. p \in Part /\ p.id = n + 1 BY <1>1 DEF Part
<1>4. e \in Message /\ e.to = t /\ e.parts = <<p>> BY <1>1, <1>3 DEF Message
<1>5. DOMAIN <<p>> = {1} /\ <<p>>[1] = p OBVIOUS
<1> HIDE DEF p, e, q
<1>6. IdsOf(t, e) = <<n + 1>>
  <2>1. IdsOf(t, e) = [i \in {1} |-> n + 1] BY <1>3, <1>4, <1>5 DEF IdsOf
  <2>2. [i \in {1} |-> n + 1] = <<n + 1>> OBVIOUS
  <2> QED BY <2>1, <2>2
<1>7. \A u : u # t => IdsOf(u, e) = <<>> BY <1>4 DEF IdsOf
<1>8. bus \in Seq(Message) BY <1>0 DEF TypeOK
<1>9. ASSUME NEW u \in Targets
      PROVE  /\ IdsFor(u, Undecided) \in Seq(Nat)
             /\ IdsFor(u, Undecided') = IdsFor(u, Undecided) \o IdsOf(u, e)
  <2>1. /\ IdsFor(u, InHand) \in Seq(Nat) /\ IdsFor(u, pending) \in Seq(Nat)
        /\ IdsFor(u, bus) \in Seq(Nat)
        /\ IdsFor(u, Undecided) = IdsFor(u, InHand) \o (IdsFor(u, pending) \o IdsFor(u, bus))
    BY <1>0, QueueNow
  <2>2. IdsFor(u, bus') = IdsFor(u, bus) \o IdsOf(u, e) BY <1>2, <1>4, <1>8, IdsForAppend
  <2>3. IdsFor(u, Undecided') = IdsFor(u, InHand) \o (IdsFor(u, pending) \o IdsFor(u, bus'))
    <3>1. InHand' = InHand BY <1>2 DEF InHand
    <3> QED BY <1>2, <3>1, QueueNext
  <2>4. IdsOf(u, e) \in Seq(Nat) BY <1>4, IdsOfType
  <2>5. /\ IdsFor(u, pending) \o IdsFor(u, bus) \in Seq(Nat)
        /\ IdsFor(u, InHand) \o (IdsFor(u, pending) \o IdsFor(u, bus)) \in Seq(Nat)
    BY ONLY <2>1, JoinedIds, Zenon
  <2>6. IdsFor(u, pending) \o (IdsFor(u, bus) \o IdsOf(u, e))
          = (IdsFor(u, pending) \o IdsFor(u, bus)) \o IdsOf(u, e)
    BY ONLY <2>1, <2>4, Regroup, Zenon
  <2>7. IdsFor(u, InHand) \o ((IdsFor(u, pending) \o IdsFor(u, bus)) \o IdsOf(u, e))
          = (IdsFor(u, InHand) \o (IdsFor(u, pending) \o IdsFor(u, bus))) \o IdsOf(u, e)
    BY ONLY <2>1, <2>4, <2>5, Regroup, Zenon
  <2> QED BY ONLY <2>1, <2>2, <2>3, <2>5, <2>6, <2>7, Zenon
<1>10. ASSUME NEW u \in Targets
       PROVE  q'[u] = IF u = t THEN Append(q[u], n + 1) ELSE q[u]
  <2>1. q[u] = IdsFor(u, Undecided) /\ q'[u] = IdsFor(u, Undecided') BY DEF q
  <2>2. q[u] \in Seq(Nat) /\ q'[u] = q[u] \o IdsOf(u, e) BY <1>9, <2>1
  <2>3. CASE u = t
    <3>1. q[u] \o <<n + 1>> = Append(q[u], n + 1) BY <1>1, <2>2, AppendIsConcat
    <3> QED BY <1>6, <2>2, <2>3, <3>1
  <2>4. CASE u # t
    <3>1. q[u] \o <<>> = q[u] BY ONLY <2>2, NothingMore, Zenon
    <3> QED BY <1>7, <2>2, <2>4, <3>1
  <2> QED BY <2>3, <2>4
<1>11. q' = [q EXCEPT ![t] = Append(q[t], n + 1)] BY <1>10 DEF q
<1>12. [u \in Targets |-> IdsFor(u, sent[u])]' = [u \in Targets |-> IdsFor(u, sent[u])] BY <1>2
<1> QED BY <1>1, <1>11, <1>12 DEF Fifo!Publish, q

\* What the channel accepts is the whole message in hand, the oldest of its chat.
LEMMA SendOkRefines ==
    ASSUME DispatchInv, TypeOK', SendOk
    PROVE  Fifo!Next
<1> DEFINE c == hand.to
           k == Len(hand.parts)
           q == [t \in Targets |-> IdsFor(t, Undecided)]
           o == [t \in Targets |-> IdsFor(t, sent[t])]
<1>0. TypeOK BY DEF DispatchInv
<1>1. /\ pc = "send" /\ sent' = [sent EXCEPT ![c] = Append(sent[c], hand)]
      /\ hand' = NoMsg /\ UNCHANGED <<bus, pending>>
  BY DEF SendOk, Done
<1>2. /\ hand # NoMsg /\ hand \in Message /\ c \in Targets /\ sent \in [Targets -> Seq(Message)]
      /\ k \in Nat
  <2>1. hand \in Message /\ hand # NoMsg BY <1>0, <1>1 DEF TypeOK
  <2>2. c \in Targets /\ hand.parts \in Seq(Part) BY <2>1 DEF Message
  <2>3. k \in Nat BY <2>2, LenProperties
  <2> QED BY <1>0, <2>1, <2>2, <2>3 DEF TypeOK
<1>3. InHand = <<hand>> /\ InHand' = <<>> BY <1>1, <1>2 DEF InHand
<1>4. \A t \in Targets : /\ q[t] = IdsFor(t, Undecided) /\ q'[t] = IdsFor(t, Undecided')
                         /\ o[t] = IdsFor(t, sent[t]) /\ o'[t] = IdsFor(t, sent'[t])
  OBVIOUS
<1>5. q = [t \in Targets |-> q[t]] /\ q' = [t \in Targets |-> q'[t]] /\ o = [t \in Targets |-> o[t]]
      /\ o' = [t \in Targets |-> o'[t]]
  OBVIOUS
<1> HIDE DEF c, k, q, o
<1>6. ASSUME NEW t \in Targets
      PROVE  /\ IdsOf(t, hand) \in Seq(Nat) /\ q'[t] \in Seq(Nat)
             /\ q[t] = IdsOf(t, hand) \o q'[t]
  <2> DEFINE rest == IdsFor(t, pending) \o IdsFor(t, bus)
  <2>1. /\ IdsFor(t, pending) \in Seq(Nat) /\ IdsFor(t, bus) \in Seq(Nat)
        /\ IdsFor(t, Undecided) = IdsFor(t, InHand) \o rest
    BY <1>0, QueueNow
  <2>2. IdsFor(t, Undecided') = IdsFor(t, InHand') \o rest BY <1>1, QueueNext
  <2>3. IdsFor(t, InHand) = IdsOf(t, hand) /\ IdsFor(t, InHand') = <<>>
    BY <1>2, <1>3, IdsForOne, IdsForEmpty
  <2>4. IdsOf(t, hand) \in Seq(Nat) BY <1>2, IdsOfType
  <2>5. rest \in Seq(Nat) BY ONLY <2>1, JoinedIds, Zenon
  <2> HIDE DEF rest
  <2>6. <<>> \o rest = rest BY ONLY <2>5, NothingMore, Zenon
  <2>7. IdsFor(t, Undecided') = rest BY ONLY <2>2, <2>3, <2>6, Zenon
  <2> QED BY <1>4, <2>1, <2>3, <2>4, <2>5, <2>7
<1>7. ASSUME NEW t \in Targets PROVE o[t] \in Seq(Nat) /\ o'[t] = o[t] \o IdsOf(t, hand)
  <2>1. sent[t] \in Seq(Message) BY <1>2
  <2>2. o[t] \in Seq(Nat) BY <1>4, <2>1, IdsForType
  <2>3. CASE t = c
    <3>1. sent'[t] = Append(sent[t], hand) BY <1>1, <1>2, <2>3
    <3>2. IdsFor(t, Append(sent[t], hand)) = IdsFor(t, sent[t]) \o IdsOf(t, hand)
      BY <1>2, <2>1, IdsForAppend
    <3> QED BY <1>4, <2>2, <3>1, <3>2
  <2>4. CASE t # c
    <3>1. sent'[t] = sent[t] BY <1>1, <1>2, <2>4
    <3>2. IdsOf(t, hand) = <<>> BY <2>4 DEF IdsOf, c
    <3>3. o[t] \o <<>> = o[t] BY ONLY <2>2, NothingMore, Zenon
    <3> QED BY <1>4, <2>2, <3>1, <3>2, <3>3
  <2> QED BY <2>3, <2>4
<1>8. \A t \in Targets : t # c => IdsOf(t, hand) = <<>> BY DEF IdsOf, c
<1>9. ASSUME NEW t \in Targets, IdsOf(t, hand) = <<>> PROVE q'[t] = q[t] /\ o'[t] = o[t]
  <2>1. q'[t] \in Seq(Nat) /\ o[t] \in Seq(Nat) BY <1>6, <1>7
  <2>2. <<>> \o q'[t] = q'[t] /\ o[t] \o <<>> = o[t]
    <3>1. <<>> \o q'[t] = q'[t] BY ONLY <2>1, NothingMore, Zenon
    <3>2. o[t] \o <<>> = o[t] BY ONLY <2>1, NothingMore, Zenon
    <3> QED BY ONLY <3>1, <3>2, Zenon
  <2>3. q[t] = <<>> \o q'[t] /\ o'[t] = o[t] \o <<>> BY <1>6, <1>7, <1>9
  <2> QED BY ONLY <2>2, <2>3, Zenon
<1>10. Len(IdsOf(c, hand)) = k BY <1>2, IdsOfType DEF c, k
<1>11. CASE k = 0
  <2>1. IdsOf(c, hand) = <<>> BY <1>2, <1>6, <1>10, <1>11, EmptySeq
  <2>2. \A t \in Targets : IdsOf(t, hand) = <<>> BY <1>8, <2>1
  <2>3. \A t \in Targets : q'[t] = q[t] /\ o'[t] = o[t] BY <1>9, <2>2
  <2>4. q' = q /\ o' = o BY <1>5, <2>3
  <2>5. \A t \in Targets : \E j \in 0..Len(q[t]) : q'[t] = SubSeq(q[t], j + 1, Len(q[t]))
    <3> SUFFICES ASSUME NEW t \in Targets
                 PROVE  0 \in 0..Len(q[t]) /\ q'[t] = SubSeq(q[t], 0 + 1, Len(q[t]))
      OBVIOUS
    <3>1. q[t] \in Seq(Nat) BY <1>6, <2>3
    <3>2. SubSeq(q[t], 1, Len(q[t])) = q[t] /\ Len(q[t]) \in Nat BY <3>1, SubSeqFull, LenProperties
    <3> QED BY <2>3, <3>2
  <2>6. DOMAIN q' = Targets BY <1>5
  <2>7. Fifo!Discard BY <2>4, <2>5, <2>6 DEF Fifo!Discard, q, o
  <2> QED BY <2>7 DEF Fifo!Next
<1>12. CASE k # 0
  <2> DEFINE a == IdsOf(c, hand)
             b == q'[c]
  <2>1. a \in Seq(Nat) /\ b \in Seq(Nat) /\ q[c] = a \o b /\ Len(a) = k BY <1>2, <1>6, <1>10
  <2> HIDE DEF a, b
  <2>2. /\ k \in 0..Len(q[c]) /\ SubSeq(q[c], 1, k) = a /\ SubSeq(q[c], k + 1, Len(q[c])) = b
    <3>1. /\ Len(a) \in 0..Len(a \o b) /\ SubSeq(a \o b, 1, Len(a)) = a
          /\ SubSeq(a \o b, Len(a) + 1, Len(a \o b)) = b
      BY ONLY <2>1, SplitIds, Zenon
    <3> QED BY ONLY <2>1, <3>1, Zenon
  <2>3. k \in 1..Len(q[c]) BY <1>12, <2>2
  <2>4. o' = [o EXCEPT ![c] = o[c] \o SubSeq(q[c], 1, k)]
    <3>1. o'[c] = o[c] \o SubSeq(q[c], 1, k) BY <1>2, <1>7, <2>2 DEF a
    <3>2. \A t \in Targets : t # c => o'[t] = o[t] BY <1>8, <1>9
    <3> QED BY <1>2, <1>5, <3>1, <3>2
  <2>5. q' = [q EXCEPT ![c] = SubSeq(q[c], k + 1, Len(q[c]))]
    <3>1. q'[c] = SubSeq(q[c], k + 1, Len(q[c])) BY <2>2 DEF b
    <3>2. \A t \in Targets : t # c => q'[t] = q[t] BY <1>8, <1>9
    <3> QED BY <1>2, <1>5, <3>1, <3>2
  <2>6. Fifo!Deliver(c, k) BY <2>4, <2>5 DEF Fifo!Deliver, q, o
  <2>7. k \in 1..Len([t \in Targets |-> IdsFor(t, Undecided)][c]) BY <2>3 DEF q
  <2> QED BY <1>2, <2>6, <2>7 DEF Fifo!Next
<1> QED BY <1>11, <1>12

LEMMA NextRefines ==
    DispatchInv /\ DispatchInv' /\ [Next]_vars => [Fifo!Next]_Fifo!vars
<1> SUFFICES ASSUME DispatchInv, DispatchInv', [Next]_vars PROVE [Fifo!Next]_Fifo!vars
  OBVIOUS
<1>0. TypeOK /\ TypeOK' BY DEF DispatchInv
<1>1. CASE UNCHANGED <<bus, pending, hand, sent>>
  <2>1. Undecided' = Undecided BY <1>1 DEF Undecided
  <2>2. sent' = sent BY <1>1
  <2> QED BY <2>1, <2>2 DEF Fifo!vars
<1>2. CASE StopAll BY <1>0, <1>2, StopAllRefines DEF Fifo!Next
<1>3. CASE \E t \in Targets, f \in FlagSets : Publish(t, f)
  <2>1. PICK t \in Targets, f \in FlagSets : Publish(t, f) BY <1>3
  <2>2. Fifo!Publish(t, n + 1) /\ n + 1 \in 1..MaxMsgs BY <1>0, <2>1, PublishRefines
  <2> QED BY <2>2 DEF Fifo!Next
<1>4. CASE Dispatch
  <2>1. CASE TakePending BY <1>0, <2>1, TakePendingRefines DEF Fifo!Next
  <2>2. CASE TakeBus BY <1>0, <2>2, TakeBusRefines DEF Fifo!Next
  <2>3. CASE Merge BY <1>0, <2>3, MergeRefines DEF Fifo!Next
  <2>4. CASE MergeTimeout BY <1>1, <2>4 DEF MergeTimeout
  <2>5. CASE Skip
    <3>1. hand' = NoMsg /\ UNCHANGED <<bus, pending, sent>> BY <2>5 DEF Skip, Done
    <3> QED BY <1>0, <3>1, DropRefines DEF Fifo!Next
  <2>6. CASE SendOk BY <1>0, <2>6, SendOkRefines
  <2>7. CASE SendFail
    <3>1. CASE attempt = MaxAttempts - 1
      <4>1. hand' = NoMsg /\ UNCHANGED <<bus, pending, sent>> BY <2>7, <3>1 DEF SendFail, Done
      <4> QED BY <1>0, <4>1, DropRefines DEF Fifo!Next
    <3>2. CASE attempt # MaxAttempts - 1 BY <1>1, <2>7, <3>2 DEF SendFail
    <3> QED BY <3>1, <3>2
  <2> QED BY <1>4, <2>1, <2>2, <2>3, <2>4, <2>5, <2>6, <2>7 DEF Dispatch
<1>5. CASE StartAll BY <1>1, <1>5 DEF StartAll
<1>6. CASE UNCHANGED vars BY <1>1, <1>6 DEF vars
<1> QED BY <1>2, <1>3, <1>4, <1>5, <1>6 DEF Next

LEMMA InitRefines == Init => Fifo!Init
<1> SUFFICES ASSUME Init PROVE Fifo!Init
  OBVIOUS
<1>1. Undecided = <<>> BY DEF Init, Undecided
<1>2. \A t \in Targets : IdsFor(t, Undecided) = <<>> /\ IdsFor(t, sent[t]) = <<>>
  BY <1>1, IdsForEmpty DEF Init
<1> QED BY <1>2 DEF Fifo!Init

-----------------------------------------------------------------------------
(* The theorems *)

\* The dispatcher's types: with them, that a message is in hand exactly while the
\* dispatcher merges or sends, and that fewer than MaxAttempts sends have failed
\* (dispatch_outbound, send_with_retry).
THEOREM TypeCorrect == Spec => []TypeOK
<1>1. DispatchInv => TypeOK BY DEF DispatchInv
<1> QED BY InitInv, NextInv, <1>1, PTL DEF Spec

\* coalesce_stream_deltas never puts two answers into one message, whatever
\* publishers interleave, and tells the channel of the end of the stream it merged.
THEOREM StreamsStaySeparateHolds == Spec => []StreamsStaySeparate
<1>1. DispatchInv => StreamsStaySeparate
  BY DEF DispatchInv, SentInv, Clean, StreamsStaySeparate
<1> QED BY InitInv, NextInv, <1>1, PTL DEF Spec

\* No chat is shown a message twice or after one that was published later, though
\* the replay buffer is popped from its back and a merge takes messages ahead of the
\* one it sends (dispatch_outbound, coalesce_stream_deltas, send_with_retry).
THEOREM ShownInOrderHolds == Spec => []ShownInOrder
<1>1. DispatchInv => ShownInOrder BY DEF DispatchInv, SentInv, ShownInOrder
<1> QED BY InitInv, NextInv, <1>1, PTL DEF Spec

\* The dispatcher implements the FIFO per chat that OutboundFifo specifies: whatever
\* is published meanwhile, coalescing, the replay buffer and retries show a chat its
\* messages in the order of publication, and drop the oldest ones only
\* (dispatch_outbound, coalesce_stream_deltas, send_with_retry, stop_all).
THEOREM FifoPerChatHolds == Spec => FifoPerChat
<1>1. Spec => []DispatchInv BY InitInv, NextInv, PTL DEF Spec
<1> QED BY <1>1, InitRefines, NextRefines, PTL DEF Spec, FifoPerChat, Fifo!Spec
=============================================================================
