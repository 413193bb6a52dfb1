--------------------------- MODULE BusLaneProofs ---------------------------
(***************************************************************************)
(* Safety of one lane of the message bus for any finite sets of producers  *)
(* and consumers and any number of messages.                               *)
(***************************************************************************)
EXTENDS BusLane, FiniteSetTheorems, SequenceTheorems, TLAPS

-----------------------------------------------------------------------------
(* Arithmetic of the counter's word *)

LEMMA DivMod ==
    ASSUME NEW a \in Int, NEW w \in Nat \ {0}
    PROVE  /\ a \div w \in Int
           /\ a % w \in 0..(w - 1)
           /\ a = w * (a \div w) + (a % w)
OBVIOUS

LEMMA TimesGrows ==
    ASSUME NEW w \in Nat \ {0}, NEW d \in Int
    PROVE  (d >= 1 => w * d >= w) /\ (d <= -1 => w * d <= -w)
OBVIOUS

\* The remainder is the only number of the word that differs by a multiple of it.
LEMMA ModUnique ==
    ASSUME NEW w \in Nat \ {0}, NEW q \in Int, NEW r \in 0..(w - 1)
    PROVE  (w * q + r) % w = r
<1> DEFINE a == w * q + r
<1>0. a \in Int OBVIOUS
<1>1. PICK p \in Int, s \in 0..(w - 1) : s = a % w /\ a = w * p + s
  BY <1>0, DivMod
<1>2. w * (p - q) = r - s
  <2>1. w * (p - q) = w * p - w * q OBVIOUS
  <2>2. w * p \in Int /\ w * q \in Int OBVIOUS
  <2> QED BY <1>1, <2>1, <2>2
<1>3. p - q = 0
  <2>1. r - s < w /\ r - s > -w OBVIOUS
  <2> QED BY <1>2, <2>1, TimesGrows
<1>4. w * 0 = 0 OBVIOUS
<1>5. r - s = 0 BY <1>2, <1>3, <1>4
<1> QED BY <1>1, <1>5

\* fetch_add and fetch_sub on a counter that holds a remainder
LEMMA ModStep ==
    ASSUME NEW w \in Nat \ {0}, NEW a \in Int
    PROVE  /\ ((a % w) + 1) % w = (a + 1) % w
           /\ ((a % w) - 1) % w = (a - 1) % w
<1>1. PICK q \in Int, r \in 0..(w - 1) : r = a % w /\ a = w * q + r
  BY DivMod
<1>2. PICK m \in Int : m = w * q /\ w * (q + 1) = m + w /\ w * (q - 1) = m - w
  OBVIOUS
<1>3. w * 0 = 0 /\ w * 1 = w /\ w * (-1) = -w OBVIOUS
<1>4. a = m + r BY <1>1, <1>2
<1>5. \A s \in 0..(w - 1) : /\ s % w = s /\ (w + s) % w = s /\ (-w + s) % w = s
                            /\ (m + s) % w = s
                            /\ (m + w + s) % w = s
                            /\ (m - w + s) % w = s
  <2> SUFFICES ASSUME NEW s \in 0..(w - 1)
               PROVE  /\ s % w = s /\ (w + s) % w = s /\ (-w + s) % w = s
                      /\ (m + s) % w = s
                      /\ (m + w + s) % w = s
                      /\ (m - w + s) % w = s
    OBVIOUS
  <2>1. /\ (w * 0 + s) % w = s /\ (w * 1 + s) % w = s /\ (w * (-1) + s) % w = s
        /\ (w * q + s) % w = s /\ (w * (q + 1) + s) % w = s /\ (w * (q - 1) + s) % w = s
    BY ModUnique
  <2>2. 0 + s = s OBVIOUS
  <2> QED BY <1>2, <1>3, <2>1, <2>2, Zenon
<1>6. (r + 1) % w = (a + 1) % w
  <2>1. CASE r + 1 < w
    <3>1. r + 1 \in 0..(w - 1) /\ a + 1 = m + (r + 1) BY <1>4, <2>1
    <3> QED BY <1>5, <3>1
  <2>2. CASE r + 1 = w
    <3>1. 0 \in 0..(w - 1) /\ r + 1 = w + 0 /\ a + 1 = m + w + 0 BY <1>4, <2>2
    <3> QED BY <1>5, <3>1
  <2> QED BY <2>1, <2>2
<1>7. (r - 1) % w = (a - 1) % w
  <2>1. CASE r > 0
    <3>1. r - 1 \in 0..(w - 1) /\ a - 1 = m + (r - 1) BY <1>4, <2>1
    <3> QED BY <1>5, <3>1
  <2>2. CASE r = 0
    <3>1. w - 1 \in 0..(w - 1) /\ r - 1 = -w + (w - 1) /\ a - 1 = m - w + (w - 1)
      BY <1>4, <2>2
    <3> QED BY <1>5, <3>1
  <2> QED BY <2>1, <2>2
<1> QED BY <1>1, <1>6, <1>7

LEMMA WordIsPositive == WordSize \in Nat \ {0}
BY LaneAssumption, FS_CardinalityType

-----------------------------------------------------------------------------
(* Types and places *)

\* Producers and consumers are at their own places, and a task is between taking
\* the receiver's mutex and giving it back exactly when the mutex names it.
LockInv ==
    /\ \A p \in Producers : pc[p] \in {"idle", "count"}
    /\ \A c \in Consumers :
          /\ pc[c] \in {"idle", "lock", "recv", "uncount"}
          /\ pc[c] \in {"recv", "uncount"} <=> rxLock = c

LEMMA InitType == Init => TypeOK /\ LockInv
<1> SUFFICES ASSUME Init PROVE TypeOK /\ LockInv
  OBVIOUS
<1>1. chan \in Seq(1..MaxSends) /\ got \in Seq(1..MaxSends) BY DEF Init
<1>2. pending \in 0..(WordSize - 1) /\ sent \in 0..MaxSends
  BY WordIsPositive, LaneAssumption DEF Init
<1>3. LockInv BY LaneAssumption DEF Init, LockInv
<1> QED BY <1>1, <1>2, <1>3 DEF Init, TypeOK

LEMMA NextType == TypeOK /\ LockInv /\ [Next]_vars => TypeOK' /\ LockInv'
<1> SUFFICES ASSUME TypeOK, LockInv, [Next]_vars PROVE TypeOK' /\ LockInv'
  OBVIOUS
<1> USE LaneAssumption, WordIsPositive DEF TypeOK, LockInv
<1>1. ASSUME NEW p \in Producers, Send(p) PROVE TypeOK' /\ LockInv'
  <2>1. sent' \in 1..MaxSends BY <1>1 DEF Send
  <2>2. chan' \in Seq(1..MaxSends) BY <1>1, <2>1 DEF Send
  <2> QED BY <1>1, <2>1, <2>2 DEF Send
<1>2. ASSUME NEW p \in Producers, FetchAdd(p) PROVE TypeOK' /\ LockInv'
  <2>1. pending' \in 0..(WordSize - 1) BY <1>2, DivMod, pending + 1 \in Int DEF FetchAdd
  <2> QED BY <1>2, <2>1 DEF FetchAdd
<1>3. ASSUME NEW c \in Consumers, StartConsume(c) PROVE TypeOK' /\ LockInv'
  BY <1>3 DEF StartConsume
<1>4. ASSUME NEW c \in Consumers, LockRx(c) PROVE TypeOK' /\ LockInv'
  BY <1>4 DEF LockRx
<1>5. ASSUME NEW c \in Consumers, Recv(c) PROVE TypeOK' /\ LockInv'
  <2>1. chan' \in Seq(1..MaxSends) /\ got' \in Seq(1..MaxSends)
    BY <1>5 DEF Recv
  <2> QED BY <1>5, <2>1 DEF Recv
<1>6. ASSUME NEW c \in Consumers, FetchSub(c) PROVE TypeOK' /\ LockInv'
  <2>1. pending' \in 0..(WordSize - 1) BY <1>6, DivMod, pending - 1 \in Int DEF FetchSub
  <2> QED BY <1>6, <2>1 DEF FetchSub
<1>7. ASSUME NEW c \in Consumers, DropConsume(c) PROVE TypeOK' /\ LockInv'
  BY <1>7 DEF DropConsume
<1>8. CASE UNCHANGED vars
  BY <1>8 DEF vars
<1> QED BY <1>1, <1>2, <1>3, <1>4, <1>5, <1>6, <1>7, <1>8 DEF Next

\* Every variable of a lane keeps its type, and one task at most is receiving: a
\* consume dropped at either await leaves no stale owner of the receiver's mutex.
THEOREM TypeCorrect == Spec => [](TypeOK /\ LockInv)
<1> QED BY InitType, NextType, PTL DEF Spec

-----------------------------------------------------------------------------
(* Order *)

\* FifoNoLoss item by item: the items taken and the items waiting are numbered
\* without a gap.
OrderInv ==
    /\ Len(got) + Len(chan) = sent
    /\ \A i \in 1..Len(got) : got[i] = i
    /\ \A i \in 1..Len(chan) : chan[i] = Len(got) + i

LEMMA NextOrder == TypeOK /\ OrderInv /\ [Next]_vars => OrderInv'
<1> SUFFICES ASSUME TypeOK, OrderInv, [Next]_vars PROVE OrderInv'
  OBVIOUS
<1>0. /\ chan \in Seq(1..MaxSends) /\ got \in Seq(1..MaxSends)
      /\ Len(chan) \in Nat /\ Len(got) \in Nat
  BY DEF TypeOK
<1>1. ASSUME NEW p \in Producers, Send(p) PROVE OrderInv'
  <2>1. sent' \in 1..MaxSends BY <1>1, LaneAssumption DEF Send, TypeOK
  <2>2. /\ Len(chan') = Len(chan) + 1
        /\ \A i \in 1..Len(chan) : chan'[i] = chan[i]
        /\ chan'[Len(chan) + 1] = sent'
    BY <1>0, <1>1, <2>1, AppendProperties DEF Send
  <2>3. sent' = sent + 1 /\ got' = got BY <1>1 DEF Send
  <2>4. Len(got) + Len(chan) = sent /\ sent \in Nat BY LaneAssumption DEF OrderInv, TypeOK
  <2>5. \A i \in 1..Len(chan') : chan'[i] = Len(got') + i
    <3> SUFFICES ASSUME NEW i \in 1..Len(chan') PROVE chan'[i] = Len(got') + i
      OBVIOUS
    <3>1. CASE i = Len(chan) + 1 BY <1>0, <2>2, <2>3, <2>4, <3>1
    <3>2. CASE i \in 1..Len(chan) BY <2>2, <2>3, <3>2 DEF OrderInv
    <3> QED BY <1>0, <2>2, <3>1, <3>2
  <2> QED BY <1>0, <2>2, <2>3, <2>4, <2>5 DEF OrderInv
<1>2. ASSUME NEW c \in Consumers, Recv(c) PROVE OrderInv'
  <2>1. /\ Len(chan') = Len(chan) - 1
        /\ \A i \in 1..Len(chan') : chan'[i] = chan[i + 1]
        /\ Len(chan) > 0 /\ Head(chan) = chan[1] /\ Head(chan) \in 1..MaxSends
    <3>1. chan # <<>> /\ chan' = Tail(chan) BY <1>2 DEF Recv
    <3>2. Len(chan) > 0 /\ Head(chan) = chan[1] BY <1>0, <3>1, EmptySeq
    <3> QED BY <1>0, <3>1, <3>2, HeadTailProperties
  <2>2. /\ Len(got') = Len(got) + 1
        /\ \A i \in 1..Len(got) : got'[i] = got[i]
        /\ got'[Len(got) + 1] = chan[1]
    BY <1>0, <1>2, <2>1, AppendProperties DEF Recv
  <2>3. sent' = sent BY <1>2 DEF Recv
  <2>4. Len(got) + Len(chan) = sent /\ chan[1] = Len(got) + 1
    BY <1>0, <2>1 DEF OrderInv
  <2>5. \A i \in 1..Len(got') : got'[i] = i
    <3> SUFFICES ASSUME NEW i \in 1..Len(got') PROVE got'[i] = i
      OBVIOUS
    <3>1. CASE i = Len(got) + 1 BY <2>2, <2>4, <3>1
    <3>2. CASE i \in 1..Len(got) BY <2>2, <3>2 DEF OrderInv
    <3> QED BY <1>0, <2>2, <3>1, <3>2
  <2>6. \A i \in 1..Len(chan') : chan'[i] = Len(got') + i
    <3> SUFFICES ASSUME NEW i \in 1..Len(chan') PROVE chan'[i] = Len(got') + i
      OBVIOUS
    <3>1. i + 1 \in 1..Len(chan) BY <1>0, <2>1
    <3>2. chan[i + 1] = Len(got) + (i + 1) BY <3>1 DEF OrderInv
    <3> QED BY <1>0, <2>1, <2>2, <3>2
  <2> QED BY <1>0, <2>1, <2>2, <2>3, <2>4, <2>5, <2>6 DEF OrderInv
<1>3. CASE UNCHANGED <<chan, sent, got>>
  BY <1>3 DEF OrderInv
<1> QED
  BY <1>1, <1>2, <1>3
     DEF Next, FetchAdd, StartConsume, LockRx, FetchSub, DropConsume, vars

LEMMA OrderInvImplies == TypeOK /\ OrderInv => FifoNoLoss
<1> SUFFICES ASSUME TypeOK, OrderInv PROVE got \o chan = [i \in 1..sent |-> i]
  BY DEF FifoNoLoss
<1>0. /\ chan \in Seq(1..MaxSends) /\ got \in Seq(1..MaxSends)
      /\ Len(chan) \in Nat /\ Len(got) \in Nat
  BY DEF TypeOK
<1>1. /\ got \o chan \in Seq(1..MaxSends) /\ Len(got \o chan) = sent
      /\ \A i \in 1..sent : (got \o chan)[i] = i
  BY <1>0, ConcatProperties DEF OrderInv
<1>2. got \o chan = [i \in 1..sent |-> (got \o chan)[i]]
  BY <1>1, LenProperties
<1> QED BY <1>1, <1>2

\* No message is lost, duplicated or reordered between publish and consume, for any
\* number of producers, consumers, timeouts and messages.
THEOREM FifoNoLossHolds == Spec => []FifoNoLoss
<1>1. Init => OrderInv BY DEF Init, OrderInv
<1> QED BY <1>1, InitType, NextType, NextOrder, OrderInvImplies, PTL DEF Spec

-----------------------------------------------------------------------------
(* The counter *)

\* What `pending` stands for: the items waiting, the ones taken and not yet
\* subtracted, less the ones sent and not yet added.
Owed == Len(chan) + Cardinality(Uncounting) - Cardinality(Counting)

LEMMA InFlightFinite ==
    /\ IsFiniteSet(Counting) /\ Cardinality(Counting) \in Nat
    /\ IsFiniteSet(Uncounting) /\ Cardinality(Uncounting) \in Nat
<1>1. IsFiniteSet(Counting) BY LaneAssumption, FS_Subset, Counting \subseteq Producers DEF Counting
<1>2. IsFiniteSet(Uncounting)
  BY LaneAssumption, FS_Subset, Uncounting \subseteq Consumers DEF Uncounting
<1> QED BY <1>1, <1>2, FS_CardinalityType

LEMMA NextPending ==
    TypeOK /\ LockInv /\ PendingAccurate /\ [Next]_vars => PendingAccurate'
<1> SUFFICES ASSUME TypeOK, LockInv, PendingAccurate, [Next]_vars PROVE PendingAccurate'
  OBVIOUS
<1>0. pending = Owed % WordSize /\ Len(chan) \in Nat /\ Owed \in Int
  BY InFlightFinite DEF PendingAccurate, Owed, TypeOK
<1>1. ASSUME Owed' = Owed, pending' = pending PROVE PendingAccurate'
  BY <1>0, <1>1 DEF PendingAccurate, Owed
<1>2. ASSUME NEW p \in Producers, Send(p) PROVE PendingAccurate'
  <2>1. Counting' = Counting \cup {p} /\ p \notin Counting
    BY <1>2 DEF Send, Counting, TypeOK, LockInv
  <2>2. Uncounting' = Uncounting
    BY <1>2, LaneAssumption DEF Send, Uncounting, TypeOK
  <2>3. Len(chan') = Len(chan) + 1 /\ pending' = pending
    BY <1>2 DEF Send, TypeOK
  <2>4. Cardinality(Counting') = Cardinality(Counting) + 1
    BY <2>1, InFlightFinite, FS_AddElement
  <2>5. Owed' = Owed BY <1>0, <2>2, <2>3, <2>4, InFlightFinite DEF Owed
  <2> QED BY <1>1, <2>3, <2>5
<1>3. ASSUME NEW p \in Producers, FetchAdd(p) PROVE PendingAccurate'
  <2>1. Counting' = Counting \ {p} /\ p \in Counting
    BY <1>3 DEF FetchAdd, Counting, TypeOK
  <2>2. Uncounting' = Uncounting
    BY <1>3, LaneAssumption DEF FetchAdd, Uncounting, TypeOK
  <2>3. Cardinality(Counting') = Cardinality(Counting) - 1
    BY <2>1, InFlightFinite, FS_RemoveElement
  <2>4. Owed' = Owed + 1
    BY <1>0, <1>3, <2>2, <2>3, InFlightFinite DEF Owed, FetchAdd
  <2>5. pending' = (Owed + 1) % WordSize
    BY <1>0, <1>3, ModStep, WordIsPositive DEF FetchAdd
  <2> QED BY <2>4, <2>5 DEF PendingAccurate, Owed
<1>4. ASSUME NEW c \in Consumers, Recv(c) PROVE PendingAccurate'
  <2>1. Uncounting' = Uncounting \cup {c} /\ c \notin Uncounting
    BY <1>4 DEF Recv, Uncounting, TypeOK
  <2>2. Counting' = Counting
    BY <1>4, LaneAssumption DEF Recv, Counting, TypeOK
  <2>3. Len(chan') = Len(chan) - 1 /\ pending' = pending
    BY <1>4 DEF Recv, TypeOK
  <2>4. Cardinality(Uncounting') = Cardinality(Uncounting) + 1
    BY <2>1, InFlightFinite, FS_AddElement
  <2>5. Owed' = Owed BY <1>0, <2>2, <2>3, <2>4, InFlightFinite DEF Owed
  <2> QED BY <1>1, <2>3, <2>5
<1>5. ASSUME NEW c \in Consumers, FetchSub(c) PROVE PendingAccurate'
  <2>1. Uncounting' = Uncounting \ {c} /\ c \in Uncounting
    BY <1>5 DEF FetchSub, Uncounting, TypeOK
  <2>2. Counting' = Counting
    BY <1>5, LaneAssumption DEF FetchSub, Counting, TypeOK
  <2>3. Cardinality(Uncounting') = Cardinality(Uncounting) - 1
    BY <2>1, InFlightFinite, FS_RemoveElement
  <2>4. Owed' = Owed - 1
    BY <1>0, <1>5, <2>2, <2>3, InFlightFinite DEF Owed, FetchSub
  <2>5. pending' = (Owed - 1) % WordSize
    BY <1>0, <1>5, ModStep, WordIsPositive DEF FetchSub
  <2> QED BY <2>4, <2>5 DEF PendingAccurate, Owed
<1>6. ASSUME NEW c \in Consumers, StartConsume(c) \/ LockRx(c) \/ DropConsume(c)
      PROVE  PendingAccurate'
  <2>1. Counting' = Counting /\ Uncounting' = Uncounting
    BY <1>6, LaneAssumption DEF StartConsume, LockRx, DropConsume, Counting, Uncounting, TypeOK
  <2>2. chan' = chan /\ pending' = pending
    BY <1>6 DEF StartConsume, LockRx, DropConsume
  <2> QED BY <1>1, <2>1, <2>2 DEF Owed
<1>7. CASE UNCHANGED vars
  BY <1>1, <1>7 DEF vars, Owed, Counting, Uncounting
<1> QED BY <1>2, <1>3, <1>4, <1>5, <1>6, <1>7 DEF Next

\* `pending` is the queue length corrected by the calls in flight, whatever the
\* number of publishers, consumers and dropped consumes.
THEOREM PendingAccurateHolds == Spec => []PendingAccurate
<1>1. Init => PendingAccurate
  <2> SUFFICES ASSUME Init PROVE PendingAccurate
    OBVIOUS
  <2>1. Counting = {} /\ Uncounting = {} /\ Len(chan) = 0 /\ pending = 0
    BY DEF Init, Counting, Uncounting
  <2>2. WordSize * 0 = 0 BY WordIsPositive
  <2>3. 0 % WordSize = 0
    BY <2>2, WordIsPositive, (WordSize * 0 + 0) % WordSize = 0, ModUnique
  <2> QED BY <2>1, <2>3, FS_EmptySet DEF PendingAccurate
<1> QED BY <1>1, InitType, NextType, NextPending, PTL DEF Spec

=============================================================================
