-------------------------- MODULE AgentTurnsProofs --------------------------
(***************************************************************************)
(* Safety of AgentTurns for any finite set of turns, any chats, any number *)
(* of permits, uses of the message tool and failed saves.                  *)
(***************************************************************************)
EXTENDS AgentTurns, ApiTurns, FiniteSetTheorems, SequenceTheorems, TLAPS

-----------------------------------------------------------------------------
(* Types *)

Using == {"start", "history", "run", "mark", "record", "clear", "publish"}

\* TypeOK without the bounds on sends and permits, a chat for every turn that has
\* a message, and one in the tool's context once any turn has set it.
TurnType ==
    /\ pc \in [Turns -> Stages]
    /\ chat \in [Turns -> Chats \cup {NoChat}]
    /\ hist \in [Turns -> Seq(Entry)]
    /\ final \in [Turns -> BOOLEAN]
    /\ sends \in [Turns -> Nat]
    /\ target \in [Turns -> Chats \cup {NoChat}]
    /\ mine \in [Turns -> BOOLEAN]
    /\ permits \in Int
    /\ tool \in [chat : Chats \cup {NoChat}, sent : BOOLEAN]
    /\ cache \in [Chats -> Seq(Entry)] /\ disk \in [Chats -> Seq(Entry)]
    /\ out \subseteq [turn : Turns, to : Chats, via : {"default", "explicit", "final"}]
    /\ faults \in 0..MaxFaults
    /\ crossed \subseteq Turns
    /\ \A t \in Turns : pc[t] # "new" => chat[t] \in Chats
    /\ \A t \in Turns : pc[t] \in Using => tool.chat \in Chats

LEMMA ExchangeType ==
    ASSUME NEW t \in Turns
    PROVE  /\ Exchange(t) \in Seq(Entry) /\ Len(Exchange(t)) = 2
           /\ Exchange(t)[1] = [turn |-> t, role |-> "user"]
           /\ Exchange(t)[2] = [turn |-> t, role |-> "assistant"]
BY DEF Exchange, Entry

LEMMA MovesType ==
    ASSUME TurnType, NEW t \in Turns, NEW next \in Stages, Moves(t, next)
    PROVE  pc' \in [Turns -> Stages] /\ crossed' \subseteq Turns
BY DEF Moves, TurnType, UsingTool

\* What Save leaves: the session replaced in cache and file, or nothing changed.
LEMMA SaveType ==
    ASSUME TurnType, NEW c \in Chats, NEW s \in Seq(Entry), Save(c, s)
    PROVE  /\ cache' \in [Chats -> Seq(Entry)] /\ disk' \in [Chats -> Seq(Entry)]
           /\ faults' \in 0..MaxFaults
<1>1. faults' \in 0..MaxFaults BY TurnsAssumption DEF TurnType, Save
<1>2. cache \in [Chats -> Seq(Entry)] /\ disk \in [Chats -> Seq(Entry)] BY DEF TurnType
<1>3. cache' = cache \/ cache' = [cache EXCEPT ![c] = s] BY DEF Save
<1>4. disk' = disk \/ disk' = [disk EXCEPT ![c] = s] BY DEF Save
<1> QED BY <1>1, <1>2, <1>3, <1>4

LEMMA InitType == Init => TurnType
<1> SUFFICES ASSUME Init PROVE TurnType
  OBVIOUS
<1>1. hist \in [Turns -> Seq(Entry)] /\ cache \in [Chats -> Seq(Entry)] /\ disk \in [Chats -> Seq(Entry)]
  BY EmptySeq DEF Init
<1>2. final \in [Turns -> BOOLEAN] /\ mine \in [Turns -> BOOLEAN] BY DEF Init
<1>3. tool \in [chat : Chats \cup {NoChat}, sent : BOOLEAN] BY DEF Init
<1>4. pc \in [Turns -> Stages] /\ \A t \in Turns : pc[t] = "new" BY DEF Init, Stages
<1> QED BY <1>1, <1>2, <1>3, <1>4, TurnsAssumption DEF Init, TurnType, Using

LEMMA NextType == TurnType /\ [Next]_vars => TurnType'
<1> SUFFICES ASSUME TurnType, [Next]_vars PROVE TurnType'
  OBVIOUS
<1>a. \A t \in Turns : Origins[t] \subseteq Chats BY TurnsAssumption
<1>1. ASSUME NEW t \in Turns, NEW c \in Origins[t], Receive(t, c) PROVE TurnType'
  <2>1. pc' \in [Turns -> Stages] /\ crossed' \subseteq Turns
    BY <1>1, MovesType DEF Receive, At, Stages
  <2> QED BY <1>1, <1>a, <2>1 DEF Receive, At, Moves, storeVars, TurnType, Using
<1>2. ASSUME NEW t \in Turns, Acquire(t) PROVE TurnType'
  <2>1. pc' \in [Turns -> Stages] /\ crossed' \subseteq Turns
    BY <1>2, MovesType DEF Acquire, At, Stages
  <2>2. permits' \in Int BY <1>2 DEF Acquire, TurnType
  <2> QED BY <1>2, <2>1, <2>2 DEF Acquire, At, Moves, storeVars, turnVars, TurnType, Using
<1>3. ASSUME NEW t \in Turns, SetContext(t) PROVE TurnType'
  <2>1. pc' \in [Turns -> Stages] /\ crossed' \subseteq Turns
    BY <1>3, MovesType DEF SetContext, At, Stages
  <2>2. chat[t] \in Chats BY <1>3 DEF SetContext, At, TurnType
  <2>3. tool' \in [chat : Chats \cup {NoChat}, sent : BOOLEAN] /\ tool'.chat \in Chats
    BY <1>3, <2>2 DEF SetContext, TurnType
  <2> QED BY <1>3, <2>1, <2>3 DEF SetContext, At, Moves, storeVars, turnVars, TurnType
<1>4. ASSUME NEW t \in Turns, StartTurn(t) PROVE TurnType'
  <2>1. pc' \in [Turns -> Stages] /\ crossed' \subseteq Turns
    BY <1>4, MovesType DEF StartTurn, At, Stages
  <2>2. tool' \in [chat : Chats \cup {NoChat}, sent : BOOLEAN] /\ tool'.chat = tool.chat
    BY <1>4 DEF StartTurn, TurnType
  <2> QED BY <1>4, <2>1, <2>2 DEF StartTurn, At, Moves, storeVars, turnVars, TurnType, Using
<1>5. ASSUME NEW t \in Turns, CopyHistory(t) PROVE TurnType'
  <2>1. pc' \in [Turns -> Stages] /\ crossed' \subseteq Turns
    BY <1>5, MovesType DEF CopyHistory, At, Stages
  <2>2. chat[t] \in Chats BY <1>5 DEF CopyHistory, At, TurnType
  <2>3. hist' \in [Turns -> Seq(Entry)] BY <1>5, <2>2 DEF CopyHistory, TurnType
  <2> QED BY <1>5, <2>1, <2>3 DEF CopyHistory, At, Moves, storeVars, TurnType, Using
<1>6. ASSUME NEW t \in Turns, NEW d \in Chats \cup {NoChat}, ToolSend(t, d) PROVE TurnType'
  <2> DEFINE to == IF d = NoChat THEN tool.chat ELSE d
  <2>1. pc' \in [Turns -> Stages] /\ crossed' \subseteq Turns
    BY <1>6, MovesType DEF ToolSend, At, Stages
  <2>2. to \in Chats BY <1>6 DEF ToolSend, At, TurnType, Using
  <2>3. out' \subseteq [turn : Turns, to : Chats, via : {"default", "explicit", "final"}]
    <3> DEFINE m == [turn |-> t, to |-> to, via |-> IF d = NoChat THEN "default" ELSE "explicit"]
    <3>1. m \in [turn : Turns, to : Chats, via : {"default", "explicit", "final"}] BY <2>2
    <3>2. out' = out \cup {m} BY <1>6 DEF ToolSend
    <3> QED BY <3>1, <3>2 DEF TurnType
  <2>4. mine' \in [Turns -> BOOLEAN] BY <1>6 DEF ToolSend, TurnType
  <2>5. target' \in [Turns -> Chats \cup {NoChat}] /\ sends' \in [Turns -> Nat]
    <3>1. target' = [target EXCEPT ![t] = IF to = tool.chat THEN to ELSE NoChat] BY <1>6 DEF ToolSend
    <3>2. sends' = [sends EXCEPT ![t] = @ + 1] BY <1>6 DEF ToolSend
    <3> HIDE DEF to
    <3> QED BY <2>2, <3>1, <3>2 DEF TurnType
  <2> QED BY <1>6, <2>1, <2>3, <2>4, <2>5 DEF ToolSend, At, Moves, storeVars, TurnType, Using
<1>7. ASSUME NEW t \in Turns, ToolMark(t) PROVE TurnType'
  <2>1. pc' \in [Turns -> Stages] /\ crossed' \subseteq Turns
    BY <1>7, MovesType DEF ToolMark, At, Stages
  <2>2. tool' \in [chat : Chats \cup {NoChat}, sent : BOOLEAN] /\ tool'.chat = tool.chat
    BY <1>7 DEF ToolMark, TurnType
  <2>3. target' \in [Turns -> Chats \cup {NoChat}] BY <1>7 DEF ToolMark, TurnType
  <2> QED BY <1>7, <2>1, <2>2, <2>3 DEF ToolMark, At, Moves, storeVars, TurnType, Using
<1>8. ASSUME NEW t \in Turns, NEW f \in BOOLEAN, RunEnds(t, f) PROVE TurnType'
  <2>1. pc' \in [Turns -> Stages] /\ crossed' \subseteq Turns
    BY <1>8, MovesType DEF RunEnds, At, Stages
  <2> QED BY <1>8, <2>1 DEF RunEnds, At, Moves, storeVars, TurnType, Using
<1>9. ASSUME NEW t \in Turns, Record(t) PROVE TurnType'
  <2>1. pc' \in [Turns -> Stages] /\ crossed' \subseteq Turns
    BY <1>9, MovesType DEF Record, At, Stages
  <2>2. chat[t] \in Chats BY <1>9 DEF Record, At, TurnType
  <2>3. cache[chat[t]] \o Exchange(t) \in Seq(Entry)
    BY <2>2, ExchangeType, ConcatProperties DEF TurnType
  <2>4. /\ cache' \in [Chats -> Seq(Entry)] /\ disk' \in [Chats -> Seq(Entry)]
        /\ faults' \in 0..MaxFaults
    BY <1>9, <2>2, <2>3, SaveType DEF Record
  <2> QED BY <1>9, <2>1, <2>4 DEF Record, At, Moves, turnVars, TurnType, Using
<1>10. ASSUME NEW t \in Turns, ClearCheckpoint(t) PROVE TurnType'
  <2>1. pc' \in [Turns -> Stages] /\ crossed' \subseteq Turns
    BY <1>10, MovesType DEF ClearCheckpoint, At, Stages
  <2>2. chat[t] \in Chats BY <1>10 DEF ClearCheckpoint, At, TurnType
  <2>3. /\ cache' \in [Chats -> Seq(Entry)] /\ disk' \in [Chats -> Seq(Entry)]
        /\ faults' \in 0..MaxFaults
    BY <1>10, <2>2, cache[chat[t]] \in Seq(Entry), SaveType DEF ClearCheckpoint, TurnType
  <2>4. hist' \in [Turns -> Seq(Entry)] BY <1>10, EmptySeq DEF ClearCheckpoint, TurnType
  <2> QED BY <1>10, <2>1, <2>3, <2>4 DEF ClearCheckpoint, At, Moves, TurnType, Using
<1>11. ASSUME NEW t \in Turns, PublishReply(t) PROVE TurnType'
  <2>1. pc' \in [Turns -> Stages] /\ crossed' \subseteq Turns
    BY <1>11, MovesType DEF PublishReply, At, Stages
  <2>2. chat[t] \in Chats BY <1>11 DEF PublishReply, At, TurnType
  <2>3. out' \subseteq [turn : Turns, to : Chats, via : {"default", "explicit", "final"}]
    BY <1>11, <2>2 DEF PublishReply, TurnType
  <2>4. permits' \in Int BY <1>11 DEF PublishReply, Release, TurnType
  <2> QED BY <1>11, <2>1, <2>3, <2>4 DEF PublishReply, At, Moves, turnVars, storeVars, TurnType, Using
<1>12. ASSUME NEW t \in Turns, Cancel(t) PROVE TurnType'
  <2>1. pc' \in [Turns -> Stages] /\ crossed' \subseteq Turns
    BY <1>12, MovesType DEF Cancel, Stages
  <2>2. hist' \in [Turns -> Seq(Entry)] BY <1>12, EmptySeq DEF Cancel, TurnType
  <2>3. permits' \in Int BY <1>12 DEF Cancel, TurnType
  <2> QED BY <1>12, <2>1, <2>2, <2>3 DEF Cancel, Moves, storeVars, TurnType, Using
<1>13. CASE UNCHANGED vars
  BY <1>13 DEF vars, TurnType
<1> QED
  BY <1>1, <1>2, <1>3, <1>4, <1>5, <1>6, <1>7, <1>8, <1>9, <1>10, <1>11, <1>12, <1>13
     DEF Next, Progress

-----------------------------------------------------------------------------
(* Sessions *)

\* While cache and files agree, a step leaves all sessions alone, or it is Record
\* of a turn that has not recorded yet and adds its exchange.
LEMMA SessionStep ==
    ASSUME TurnType, CacheIsDurable, [Next]_vars
    PROVE  \/ UNCHANGED <<cache, disk>>
           \/ \E t \in Turns :
                 /\ pc[t] = "record" /\ pc' = [pc EXCEPT ![t] = "clear"]
                 /\ chat[t] \in Chats
                 /\ disk' = [disk EXCEPT ![chat[t]] = @ \o Exchange(t)]
                 /\ cache' = disk'
<1> USE DEF CacheIsDurable
<1>1. ASSUME NEW t \in Turns, Record(t), ~UNCHANGED <<cache, disk>>
      PROVE  /\ pc[t] = "record" /\ pc' = [pc EXCEPT ![t] = "clear"]
             /\ chat[t] \in Chats
             /\ disk' = [disk EXCEPT ![chat[t]] = @ \o Exchange(t)]
             /\ cache' = disk'
  <2>1. pc[t] = "record" /\ pc' = [pc EXCEPT ![t] = "clear"] BY <1>1 DEF Record, At, Moves
  <2>2. chat[t] \in Chats BY <2>1 DEF TurnType
  <2>3. /\ cache' = [cache EXCEPT ![chat[t]] = cache[chat[t]] \o Exchange(t)]
        /\ disk' = [disk EXCEPT ![chat[t]] = cache[chat[t]] \o Exchange(t)]
    BY <1>1 DEF Record, Save
  <2> QED BY <2>1, <2>2, <2>3
<1>2. ASSUME NEW t \in Turns, ClearCheckpoint(t) PROVE UNCHANGED <<cache, disk>>
  <2>1. \/ UNCHANGED <<cache, disk>>
        \/ /\ cache' = [cache EXCEPT ![chat[t]] = cache[chat[t]]]
           /\ disk' = [disk EXCEPT ![chat[t]] = cache[chat[t]]]
    BY <1>2 DEF ClearCheckpoint, Save
  <2>2. cache \in [Chats -> Seq(Entry)] /\ disk = cache BY DEF TurnType
  <2> QED BY <2>1, <2>2
<1>3. ASSUME NEW t \in Turns,
             \/ \E c \in Origins[t] : Receive(t, c)
             \/ \E d \in Chats \cup {NoChat} : ToolSend(t, d)
             \/ Acquire(t) \/ SetContext(t) \/ StartTurn(t) \/ CopyHistory(t)
             \/ ToolMark(t) \/ (\E f \in BOOLEAN : RunEnds(t, f))
             \/ PublishReply(t) \/ Cancel(t)
      PROVE  UNCHANGED <<cache, disk>>
  BY <1>3
     DEF Receive, ToolSend, Acquire, SetContext, StartTurn, CopyHistory, ToolMark,
         RunEnds, PublishReply, Cancel, storeVars
<1> QED BY <1>1, <1>2, <1>3 DEF Next, Progress, vars

LEMMA NextDurable == TurnType /\ CacheIsDurable /\ [Next]_vars => CacheIsDurable'
BY SessionStep DEF CacheIsDurable

LEMMA InitDurable == Init => CacheIsDurable
BY DEF Init, CacheIsDurable

\* The cache is what a restart would load, for any turns and any failed saves.
THEOREM CacheIsDurableHolds == Spec => []CacheIsDurable
<1> QED BY InitType, InitDurable, NextType, NextDurable, PTL DEF Spec

LEMMA ConcatPrefix ==
    ASSUME NEW S, NEW s \in Seq(S), NEW t \in Seq(S)
    PROVE  IsPrefix(s, s \o t) /\ IsPrefix(s, s)
<1>1. SubSeq(s, 1, Len(s)) = s BY SubSeqFull
<1>2. Len(s) \in Nat /\ Len(t) \in Nat /\ Len(s \o t) = Len(s) + Len(t) BY ConcatProperties
<1>3. SubSeq(s \o t, 1, Len(s)) = s
  <2>1. CASE Len(s) = 0
    <3>1. SubSeq(s \o t, 1, 0) = <<>> BY SubSeqEmpty
    <3> QED BY <2>1, <3>1, EmptySeq
  <2>2. CASE Len(s) > 0
    BY <1>1, <1>2, <2>2, 1 \in 1..Len(s), Len(s) \in 1..Len(s), SubSeqOfConcat1
  <2> QED BY <1>2, <2>1, <2>2
<1> QED BY <1>1, <1>2, <1>3 DEF IsPrefix

LEMMA NextGrows ==
    ASSUME TurnType, CacheIsDurable, [Next]_vars, NEW c \in Chats
    PROVE  IsPrefix(disk[c], disk'[c])
<1>0. disk \in [Chats -> Seq(Entry)] BY DEF TurnType
<1>1. CASE UNCHANGED disk
  BY <1>0, <1>1, ConcatPrefix
<1>2. ASSUME NEW t \in Turns, chat[t] \in Chats, disk' = [disk EXCEPT ![chat[t]] = @ \o Exchange(t)]
      PROVE  IsPrefix(disk[c], disk'[c])
  BY <1>0, <1>2, ExchangeType, ConcatPrefix
<1> QED BY <1>1, <1>2, SessionStep

\* Session files only grow, for any interleaving of turns and any failed saves.
THEOREM HistoryOnlyGrowsHolds == Spec => HistoryOnlyGrows
<1>1. TurnType /\ CacheIsDurable /\ [Next]_vars
         => [\A c \in Chats : IsPrefix(disk[c], disk'[c])]_vars
  BY NextGrows
<1> QED
  BY <1>1, InitType, InitDurable, NextType, NextDurable, PTL DEF Spec, HistoryOnlyGrows

-----------------------------------------------------------------------------
(* Exchanges *)

\* Turns past their Record.
Past == {t \in Turns : pc[t] \in {"clear", "publish", "done", "cancelled"}}

\* A session, item by item: pairs of a user and an assistant entry of one turn of
\* P, and no entry twice.
Whole(s, P) ==
    /\ Len(s) % 2 = 0
    /\ \A i \in 1..Len(s) :
          /\ s[i].turn \in P
          /\ i % 2 = 1 => /\ s[i].role = "user"
                          /\ s[i + 1] = [turn |-> s[i].turn, role |-> "assistant"]
    /\ \A i, j \in 1..Len(s) : s[i] = s[j] => i = j

WholeInv == \A c \in Chats : Whole(disk[c], Past)

LEMMA WholeMonotonic ==
    ASSUME NEW s, NEW P, NEW Q, P \subseteq Q, Whole(s, P)
    PROVE  Whole(s, Q)
BY DEF Whole

LEMMA EvenSucc ==
    ASSUME NEW n \in Nat, n % 2 = 0
    PROVE  /\ (n + 2) % 2 = 0
           /\ \A i \in 1..n : i % 2 = 1 => i + 1 \in 1..n
OBVIOUS

LEMMA WholeGrows ==
    ASSUME NEW s \in Seq(Entry), NEW P, NEW t \in Turns, t \notin P, Whole(s, P)
    PROVE  Whole(s \o Exchange(t), P \cup {t})
<1> DEFINE n == Len(s)
           x == Exchange(t)
           u == s \o x
<1>0. /\ x \in Seq(Entry) /\ Len(x) = 2
      /\ x[1] = [turn |-> t, role |-> "user"]
      /\ x[2] = [turn |-> t, role |-> "assistant"]
  BY ExchangeType
<1> HIDE DEF x
<1>1. n \in Nat /\ n % 2 = 0 BY LenProperties DEF Whole
<1>a. /\ Len(u) = n + Len(x)
      /\ \A i \in 1..(n + Len(x)) : u[i] = IF i <= n THEN s[i] ELSE x[i - n]
  BY <1>0, ConcatProperties
<1>2. Len(u) = n + 2 BY <1>0, <1>a
<1>3. \A i \in 1..(n + 2) : u[i] = IF i <= n THEN s[i] ELSE x[i - n]
  BY <1>0, <1>a
<1>4. \A i \in 1..n : /\ s[i].turn \in P /\ s[i].turn # t
                      /\ i % 2 = 1 =>
                            /\ s[i].role = "user"
                            /\ s[i + 1] = [turn |-> s[i].turn, role |-> "assistant"]
  BY DEF Whole
<1>5. \A i, j \in 1..n : s[i] = s[j] => i = j BY DEF Whole
<1> HIDE DEF n, u
<1>6. \A i \in 1..n : u[i] = s[i] BY <1>1, <1>3
<1>7. /\ u[n + 1] = [turn |-> t, role |-> "user"]
      /\ u[n + 2] = [turn |-> t, role |-> "assistant"]
  <2>1. n + 1 \in 1..(n + 2) /\ ~(n + 1 <= n) /\ (n + 1) - n = 1 BY <1>1
  <2>2. n + 2 \in 1..(n + 2) /\ ~(n + 2 <= n) /\ (n + 2) - n = 2 BY <1>1
  <2> QED BY <1>0, <1>3, <2>1, <2>2
<1>8. \A i \in 1..(n + 2) : i \in 1..n \/ i = n + 1 \/ i = n + 2 BY <1>1
<1>9. (n + 2) % 2 = 0 /\ \A i \in 1..n : i % 2 = 1 => i + 1 \in 1..n
  BY <1>1, EvenSucc
<1>10. ASSUME NEW i \in 1..(n + 2)
       PROVE  /\ u[i].turn \in P \cup {t}
              /\ i % 2 = 1 => /\ u[i].role = "user"
                              /\ u[i + 1] = [turn |-> u[i].turn, role |-> "assistant"]
  <2>1. CASE i \in 1..n BY <1>4, <1>6, <1>9, <2>1
  <2>2. CASE i = n + 1
    <3>1. i + 1 = n + 2 BY <1>1, <2>2
    <3> QED BY <1>7, <2>2, <3>1
  <2>3. CASE i = n + 2 BY <1>7, <1>9, <2>3
  <2> QED BY <1>8, <2>1, <2>2, <2>3
<1>11. ASSUME NEW i \in 1..(n + 2), NEW j \in 1..(n + 2), u[i] = u[j] PROVE i = j
  <2>1. \A k \in 1..n : u[k].turn # t BY <1>4, <1>6
  <2>2. u[n + 1].turn = t /\ u[n + 2].turn = t /\ u[n + 1].role # u[n + 2].role BY <1>7
  <2>3. CASE i \in 1..n /\ j \in 1..n BY <1>5, <1>6, <1>11, <2>3
  <2> QED BY <1>8, <1>11, <2>1, <2>2, <2>3
<1> QED BY <1>2, <1>9, <1>10, <1>11 DEF Whole, u, x

LEMMA PastGrows ==
    ASSUME TurnType, [Next]_vars
    PROVE  Past \subseteq Past'
<1> SUFFICES ASSUME NEW t \in Turns, pc[t] \in {"clear", "publish", "done", "cancelled"}
             PROVE  pc'[t] \in {"clear", "publish", "done", "cancelled"}
  BY DEF Past
<1>0. pc \in [Turns -> Stages] BY DEF TurnType
<1>1. CASE pc' = pc BY <1>1
<1>2. ASSUME NEW u \in Turns, NEW next, pc' = [pc EXCEPT ![u] = next],
             pc[u] \notin {"clear", "publish", "done", "cancelled"}
                \/ next \in {"clear", "publish", "done", "cancelled"}
      PROVE  pc'[t] \in {"clear", "publish", "done", "cancelled"}
  BY <1>0, <1>2
<1>3. ASSUME NEW u \in Turns,
             \/ \E c \in Origins[u] : Receive(u, c)
             \/ \E d \in Chats \cup {NoChat} : ToolSend(u, d)
             \/ Acquire(u) \/ SetContext(u) \/ StartTurn(u) \/ CopyHistory(u)
             \/ ToolMark(u) \/ (\E f \in BOOLEAN : RunEnds(u, f))
      PROVE  \E next : /\ pc' = [pc EXCEPT ![u] = next]
                       /\ pc[u] \notin {"clear", "publish", "done", "cancelled"}
  BY <1>3
     DEF Receive, ToolSend, Acquire, SetContext, StartTurn, CopyHistory, ToolMark,
         RunEnds, At, Moves
<1>4. ASSUME NEW u \in Turns,
             Record(u) \/ ClearCheckpoint(u) \/ PublishReply(u) \/ Cancel(u)
      PROVE  \E next \in {"clear", "publish", "done", "cancelled"} : pc' = [pc EXCEPT ![u] = next]
  BY <1>4 DEF Record, ClearCheckpoint, PublishReply, Cancel, At, Moves
<1>5. CASE UNCHANGED vars BY <1>1, <1>5 DEF vars
<1> QED BY <1>2, <1>3, <1>4, <1>5 DEF Next, Progress

LEMMA NextWhole ==
    TurnType /\ CacheIsDurable /\ WholeInv /\ [Next]_vars => WholeInv'
<1> SUFFICES ASSUME TurnType, CacheIsDurable, WholeInv, [Next]_vars, NEW c \in Chats
             PROVE  Whole(disk'[c], Past')
  BY DEF WholeInv
<1>0. disk[c] \in Seq(Entry) /\ disk \in [Chats -> Seq(Entry)] BY DEF TurnType
<1>1. Whole(disk[c], Past) BY DEF WholeInv
<1>2. CASE disk'[c] = disk[c]
  BY <1>1, <1>2, PastGrows, WholeMonotonic
<1>3. ASSUME NEW t \in Turns, pc[t] = "record", pc' = [pc EXCEPT ![t] = "clear"],
             disk'[c] = disk[c] \o Exchange(t)
      PROVE  Whole(disk'[c], Past')
  <2>1. t \notin Past BY <1>3 DEF Past
  <2>2. Past \cup {t} \subseteq Past' BY <1>3, PastGrows DEF Past, TurnType
  <2>3. Whole(disk[c] \o Exchange(t), Past \cup {t}) BY <1>0, <1>1, <2>1, WholeGrows
  <2> QED BY <1>3, <2>2, <2>3, WholeMonotonic
<1> QED BY <1>0, <1>2, <1>3, SessionStep

LEMMA WholeInvImplies == TurnType /\ WholeInv => ExchangesWhole
<1> SUFFICES ASSUME TurnType, WholeInv, NEW c \in Chats
             PROVE  /\ Len(disk[c]) % 2 = 0
                    /\ \A i \in DOMAIN disk[c] :
                          i % 2 = 1 => SubSeq(disk[c], i, i + 1) = Exchange(disk[c][i].turn)
                    /\ \A i, j \in DOMAIN disk[c] : disk[c][i] = disk[c][j] => i = j
  BY DEF ExchangesWhole
<1> DEFINE s == disk[c]
<1>0. s \in Seq(Entry) /\ Len(s) \in Nat /\ DOMAIN s = 1..Len(s)
  BY LenProperties DEF TurnType
<1>1. Whole(s, Past) BY DEF WholeInv
<1> HIDE DEF s
<1>2. ASSUME NEW i \in 1..Len(s), i % 2 = 1
      PROVE  SubSeq(s, i, i + 1) = Exchange(s[i].turn)
  <2>1. i + 1 \in 1..Len(s) BY <1>0, <1>1, <1>2, EvenSucc DEF Whole
  <2>2. s[i] \in Entry BY <1>0, ElementOfSeq
  <2>3. s[i].role = "user" /\ s[i + 1] = [turn |-> s[i].turn, role |-> "assistant"]
    BY <1>1, <1>2 DEF Whole
  <2>4. s[i] = [turn |-> s[i].turn, role |-> "user"] BY <2>2, <2>3 DEF Entry
  <2>5. \A j \in i..(i + 1) : s[j] \in Entry
    <3>1. \A j \in i..(i + 1) : j \in 1..Len(s) BY <1>0, <2>1
    <3> QED BY <1>0, <3>1, ElementOfSeq
  <2>6. /\ SubSeq(s, i, i + 1) \in Seq(Entry) /\ Len(SubSeq(s, i, i + 1)) = 2
        /\ \A k \in 1..2 : SubSeq(s, i, i + 1)[k] = s[i + k - 1]
    <3>1. i \in Nat /\ i + 1 \in Nat /\ i <= i + 1 /\ (i + 1) - i + 1 = 2 BY <1>0, <2>1
    <3>2. \A j \in i..(i + 1) : s[j] \in Entry BY <2>5
    <3>3. /\ SubSeq(s, i, i + 1) \in Seq(Entry)
          /\ Len(SubSeq(s, i, i + 1)) = (i + 1) - i + 1
          /\ \A k \in 1..((i + 1) - i + 1) : SubSeq(s, i, i + 1)[k] = s[i + k - 1]
      BY ONLY <3>1, <3>2, SubSeqProperties
    <3> QED BY ONLY <3>1, <3>3
  <2>7. s[i].turn \in Turns BY <2>2 DEF Entry
  <2>8. SubSeq(s, i, i + 1)[1] = s[i] /\ SubSeq(s, i, i + 1)[2] = s[i + 1]
    BY <2>6, i + 1 - 1 = i, i + 2 - 1 = i + 1
  <2> DEFINE x == Exchange(s[i].turn)
             v == SubSeq(s, i, i + 1)
  <2>9. x \in Seq(Entry) /\ Len(x) = 2 /\ x[1] = s[i] /\ x[2] = s[i + 1]
    BY <2>3, <2>4, <2>7, ExchangeType
  <2>10. v \in Seq(Entry) /\ Len(v) = 2 /\ v[1] = s[i] /\ v[2] = s[i + 1]
    BY <2>6, <2>8
  <2> HIDE DEF x, v
  <2>11. \A k \in 1..Len(v) : v[k] = x[k] BY <2>9, <2>10
  <2>12. v = x BY <2>9, <2>10, <2>11, SeqEqual
  <2> QED BY <2>12 DEF x, v
<1> QED BY <1>0, <1>1, <1>2 DEF Whole, s

\* Session files are lists of whole exchanges, none of them twice, for any number
\* of concurrent turns, aborted ones and failed saves included.
THEOREM ExchangesWholeHolds == Spec => []ExchangesWhole
<1>1. Init => WholeInv
  <2> SUFFICES ASSUME Init, NEW c \in Chats PROVE Whole(disk[c], Past)
    BY DEF WholeInv
  <2>1. disk[c] = <<>> BY DEF Init
  <2>2. Len(<<>>) = 0 OBVIOUS
  <2> QED BY <2>1, <2>2 DEF Whole
<1> QED
  BY <1>1, InitType, InitDurable, NextType, NextDurable, NextWhole, WholeInvImplies, PTL DEF Spec

-----------------------------------------------------------------------------
(* Replies *)

\* What a turn that nobody crossed relies on: the tool's context is its own from
\* set_context to its reply, and the shared flag tells what its own sends did.
AloneAt(t) ==
    /\ pc[t] \in Using => tool.chat = chat[t]
    /\ pc[t] \in {"new", "queued", "load", "start"} => ~mine[t]
    /\ pc[t] \in {"history", "run", "record", "clear", "publish"} => (mine[t] <=> tool.sent)
    /\ pc[t] = "mark" => (mine[t] <=> (tool.sent \/ target[t] # NoChat))
    /\ pc[t] = "new" => \A m \in out : m.turn # t
    /\ pc[t] # "done" => \A m \in out : m.turn = t => m.via # "final"
    /\ \A m \in out : m.turn = t /\ m.via = "default" => m.to = chat[t]
    /\ pc[t] = "done" /\ final[t] =>
          ([turn |-> t, to |-> chat[t], via |-> "final"] \in out <=> ~mine[t])

AloneInv == \A t \in Turns \ crossed : AloneAt(t)

LEMMA TwoAreMany ==
    ASSUME NEW S, IsFiniteSet(S), NEW x \in S, NEW y \in S, x # y
    PROVE  Cardinality(S) > 1
<1>1. IsFiniteSet({x}) /\ Cardinality({x}) = 1 BY FS_Singleton
<1>2. Cardinality({x} \cup {y}) = 2 BY <1>1, FS_AddElement
<1>3. Cardinality({x} \cup {y}) <= Cardinality(S) BY FS_Subset, {x} \cup {y} \in SUBSET S
<1>4. Cardinality(S) \in Nat BY FS_CardinalityType
<1> QED BY <1>2, <1>3, <1>4

\* A turn that stays uncrossed is alone with the tool's context after the step.
LEMMA MovesAlone ==
    ASSUME TurnType, NEW u \in Turns, NEW next \in Stages, Moves(u, next),
           NEW t \in Turns, t # u, t \notin crossed', pc[t] \in Using
    PROVE  next \notin Using
<1> SUFFICES ASSUME next \in Using PROVE FALSE
  OBVIOUS
<1>1. pc' = [pc EXCEPT ![u] = next] /\ pc \in [Turns -> Stages] BY DEF Moves, TurnType
<1>2. t \in UsingTool(pc') /\ u \in UsingTool(pc') BY <1>1 DEF UsingTool, Using
<1>3. IsFiniteSet(UsingTool(pc'))
  BY TurnsAssumption, FS_Subset, UsingTool(pc') \in SUBSET Turns DEF UsingTool
<1>4. Cardinality(UsingTool(pc')) > 1 BY <1>2, <1>3, TwoAreMany
<1>5. crossed' = crossed \cup UsingTool(pc') BY <1>4 DEF Moves
<1> QED BY <1>2, <1>5

LEMMA MovesCrossed ==
    ASSUME TurnType, NEW u \in Turns, NEW next \in Stages, Moves(u, next)
    PROVE  /\ crossed \subseteq crossed'
           /\ pc'[u] = next
           /\ \A t \in Turns : t # u => pc'[t] = pc[t]
BY DEF Moves, TurnType

\* What a step of another turn leaves alone.
LEMMA AloneFrame ==
    ASSUME TurnType, NEW t \in Turns, AloneAt(t), pc'[t] = pc[t], chat'[t] = chat[t],
           final'[t] = final[t], mine'[t] = mine[t], target'[t] = target[t],
           pc[t] \in Using => tool' = tool,
           out \subseteq out', \A m \in out' : m.turn = t => m \in out
    PROVE  AloneAt(t)'
<1>1. \A m \in out' : m.turn = t <=> (m \in out /\ m.turn = t) OBVIOUS
<1>2. [turn |-> t, to |-> chat[t], via |-> "final"] \in out'
         <=> [turn |-> t, to |-> chat[t], via |-> "final"] \in out
  OBVIOUS
<1>3. (pc[t] \in Using => tool.chat = chat[t])' BY DEF AloneAt
<1>4. /\ (pc[t] \in {"history", "run", "record", "clear", "publish"} => (mine[t] <=> tool.sent))'
      /\ (pc[t] = "mark" => (mine[t] <=> (tool.sent \/ target[t] # NoChat)))'
  BY DEF AloneAt, Using
<1>5. (pc[t] \in {"new", "queued", "load", "start"} => ~mine[t])' BY DEF AloneAt
<1>6. /\ (pc[t] = "new" => \A m \in out : m.turn # t)'
      /\ (pc[t] # "done" => \A m \in out : m.turn = t => m.via # "final")'
      /\ (\A m \in out : m.turn = t /\ m.via = "default" => m.to = chat[t])'
  BY <1>1 DEF AloneAt
<1>7. (pc[t] = "done" /\ final[t] =>
          ([turn |-> t, to |-> chat[t], via |-> "final"] \in out <=> ~mine[t]))'
  BY <1>2 DEF AloneAt
<1> QED BY <1>3, <1>4, <1>5, <1>6, <1>7 DEF AloneAt

\* A step of turn u keeps AloneAt of every other turn it does not cross.
LEMMA OthersAlone ==
    ASSUME TurnType, NEW u \in Turns, NEW t \in Turns, t # u, t \notin crossed', AloneAt(t),
           \/ \E c \in Origins[u] : Receive(u, c)
           \/ \E d \in Chats \cup {NoChat} : ToolSend(u, d)
           \/ Progress(u) \/ Cancel(u)
    PROVE  AloneAt(t)'
<1>1. PICK next \in Stages : Moves(u, next) /\ (next \notin Using => tool' = tool)
  BY DEF Progress, Receive, ToolSend, Acquire, SetContext, StartTurn, CopyHistory, ToolMark,
         RunEnds, Record, ClearCheckpoint, PublishReply, Cancel, At, Stages, Using
<1>2. pc'[t] = pc[t] BY <1>1, MovesCrossed
<1>3. pc[t] \in Using => tool' = tool BY <1>1, MovesAlone
<1>4. /\ chat'[t] = chat[t] /\ final'[t] = final[t] /\ mine'[t] = mine[t] /\ target'[t] = target[t]
  BY DEF Progress, Receive, ToolSend, Acquire, SetContext, StartTurn, CopyHistory, ToolMark,
         RunEnds, Record, ClearCheckpoint, PublishReply, Cancel, turnVars, TurnType
<1>5. out' = out \/ \E m : m.turn = u /\ out' = out \cup {m}
  BY DEF Progress, Receive, ToolSend, Acquire, SetContext, StartTurn, CopyHistory, ToolMark,
         RunEnds, Record, ClearCheckpoint, PublishReply, Cancel
<1>6. out \subseteq out' /\ \A m \in out' : m.turn = t => m \in out BY <1>5
<1> QED BY <1>2, <1>3, <1>4, <1>6, AloneFrame

\* A step of turn t keeps AloneAt(t).
LEMMA OwnAlone ==
    ASSUME TurnType, NEW t \in Turns, AloneAt(t),
           \/ \E c \in Origins[t] : Receive(t, c)
           \/ \E d \in Chats \cup {NoChat} : ToolSend(t, d)
           \/ Progress(t) \/ Cancel(t)
    PROVE  AloneAt(t)'
<1> USE DEF AloneAt, TurnType, Using, At, Moves
<1>1. ASSUME NEW c \in Origins[t], Receive(t, c) PROVE AloneAt(t)'
  BY <1>1 DEF Receive
<1>2. CASE Acquire(t)
  BY <1>2 DEF Acquire, turnVars
<1>3. CASE SetContext(t)
  BY <1>3 DEF SetContext, turnVars
<1>4. CASE StartTurn(t)
  BY <1>4 DEF StartTurn, turnVars
<1>5. CASE CopyHistory(t)
  BY <1>5 DEF CopyHistory
<1>6. ASSUME NEW d \in Chats \cup {NoChat}, ToolSend(t, d) PROVE AloneAt(t)'
  <2> DEFINE to == IF d = NoChat THEN tool.chat ELSE d
             m == [turn |-> t, to |-> to, via |-> IF d = NoChat THEN "default" ELSE "explicit"]
  <2>1. pc[t] = "run" /\ pc'[t] = "mark" /\ tool.chat = chat[t] /\ chat[t] \in Chats
    BY <1>6 DEF ToolSend
  <2>2. UNCHANGED <<tool, chat, final>> /\ out' = out \cup {m} BY <1>6 DEF ToolSend
  <2>3. target'[t] = IF to = chat[t] THEN to ELSE NoChat BY <1>6, <2>1 DEF ToolSend
  <2>4. mine'[t] <=> (mine[t] \/ to = chat[t]) BY <1>6 DEF ToolSend
  <2>5. target'[t] # NoChat <=> to = chat[t] BY <2>1, <2>3, TurnsAssumption
  <2>6. mine'[t] <=> (tool.sent \/ target'[t] # NoChat) BY <2>1, <2>4, <2>5
  <2>7. m.turn = t /\ m.via # "final" /\ (m.via = "default" => m.to = chat[t]) BY <2>1
  <2> HIDE DEF m, to
  <2>8. /\ \A n \in out' : n.turn = t => n.via # "final"
        /\ \A n \in out' : n.turn = t /\ n.via = "default" => n.to = chat[t]
    BY <2>1, <2>2, <2>7
  <2> QED BY <2>1, <2>2, <2>6, <2>8
<1>7. CASE ToolMark(t)
  BY <1>7 DEF ToolMark
<1>8. ASSUME NEW f \in BOOLEAN, RunEnds(t, f) PROVE AloneAt(t)'
  BY <1>8 DEF RunEnds
<1>9. CASE Record(t)
  BY <1>9 DEF Record, turnVars
<1>10. CASE ClearCheckpoint(t)
  BY <1>10 DEF ClearCheckpoint
<1>11. CASE PublishReply(t)
  <2> DEFINE m == [turn |-> t, to |-> chat[t], via |-> "final"]
  <2>1. pc[t] = "publish" /\ pc'[t] = "done" /\ UNCHANGED <<tool, chat, final, mine>>
    BY <1>11 DEF PublishReply, turnVars
  <2>2. out' = IF final[t] /\ ~tool.sent THEN out \cup {m} ELSE out
    BY <1>11 DEF PublishReply
  <2>3. m.turn = t /\ m.via = "final" OBVIOUS
  <2>4. m \notin out BY <2>1, <2>3
  <2> HIDE DEF m
  <2>5. final[t] => (m \in out' <=> ~mine[t]) BY <2>1, <2>2, <2>4
  <2>6. \A n \in out' : n.turn = t /\ n.via = "default" => n.to = chat[t]
    BY <2>2, <2>3
  <2> QED BY <2>1, <2>5, <2>6 DEF m
<1>12. CASE Cancel(t)
  BY <1>12 DEF Cancel
<1> QED
  BY <1>1, <1>2, <1>3, <1>4, <1>5, <1>6, <1>7, <1>8, <1>9, <1>10, <1>11, <1>12 DEF Progress

LEMMA NextAlone == TurnType /\ AloneInv /\ [Next]_vars => AloneInv'
<1> SUFFICES ASSUME TurnType, AloneInv, [Next]_vars, NEW t \in Turns, t \notin crossed'
             PROVE  AloneAt(t)'
  BY DEF AloneInv
<1>1. crossed \subseteq crossed'
  BY DEF Next, vars, Progress, Receive, ToolSend, Acquire, SetContext, StartTurn, CopyHistory,
         ToolMark, RunEnds, Record, ClearCheckpoint, PublishReply, Cancel, At, Moves
<1>2. AloneAt(t) BY <1>1 DEF AloneInv
<1>3. CASE UNCHANGED vars BY <1>2, <1>3 DEF vars, AloneAt
<1> QED BY <1>2, <1>3, OwnAlone, OthersAlone DEF Next

\* A turn whose use of the message tool's context no other turn crossed publishes
\* its final content exactly when its tool did not deliver to its chat, and its
\* default sends reach its own chat, for any number of turns, chats and permits.
THEOREM RepliesWhenAloneHolds == Spec => []RepliesWhenAlone
<1>1. Init => AloneInv BY DEF Init, AloneInv, AloneAt, Using
<1>2. AloneInv => RepliesWhenAlone BY DEF AloneInv, AloneAt, RepliesWhenAlone
<1> QED BY <1>1, <1>2, InitType, NextType, NextAlone, PTL DEF Spec

-----------------------------------------------------------------------------
(* The gate *)

\* Spawned turns that hold a permit.
Admitted == {t \in Turns \ Ungated : pc[t] \in Using \cup {"load"}}

\* Every permit is in the gate or with one turn; a cron job's turn never asks for one.
GateInv ==
    /\ permits \in Nat
    /\ permits + Cardinality(Admitted) = Permits
    /\ \A t \in Ungated : pc[t] # "queued"

LEMMA AdmittedFinite == IsFiniteSet(Admitted) /\ Cardinality(Admitted) \in Nat
<1>1. IsFiniteSet(Admitted) BY TurnsAssumption, FS_Subset, Admitted \in SUBSET Turns DEF Admitted
<1> QED BY <1>1, FS_CardinalityType

LEMMA NextGate == TurnType /\ GateInv /\ [Next]_vars => GateInv'
<1> SUFFICES ASSUME TurnType, GateInv, [Next]_vars PROVE GateInv'
  OBVIOUS
<1>0. /\ permits \in Nat /\ permits + Cardinality(Admitted) = Permits
      /\ IsFiniteSet(Admitted) /\ Cardinality(Admitted) \in Nat
  BY AdmittedFinite DEF GateInv
<1>a. \A t \in Ungated : pc'[t] # "queued"
  <2> SUFFICES ASSUME NEW t \in Ungated, pc'[t] = "queued" PROVE FALSE
    OBVIOUS
  <2>1. t \in Turns /\ pc[t] # "queued" BY TurnsAssumption DEF GateInv
  <2>2. pc' = pc \/ \E u \in Turns, next \in Stages :
                       Moves(u, next) /\ (next = "queued" => u \notin Ungated)
    BY DEF Next, vars, Progress, Receive, ToolSend, Acquire, SetContext, StartTurn, CopyHistory,
           ToolMark, RunEnds, Record, ClearCheckpoint, PublishReply, Cancel, At, Stages
  <2> QED BY <2>1, <2>2, MovesCrossed
<1>1. ASSUME Admitted' = Admitted, permits' = permits PROVE GateInv'
  BY <1>0, <1>1, <1>a DEF GateInv
<1>2. ASSUME NEW t \in Turns, t \in Admitted, Admitted' = Admitted \ {t}, permits' = permits + 1
      PROVE  GateInv'
  <2>1. Cardinality(Admitted') = Cardinality(Admitted) - 1 BY <1>0, <1>2, FS_RemoveElement
  <2> QED BY <1>0, <1>2, <1>a, <2>1 DEF GateInv
<1> USE DEF Using, TurnType, At, Moves
<1>3. ASSUME NEW t \in Turns, NEW c \in Origins[t], Receive(t, c) PROVE GateInv'
  <2>1. Admitted' = Admitted BY <1>3 DEF Receive, Admitted
  <2> QED BY <1>1, <1>3, <2>1 DEF Receive
<1>4. ASSUME NEW t \in Turns, Acquire(t), t \notin Ungated PROVE GateInv'
  <2>1. Admitted' = Admitted \cup {t} /\ t \notin Admitted BY <1>4 DEF Acquire, Admitted
  <2>2. Cardinality(Admitted') = Cardinality(Admitted) + 1 BY <1>0, <2>1, FS_AddElement
  <2>3. permits > 0 /\ permits' = permits - 1 BY <1>4 DEF Acquire
  <2> QED BY <1>0, <1>a, <2>2, <2>3 DEF GateInv
<1>5. ASSUME NEW t \in Turns,
             \/ \E d \in Chats \cup {NoChat} : ToolSend(t, d)
             \/ SetContext(t) \/ StartTurn(t) \/ CopyHistory(t)
             \/ ToolMark(t) \/ (\E f \in BOOLEAN : RunEnds(t, f))
             \/ Record(t) \/ ClearCheckpoint(t)
      PROVE  GateInv'
  <2>1. Admitted' = Admitted
    BY <1>5 DEF ToolSend, SetContext, StartTurn, CopyHistory, ToolMark, RunEnds, Record, ClearCheckpoint, Admitted
  <2>2. permits' = permits
    BY <1>5 DEF ToolSend, SetContext, StartTurn, CopyHistory, ToolMark, RunEnds, Record, ClearCheckpoint
  <2> QED BY <1>1, <2>1, <2>2
<1>6. ASSUME NEW t \in Turns, PublishReply(t) PROVE GateInv'
  <2>1. CASE t \in Ungated
    <3>1. Admitted' = Admitted BY <1>6, <2>1 DEF PublishReply, Admitted
    <3> QED BY <1>1, <1>6, <2>1, <3>1 DEF PublishReply, Release
  <2>2. CASE t \notin Ungated
    <3>1. Admitted' = Admitted \ {t} /\ t \in Admitted BY <1>6, <2>2 DEF PublishReply, Admitted
    <3> QED BY <1>2, <1>6, <2>2, <3>1 DEF PublishReply, Release
  <2> QED BY <2>1, <2>2
<1>7. ASSUME NEW t \in Turns, Cancel(t) PROVE GateInv'
  <2>1. CASE pc[t] = "queued"
    <3>1. Admitted' = Admitted BY <1>7, <2>1 DEF Cancel, Admitted
    <3> QED BY <1>1, <1>7, <2>1, <3>1 DEF Cancel
  <2>2. CASE pc[t] # "queued"
    <3>1. Admitted' = Admitted \ {t} /\ t \in Admitted BY <1>7, <2>2 DEF Cancel, Admitted
    <3> QED BY <1>2, <1>7, <2>2, <3>1 DEF Cancel
  <2> QED BY <2>1, <2>2
<1>8. CASE UNCHANGED vars
  BY <1>1, <1>8 DEF vars, Admitted
<1>9. ASSUME NEW t \in Turns, Acquire(t) PROVE t \notin Ungated
  BY <1>9 DEF Acquire, GateInv
<1> QED BY <1>3, <1>4, <1>5, <1>6, <1>7, <1>8, <1>9 DEF Next, Progress

\* No permit of the concurrency gate is lost or made, also not by an aborted task:
\* at most Permits spawned turns are between acquire_owned and their end.
THEOREM GateBound == Spec => [](GateInv /\ Cardinality(Admitted) <= Permits)
<1>1. Init => GateInv
  <2> SUFFICES ASSUME Init PROVE GateInv
    OBVIOUS
  <2>1. Admitted = {} BY DEF Init, Admitted, Using
  <2>2. \A t \in Ungated : pc[t] # "queued" BY TurnsAssumption DEF Init
  <2>3. permits = Permits BY DEF Init
  <2> QED BY <2>1, <2>2, <2>3, FS_EmptySet, TurnsAssumption DEF GateInv
<1>2. GateInv => Cardinality(Admitted) <= Permits BY AdmittedFinite DEF GateInv
<1> QED BY <1>1, <1>2, InitType, NextType, NextGate, PTL DEF Spec

-----------------------------------------------------------------------------
(***************************************************************************)
(* The turns of the HTTP API server run the same loop under a semaphore    *)
(* per session (ApiTurns).  The theorems hold for any requests and         *)
(* sessions, any number of messages a run appends and any number of failed *)
(* saves.                                                                  *)
(***************************************************************************)
\* Induction over the natural numbers with a set in place of a predicate.
LEMMA NatInduct ==
    ASSUME NEW T, 0 \in T, \A n \in Nat : n \in T => n + 1 \in T
    PROVE  Nat \subseteq T
<1> DEFINE X == Nat \ T
           R == {ss \in Nat \X Nat : ss[1] < ss[2]}
<1> SUFFICES ASSUME X # {} PROVE FALSE
  OBVIOUS
<1>1. IsWellFoundedOn(R, Nat) BY NatLessThanWellFounded DEF OpToRel
<1>2. PICK m \in X : \A n \in X : ~(<<n, m>> \in R)
  <2>1. X \subseteq Nat OBVIOUS
  <2> HIDE DEF R, X
  <2> QED BY <1>1, <2>1, WFMin
<1>3. m \in Nat /\ m # 0 OBVIOUS
<1>4. m - 1 \in Nat /\ (m - 1) + 1 = m /\ <<m - 1, m>> \in Nat \X Nat /\ m - 1 < m BY <1>3
<1>5. m - 1 \in X
  <2>1. m - 1 \notin T BY <1>4
  <2> QED BY <1>4, <2>1
<1>6. <<m - 1, m>> \in R BY <1>4
<1> QED BY <1>2, <1>5, <1>6

\* Induction over sequences with a set in place of a predicate.
LEMMA SeqInduct ==
    ASSUME NEW A, NEW T, <<>> \in T, \A s \in Seq(A), e \in A : s \in T => Append(s, e) \in T
    PROVE  Seq(A) \subseteq T
<1> DEFINE N == {n \in Nat : \A s \in Seq(A) : Len(s) = n => s \in T}
<1>1. 0 \in N BY EmptySeq
<1>2. ASSUME NEW n \in Nat, n \in N PROVE n + 1 \in N
  <2> SUFFICES ASSUME NEW s \in Seq(A), Len(s) = n + 1 PROVE s \in T
    OBVIOUS
  <2>1. s # <<>> BY EmptySeq
  <2>2. PICK q \in Seq(A), e \in A : s = Append(q, e) BY <2>1, SequenceEmptyOrAppend
  <2>3. Len(q) \in Nat /\ Len(s) = Len(q) + 1 BY <2>2, AppendProperties, LenProperties
  <2>4. Len(q) = n BY <2>3
  <2> QED BY <1>2, <2>2, <2>4
<1>3. Nat \subseteq N
  <2> HIDE DEF N
  <2> QED BY <1>1, <1>2, NatInduct
<1> SUFFICES ASSUME NEW s \in Seq(A) PROVE s \in T
  OBVIOUS
<1>4. Len(s) \in N BY <1>3, LenProperties
<1> QED BY <1>4

\* The recursive function inside Only exists.
LEMMA OnlyRec ==
    ASSUME NEW s, Len(s) \in Nat, NEW S
    PROVE  \E f : /\ f = [i \in 0 .. Len(s) |->
                            IF i = 0 THEN <<>>
                            ELSE IF s[i] \in S THEN Append(f[i - 1], s[i]) ELSE f[i - 1]]
                  /\ Only(s, S) = f[Len(s)]
<1> DEFINE Round(x, k) == IF s[k] \in S THEN Append(x, s[k]) ELSE x
           Rec(f, m) == f = [k \in 0 .. m |-> IF k = 0 THEN <<>> ELSE Round(f[k - 1], k)]
           T == {m \in Nat : \E f : Rec(f, m)}
<1>1. Only(s, S) = (CHOOSE f : Rec(f, Len(s)))[Len(s)] BY DEF Only
<1> HIDE DEF Round
<1>2. 0 \in T
  <2> DEFINE g == [k \in 0 .. 0 |-> <<>>]
  <2>1. Rec(g, 0) OBVIOUS
  <2> QED BY <2>1
<1>3. ASSUME NEW m \in Nat, m \in T PROVE m + 1 \in T
  <2>1. PICK f : Rec(f, m) BY <1>3
  <2> DEFINE n == m + 1
             g == [k \in 0 .. n |-> IF k = n THEN Round(f[m], n) ELSE f[k]]
             h == [k \in 0 .. n |-> IF k = 0 THEN <<>> ELSE Round(g[k - 1], k)]
  <2>2. \A k \in 0 .. n : g[k] = h[k]
    <3> SUFFICES ASSUME NEW k \in 0 .. n PROVE g[k] = h[k]
      OBVIOUS
    <3>1. CASE k = n
      <4>1. m \in 0 .. n /\ m # n /\ k - 1 = m /\ k # 0 BY <3>1
      <4>2. g[m] = f[m] BY <4>1
      <4> QED BY <3>1, <4>1, <4>2
    <3>2. CASE k # n
      <4>1. k \in 0 .. m BY <3>2
      <4>2. f[k] = IF k = 0 THEN <<>> ELSE Round(f[k - 1], k) BY <2>1, <4>1
      <4>3. CASE k = 0 BY <3>2, <4>2, <4>3
      <4>4. CASE k # 0
        <5>1. k - 1 \in 0 .. n /\ k - 1 # n BY <3>2, <4>4
        <5>2. g[k - 1] = f[k - 1] BY <5>1
        <5> QED BY <3>2, <4>2, <4>4, <5>2
      <4> QED BY <4>3, <4>4
    <3> QED BY <3>1, <3>2
  <2>3. g = h BY <2>2
  <2>4. Rec(g, n) BY <2>3
  <2>5. n \in Nat OBVIOUS
  <2> QED BY <2>4, <2>5
<1>4. Len(s) \in T
  <2> HIDE DEF T
  <2> QED BY <1>2, <1>3, NatInduct
<1> DEFINE f == CHOOSE g : Rec(g, Len(s))
<1>5. Rec(f, Len(s)) BY <1>4
<1> HIDE DEF f
<1>6. f = [i \in 0 .. Len(s) |-> IF i = 0 THEN <<>>
                            ELSE IF s[i] \in S THEN Append(f[i - 1], s[i]) ELSE f[i - 1]]
  BY <1>5 DEF Round
<1>7. Only(s, S) = f[Len(s)] BY <1>1 DEF f
<1> QED BY <1>6, <1>7

LEMMA OnlyEmpty == ASSUME NEW S PROVE Only(<<>>, S) = <<>>
<1>1. Len(<<>>) = 0 OBVIOUS
<1>2. PICK f : /\ f = [i \in 0 .. Len(<<>>) |->
                            IF i = 0 THEN <<>>
                            ELSE IF <<>>[i] \in S THEN Append(f[i - 1], <<>>[i]) ELSE f[i - 1]]
                  /\ Only(<<>>, S) = f[Len(<<>>)]
  BY <1>1, OnlyRec
<1> QED BY <1>1, <1>2

LEMMA ConcatAppend ==
    ASSUME NEW A, NEW s \in Seq(A), NEW u \in Seq(A), NEW e \in A
    PROVE  s \o Append(u, e) = Append(s \o u, e)
<1> DEFINE x == <<e>>
<1>1. x \in Seq(A) OBVIOUS
<1>2. s \o u \in Seq(A) BY ConcatProperties
<1>3. Append(u, e) = u \o x /\ Append(s \o u, e) = (s \o u) \o x BY <1>2, AppendIsConcat
<1> HIDE DEF x
<1>4. (s \o u) \o x = s \o (u \o x) BY <1>1, ConcatAssociative
<1> QED BY <1>3, <1>4

LEMMA OnlyAppend ==
    ASSUME NEW A, NEW s \in Seq(A), NEW e \in A, NEW S
    PROVE  Only(Append(s, e), S) =
             IF e \in S THEN Append(Only(s, S), e) ELSE Only(s, S)
<1> DEFINE r == Append(s, e)
           n == Len(s)
<1>1. /\ n \in Nat /\ Len(r) = n + 1 /\ r[n + 1] = e
      /\ \A i \in 1 .. n : r[i] = s[i]
  BY AppendProperties
<1>2. PICK f : /\ f = [i \in 0 .. Len(s) |->
                            IF i = 0 THEN <<>>
                            ELSE IF s[i] \in S THEN Append(f[i - 1], s[i]) ELSE f[i - 1]]
               /\ Only(s, S) = f[Len(s)]
  BY <1>1, OnlyRec
<1>3. PICK g : /\ g = [i \in 0 .. Len(r) |->
                            IF i = 0 THEN <<>>
                            ELSE IF r[i] \in S THEN Append(g[i - 1], r[i]) ELSE g[i - 1]]
               /\ Only(r, S) = g[Len(r)]
  <2> HIDE DEF r
  <2>1. Len(r) \in Nat BY <1>1
  <2> QED BY <2>1, OnlyRec
<1> HIDE DEF r, n
<1> DEFINE T == {k \in Nat : k <= n => f[k] = g[k]}
<1>4. n \in T
  <2>1. 0 \in T BY <1>1, <1>2, <1>3 DEF n
  <2>2. ASSUME NEW k \in Nat, k \in T PROVE k + 1 \in T
    <3> SUFFICES ASSUME k + 1 <= n PROVE f[k + 1] = g[k + 1]
      OBVIOUS
    <3>1. /\ k <= n /\ k + 1 \in 1 .. n /\ k + 1 \in 0 .. Len(r) /\ k + 1 \in 0 .. Len(s)
          /\ (k + 1) - 1 = k /\ k + 1 # 0
      BY <1>1 DEF n
    <3>2. f[k] = g[k] BY <2>2, <3>1
    <3>3. r[k + 1] = s[k + 1] BY <1>1, <3>1
    <3>4. f[k + 1] = IF s[k + 1] \in S THEN Append(f[k], s[k + 1]) ELSE f[k] BY <1>2, <3>1
    <3>5. g[k + 1] = IF r[k + 1] \in S THEN Append(g[k], r[k + 1]) ELSE g[k] BY <1>3, <3>1
    <3> QED BY <3>2, <3>3, <3>4, <3>5
  <2> HIDE DEF T
  <2> QED BY <1>1, <2>1, <2>2, NatInduct
<1>5. f[n] = g[n] BY <1>1, <1>4
<1>6. n + 1 \in 0 .. Len(r) /\ (n + 1) - 1 = n /\ n + 1 # 0 BY <1>1
<1>7. g[n + 1] = IF r[n + 1] \in S THEN Append(g[n], r[n + 1]) ELSE g[n] BY <1>3, <1>6
<1>8. Only(r, S) = g[n + 1] /\ Only(s, S) = f[n] BY <1>1, <1>2, <1>3 DEF n
<1> QED BY <1>1, <1>5, <1>7, <1>8 DEF r

LEMMA OnlyType ==
    ASSUME NEW A, NEW s \in Seq(A), NEW S PROVE Only(s, S) \in Seq(A)
<1> DEFINE T == {q \in Seq(A) : Only(q, S) \in Seq(A)}
<1>1. <<>> \in T BY OnlyEmpty, EmptySeq
<1>2. ASSUME NEW q \in Seq(A), NEW e \in A, q \in T PROVE Append(q, e) \in T
  <2>1. Append(q, e) \in Seq(A) BY AppendProperties
  <2>2. Only(q, S) \in Seq(A) BY <1>2
  <2>3. Append(Only(q, S), e) \in Seq(A) BY <2>2, AppendProperties
  <2>4. Only(Append(q, e), S) \in {Append(Only(q, S), e), Only(q, S)} BY OnlyAppend
  <2> QED BY <2>1, <2>2, <2>3, <2>4
<1> HIDE DEF T
<1>3. Seq(A) \subseteq T BY <1>1, <1>2, SeqInduct
<1> QED BY <1>3 DEF T

LEMMA OnlyConcat ==
    ASSUME NEW A, NEW s \in Seq(A), NEW u \in Seq(A), NEW S
    PROVE  Only(s \o u, S) = Only(s, S) \o Only(u, S)
<1> DEFINE T == {q \in Seq(A) : Only(s \o q, S) = Only(s, S) \o Only(q, S)}
<1>1. <<>> \in T
  <2>1. Only(s, S) \in Seq(A) BY OnlyType
  <2> QED BY <2>1, OnlyEmpty, EmptySeq, ConcatEmptySeq
<1>2. ASSUME NEW q \in Seq(A), NEW e \in A, q \in T PROVE Append(q, e) \in T
  <2>1. Append(q, e) \in Seq(A) BY AppendProperties
  <2>2. s \o q \in Seq(A) /\ s \o Append(q, e) = Append(s \o q, e)
    BY ConcatProperties, ConcatAppend
  <2>3. Only(s \o q, S) = Only(s, S) \o Only(q, S) BY <1>2
  <2>4. Only(s, S) \in Seq(A) /\ Only(q, S) \in Seq(A) BY OnlyType
  <2>5. Only(s, S) \o Append(Only(q, S), e) = Append(Only(s, S) \o Only(q, S), e)
    <3> DEFINE a == Only(s, S)
               b == Only(q, S)
    <3>1. a \in Seq(A) /\ b \in Seq(A) /\ e \in A BY <2>4
    <3> HIDE DEF a, b
    <3>2. a \o Append(b, e) = Append(a \o b, e) BY ONLY <3>1, ConcatAppend
    <3> QED BY <3>2 DEF a, b
  <2>6. Only(s \o Append(q, e), S) =
          IF e \in S THEN Append(Only(s \o q, S), e) ELSE Only(s \o q, S)
    BY <2>2, OnlyAppend
  <2>7. Only(Append(q, e), S) = IF e \in S THEN Append(Only(q, S), e) ELSE Only(q, S)
    BY OnlyAppend
  <2>8. Only(s \o Append(q, e), S) = Only(s, S) \o Only(Append(q, e), S)
    BY <2>3, <2>5, <2>6, <2>7
  <2> QED BY <2>1, <2>8
<1> HIDE DEF T
<1>3. Seq(A) \subseteq T BY <1>1, <1>2, SeqInduct
<1> QED BY <1>3 DEF T

\* A sequence all of whose members pass is kept, one none of whose do is dropped.
LEMMA OnlyAll ==
    ASSUME NEW A, NEW s \in Seq(A), NEW S, \A i \in 1 .. Len(s) : s[i] \in S
    PROVE  Only(s, S) = s
<1> DEFINE T == {q \in Seq(A) : (\A i \in 1 .. Len(q) : q[i] \in S) => Only(q, S) = q}
<1>1. <<>> \in T BY OnlyEmpty, EmptySeq
<1>2. ASSUME NEW q \in Seq(A), NEW e \in A, q \in T PROVE Append(q, e) \in T
  <2> DEFINE r == Append(q, e)
  <2>1. r \in Seq(A) /\ Len(r) = Len(q) + 1 /\ Len(q) \in Nat /\ r[Len(q) + 1] = e
        /\ \A i \in 1 .. Len(q) : r[i] = q[i]
    BY AppendProperties, LenProperties
  <2>2. Only(r, S) = IF e \in S THEN Append(Only(q, S), e) ELSE Only(q, S)
    BY OnlyAppend
  <2>3. ASSUME \A i \in 1 .. Len(r) : r[i] \in S PROVE Only(r, S) = r
    <3> HIDE DEF r
    <3>1. \A i \in 1 .. Len(q) : i \in 1 .. Len(r) BY <2>1
    <3>2. \A i \in 1 .. Len(q) : q[i] \in S BY <2>1, <2>3, <3>1
    <3>3. Len(q) + 1 \in 1 .. Len(r) BY <2>1
    <3>4. e \in S BY <2>1, <2>3, <3>3
    <3>5. Only(q, S) = q BY <1>2, <3>2
    <3> QED BY <2>2, <3>4, <3>5 DEF r
  <2> QED BY <2>1, <2>3
<1> HIDE DEF T
<1>3. Seq(A) \subseteq T BY <1>1, <1>2, SeqInduct
<1> QED BY <1>3 DEF T

LEMMA OnlyNone ==
    ASSUME NEW A, NEW s \in Seq(A), NEW S, \A i \in 1 .. Len(s) : s[i] \notin S
    PROVE  Only(s, S) = <<>>
<1> DEFINE T == {q \in Seq(A) : (\A i \in 1 .. Len(q) : q[i] \notin S) => Only(q, S) = <<>>}
<1>1. <<>> \in T BY OnlyEmpty, EmptySeq
<1>2. ASSUME NEW q \in Seq(A), NEW e \in A, q \in T PROVE Append(q, e) \in T
  <2> DEFINE r == Append(q, e)
  <2>1. r \in Seq(A) /\ Len(r) = Len(q) + 1 /\ Len(q) \in Nat /\ r[Len(q) + 1] = e
        /\ \A i \in 1 .. Len(q) : r[i] = q[i]
    BY AppendProperties, LenProperties
  <2>2. Only(r, S) = IF e \in S THEN Append(Only(q, S), e) ELSE Only(q, S)
    BY OnlyAppend
  <2>3. ASSUME \A i \in 1 .. Len(r) : r[i] \notin S PROVE Only(r, S) = <<>>
    <3> HIDE DEF r
    <3>1. \A i \in 1 .. Len(q) : i \in 1 .. Len(r) BY <2>1
    <3>2. \A i \in 1 .. Len(q) : q[i] \notin S BY <2>1, <2>3, <3>1
    <3>3. Len(q) + 1 \in 1 .. Len(r) BY <2>1
    <3>4. e \notin S BY <2>1, <2>3, <3>3
    <3>5. Only(q, S) = <<>> BY <1>2, <3>2
    <3> QED BY <2>2, <3>4, <3>5
  <2> QED BY <2>1, <2>3
<1> HIDE DEF T
<1>3. Seq(A) \subseteq T BY <1>1, <1>2, SeqInduct
<1> QED BY <1>3 DEF T

-----------------------------------------------------------------------------
(* One request at a time in a session. *)

Holding == {"restore", "build", "run", "save", "respond"}

\* The semaphore's permit is the holder's until its turn ends, and what the turn
\* copied is the session as long as nobody else can save it.
PermitInv ==
    /\ ApiTypeOK
    /\ \A t \in Requests : state[t] # "new" => sess[t] \in Sessions
    /\ \A t \in Requests : state[t] \in Holding => permit[sess[t]] = t
    /\ NoSessionRace

LEMMA RestoredSession ==
    ASSUME NEW s \in Session
    PROVE  Restored(s) \in Session
<1>1. Assistant(Legacy) \in Msg BY DEF Assistant, Msg, Roles
<1>2. s.msgs \in Seq(Msg) BY DEF Session
<1>3. Append(s.msgs, Assistant(Legacy)) \in Seq(Msg) BY <1>1, <1>2, AppendProperties
<1> QED BY <1>2, <1>3 DEF Restored, Session

LEMMA RunOutputsType ==
    ASSUME NEW t \in Requests, MaxNew \in Nat, NEW new \in RunOutputs(t)
    PROVE  /\ new \in Seq(Msg)
           /\ \A i \in 1 .. Len(new) : new[i].turn = t /\ new[i].role # "user"
<1> DEFINE A == Assistant(t)
           R == [turn |-> t, role |-> "tool", text |-> TRUE]
<1>1. /\ A \in Msg /\ R \in Msg /\ A.turn = t /\ R.turn = t
      /\ A.role # "user" /\ R.role # "user"
  BY DEF Assistant, Msg, Roles
<1>2. PICK k \in 0 .. MaxNew : new = [i \in 1 .. k |-> IF i % 2 = 0 THEN R ELSE A]
  BY DEF RunOutputs
<1> HIDE DEF A, R
<1>3. k \in Nat OBVIOUS
<1>4. \A i \in 1 .. k : new[i] \in {A, R} BY <1>2
<1>5. new \in [1 .. k -> Msg] BY <1>1, <1>2
<1>6. new \in Seq(Msg) /\ Len(new) = k BY <1>3, <1>5, SeqDef
<1> QED BY <1>1, <1>4, <1>6

LEMMA ApiInitType == ApiInit => PermitInv
<1> SUFFICES ASSUME ApiInit PROVE PermitInv
  OBVIOUS
<1>1. User(Legacy, TRUE) \in Msg BY DEF User, Msg, Roles
<1>2. <<>> \in Seq(Msg) BY EmptySeq
<1>3. <<User(Legacy, TRUE)>> \in Seq(Msg)
  <2> DEFINE u == User(Legacy, TRUE)
  <2>1. u \in Msg BY <1>1
  <2> HIDE DEF u
  <2>2. <<u>> \in Seq(Msg) BY <2>1
  <2> QED BY <2>2 DEF u
<1>4. EmptySession \in Session /\ Interrupted \in Session
  BY <1>2, <1>3 DEF EmptySession, Interrupted, Session
<1>5. sessions \in [Sessions -> Session] /\ files \in [Sessions -> Session]
  BY <1>4 DEF ApiInit
<1>6. ApiTypeOK
  <2>1. /\ text \in [Requests -> BOOLEAN] /\ early \in [Requests -> BOOLEAN] /\ sent \in BOOLEAN
    BY DEF ApiInit
  <2>2. /\ state \in [Requests -> {"new", "wait", "restore", "build", "run", "save", "respond", "done"}]
        /\ sess \in [Requests -> Sessions \cup {NoSession}]
        /\ permit \in [Sessions -> Requests \cup {NoOne}]
        /\ answer \in [Requests -> {"none", "text", "empty", "error"}]
    BY DEF ApiInit
  <2>3. failures \in 0 .. MaxFailures BY ApiAssumption DEF ApiInit, ApiConstants
  <2>4. history \in [Requests -> Seq(Msg)] /\ all \in [Requests -> Seq(Msg)]
    BY <1>2 DEF ApiInit
  <2> QED BY <1>5, <2>1, <2>2, <2>3, <2>4 DEF ApiTypeOK
<1>7. /\ \A t \in Requests : state[t] # "new" => sess[t] \in Sessions
      /\ \A t \in Requests : state[t] \in Holding => permit[sess[t]] = t
      /\ NoSessionRace
  BY DEF ApiInit, Holding, NoSessionRace
<1> QED BY <1>6, <1>7 DEF PermitInv

LEMMA TurnMessagesType ==
    ASSUME PermitInv, NEW t \in Requests
    PROVE  TurnMessages(t) \in Seq(Msg)
<1> DEFINE k == SaveSkip(t)
           q == SubSeq(all[t], k + 1, Len(all[t]))
<1>1. all[t] \in Seq(Msg) /\ history[t] \in Seq(Msg) BY DEF PermitInv, ApiTypeOK
<1>2. k \in Nat
  <2>1. Len(history[t]) \in Nat BY <1>1, LenProperties
  <2>2. k = Len(history[t]) \/ k = Len(history[t]) + 1
    <3>1. CASE early[t] BY <2>1, <3>1 DEF SaveSkip
    <3>2. CASE ~early[t] BY <2>1, <3>2 DEF SaveSkip
    <3> QED BY <3>1, <3>2
  <2> QED BY <2>1, <2>2
<1>3. Len(all[t]) \in Nat BY <1>1, LenProperties
<1> HIDE DEF k
<1>4. \A i \in (k + 1) .. Len(all[t]) : all[t][i] \in Msg BY <1>1, <1>2, <1>3, ElementOfSeq
<1>5. q \in Seq(Msg) BY <1>2, <1>3, <1>4, SubSeqProperties
<1> HIDE DEF q
<1> QED BY <1>5, OnlyType DEF TurnMessages, q, k

LEMMA ApiNextType ==
    ASSUME PermitInv, ApiNext PROVE ApiTypeOK'
<1> USE ApiAssumption DEF InState, contextVars, ApiConstants
<1>1. ApiTypeOK BY DEF PermitInv
<1>2. PICK t \in Requests :
        \/ \E s \in Sessions, x \in BOOLEAN : Request(t, s, x)
        \/ MessageToolSend(t)
        \/ TimedOut(t)
        \/ Step(t)
  BY DEF ApiNext
<1>3. CASE \E s \in Sessions, x \in BOOLEAN : Request(t, s, x)
  BY <1>1, <1>3 DEF ApiTypeOK, Request
<1>4. CASE MessageToolSend(t) BY <1>1, <1>4 DEF ApiTypeOK, MessageToolSend
<1>5. CASE AcquireSession(t) BY <1>1, <1>5 DEF ApiTypeOK, AcquireSession
<1>6. ASSUME NEW s \in Session, NEW next \in {"build", "respond"}, SaveThen(t, s, next),
             UNCHANGED <<sess, text, history, early, all, sent>>
      PROVE  ApiTypeOK'
  <2>1. CASE /\ state' = [state EXCEPT ![t] = next]
             /\ sessions' = [sessions EXCEPT ![sess[t]] = s] /\ files' = [files EXCEPT ![sess[t]] = s]
             /\ UNCHANGED <<permit, answer, failures>>
    BY <1>1, <1>6, <2>1 DEF ApiTypeOK
  <2>2. CASE /\ failures < MaxFailures /\ failures' = failures + 1
             /\ Ends(t, "error") /\ UNCHANGED <<sessions, files>>
    <3>1. failures' \in 0 .. MaxFailures BY <1>1, <2>2 DEF ApiTypeOK
    <3> QED BY <1>1, <1>6, <2>2, <3>1 DEF ApiTypeOK, Ends
  <2> QED BY <1>6, <2>1, <2>2 DEF SaveThen
<1>7. CASE StateRestore(t)
  <2>1. sess[t] \in Sessions BY <1>7 DEF PermitInv, StateRestore
  <2>2. Restored(sessions[sess[t]]) \in Session
    BY <1>1, <2>1, RestoredSession DEF ApiTypeOK
  <2>3. CASE sessions[sess[t]].pending
    BY <1>6, <1>7, <2>2, <2>3 DEF StateRestore
  <2>4. CASE ~sessions[sess[t]].pending
    BY <1>1, <1>7, <2>4 DEF StateRestore, ApiTypeOK
  <2> QED BY <2>3, <2>4
<1>8. CASE StateBuild(t)
  <2>1. sess[t] \in Sessions BY <1>8 DEF PermitInv, StateBuild
  <2>2. sessions[sess[t]].msgs \in Seq(Msg) BY <1>1, <2>1 DEF ApiTypeOK, Session
  <2> QED BY <1>1, <1>8, <2>2 DEF ApiTypeOK, StateBuild
<1>9. ASSUME NEW new \in RunOutputs(t), StateRun(t, new) PROVE ApiTypeOK'
  <2>1. new \in Seq(Msg) BY RunOutputsType
  <2>2. InitialMessages(t) \in Seq(Msg)
    <3>1. User(t, text[t]) \in Msg BY <1>1 DEF ApiTypeOK, User, Msg, Roles
    <3>2. history[t] \in Seq(Msg) BY <1>1 DEF ApiTypeOK
    <3> QED BY <3>1, <3>2, AppendProperties DEF InitialMessages
  <2>3. InitialMessages(t) \o new \in Seq(Msg) BY <2>1, <2>2, ConcatProperties
  <2> QED BY <1>1, <1>9, <2>3 DEF ApiTypeOK, StateRun
<1>10. CASE StateSave(t)
  <2>1. sess[t] \in Sessions BY <1>10 DEF PermitInv, StateSave
  <2>2. sessions[sess[t]].msgs \in Seq(Msg) BY <1>1, <2>1 DEF ApiTypeOK, Session
  <2> DEFINE m == sessions[sess[t]].msgs \o TurnMessages(t)
  <2>3. m \in Seq(Msg)
    <3>1. TurnMessages(t) \in Seq(Msg) BY TurnMessagesType
    <3> QED BY <2>2, <3>1, ConcatProperties
  <2>4. SaveThen(t, [msgs |-> m, pending |-> FALSE], "respond")
        /\ UNCHANGED <<sess, text, history, early, all, sent>>
    BY <1>10 DEF StateSave
  <2> HIDE DEF m
  <2>5. [msgs |-> m, pending |-> FALSE] \in Session BY <2>3 DEF Session
  <2> QED BY <1>6, <2>4, <2>5
<1>11. CASE StateRespond(t) BY <1>1, <1>11 DEF ApiTypeOK, StateRespond, Ends
<1>12. CASE TimedOut(t) BY <1>1, <1>12 DEF ApiTypeOK, TimedOut, Ends
<1> QED BY <1>2, <1>3, <1>4, <1>5, <1>7, <1>8, <1>9, <1>10, <1>11, <1>12 DEF Step

\* SaveThen on behalf of a holder: only its own session changes, and a failed save ends
\* the turn.
LEMMA SaveThenPermit ==
    ASSUME PermitInv, NEW t \in Requests, state[t] \in {"restore", "save"},
           NEW s, NEW next \in {"build", "respond"}, SaveThen(t, s, next),
           UNCHANGED <<sess, history>>
    PROVE  /\ \A u \in Requests : state'[u] # "new" => sess'[u] \in Sessions
           /\ \A u \in Requests : state'[u] \in Holding => permit'[sess'[u]] = u
           /\ NoSessionRace'
<1> USE DEF Holding
<1>1. /\ state \in [Requests -> {"new", "wait", "restore", "build", "run", "save", "respond", "done"}]
      /\ permit \in [Sessions -> Requests \cup {NoOne}]
      /\ DOMAIN sessions = Sessions
      /\ \A u \in Requests : state[u] # "new" => sess[u] \in Sessions
      /\ \A u \in Requests : state[u] \in Holding => permit[sess[u]] = u
      /\ \A u \in Requests : state[u] \in {"run", "save"} => history[u] = sessions[sess[u]].msgs
  BY DEF PermitInv, ApiTypeOK, NoSessionRace
<1>2. \A u \in Requests : u # t /\ state[u] \in Holding => sess[u] # sess[t] /\ sess[u] \in Sessions
  BY <1>1
<1>3. CASE /\ state' = [state EXCEPT ![t] = next]
           /\ sessions' = [sessions EXCEPT ![sess[t]] = s] /\ UNCHANGED permit
  <2>1. ASSUME NEW u \in Requests, state'[u] \in {"run", "save"}
        PROVE  history'[u] = sessions'[sess'[u]].msgs
    <3>1. u # t /\ state[u] = state'[u] BY <1>1, <1>3, <2>1
    <3> QED BY <1>1, <1>2, <1>3, <2>1, <3>1
  <2> QED BY <1>1, <1>3, <2>1 DEF NoSessionRace
<1>4. CASE Ends(t, "error") /\ UNCHANGED sessions
  <2> USE DEF Ends
  <2>1. \A u \in Requests : state'[u] \in Holding => u # t /\ state[u] \in Holding BY <1>1, <1>4
  <2>2. \A u \in Requests : state'[u] \in Holding => permit'[sess'[u]] = u
    BY <1>1, <1>2, <1>4, <2>1
  <2> QED BY <1>1, <1>4, <2>2 DEF NoSessionRace
<1> QED BY <1>3, <1>4 DEF SaveThen

LEMMA ApiNextPermit ==
    ASSUME PermitInv, ApiNext PROVE PermitInv'
<1> USE DEF InState, contextVars, Holding
<1>1. ApiTypeOK' BY ApiNextType
<1>2. /\ state \in [Requests -> {"new", "wait", "restore", "build", "run", "save", "respond", "done"}]
      /\ sess \in [Requests -> Sessions \cup {NoSession}]
      /\ permit \in [Sessions -> Requests \cup {NoOne}]
      /\ history \in [Requests -> Seq(Msg)]
      /\ \A u \in Requests : state[u] # "new" => sess[u] \in Sessions
      /\ \A u \in Requests : state[u] \in Holding => permit[sess[u]] = u
      /\ \A u \in Requests : state[u] \in {"run", "save"} => history[u] = sessions[sess[u]].msgs
  BY DEF PermitInv, ApiTypeOK, NoSessionRace
<1> DEFINE Kept == /\ \A u \in Requests : state'[u] # "new" => sess'[u] \in Sessions
                   /\ \A u \in Requests : state'[u] \in Holding => permit'[sess'[u]] = u
                   /\ NoSessionRace'
<1> SUFFICES Kept BY <1>1 DEF PermitInv
<1>3. PICK t \in Requests :
        \/ \E s \in Sessions, x \in BOOLEAN : Request(t, s, x)
        \/ MessageToolSend(t)
        \/ TimedOut(t)
        \/ Step(t)
  BY DEF ApiNext
<1>4. CASE \E s \in Sessions, x \in BOOLEAN : Request(t, s, x)
  BY <1>2, <1>4 DEF Request, NoSessionRace
<1>5. CASE MessageToolSend(t) BY <1>2, <1>5 DEF MessageToolSend, NoSessionRace
<1>6. CASE AcquireSession(t)
  <2>1. sess[t] \in Sessions BY <1>2, <1>6 DEF AcquireSession
  <2>2. \A u \in Requests : state[u] \in Holding => sess[u] # sess[t]
    BY <1>2, <1>6, ApiAssumption DEF AcquireSession, ApiConstants
  <2>3. \A u \in Requests : state'[u] \in Holding => u = t \/ state[u] \in Holding
    BY <1>2, <1>6 DEF AcquireSession
  <2>4. \A u \in Requests : state'[u] \in Holding => permit'[sess'[u]] = u
    BY <1>2, <1>6, <2>1, <2>2, <2>3 DEF AcquireSession
  <2> QED BY <1>2, <1>6, <2>1, <2>4 DEF AcquireSession, NoSessionRace
<1>7. CASE StateRestore(t)
  <2>1. state[t] = "restore" BY <1>7 DEF StateRestore
  <2>2. CASE sessions[sess[t]].pending
    BY <1>7, <2>1, <2>2, SaveThenPermit DEF StateRestore
  <2>3. CASE ~sessions[sess[t]].pending
    BY <1>2, <1>7, <2>1, <2>3 DEF StateRestore, NoSessionRace
  <2> QED BY <2>2, <2>3
<1>8. CASE StateBuild(t) BY <1>2, <1>8 DEF StateBuild, NoSessionRace
<1>9. ASSUME NEW new, StateRun(t, new) PROVE Kept
  BY <1>2, <1>9 DEF StateRun, NoSessionRace
<1>10. CASE StateSave(t) BY <1>10, SaveThenPermit DEF StateSave
<1>11. CASE StateRespond(t)
  <2>1. \A u \in Requests : u # t /\ state[u] \in Holding => sess[u] # sess[t] /\ sess[u] \in Sessions
    BY <1>2, <1>11 DEF StateRespond
  <2>2. \A u \in Requests : state'[u] \in Holding => u # t /\ state[u] \in Holding
    BY <1>2, <1>11 DEF StateRespond, Ends
  <2>3. \A u \in Requests : state'[u] \in Holding => permit'[sess'[u]] = u
    BY <1>2, <1>11, <2>1, <2>2 DEF StateRespond, Ends
  <2> QED BY <1>2, <1>11, <2>3 DEF StateRespond, Ends, NoSessionRace
<1>12. CASE TimedOut(t)
  <2>1. CASE InState(t, "wait", "done") /\ UNCHANGED <<sess, history, permit, sessions>>
    BY <1>2, <2>1 DEF NoSessionRace
  <2>2. CASE /\ state[t] \in {"restore", "build", "run", "save"} /\ Ends(t, "error")
             /\ UNCHANGED <<sess, history, sessions>>
    <3>1. \A u \in Requests : u # t /\ state[u] \in Holding => sess[u] # sess[t] /\ sess[u] \in Sessions
      BY <1>2, <2>2
    <3>2. \A u \in Requests : state'[u] \in Holding => u # t /\ state[u] \in Holding
      BY <1>2, <2>2 DEF Ends
    <3>3. \A u \in Requests : state'[u] \in Holding => permit'[sess'[u]] = u
      BY <1>2, <2>2, <3>1, <3>2 DEF Ends
    <3> QED BY <1>2, <2>2, <3>3 DEF Ends, NoSessionRace
  <2> QED BY <1>12, <2>1, <2>2 DEF TimedOut
<1> QED
  BY <1>3, <1>4, <1>5, <1>6, <1>7, <1>8, <1>9, <1>10, <1>11, <1>12 DEF Step

LEMMA ApiStutterPermit == ASSUME PermitInv, UNCHANGED apiVars PROVE PermitInv'
BY DEF PermitInv, ApiTypeOK, NoSessionRace, apiVars

\* Requests of one session never race: what a turn was built from is still the session
\* when it saves (AgentLoopApi::generate's semaphore around process_message).
THEOREM ApiNoSessionRace == ApiSpec => []NoSessionRace
<1>1. ApiInit => PermitInv BY ApiInitType
<1>2. PermitInv /\ [ApiNext]_apiVars => PermitInv' BY ApiNextPermit, ApiStutterPermit
<1>3. PermitInv => NoSessionRace BY DEF PermitInv
<1> QED BY <1>1, <1>2, <1>3, PTL DEF ApiSpec
-----------------------------------------------------------------------------
(* What a run produced is saved whole and once. *)

Unsaved == {"new", "wait", "restore", "build", "run", "save"}

\* A session that ends in a user message is marked pending, and a turn that has been
\* restored works on one that is not: build_messages then never merges, so the prefix
\* save_skip counts is the history and the user message, and nothing else.
SaveInv ==
    /\ files = sessions
    /\ \A s \in Sessions :
          sessions[s].pending \/ sessions[s].msgs = <<>> \/ Last(sessions[s].msgs).role # "user"
    /\ \A t \in Requests : state[t] \in {"build", "run", "save"} => ~sessions[sess[t]].pending
    /\ \A t \in Requests, s \in Sessions :
          state[t] \in Unsaved => OutputsIn(sessions[s].msgs, t) = <<>>
    /\ \A t \in Requests : state[t] \in {"run", "save"} => early[t] = text[t]
    /\ \A t \in Requests : state[t] = "save" =>
          \E new \in RunOutputs(t) : all[t] = Append(history[t], User(t, text[t])) \o new
    /\ \A t \in Requests : answer[t] \in {"text", "empty"} => state[t] = "done"
    /\ OutputsSaved

LEMMA SubSeqAfter ==
    ASSUME NEW A, NEW a \in Seq(A), NEW b \in Seq(A)
    PROVE  SubSeq(a \o b, Len(a) + 1, Len(a \o b)) = b
<1> DEFINE c == a \o b
           r == SubSeq(c, Len(a) + 1, Len(c))
<1>1. /\ c \in Seq(A) /\ Len(c) = Len(a) + Len(b) /\ Len(a) \in Nat /\ Len(b) \in Nat
      /\ \A i \in 1 .. Len(a) + Len(b) : c[i] = IF i <= Len(a) THEN a[i] ELSE b[i - Len(a)]
  BY ConcatProperties, LenProperties
<1> HIDE DEF c
<1>2. \A i \in (Len(a) + 1) .. Len(c) : c[i] \in A BY <1>1, ElementOfSeq
<1>3. /\ r \in Seq(A) /\ \A i \in 1 .. Len(c) - (Len(a) + 1) + 1 : r[i] = c[(Len(a) + 1) + i - 1]
      /\ Len(r) = IF Len(a) + 1 <= Len(c) THEN Len(c) - (Len(a) + 1) + 1 ELSE 0
  <2>1. Len(a) + 1 \in Int /\ Len(c) \in Int BY <1>1
  <2> QED BY ONLY <1>2, <2>1, SubSeqProperties
<1> HIDE DEF r
<1>4. Len(r) = Len(b) BY <1>1, <1>3
<1>5. ASSUME NEW i \in 1 .. Len(b) PROVE r[i] = b[i]
  <2>1. /\ i \in 1 .. Len(c) - (Len(a) + 1) + 1 /\ (Len(a) + 1) + i - 1 = Len(a) + i
        /\ Len(a) + i \in 1 .. Len(a) + Len(b) /\ ~(Len(a) + i <= Len(a)) /\ (Len(a) + i) - Len(a) = i
    BY <1>1
  <2>2. r[i] = c[Len(a) + i] BY <1>3, <2>1
  <2>3. c[Len(a) + i] = b[i] BY <1>1, <2>1
  <2> QED BY <2>2, <2>3
<1>6. r = b BY <1>3, <1>4, <1>5, SeqEqual
<1> QED BY <1>6 DEF r, c

LEMMA ForeignOutputs ==
    ASSUME NEW s \in Seq(Msg), NEW u \in Seq(Msg), NEW t,
           \A i \in 1 .. Len(u) : u[i].turn # t
    PROVE  OutputsIn(s \o u, t) = OutputsIn(s, t)
<1> DEFINE O == {m \in Msg : m.turn = t /\ m.role # "user"}
<1>1. \A i \in 1 .. Len(u) : u[i] \notin O OBVIOUS
<1>2. /\ OutputsIn(s \o u, t) = Only(s \o u, O) /\ OutputsIn(s, t) = Only(s, O)
  BY DEF OutputsIn
<1> HIDE DEF O
<1>3. Only(u, O) = <<>> BY <1>1, OnlyNone
<1>4. Only(s \o u, O) = Only(s, O) \o <<>>
  <2>1. Only(s \o u, O) = Only(s, O) \o Only(u, O) BY OnlyConcat
  <2> QED BY <1>3, <2>1
<1>5. Only(s, O) \in Seq(Msg) BY OnlyType
<1>6. Only(s, O) \o <<>> = Only(s, O) BY <1>5, ConcatEmptySeq
<1> QED BY <1>2, <1>4, <1>6

LEMMA OwnOutputs ==
    ASSUME NEW s \in Seq(Msg), NEW u \in Seq(Msg), NEW t,
           OutputsIn(s, t) = <<>>,
           \A i \in 1 .. Len(u) : u[i].turn = t /\ u[i].role # "user"
    PROVE  OutputsIn(s \o u, t) = u
<1> DEFINE O == {m \in Msg : m.turn = t /\ m.role # "user"}
<1>1. \A i \in 1 .. Len(u) : u[i] \in O BY ElementOfSeq
<1>2. /\ OutputsIn(s \o u, t) = Only(s \o u, O) /\ OutputsIn(s, t) = Only(s, O)
  BY DEF OutputsIn
<1> HIDE DEF O
<1>3. Only(u, O) = u BY <1>1, OnlyAll
<1>4. Only(s \o u, O) = <<>> \o u
  <2>1. Only(s \o u, O) = Only(s, O) \o Only(u, O) BY OnlyConcat
  <2> QED BY <1>2, <1>3, <2>1
<1> QED BY <1>2, <1>4, ConcatEmptySeq

\* save_skip skips the history and the stored user message: what is saved is what the
\* run produced.
LEMMA TurnMessagesAreOutputs ==
    ASSUME PermitInv, SaveInv, NEW t \in Requests, state[t] = "save"
    PROVE  \E new \in RunOutputs(t) :
             /\ TurnMessages(t) = new
             /\ OutputsIn(all[t], t) = new
<1>1. PICK new \in RunOutputs(t) : all[t] = Append(history[t], User(t, text[t])) \o new
  BY DEF SaveInv
<1> DEFINE h == history[t]
           u == User(t, text[t])
           K == {m \in Msg : m.role # "user" \/ m.text}
<1>2. h \in Seq(Msg) /\ text[t] \in BOOLEAN /\ early[t] = text[t]
  BY DEF PermitInv, ApiTypeOK, SaveInv
<1>3. u \in Msg /\ u.role = "user" /\ u.text = text[t] /\ u.turn = t
  BY <1>2 DEF User, Msg, Roles
<1>4. new \in Seq(Msg) /\ \A i \in 1 .. Len(new) : new[i].turn = t /\ new[i].role # "user"
  BY RunOutputsType, ApiAssumption DEF ApiConstants
<1>5. \A i \in 1 .. Len(new) : new[i] \in K BY <1>4, ElementOfSeq
<1>6. OutputsIn(h, t) = <<>>
  <2>1. sess[t] \in Sessions /\ h = sessions[sess[t]].msgs
    BY DEF PermitInv, NoSessionRace
  <2> QED BY <2>1 DEF SaveInv, Unsaved
<1>7. TurnMessages(t) = Only(SubSeq(all[t], SaveSkip(t) + 1, Len(all[t])), K)
  BY DEF TurnMessages
<1>8. Len(h) \in Nat BY <1>2, LenProperties
<1>9. all[t] = Append(h, u) \o new BY <1>1
<1>10. ~u.text => u \notin K BY <1>3
<1>11. /\ early[t] => SaveSkip(t) = Len(h) + 1
       /\ ~early[t] => SaveSkip(t) = Len(h)
  <2>1. SaveSkip(t) = Len(h) + (IF early[t] THEN 1 ELSE 0) BY DEF SaveSkip
  <2> HIDE DEF h
  <2>2. CASE early[t] BY <1>8, <2>1, <2>2
  <2>3. CASE ~early[t] BY <1>8, <2>1, <2>3
  <2> QED BY <2>2, <2>3
<1> HIDE DEF h, u, K
<1>12. /\ Append(h, u) \in Seq(Msg) /\ Len(Append(h, u)) = Len(h) + 1
       /\ <<u>> \in Seq(Msg) /\ Append(h, u) = h \o <<u>>
  BY <1>2, <1>3, AppendProperties, AppendIsConcat
<1>13. Only(new, K) = new BY <1>4, <1>5, OnlyAll
<1>14. TurnMessages(t) = new
  <2>1. CASE early[t]
    <3>1. SubSeq(all[t], SaveSkip(t) + 1, Len(all[t])) = new
      BY <1>4, <1>9, <1>11, <1>12, <2>1, SubSeqAfter
    <3> QED BY <1>7, <1>13, <3>1
  <2>2. CASE ~early[t]
    <3>1. all[t] = h \o (<<u>> \o new) /\ <<u>> \o new \in Seq(Msg)
      BY <1>2, <1>4, <1>9, <1>12, ConcatAssociative, ConcatProperties
    <3>2. SubSeq(all[t], SaveSkip(t) + 1, Len(all[t])) = <<u>> \o new
      BY <1>2, <1>11, <2>2, <3>1, SubSeqAfter
    <3>3. u \notin K BY <1>2, <1>3, <1>10, <2>2
    <3>4. Only(<<u>>, K) = <<>>
      <4>1. \A i \in 1 .. Len(<<u>>) : <<u>>[i] \notin K BY <3>3
      <4> QED BY <1>12, <4>1, OnlyNone
    <3>5. Only(<<u>> \o new, K) = <<>> \o new
      <4>1. ASSUME NEW q \in Seq(Msg)
            PROVE  Only(q \o new, K) = Only(q, K) \o Only(new, K)
        BY <1>4, OnlyConcat
      <4> QED BY <1>12, <1>13, <3>4, <4>1
    <3>6. <<>> \o new = new BY <1>4, ConcatEmptySeq
    <3> QED BY <1>7, <3>2, <3>5, <3>6
  <2> QED BY <2>1, <2>2
<1>15. OutputsIn(all[t], t) = new
  <2>1. OutputsIn(Append(h, u), t) = <<>>
    <3> DEFINE O == {m \in Msg : m.turn = t /\ m.role # "user"}
    <3>1. u \notin O BY <1>3
    <3>2. \A q : OutputsIn(q, t) = Only(q, O) BY DEF OutputsIn
    <3> HIDE DEF O
    <3>3. Only(Append(h, u), O) = Only(h, O) BY <1>2, <1>3, <3>1, OnlyAppend
    <3> QED BY <1>6, <3>2, <3>3 DEF h
  <2>2. Append(h, u) \in Seq(Msg) /\ new \in Seq(Msg) BY <1>4, <1>12
  <2>3. \A i \in 1 .. Len(new) : new[i].turn = t /\ new[i].role # "user" BY <1>4
  <2>4. OutputsIn(Append(h, u) \o new, t) = new BY ONLY <2>1, <2>2, <2>3, OwnOutputs
  <2> QED BY <1>9, <2>4
<1> QED BY <1>14, <1>15

\* What restore_pending_user_turn appends answers an interrupted turn of an earlier
\* version: no request's outputs change, and the session does not end in a user message.
LEMMA RestoredOutputs ==
    ASSUME NEW s \in Session, NEW u \in Requests
    PROVE  /\ OutputsIn(Restored(s).msgs, u) = OutputsIn(s.msgs, u)
           /\ Restored(s).msgs = <<>> \/ Last(Restored(s).msgs).role # "user"
           /\ ~Restored(s).pending
<1> DEFINE a == Assistant(Legacy)
           m == s.msgs
<1>1. m \in Seq(Msg) BY DEF Session
<1>2. a \in Msg /\ a.turn = Legacy /\ a.role = "assistant"
  BY DEF Assistant, Msg, Roles
<1>3. /\ Restored(s).msgs = IF m # <<>> /\ Last(m).role = "user" THEN Append(m, a) ELSE m
      /\ Restored(s).pending = FALSE
  BY DEF Restored, Last, Last
<1> HIDE DEF a, m
<1>4. /\ Append(m, a) = m \o <<a>> /\ <<a>> \in Seq(Msg)
      /\ Append(m, a) \in Seq(Msg) /\ Len(Append(m, a)) = Len(m) + 1 /\ Append(m, a)[Len(m) + 1] = a
  BY <1>1, <1>2, AppendProperties, AppendIsConcat
<1>5. Last(Append(m, a)).role # "user" BY <1>2, <1>4 DEF Last
<1>6. OutputsIn(Append(m, a), u) = OutputsIn(m, u)
  <2>1. a.turn # u BY <1>2, ApiAssumption DEF ApiConstants
  <2> DEFINE q == <<a>>
  <2>2. \A i \in 1 .. Len(q) : q[i].turn # u BY <2>1
  <2>3. q \in Seq(Msg) /\ Append(m, a) = m \o q BY <1>4
  <2> HIDE DEF q
  <2> QED BY <1>1, <2>2, <2>3, ForeignOutputs
<1> QED BY <1>3, <1>5, <1>6 DEF m

\* state_save on the holder's session.
LEMMA SavedOutputs ==
    ASSUME PermitInv, SaveInv, NEW t \in Requests, state[t] = "save"
    PROVE  LET m == sessions[sess[t]].msgs
               r == m \o TurnMessages(t)
           IN  /\ r = <<>> \/ Last(r).role # "user"
               /\ OutputsIn(r, t) = OutputsIn(all[t], t)
               /\ \A u \in Requests \ {t} : OutputsIn(r, u) = OutputsIn(m, u)
<1> DEFINE m == sessions[sess[t]].msgs
           r == m \o TurnMessages(t)
<1>1. PICK new \in RunOutputs(t) : TurnMessages(t) = new /\ OutputsIn(all[t], t) = new
  BY TurnMessagesAreOutputs
<1>2. new \in Seq(Msg) /\ \A i \in 1 .. Len(new) : new[i].turn = t /\ new[i].role # "user"
  BY RunOutputsType, ApiAssumption DEF ApiConstants
<1>3. sess[t] \in Sessions BY DEF PermitInv
<1>4. m \in Seq(Msg) BY <1>3 DEF PermitInv, ApiTypeOK, Session
<1>5. OutputsIn(m, t) = <<>> /\ (m = <<>> \/ Last(m).role # "user")
  BY <1>3 DEF SaveInv, Unsaved
<1>6. r = m \o new BY <1>1
<1> HIDE DEF m, r
<1>7. r = <<>> \/ Last(r).role # "user"
  <2>1. CASE new = <<>>
    <3>1. r = m BY <1>4, <1>6, <2>1, ConcatEmptySeq
    <3> QED BY <1>5, <3>1
  <2>2. CASE new # <<>>
    <3>1. /\ Len(r) = Len(m) + Len(new) /\ Len(m) \in Nat /\ Len(new) \in Nat \ {0}
          /\ \A i \in 1 .. Len(m) + Len(new) : r[i] = IF i <= Len(m) THEN m[i] ELSE new[i - Len(m)]
      BY <1>2, <1>4, <1>6, <2>2, ConcatProperties, LenProperties, EmptySeq
    <3>2. Len(r) \in 1 .. Len(m) + Len(new) /\ ~(Len(r) <= Len(m)) /\ Len(r) - Len(m) = Len(new)
      BY <3>1
    <3>3. r[Len(r)] = new[Len(new)] BY <3>1, <3>2
    <3>4. Len(new) \in 1 .. Len(new) BY <3>1
    <3> QED BY <1>2, <3>3, <3>4 DEF Last
  <2> QED BY <2>1, <2>2
<1>8. OutputsIn(r, t) = new BY <1>2, <1>4, <1>5, <1>6, OwnOutputs
<1>9. ASSUME NEW u \in Requests \ {t} PROVE OutputsIn(r, u) = OutputsIn(m, u)
  <2>1. \A i \in 1 .. Len(new) : new[i].turn # u BY <1>2
  <2> QED BY <1>2, <1>4, <1>6, <2>1, ForeignOutputs
<1> QED BY <1>1, <1>7, <1>8, <1>9 DEF m, r

LEMMA ApiInitSave == ApiInit => SaveInv
<1> SUFFICES ASSUME ApiInit PROVE SaveInv
  OBVIOUS
<1>1. PermitInv BY ApiInitType
<1>2. ASSUME NEW s \in Sessions
      PROVE  sessions[s] \in {EmptySession, Interrupted}
  BY DEF ApiInit
<1>3. ASSUME NEW s \in Sessions, NEW t \in Requests
      PROVE  OutputsIn(sessions[s].msgs, t) = <<>>
  <2> DEFINE m == sessions[s].msgs
  <2>1. \A i \in 1 .. Len(m) : m[i].turn # t
    BY <1>2, ApiAssumption DEF EmptySession, Interrupted, User, ApiConstants
  <2>2. m \in Seq(Msg) BY <1>1 DEF PermitInv, ApiTypeOK, Session
  <2> HIDE DEF m
  <2>3. OutputsIn(<<>>, t) = <<>> BY OnlyEmpty DEF OutputsIn
  <2>4. <<>> \in Seq(Msg) /\ <<>> \o m = m BY <2>2, EmptySeq, ConcatEmptySeq
  <2>5. OutputsIn(<<>> \o m, t) = OutputsIn(<<>>, t) BY <2>1, <2>2, <2>4, ForeignOutputs
  <2> QED BY <2>3, <2>4, <2>5 DEF m
<1>4. ASSUME NEW s \in Sessions PROVE sessions[s].pending \/ sessions[s].msgs = <<>>
  <2>1. Interrupted.pending = TRUE /\ EmptySession.msgs = <<>>
    BY DEF EmptySession, Interrupted
  <2> QED BY <1>2, <2>1
<1>5. /\ files = sessions
      /\ \A t \in Requests : state[t] = "new" /\ answer[t] = "none"
  BY DEF ApiInit
<1> QED BY <1>3, <1>4, <1>5 DEF SaveInv, OutputsSaved

LEMMA ApiNextSave ==
    ASSUME PermitInv, SaveInv, ApiNext PROVE SaveInv'
<1> USE DEF InState, contextVars, Unsaved
<1>1. /\ state \in [Requests -> {"new", "wait", "restore", "build", "run", "save", "respond", "done"}]
      /\ sess \in [Requests -> Sessions \cup {NoSession}]
      /\ text \in [Requests -> BOOLEAN] /\ early \in [Requests -> BOOLEAN]
      /\ history \in [Requests -> Seq(Msg)] /\ all \in [Requests -> Seq(Msg)]
      /\ sessions \in [Sessions -> Session]
      /\ answer \in [Requests -> {"none", "text", "empty", "error"}]
      /\ \A u \in Requests : state[u] # "new" => sess[u] \in Sessions
      /\ \A u \in Requests : state[u] \in Holding => permit[sess[u]] = u
      /\ \A u \in Requests : state[u] \in {"run", "save"} => history[u] = sessions[sess[u]].msgs
  BY DEF PermitInv, ApiTypeOK, NoSessionRace
<1>2. PICK t \in Requests :
        \/ \E s \in Sessions, x \in BOOLEAN : Request(t, s, x)
        \/ MessageToolSend(t)
        \/ TimedOut(t)
        \/ Step(t)
  BY DEF ApiNext
<1>3. CASE \E s \in Sessions, x \in BOOLEAN : Request(t, s, x)
  <2>1. state[t] = "new" BY <1>3 DEF Request
  <2>2. answer[t] \notin {"text", "empty"} BY <2>1 DEF SaveInv
  <2>3. /\ state' = [state EXCEPT ![t] = "wait"]
        /\ \A u \in Requests : u # t => sess'[u] = sess[u] /\ text'[u] = text[u]
        /\ UNCHANGED <<history, early, all, permit, sent, sessions, files, answer, failures>>
    BY <1>1, <1>3 DEF Request
  <2>4. OutputsSaved' BY <1>1, <2>1, <2>2, <2>3 DEF SaveInv, OutputsSaved
  <2>5. \A u \in Requests : state'[u] \in {"build", "run", "save"} => ~sessions'[sess'[u]].pending
    BY <1>1, <2>1, <2>3 DEF SaveInv
  <2>6. ASSUME NEW u \in Requests, state'[u] = "save"
        PROVE  \E new \in RunOutputs(u) :
                 all'[u] = Append(history'[u], User(u, text'[u])) \o new
    <3>1. u # t /\ state[u] = "save" BY <1>1, <2>3, <2>6
    <3>2. \E new \in RunOutputs(u) : all[u] = Append(history[u], User(u, text[u])) \o new
      BY <3>1 DEF SaveInv
    <3>3. all' = all /\ history' = history /\ text'[u] = text[u] BY <2>3, <3>1
    <3> QED BY <3>2, <3>3
  <2> QED BY <1>1, <2>1, <2>2, <2>3, <2>4, <2>5, <2>6 DEF SaveInv
<1>4. CASE MessageToolSend(t)
  <2>1. UNCHANGED <<state, sess, text, history, early, all, sessions, files, answer>>
    BY <1>4 DEF MessageToolSend, contextVars
  <2> QED BY <2>1 DEF SaveInv, OutputsSaved
<1>a. ASSUME NEW here \in {"wait", "restore"}, NEW next \in {"restore", "build"},
             InState(t, here, next), next = "build" => ~sessions[sess[t]].pending,
             UNCHANGED <<sess, text, history, early, all, sessions, files, answer>>
      PROVE  SaveInv'
  <2>1. \A u \in Requests :
          /\ state'[u] \in Unsaved => state[u] \in Unsaved
          /\ state'[u] = "save" => state[u] = "save"
          /\ state'[u] \in {"run", "save"} => state[u] \in {"run", "save"}
          /\ state'[u] = "build" => state[u] = "build" \/ (u = t /\ next = "build")
          /\ state[u] = "done" => state'[u] = "done"
          /\ state'[u] = "respond" => state[u] = "respond"
    BY <1>1, <1>a
  <2>2. \A u \in Requests : state'[u] \in {"build", "run", "save"} => ~sessions'[sess'[u]].pending
    BY <1>a, <2>1 DEF SaveInv
  <2>3. OutputsSaved' BY <1>a, <2>1 DEF SaveInv, OutputsSaved
  <2> HIDE DEF Unsaved, InState
  <2> QED BY <1>a, <2>1, <2>2, <2>3 DEF SaveInv
<1>5. CASE AcquireSession(t)
  <2>1. /\ InState(t, "wait", "restore")
        /\ UNCHANGED <<sess, text, history, early, all, sessions, files, answer>>
    BY <1>5 DEF AcquireSession
  <2> HIDE DEF InState
  <2> QED BY <1>a, <2>1
<1>6. ASSUME NEW s, NEW next \in {"build", "respond"}, state[t] \in {"restore", "save"},
             sess[t] \in Sessions,
             next = "build" <=> state[t] = "restore",
             s.msgs = <<>> \/ Last(s.msgs).role # "user", ~s.pending,
             \A u \in Requests : u # t \/ next = "build" =>
                OutputsIn(s.msgs, u) = OutputsIn(sessions[sess[t]].msgs, u),
             next = "respond" => OutputsIn(s.msgs, t) = OutputsIn(all[t], t),
             SaveThen(t, s, next), UNCHANGED <<sess, text, history, early, all, sent>>
      PROVE  SaveInv'
  <2>1. CASE /\ failures < MaxFailures /\ failures' = failures + 1
             /\ Ends(t, "error") /\ UNCHANGED <<sessions, files>>
    BY <1>1, <1>6, <2>1 DEF Ends, SaveInv, OutputsSaved
  <2>2. CASE /\ state' = [state EXCEPT ![t] = next]
             /\ sessions' = [sessions EXCEPT ![sess[t]] = s] /\ files' = [files EXCEPT ![sess[t]] = s]
             /\ UNCHANGED <<permit, answer, failures>>
    <3>1. files' = sessions' BY <2>2 DEF SaveInv
    <3>2. \A q \in Sessions : sessions'[q] = IF q = sess[t] THEN s ELSE sessions[q] BY <1>1, <2>2
    <3>3. \A q \in Sessions :
            sessions'[q].pending \/ sessions'[q].msgs = <<>> \/ Last(sessions'[q].msgs).role # "user"
      BY <1>6, <3>2 DEF SaveInv
    <3>4. \A u \in Requests : state'[u] = IF u = t THEN next ELSE state[u] BY <1>1, <2>2
    <3>5. ASSUME NEW u \in Requests, state'[u] \in {"build", "run", "save"}
          PROVE  ~sessions'[sess'[u]].pending
      <4>1. CASE u = t BY <1>6, <3>2, <4>1
      <4>2. CASE u # t
        <5>1. state[u] \in {"build", "run", "save"} /\ sess[u] \in Sessions BY <1>1, <3>4, <3>5, <4>2
        <5>2. sess[u] # sess[t] BY <1>1, <1>6, <4>2, <5>1 DEF Holding
        <5> QED BY <1>6, <3>2, <5>1, <5>2 DEF SaveInv
      <4> QED BY <4>1, <4>2
    <3>6. ASSUME NEW u \in Requests, NEW q \in Sessions, u # t \/ next = "build"
          PROVE  OutputsIn(sessions'[q].msgs, u) = OutputsIn(sessions[q].msgs, u)
      BY <1>6, <3>2, <3>6
    <3>7. ASSUME NEW u \in Requests, NEW q \in Sessions, state'[u] \in Unsaved
          PROVE  OutputsIn(sessions'[q].msgs, u) = <<>>
      <4>1. u # t \/ next = "build" BY <1>6, <3>4, <3>7
      <4>2. state[u] \in Unsaved BY <1>6, <3>4, <3>7
      <4>3. OutputsIn(sessions[q].msgs, u) = <<>> BY <4>2 DEF SaveInv
      <4> QED BY <3>6, <4>1, <4>3
    <3>8. \A u \in Requests : state'[u] \in {"run", "save"} => early'[u] = text'[u]
      BY <1>6, <3>4 DEF SaveInv
    <3>9. ASSUME NEW u \in Requests, state'[u] = "save"
          PROVE  \E new \in RunOutputs(u) :
                   all'[u] = Append(history'[u], User(u, text'[u])) \o new
      <4>1. state[u] = "save" BY <1>6, <3>4, <3>9
      <4> QED BY <1>6, <4>1 DEF SaveInv
    <3>10. \A u \in Requests : answer'[u] \in {"text", "empty"} => state'[u] = "done"
      BY <1>6, <2>2, <3>4 DEF SaveInv
    <3>11. ASSUME NEW u \in Requests, state'[u] = "respond" \/ answer'[u] \in {"text", "empty"}
           PROVE  OutputsIn(files'[sess'[u]].msgs, u) = OutputsIn(all'[u], u)
      <4>1. CASE u = t
        <5>1. state[t] # "done" /\ answer[t] \notin {"text", "empty"} BY <1>6 DEF SaveInv
        <5>2. next = "respond" BY <2>2, <3>4, <3>11, <4>1, <5>1
        <5> QED BY <1>6, <3>1, <3>2, <4>1, <5>2
      <4>2. CASE u # t
        <5>1. state[u] = "respond" \/ answer[u] \in {"text", "empty"} BY <2>2, <3>4, <3>11, <4>2
        <5>2. sess[u] \in Sessions BY <1>1, <5>1 DEF SaveInv
        <5>3. OutputsIn(files[sess[u]].msgs, u) = OutputsIn(all[u], u)
          BY <5>1 DEF SaveInv, OutputsSaved
        <5>4. files = sessions BY DEF SaveInv
        <5> QED BY <1>6, <3>1, <3>6, <4>2, <5>2, <5>3, <5>4
      <4> QED BY <4>1, <4>2
    <3>12. OutputsSaved' BY <3>11 DEF OutputsSaved
    <3> QED BY <3>1, <3>3, <3>5, <3>7, <3>8, <3>9, <3>10, <3>12 DEF SaveInv
  <2> QED BY <1>6, <2>1, <2>2 DEF SaveThen
<1>7. CASE StateRestore(t)
  <2>1. state[t] = "restore" /\ sess[t] \in Sessions BY <1>1, <1>7 DEF StateRestore
  <2> DEFINE c == sessions[sess[t]]
             s == Restored(c)
  <2>2. c \in Session BY <1>1, <2>1
  <2>3. CASE c.pending
    <3>1. SaveThen(t, s, "build") /\ UNCHANGED <<sess, text, history, early, all, sent>>
      BY <1>7, <2>3 DEF StateRestore
    <3>2. \A u \in Requests : OutputsIn(s.msgs, u) = OutputsIn(c.msgs, u)
      BY <2>2, RestoredOutputs
    <3>3. (s.msgs = <<>> \/ Last(s.msgs).role # "user") /\ ~s.pending BY <2>2, RestoredOutputs
    <3> HIDE DEF s
    <3> QED BY <1>6, <2>1, <3>1, <3>2, <3>3
  <2>4. CASE ~c.pending
    <3>1. state' = [state EXCEPT ![t] = "build"] /\ UNCHANGED <<sessions, files, permit, answer, failures>>
          /\ UNCHANGED <<sess, text, history, early, all, sent>>
      BY <1>7, <2>4 DEF StateRestore
    <3>2. InState(t, "restore", "build") BY <2>1, <3>1
    <3> HIDE DEF InState
    <3> QED BY <1>a, <2>4, <3>1, <3>2
  <2> QED BY <2>3, <2>4
<1>8. CASE StateBuild(t)
  <2>1. state[t] = "build" /\ answer[t] \notin {"text", "empty"} BY <1>8 DEF StateBuild, SaveInv
  <2> QED BY <1>1, <1>8, <2>1 DEF StateBuild, SaveInv, OutputsSaved
<1>9. ASSUME NEW new \in RunOutputs(t), StateRun(t, new) PROVE SaveInv'
  <2>1. state[t] = "run" /\ answer[t] \notin {"text", "empty"} BY <1>9 DEF StateRun, SaveInv
  <2>2. sess[t] \in Sessions /\ history[t] = sessions[sess[t]].msgs BY <1>1, <2>1
  <2>3. history[t] = <<>> \/ Last(history[t]).role # "user" BY <2>1, <2>2 DEF SaveInv
  <2>4. InitialMessages(t) = Append(history[t], User(t, text[t]))
    BY <2>3 DEF InitialMessages, Last, Last
  <2>5. all' = [all EXCEPT ![t] = Append(history[t], User(t, text[t])) \o new]
    BY <1>9, <2>4 DEF StateRun
  <2>6. /\ state' = [state EXCEPT ![t] = "save"]
        /\ UNCHANGED <<sess, text, history, early, permit, sent, sessions, files, answer, failures>>
    BY <1>9 DEF StateRun
  <2>7. ASSUME NEW u \in Requests, state'[u] = "save"
        PROVE  \E r \in RunOutputs(u) :
                 all'[u] = Append(history'[u], User(u, text'[u])) \o r
    <3>1. CASE u = t BY <1>1, <2>5, <2>6, <3>1
    <3>2. CASE u # t
      <4>1. state[u] = "save" /\ all'[u] = all[u] BY <1>1, <2>5, <2>6, <2>7, <3>2
      <4> QED BY <2>6, <4>1 DEF SaveInv
    <3> QED BY <3>1, <3>2
  <2>8. OutputsSaved' BY <1>1, <2>1, <2>5, <2>6 DEF OutputsSaved, SaveInv
  <2> QED BY <1>1, <2>1, <2>6, <2>7, <2>8 DEF SaveInv
<1>10. CASE StateSave(t)
  <2>1. state[t] = "save" /\ sess[t] \in Sessions BY <1>1, <1>10 DEF StateSave
  <2> DEFINE m == sessions[sess[t]].msgs
             r == m \o TurnMessages(t)
             s == [msgs |-> r, pending |-> FALSE]
  <2>2. /\ r = <<>> \/ Last(r).role # "user"
        /\ OutputsIn(r, t) = OutputsIn(all[t], t)
        /\ \A u \in Requests \ {t} : OutputsIn(r, u) = OutputsIn(m, u)
    BY <2>1, SavedOutputs
  <2>3. SaveThen(t, s, "respond") /\ UNCHANGED <<sess, text, history, early, all, sent>>
    BY <1>10 DEF StateSave
  <2> HIDE DEF r
  <2>4. s.msgs = r /\ s.pending = FALSE OBVIOUS
  <2> HIDE DEF s
  <2> QED BY <1>6, <2>1, <2>2, <2>3, <2>4
<1>11. CASE StateRespond(t)
  <2>1. state[t] = "respond" BY <1>11 DEF StateRespond
  <2> QED BY <1>1, <1>11, <2>1 DEF StateRespond, Ends, SaveInv, OutputsSaved
<1>12. CASE TimedOut(t)
  <2>1. /\ state[t] \in Unsaved \ {"new"} /\ state' = [state EXCEPT ![t] = "done"]
        /\ answer' = [answer EXCEPT ![t] = "error"]
        /\ UNCHANGED <<sess, text, history, early, all, sessions, files>>
    BY <1>12 DEF TimedOut, Ends, Unsaved
  <2> QED BY <1>1, <2>1 DEF SaveInv, OutputsSaved, Unsaved
<1> QED BY <1>2, <1>3, <1>4, <1>5, <1>7, <1>8, <1>9, <1>10, <1>11, <1>12 DEF Step

LEMMA ApiStutterSave == ASSUME SaveInv, UNCHANGED apiVars PROVE SaveInv'
BY DEF SaveInv, OutputsSaved, apiVars

\* Everything a turn's run produced is in its session once the turn was saved, whole
\* and once (state_save with the prefix save_skip counts), however turns interleave.
THEOREM ApiOutputsSaved == ApiSpec => []OutputsSaved
<1>1. ApiInit => PermitInv /\ SaveInv BY ApiInitType, ApiInitSave
<1>2. PermitInv /\ SaveInv /\ [ApiNext]_apiVars => PermitInv' /\ SaveInv'
  BY ApiNextPermit, ApiStutterPermit, ApiNextSave, ApiStutterSave
<1>3. SaveInv => OutputsSaved BY DEF SaveInv
<1> QED BY <1>1, <1>2, <1>3, PTL DEF ApiSpec
=============================================================================
