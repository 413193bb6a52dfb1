------------------------- MODULE AgentRunnerProofs -------------------------
(***************************************************************************)
(* Safety of AgentRunner for any stored conversation, any bounds, any      *)
(* budget and any tools a response may call; and, at the end, of the       *)
(* failover wrapper its requests go through (FallbackBreaker).             *)
(***************************************************************************)
EXTENDS AgentRunner, FallbackBreaker, FiniteSetTheorems, SequenceTheorems, TLAPS

-----------------------------------------------------------------------------
(* Induction, and the recursive operators on sequences. *)

\* Induction over the natural numbers with a set in place of a predicate.
LEMMA NatInduct ==
    ASSUME NEW T, 0 \in T, \A n \in Nat : n \in T => n + 1 \in T
    PROVE  Nat \subseteq T
<1> DEFINE X == Nat \ T
           R == {ss \in Nat \X Nat : ss[1] < ss[2]}
<1> SUFFICES ASSUME X # {} PROVE FALSE
  OBVIOUS
<1>1. IsWellFoundedOn(R, Nat) BY NatLessThanWellFounded DEF OpToRel
<1>2. PICK m \in X : \A n \in X : ~(<<n, m>> \in R)
  <2>1. X \subseteq Nat OBVIOUS
  <2> HIDE DEF R, X
  <2> QED BY <1>1, <2>1, WFMin
<1>3. m \in Nat /\ m # 0 OBVIOUS
<1>4. m - 1 \in Nat /\ (m - 1) + 1 = m /\ <<m - 1, m>> \in Nat \X Nat /\ m - 1 < m BY <1>3
<1>5. m - 1 \in X
  <2>1. m - 1 \notin T BY <1>4
  <2> QED BY <1>4, <2>1
<1>6. <<m - 1, m>> \in R BY <1>4
<1> QED BY <1>2, <1>5, <1>6

\* Induction over sequences with a set in place of a predicate.
LEMMA SeqInduct ==
    ASSUME NEW A, NEW T, <<>> \in T, \A s \in Seq(A), e \in A : s \in T => Append(s, e) \in T
    PROVE  Seq(A) \subseteq T
<1> DEFINE N == {n \in Nat : \A s \in Seq(A) : Len(s) = n => s \in T}
<1>1. 0 \in N BY EmptySeq
<1>2. ASSUME NEW n \in Nat, n \in N PROVE n + 1 \in N
  <2> SUFFICES ASSUME NEW s \in Seq(A), Len(s) = n + 1 PROVE s \in T
    OBVIOUS
  <2>1. s # <<>> BY EmptySeq
  <2>2. PICK q \in Seq(A), e \in A : s = Append(q, e) BY <2>1, SequenceEmptyOrAppend
  <2>3. Len(q) \in Nat /\ Len(s) = Len(q) + 1 BY <2>2, AppendProperties, LenProperties
  <2>4. Len(q) = n BY <2>3
  <2> QED BY <1>2, <2>2, <2>4
<1>3. Nat \subseteq N
  <2> HIDE DEF N
  <2> QED BY <1>1, <1>2, NatInduct
<1> SUFFICES ASSUME NEW s \in Seq(A) PROVE s \in T
  OBVIOUS
<1>4. Len(s) \in N BY <1>3, LenProperties
<1> QED BY <1>4

\* The recursive function inside KeepAt exists.
LEMMA KeepAtRec ==
    ASSUME NEW s, Len(s) \in Nat, NEW S
    PROVE  \E f : /\ f = [i \in 0 .. Len(s) |->
                            IF i = 0 THEN <<>>
                            ELSE IF i \in S THEN Append(f[i - 1], s[i]) ELSE f[i - 1]]
                  /\ KeepAt(s, S) = f[Len(s)]
<1> DEFINE Round(x, k) == IF k \in S THEN Append(x, s[k]) ELSE x
           Rec(f, m) == f = [k \in 0 .. m |-> IF k = 0 THEN <<>> ELSE Round(f[k - 1], k)]
           T == {m \in Nat : \E f : Rec(f, m)}
<1>1. KeepAt(s, S) = (CHOOSE f : Rec(f, Len(s)))[Len(s)] BY DEF KeepAt
<1> HIDE DEF Round
<1>2. 0 \in T
  <2> DEFINE g == [k \in 0 .. 0 |-> <<>>]
  <2>1. Rec(g, 0) OBVIOUS
  <2> QED BY <2>1
<1>3. ASSUME NEW m \in Nat, m \in T PROVE m + 1 \in T
  <2>1. PICK f : Rec(f, m) BY <1>3
  <2> DEFINE n == m + 1
             g == [k \in 0 .. n |-> IF k = n THEN Round(f[m], n) ELSE f[k]]
             h == [k \in 0 .. n |-> IF k = 0 THEN <<>> ELSE Round(g[k - 1], k)]
  <2>2. \A k \in 0 .. n : g[k] = h[k]
    <3> SUFFICES ASSUME NEW k \in 0 .. n PROVE g[k] = h[k]
      OBVIOUS
    <3>1. CASE k = n
      <4>1. m \in 0 .. n /\ m # n /\ k - 1 = m /\ k # 0 BY <3>1
      <4>2. g[m] = f[m] BY <4>1
      <4> QED BY <3>1, <4>1, <4>2
    <3>2. CASE k # n
      <4>1. k \in 0 .. m BY <3>2
      <4>2. f[k] = IF k = 0 THEN <<>> ELSE Round(f[k - 1], k) BY <2>1, <4>1
      <4>3. CASE k = 0 BY <3>2, <4>2, <4>3
      <4>4. CASE k # 0
        <5>1. k - 1 \in 0 .. n /\ k - 1 # n BY <3>2, <4>4
        <5>2. g[k - 1] = f[k - 1] BY <5>1
        <5> QED BY <3>2, <4>2, <4>4, <5>2
      <4> QED BY <4>3, <4>4
    <3> QED BY <3>1, <3>2
  <2>3. g = h BY <2>2
  <2>4. Rec(g, n) BY <2>3
  <2>5. n \in Nat OBVIOUS
  <2> QED BY <2>4, <2>5
<1>4. Len(s) \in T
  <2> HIDE DEF T
  <2> QED BY <1>2, <1>3, NatInduct
<1> DEFINE f == CHOOSE g : Rec(g, Len(s))
<1>5. Rec(f, Len(s)) BY <1>4
<1> HIDE DEF f
<1>6. f = [i \in 0 .. Len(s) |-> IF i = 0 THEN <<>>
                            ELSE IF i \in S THEN Append(f[i - 1], s[i]) ELSE f[i - 1]]
  BY <1>5 DEF Round
<1>7. KeepAt(s, S) = f[Len(s)] BY <1>1 DEF f
<1> QED BY <1>6, <1>7

\* g places r in the first n members of s: in order, at the positions in S, all of them.
Places(g, r, s, S, n) ==
    /\ g \in [1 .. Len(r) -> 1 .. n]
    /\ \A k \in 1 .. Len(r) : r[k] = s[g[k]] /\ g[k] \in S
    /\ \A k, l \in 1 .. Len(r) : k < l => g[k] < g[l]
    /\ \A i \in 1 .. n : i \in S => \E k \in 1 .. Len(r) : g[k] = i

\* What KeepAt returns: a subsequence of s, the one at the positions in S.
LEMMA KeepAtPlaces ==
    ASSUME NEW A, NEW s \in Seq(A), NEW S
    PROVE  /\ KeepAt(s, S) \in Seq(A)
           /\ \E g : Places(g, KeepAt(s, S), s, S, Len(s))
<1>1. Len(s) \in Nat BY LenProperties
<1>2. PICK f : /\ f = [i \in 0 .. Len(s) |->
                            IF i = 0 THEN <<>>
                            ELSE IF i \in S THEN Append(f[i - 1], s[i]) ELSE f[i - 1]]
               /\ KeepAt(s, S) = f[Len(s)]
  BY <1>1, KeepAtRec
<1> DEFINE T == {m \in Nat : m <= Len(s) => f[m] \in Seq(A) /\ \E g : Places(g, f[m], s, S, m)}
<1>3. 0 \in T
  <2>1. f[0] = <<>> BY <1>1, <1>2
  <2> DEFINE e == [k \in 1 .. 0 |-> 0]
  <2>2. Places(e, <<>>, s, S, 0) BY DEF Places
  <2> QED BY <2>1, <2>2, EmptySeq
<1>4. ASSUME NEW m \in Nat, m \in T PROVE m + 1 \in T
  <2> SUFFICES ASSUME m + 1 <= Len(s)
               PROVE  f[m + 1] \in Seq(A) /\ \E g : Places(g, f[m + 1], s, S, m + 1)
    OBVIOUS
  <2>1. m <= Len(s) /\ m + 1 \in 0 .. Len(s) /\ m + 1 \in 1 .. Len(s) /\ (m + 1) - 1 = m /\ m + 1 # 0
    BY <1>1
  <2>2. f[m + 1] = IF m + 1 \in S THEN Append(f[m], s[m + 1]) ELSE f[m] BY <1>2, <2>1
  <2>3. f[m] \in Seq(A) BY <1>4, <2>1
  <2>4. PICK g : Places(g, f[m], s, S, m) BY <1>4, <2>1
  <2>5. s[m + 1] \in A BY <2>1, ElementOfSeq
  <2> DEFINE r == f[m]
             n == Len(r)
  <2>6. n \in Nat BY <2>3, LenProperties
  <2>7. CASE m + 1 \in S
    <3> DEFINE q == Append(r, s[m + 1])
               h == [k \in 1 .. n + 1 |-> IF k = n + 1 THEN m + 1 ELSE g[k]]
    <3>1. /\ q \in Seq(A) /\ Len(q) = n + 1 /\ q[n + 1] = s[m + 1]
          /\ \A k \in 1 .. n : q[k] = r[k]
      BY <2>3, <2>5, AppendProperties
    <3> HIDE DEF q
    <3>2. Places(h, q, s, S, m + 1)
      <4> USE DEF Places
      <4> HIDE DEF r, n
      <4>1. /\ g \in [1 .. n -> 1 .. m]
            /\ \A k \in 1 .. n : r[k] = s[g[k]] /\ g[k] \in S
            /\ \A k, l \in 1 .. n : k < l => g[k] < g[l]
            /\ \A i \in 1 .. m : i \in S => \E k \in 1 .. n : g[k] = i
        BY <2>4 DEF r, n
      <4>2. \A k \in 1 .. n : k \in 1 .. n + 1 /\ h[k] = g[k] /\ g[k] \in 1 .. m BY <2>6, <4>1
      <4>3. h[n + 1] = m + 1 /\ n + 1 \in 1 .. n + 1 BY <2>6
      <4>4. h \in [1 .. n + 1 -> 1 .. m + 1] BY <2>6, <4>1
      <4>5. \A k \in 1 .. n + 1 : k \in 1 .. n \/ k = n + 1 BY <2>6
      <4>6. \A k \in 1 .. n + 1 : q[k] = s[h[k]] /\ h[k] \in S
        BY <2>7, <3>1, <4>1, <4>2, <4>3, <4>5
      <4>7. \A k, l \in 1 .. n + 1 : k < l => h[k] < h[l]
        <5> SUFFICES ASSUME NEW k \in 1 .. n + 1, NEW l \in 1 .. n + 1, k < l PROVE h[k] < h[l]
          OBVIOUS
        <5>1. k \in 1 .. n BY <2>6
        <5>2. CASE l = n + 1
          <6>1. h[k] = g[k] /\ g[k] \in 1 .. m /\ h[l] = m + 1 BY <4>2, <4>3, <5>1, <5>2
          <6> HIDE DEF h
          <6> QED BY <6>1
        <5>3. CASE l # n + 1
          <6>1. l \in 1 .. n BY <2>6, <5>3
          <6> QED BY <4>1, <4>2, <5>1, <6>1
        <5> QED BY <5>2, <5>3
      <4>8. \A i \in 1 .. m + 1 : i \in S => \E k \in 1 .. n + 1 : h[k] = i
        <5> SUFFICES ASSUME NEW i \in 1 .. m + 1, i \in S PROVE \E k \in 1 .. n + 1 : h[k] = i
          OBVIOUS
        <5>1. CASE i = m + 1 BY <4>3, <5>1
        <5>2. CASE i # m + 1
          <6>1. i \in 1 .. m BY <5>2
          <6>2. PICK k \in 1 .. n : g[k] = i BY <4>1, <6>1
          <6> QED BY <4>2, <6>2
        <5> QED BY <5>1, <5>2
      <4> QED BY <3>1, <4>4, <4>6, <4>7, <4>8
    <3>3. f[m + 1] = q BY <2>2, <2>7 DEF q
    <3> QED BY <3>1, <3>2, <3>3
  <2>8. CASE m + 1 \notin S
    <3>1. f[m + 1] = r BY <2>2, <2>8
    <3> HIDE DEF r
    <3>2. Places(g, r, s, S, m) BY <2>4 DEF r
    <3>3. Places(g, r, s, S, m + 1)
      <4>1. \A i \in 1 .. m + 1 : i \in S => i \in 1 .. m BY <2>8
      <4>2. g \in [1 .. Len(r) -> 1 .. m + 1] BY <3>2 DEF Places
      <4> QED BY <3>2, <4>1, <4>2 DEF Places
    <3> QED BY <2>3, <3>1, <3>3 DEF r
  <2> QED BY <2>7, <2>8
<1>5. Len(s) \in T
  <2> HIDE DEF T
  <2> QED BY <1>1, <1>3, <1>4, NatInduct
<1> QED BY <1>1, <1>2, <1>5

LEMMA FiniteImage ==
    ASSUME NEW S, IsFiniteSet(S), NEW f, f = [x \in S |-> f[x]]
    PROVE  IsFiniteSet({f[x] : x \in S})
<1> DEFINE T == {f[x] : x \in S}
<1>1. f \in [S -> T] OBVIOUS
<1>2. \A y \in T : \E x \in S : f[x] = y OBVIOUS
<1>3. f \in Surjection(S, T) BY <1>1, <1>2 DEF Surjection
<1> HIDE DEF T
<1>4. IsFiniteSet(T) BY <1>3, FS_Surjection
<1> QED BY <1>4 DEF T

\* Max is defined on the finite sets of natural numbers that are not empty.
LEMMA FiniteMax ==
    ASSUME NEW S \in SUBSET Nat, IsFiniteSet(S), S # {}
    PROVE  Max(S) \in S /\ \A y \in S : y <= Max(S)
<1> DEFINE T == {n \in Nat : \A X \in SUBSET Nat : IsFiniteSet(X) /\ X # {} /\ Cardinality(X) = n =>
                                \E x \in X : \A y \in X : x >= y}
<1>1. 0 \in T
  <2> SUFFICES ASSUME NEW X \in SUBSET Nat, IsFiniteSet(X), X # {}, Cardinality(X) = 0
               PROVE  \E x \in X : \A y \in X : x >= y
    OBVIOUS
  <2>1. X = {} BY FS_EmptySet
  <2> QED BY <2>1
<1>2. ASSUME NEW n \in Nat, n \in T PROVE n + 1 \in T
  <2> SUFFICES ASSUME NEW X \in SUBSET Nat, IsFiniteSet(X), X # {}, Cardinality(X) = n + 1
               PROVE  \E x \in X : \A y \in X : x >= y
    OBVIOUS
  <2>1. PICK a \in X : TRUE OBVIOUS
  <2> DEFINE Y == X \ {a}
  <2>2. IsFiniteSet(Y) /\ Cardinality(Y) = n
    <3>1. IsFiniteSet(Y) /\ Cardinality(Y) = Cardinality(X) - 1 BY <2>1, FS_RemoveElement
    <3> HIDE DEF Y
    <3> QED BY <3>1
  <2>3. CASE Y = {}
    <3>1. \A y \in X : y = a BY <2>3
    <3> QED BY <2>1, <3>1
  <2>4. CASE Y # {}
    <3>1. Y \in SUBSET Nat OBVIOUS
    <3>2. PICK b \in Y : \A y \in Y : b >= y
      <4> HIDE DEF Y
      <4> QED BY <1>2, <2>2, <2>4, <3>1
    <3>3. a \in Nat /\ b \in Nat /\ b \in X OBVIOUS
    <3>4. \A y \in X : y \in Nat /\ (y = a \/ y \in Y) OBVIOUS
    <3>5. CASE a >= b
      <4>1. \A y \in X : a >= y BY <3>2, <3>3, <3>4, <3>5
      <4> QED BY <4>1
    <3>6. CASE ~(a >= b)
      <4>1. \A y \in X : b >= y BY <3>2, <3>3, <3>4, <3>6
      <4> QED BY <3>3, <4>1
    <3> QED BY <3>5, <3>6
  <2> QED BY <2>3, <2>4
<1>3. Cardinality(S) \in T
  <2>1. Nat \subseteq T
    <3> HIDE DEF T
    <3> QED BY <1>1, <1>2, NatInduct
  <2> QED BY <2>1, FS_CardinalityType
<1>4. \E x \in S : \A y \in S : x >= y BY <1>3
<1> QED BY <1>4 DEF Max

-----------------------------------------------------------------------------
(* Types *)

Statuses == {"ok", "refused", "violation", "error"}
Event == [tool : Tools, status : Statuses]

RunType ==
    /\ caller \in Callers
    /\ initial \in Seq(Message) /\ messages \in Seq(Message)
    /\ iteration \in 0 .. MaxIterations
    /\ phase \in {"ask", "model", "tools", "finalize", "done"}
    /\ pending \in Seq(Call) /\ Len(pending) <= MostCalls
    /\ results \in Seq(Message)
    /\ lookups \in Nat /\ emptyRetries \in Nat /\ lengthRecoveries \in Nat
    /\ events \in Seq(Event)
    /\ result \in [stop : StopReasons \cup {"none"}, events : Seq(Event)]

LEMMA MenusBound ==
    /\ MostCalls \in Nat
    /\ \A names \in Menus : names \in Seq(Tools) /\ Len(names) <= MostCalls
<1> DEFINE S == {Len(names) : names \in Menus}
           f == [names \in Menus |-> Len(names)]
<1>1. Menus \subseteq Seq(Tools) /\ Menus # {} /\ IsFiniteSet(Menus)
  BY RunnerAssumption DEF RunnerConstants
<1>2. \A names \in Menus : names \in Seq(Tools) /\ Len(names) \in Nat BY <1>1, LenProperties
<1>3. S \in SUBSET Nat /\ S # {} BY <1>1, <1>2
<1>4. IsFiniteSet(S)
  <2>1. f = [x \in Menus |-> f[x]] OBVIOUS
  <2>2. S = {f[x] : x \in Menus} OBVIOUS
  <2> HIDE DEF f, S
  <2> QED BY <1>1, <2>1, <2>2, FiniteImage
<1>5. MostCalls = Max(S) BY DEF MostCalls
<1> HIDE DEF S
<1>6. Max(S) \in S /\ \A y \in S : y <= Max(S) BY <1>3, <1>4, FiniteMax
<1>7. \A names \in Menus : Len(names) \in S BY DEF S
<1> QED BY <1>2, <1>3, <1>5, <1>6, <1>7

\* The messages the runner builds.
LEMMA BuiltMessages ==
    /\ System \in Message /\ User \in Message /\ Plain \in Message
    /\ \A calls \in Seq(Call) :
          /\ Asking(calls) \in Message /\ Asking(calls).role = "assistant" /\ Asking(calls).calls = calls
          /\ Asking(calls).id = 0 /\ Asking(calls).size = 1
    /\ \A call \in Call, n \in Nat :
          /\ ToolMessage(call, n) \in Message /\ ToolMessage(call, n).role = "tool"
          /\ ToolMessage(call, n).calls = <<>> /\ ToolMessage(call, n).id = call.id
    /\ System.role = "system" /\ System.calls = <<>> /\ System.size = 1 /\ System.id = 0
    /\ User.role = "user" /\ User.calls = <<>> /\ User.size = 1 /\ User.id = 0
    /\ Plain.role = "assistant" /\ Plain.calls = <<>> /\ Plain.id = 0
<1>1. <<>> \in Seq(Call) BY EmptySeq
<1>2. System \in Message /\ User \in Message /\ Plain \in Message
  <2>1. System \in Message BY <1>1 DEF System, Message
  <2>2. User \in Message BY <1>1 DEF User, Message
  <2>3. Plain \in Message BY <1>1 DEF Plain, Message
  <2> QED BY <2>1, <2>2, <2>3
<1>3. ASSUME NEW calls \in Seq(Call)
      PROVE  /\ Asking(calls) \in Message /\ Asking(calls).role = "assistant" /\ Asking(calls).calls = calls
             /\ Asking(calls).id = 0 /\ Asking(calls).size = 1
  BY DEF Asking, Message
<1>4. ASSUME NEW call \in Call, NEW n \in Nat
      PROVE  /\ ToolMessage(call, n) \in Message /\ ToolMessage(call, n).role = "tool"
             /\ ToolMessage(call, n).calls = <<>> /\ ToolMessage(call, n).id = call.id
  BY <1>1 DEF ToolMessage, Message, Call
<1>5. /\ System.role = "system" /\ System.calls = <<>> /\ System.size = 1 /\ System.id = 0
      /\ User.role = "user" /\ User.calls = <<>> /\ User.size = 1 /\ User.id = 0
      /\ Plain.role = "assistant" /\ Plain.calls = <<>> /\ Plain.id = 0
  BY DEF System, User, Plain
<1> QED BY <1>2, <1>3, <1>4, <1>5

\* A message whose text is replaced keeps its role, its calls and its id.
LEMMA Resize ==
    ASSUME NEW m \in Message, NEW n \in Nat
    PROVE  LET r == [m EXCEPT !.size = n]
           IN  /\ r \in Message /\ r.role = m.role /\ r.calls = m.calls /\ r.id = m.id
               /\ r.name = m.name /\ r.size = n
  BY DEF Message

\* A bounded set of numbers that is not empty has a greatest element.
LEMMA BoundedMax ==
    ASSUME NEW b \in Nat, NEW S \in SUBSET Nat, \A x \in S : x <= b, S # {}
    PROVE  Max(S) \in S /\ \A y \in S : y <= Max(S)
<1>1. IsFiniteSet(0 .. b) BY FS_Interval
<1>2. S \subseteq 0 .. b OBVIOUS
<1>3. IsFiniteSet(S) BY <1>1, <1>2, FS_Subset
<1> QED BY <1>3, FiniteMax

\* Messages put together, whatever the order.
LEMMA Regroup ==
    ASSUME NEW s \in Seq(Message), NEW t \in Seq(Message), NEW u \in Seq(Message)
    PROVE  (s \o t) \o u = s \o (t \o u)
BY ConcatAssociative

LEMMA NothingMore ==
    ASSUME NEW s \in Seq(Message)
    PROVE  s \o <<>> = s
BY ConcatEmptySeq

\* The ids of a finite transcript are bounded.
IdsBelow(s, b) == \A i \in DOMAIN s : s[i].id <= b /\ \A x \in Ids(s[i].calls) : x <= b

LEMMA CallIdsBounded ==
    ASSUME NEW calls \in Seq(Call)
    PROVE  Ids(calls) \subseteq Nat /\ \E b \in Nat : \A x \in Ids(calls) : x <= b
<1> DEFINE T == {s \in Seq(Call) : \E b \in Nat : \A k \in 1 .. Len(s) : s[k].id <= b}
<1>1. <<>> \in T
  <2>1. <<>> \in Seq(Call) /\ \A k \in 1 .. Len(<<>>) : <<>>[k].id <= 0 BY EmptySeq
  <2> QED BY <2>1
<1>2. ASSUME NEW s \in Seq(Call), NEW e \in Call, s \in T PROVE Append(s, e) \in T
  <2>1. PICK b \in Nat : \A k \in 1 .. Len(s) : s[k].id <= b BY <1>2
  <2>2. e.id \in Nat BY DEF Call
  <2>3. \A k \in 1 .. Len(s) : s[k].id \in Nat
    <3>1. \A k \in 1 .. Len(s) : s[k] \in Call BY ElementOfSeq
    <3> QED BY <3>1 DEF Call
  <2> DEFINE c == b + e.id
             q == Append(s, e)
  <2>4. c \in Nat /\ e.id <= c /\ b <= c BY <2>2
  <2>5. /\ q \in Seq(Call) /\ Len(q) = Len(s) + 1 /\ Len(s) \in Nat /\ q[Len(s) + 1] = e
        /\ \A k \in 1 .. Len(s) : q[k] = s[k]
    BY AppendProperties, LenProperties
  <2> HIDE DEF c, q
  <2>6. \A k \in 1 .. Len(q) : q[k].id <= c
    <3> SUFFICES ASSUME NEW k \in 1 .. Len(q) PROVE q[k].id <= c
      OBVIOUS
    <3>1. CASE k = Len(s) + 1 BY <2>4, <2>5, <3>1
    <3>2. CASE k # Len(s) + 1
      <4>1. k \in 1 .. Len(s) BY <2>5, <3>2
      <4>2. q[k].id = s[k].id /\ s[k].id <= b /\ s[k].id \in Nat BY <2>1, <2>3, <2>5, <4>1
      <4> QED BY <2>4, <4>2
    <3> QED BY <3>1, <3>2
  <2>7. q \in T BY <2>4, <2>5, <2>6
  <2> QED BY <2>7 DEF q
<1>3. calls \in T
  <2> HIDE DEF T
  <2> QED BY <1>1, <1>2, SeqInduct
<1>4. DOMAIN calls = 1 .. Len(calls) BY LenProperties
<1>5. \A k \in DOMAIN calls : calls[k].id \in Nat
  <2>1. \A k \in 1 .. Len(calls) : calls[k] \in Call BY ElementOfSeq
  <2> QED BY <1>4, <2>1 DEF Call
<1> QED BY <1>3, <1>4, <1>5 DEF Ids

LEMMA MessageIdsBounded ==
    ASSUME NEW s \in Seq(Message)
    PROVE  \E b \in Nat : IdsBelow(s, b)
<1> DEFINE T == {q \in Seq(Message) : \E b \in Nat : IdsBelow(q, b)}
<1>1. <<>> \in T
  <2>1. <<>> \in Seq(Message) /\ DOMAIN <<>> = {} BY EmptySeq
  <2>2. IdsBelow(<<>>, 0) BY <2>1 DEF IdsBelow
  <2> QED BY <2>1, <2>2
<1>2. ASSUME NEW q \in Seq(Message), NEW e \in Message, q \in T PROVE Append(q, e) \in T
  <2>1. PICK b \in Nat : IdsBelow(q, b) BY <1>2
  <2>2. e.id \in Nat /\ e.calls \in Seq(Call) BY DEF Message
  <2>3. PICK d \in Nat : \A x \in Ids(e.calls) : x \in Nat /\ x <= d BY <2>2, CallIdsBounded
  <2> DEFINE c == b + d + e.id
             p == Append(q, e)
  <2>4. c \in Nat /\ e.id <= c /\ b <= c /\ d <= c BY <2>2
  <2>5. /\ p \in Seq(Message) /\ Len(p) = Len(q) + 1 /\ Len(q) \in Nat /\ p[Len(q) + 1] = e
        /\ \A k \in 1 .. Len(q) : p[k] = q[k]
    BY AppendProperties, LenProperties
  <2>6. DOMAIN p = 1 .. Len(p) /\ DOMAIN q = 1 .. Len(q) BY <2>5, LenProperties
  <2> HIDE DEF c, p
  <2>7. ASSUME NEW k \in DOMAIN p PROVE p[k].id <= c /\ \A x \in Ids(p[k].calls) : x <= c
    <3>1. CASE k = Len(q) + 1 BY <2>3, <2>4, <2>5, <3>1
    <3>2. CASE k # Len(q) + 1
      <4>1. k \in 1 .. Len(q) BY <2>5, <2>6, <3>2
      <4>2. q[k] \in Message BY <4>1, ElementOfSeq
      <4>3. q[k].id \in Nat /\ Ids(q[k].calls) \subseteq Nat BY <4>2, CallIdsBounded DEF Message
      <4>4. q[k].id <= b /\ \A x \in Ids(q[k].calls) : x <= b BY <2>1, <2>6, <4>1 DEF IdsBelow
      <4>5. p[k] = q[k] BY <2>5, <4>1
      <4> QED BY <2>4, <4>3, <4>4, <4>5
    <3> QED BY <3>1, <3>2
  <2>8. p \in T BY <2>4, <2>5, <2>7 DEF IdsBelow
  <2> QED BY <2>8 DEF p
<1>3. s \in T
  <2> HIDE DEF T
  <2> QED BY <1>1, <1>2, SeqInduct
<1> QED BY <1>3

\* Nobody in the transcript has used the ids of a new response.
LEMMA NextIdFresh ==
    ASSUME messages \in Seq(Message)
    PROVE  /\ NextId \in Nat \ {0}
           /\ \A i \in DOMAIN messages : messages[i].id < NextId
                 /\ \A x \in Ids(messages[i].calls) : x < NextId
<1> DEFINE U == UNION {Ids(messages[i].calls) : i \in DOMAIN messages}
           V == {messages[i].id : i \in DOMAIN messages}
           S == {0} \cup U \cup V
<1>1. PICK b \in Nat : IdsBelow(messages, b) BY MessageIdsBounded
<1>2. \A i \in DOMAIN messages : messages[i].id \in Nat /\ Ids(messages[i].calls) \subseteq Nat
  <2>1. \A i \in DOMAIN messages : messages[i] \in Message BY LenProperties, ElementOfSeq
  <2>2. \A i \in DOMAIN messages : messages[i].id \in Nat /\ messages[i].calls \in Seq(Call)
    BY <2>1 DEF Message
  <2> QED BY <2>2, CallIdsBounded
<1>3. S \in SUBSET Nat /\ S # {} /\ \A x \in S : x <= b
  <2>1. ASSUME NEW x \in S PROVE x \in Nat /\ x <= b
    <3>1. CASE x = 0 BY <3>1
    <3>2. CASE \E i \in DOMAIN messages : x \in Ids(messages[i].calls) BY <1>1, <1>2, <3>2 DEF IdsBelow
    <3>3. CASE \E i \in DOMAIN messages : x = messages[i].id BY <1>1, <1>2, <3>3 DEF IdsBelow
    <3>4. x = 0 \/ x \in U \/ x \in V OBVIOUS
    <3>5. x \in U => \E i \in DOMAIN messages : x \in Ids(messages[i].calls) OBVIOUS
    <3>6. x \in V => \E i \in DOMAIN messages : x = messages[i].id OBVIOUS
    <3> QED BY <3>1, <3>2, <3>3, <3>4, <3>5, <3>6
  <2>2. 0 \in S OBVIOUS
  <2> QED BY <2>1, <2>2
<1>5. \A i \in DOMAIN messages : messages[i].id \in S /\ Ids(messages[i].calls) \subseteq S
  <2>1. \A i \in DOMAIN messages : messages[i].id \in V OBVIOUS
  <2>2. \A i \in DOMAIN messages : Ids(messages[i].calls) \subseteq U OBVIOUS
  <2> HIDE DEF U, V
  <2> QED BY <2>1, <2>2
<1>6. NextId = 1 + Max(S) BY DEF NextId
<1> HIDE DEF S
<1>7. Max(S) \in S /\ \A y \in S : y <= Max(S) BY <1>3, BoundedMax
<1>9. Max(S) \in Nat BY <1>3, <1>7
<1>8. \A y \in S : y \in Nat /\ y < NextId BY <1>3, <1>6, <1>7, <1>9
<1> QED BY <1>5, <1>6, <1>8, <1>9

LEMMA FreshCalls ==
    ASSUME messages \in Seq(Message), NEW calls \in CallLists
    PROVE  /\ calls \in Seq(Call) /\ Len(calls) <= MostCalls
           /\ \A i \in DOMAIN messages : messages[i].id \notin Ids(calls)
                 /\ Ids(messages[i].calls) \cap Ids(calls) = {}
<1>1. PICK names \in Menus : calls = [k \in DOMAIN names |-> [id |-> NextId + k - 1, tool |-> names[k]]]
  BY DEF CallLists
<1>2. NextId \in Nat \ {0} BY NextIdFresh
<1>3. names \in Seq(Tools) /\ Len(names) <= MostCalls BY MenusBound
<1>4. DOMAIN names = 1 .. Len(names) /\ Len(names) \in Nat BY <1>3, LenProperties
<1>5. \A k \in 1 .. Len(names) : names[k] \in Tools BY <1>3, ElementOfSeq
<1>6. \A k \in 1 .. Len(names) : calls[k] \in Call /\ calls[k].id >= NextId /\ calls[k].id \in Nat
  <2> SUFFICES ASSUME NEW k \in 1 .. Len(names)
               PROVE  calls[k] \in Call /\ calls[k].id >= NextId /\ calls[k].id \in Nat
    OBVIOUS
  <2>1. calls[k] = [id |-> NextId + k - 1, tool |-> names[k]] BY <1>1, <1>4
  <2>2. NextId + k - 1 \in Nat \ {0} /\ NextId + k - 1 >= NextId BY <1>2
  <2>3. names[k] \in Tools BY <1>5
  <2> QED BY <2>1, <2>2, <2>3 DEF Call
<1>7. calls = [k \in 1 .. Len(names) |-> calls[k]] BY <1>1, <1>4
<1>8. calls \in Seq(Call) /\ Len(calls) = Len(names) BY <1>4, <1>6, <1>7, IsASeq, LenProperties
<1>9. \A x \in Ids(calls) : x \in Nat /\ x >= NextId
  <2>1. DOMAIN calls = 1 .. Len(names) BY <1>1, <1>4
  <2> QED BY <1>6, <2>1 DEF Ids
<1>10. ASSUME NEW i \in DOMAIN messages
       PROVE  messages[i].id \notin Ids(calls) /\ Ids(messages[i].calls) \cap Ids(calls) = {}
  <2>1. messages[i].id < NextId /\ \A x \in Ids(messages[i].calls) : x < NextId BY NextIdFresh
  <2>2. messages[i] \in Message BY LenProperties, ElementOfSeq
  <2>3. messages[i].id \in Nat /\ Ids(messages[i].calls) \subseteq Nat
    BY <2>2, CallIdsBounded DEF Message
  <2> QED BY <1>2, <1>9, <2>1, <2>3
<1> QED BY <1>3, <1>8, <1>10

\* The transcripts a run can start from.
Starts == {<<System>> \o h \o <<User>> : h \in Histories \cup {<<>>}}

LEMMA StartType ==
    ASSUME Init
    PROVE  /\ initial \in Starts /\ initial \in Seq(Message)
           /\ \E h \in Seq(Message) : initial = <<System>> \o h \o <<User>>
<1>1. Conversation \in Seq(Message) BY RunnerAssumption DEF RunnerConstants
<1>2. ASSUME NEW S \in SUBSET DOMAIN Conversation PROVE KeepAt(Conversation, S) \in Seq(Message)
  BY <1>1, KeepAtPlaces
<1>3. Histories \subseteq Seq(Message) BY <1>2 DEF Histories
<1>4. <<>> \in Seq(Message) BY EmptySeq
<1>5. PICK h \in Histories \cup {<<>>} : initial = <<System>> \o h \o <<User>>
  <2>1. PICK h \in (IF caller.who = "loop" THEN Histories ELSE {<<>>}) : initial = <<System>> \o h \o <<User>>
    BY DEF Init
  <2>2. h \in Histories \cup {<<>>}
    <3>1. CASE caller.who = "loop" BY <2>1, <3>1
    <3>2. CASE caller.who # "loop" BY <2>1, <3>2
    <3> QED BY <3>1, <3>2
  <2> QED BY <2>1, <2>2
<1>6. h \in Seq(Message) BY <1>3, <1>4, <1>5
<1>7. <<System>> \in Seq(Message) /\ <<User>> \in Seq(Message) BY BuiltMessages
<1>8. initial \in Seq(Message) BY <1>5, <1>6, <1>7, ConcatProperties
<1> QED BY <1>5, <1>6, <1>8 DEF Starts

LEMMA RunTypeInit == Init => RunType
<1> SUFFICES ASSUME Init PROVE RunType
  OBVIOUS
<1>1. initial \in Seq(Message) BY StartType
<1>2. <<>> \in Seq(Call) /\ <<>> \in Seq(Message) /\ <<>> \in Seq(Event) /\ Len(<<>>) = 0 BY EmptySeq
<1>3. 0 <= MostCalls /\ 0 \in 0 .. MaxIterations
  BY MenusBound, RunnerAssumption DEF RunnerConstants
<1>4. NoResult \in [stop : StopReasons \cup {"none"}, events : Seq(Event)]
  BY <1>2 DEF NoResult, StopReasons
<1> QED BY <1>1, <1>2, <1>3, <1>4 DEF Init, RunType

\* The steps of a run.
LEMMA StepCases ==
    ASSUME Next
    PROVE  \/ Ask \/ MaxIterationsReached \/ ExecuteTool \/ ToolsDone \/ Finished
           \/ \E r \in Responses : RespondTools(r) \/ RespondEmpty(r) \/ RespondTruncated(r)
                                     \/ RespondFinal(r) \/ RespondFinalization(r)
  BY DEF Next, Step, Respond

LEMMA ResponseType ==
    ASSUME NEW r \in Responses
    PROVE  r.calls \in CallLists /\ r.finish \in Finishes /\ r.blank \in BOOLEAN
  BY DEF Responses

\* What executing a tool does, as one case for each outcome.
ToolOutcome(status) ==
    /\ \E n \in Nat : results' = Append(results, ToolMessage(Head(pending), n))
    /\ events' = Append(events, [tool |-> Head(pending).tool, status |-> status])
    /\ pending' = IF status = "error" /\ FailOnToolError THEN <<>> ELSE Tail(pending)

LEMMA ExecuteCases ==
    ASSUME ExecuteTool
    PROVE  /\ phase = "tools" /\ pending # <<>>
           /\ UNCHANGED <<caller, initial, messages, iteration, phase, request, emptyRetries,
                          lengthRecoveries, result>>
           /\ lookups' = IF Head(pending).tool \in LookupTools THEN lookups + 1 ELSE lookups
           /\ \E status \in Statuses :
                 /\ ToolOutcome(status)
                 /\ (status = "refused") <=> (Head(pending).tool \in LookupTools /\ lookups >= MaxLookups)
<1> DEFINE call == Head(pending)
           refused == call.tool \in LookupTools /\ lookups >= MaxLookups
<1>1. /\ phase = "tools" /\ pending # <<>>
      /\ UNCHANGED <<caller, initial, messages, iteration, phase, request, emptyRetries,
                          lengthRecoveries, result>>
      /\ lookups' = IF call.tool \in LookupTools THEN lookups + 1 ELSE lookups
  BY DEF ExecuteTool
<1>2. \/ /\ refused /\ results' = Append(results, ToolMessage(call, 1))
         /\ events' = Append(events, [tool |-> call.tool, status |-> "refused"])
         /\ pending' = Tail(pending)
      \/ /\ ~refused /\ (\E n \in ResultSizes : results' = Append(results, ToolMessage(call, n)))
         /\ events' = Append(events, [tool |-> call.tool, status |-> "ok"])
         /\ pending' = Tail(pending)
      \/ /\ ~refused /\ results' = Append(results, ToolMessage(call, 1))
         /\ events' = Append(events, [tool |-> call.tool, status |-> "violation"])
         /\ pending' = Tail(pending)
      \/ /\ ~refused /\ results' = Append(results, ToolMessage(call, 1))
         /\ events' = Append(events, [tool |-> call.tool, status |-> "error"])
         /\ pending' = IF FailOnToolError THEN <<>> ELSE Tail(pending)
  BY DEF ExecuteTool
<1>3. ResultSizes \subseteq Nat /\ 1 \in Nat BY RunnerAssumption DEF RunnerConstants
<1>4. \E status \in Statuses : ToolOutcome(status) /\ ((status = "refused") <=> refused)
  <2> HIDE DEF refused, call
  <2> USE DEF ToolOutcome
  <2>1. CASE refused /\ ToolOutcome("refused") BY <2>1 DEF Statuses
  <2>2. CASE ~refused /\ ToolOutcome("ok") BY <2>2 DEF Statuses
  <2>3. CASE ~refused /\ ToolOutcome("violation") BY <2>3 DEF Statuses
  <2>4. CASE ~refused /\ ToolOutcome("error") BY <2>4 DEF Statuses
  <2>5. \/ refused /\ ToolOutcome("refused")
        \/ ~refused /\ ToolOutcome("ok")
        \/ ~refused /\ ToolOutcome("violation")
        \/ ~refused /\ ToolOutcome("error")
    <3> DEFINE Done(n) == results' = Append(results, ToolMessage(call, n))
               Report(status) == events' = Append(events, [tool |-> call.tool, status |-> status])
    <3>1. \/ refused /\ Done(1) /\ Report("refused") /\ pending' = Tail(pending)
          \/ ~refused /\ (\E n \in Nat : Done(n)) /\ Report("ok") /\ pending' = Tail(pending)
          \/ ~refused /\ Done(1) /\ Report("violation") /\ pending' = Tail(pending)
          \/ /\ ~refused /\ Done(1) /\ Report("error")
             /\ pending' = IF FailOnToolError THEN <<>> ELSE Tail(pending)
      BY <1>2, <1>3
    <3>2. \A status : ToolOutcome(status) <=> 
             /\ \E n \in Nat : Done(n)
             /\ Report(status)
             /\ pending' = IF status = "error" /\ FailOnToolError THEN <<>> ELSE Tail(pending)
      BY DEF call
    <3> HIDE DEF Done, Report, ToolOutcome
    <3>3. Done(1) => \E n \in Nat : Done(n) OBVIOUS
    <3>4. "refused" # "error" /\ "ok" # "error" /\ "violation" # "error" OBVIOUS
    <3>5. CASE refused /\ Done(1) /\ Report("refused") /\ pending' = Tail(pending)
      <4>1. \E n \in Nat : Done(n) BY <3>3, <3>5
      <4>2. ToolOutcome("refused") BY <3>2, <3>4, <3>5, <4>1
      <4> QED BY <3>5, <4>2
    <3>6. CASE ~refused /\ (\E n \in Nat : Done(n)) /\ Report("ok") /\ pending' = Tail(pending)
      BY <3>2, <3>4, <3>6, Zenon
    <3>7. CASE ~refused /\ Done(1) /\ Report("violation") /\ pending' = Tail(pending)
      <4>1. \E n \in Nat : Done(n) BY <3>3, <3>7
      <4>2. ToolOutcome("violation") BY <3>2, <3>4, <3>7, <4>1
      <4> QED BY <3>7, <4>2
    <3>8. CASE /\ ~refused /\ Done(1) /\ Report("error")
               /\ pending' = IF FailOnToolError THEN <<>> ELSE Tail(pending)
      BY <3>2, <3>3, <3>8, Zenon
    <3> QED BY <3>1, <3>5, <3>6, <3>7, <3>8
  <2> QED BY <2>1, <2>2, <2>3, <2>4, <2>5
<1> QED BY <1>1, <1>4

\* The result messages as they enter the transcript.
Normalized == [k \in DOMAIN results |-> [results[k] EXCEPT !.size = Normalize(@)]]

LEMMA NormalizedType ==
    ASSUME results \in Seq(Message)
    PROVE  /\ Normalized \in Seq(Message) /\ Len(Normalized) = Len(results)
           /\ \A k \in 1 .. Len(results) :
                 /\ Normalized[k].role = results[k].role /\ Normalized[k].calls = results[k].calls
                 /\ Normalized[k].id = results[k].id
<1>1. DOMAIN results = 1 .. Len(results) /\ Len(results) \in Nat BY LenProperties
<1>2. ASSUME NEW k \in 1 .. Len(results)
      PROVE  /\ Normalized[k] \in Message
             /\ Normalized[k].role = results[k].role /\ Normalized[k].calls = results[k].calls
             /\ Normalized[k].id = results[k].id
  <2>1. results[k] \in Message BY ElementOfSeq
  <2>2. results[k].size \in Nat BY <2>1 DEF Message
  <2>3. Normalize(results[k].size) \in Nat BY <2>2 DEF Normalize, ReferenceSize
  <2>4. Normalized[k] = [results[k] EXCEPT !.size = Normalize(results[k].size)]
    BY <1>1 DEF Normalized
  <2> QED BY <2>1, <2>3, <2>4, Resize
<1>3. Normalized = [k \in 1 .. Len(results) |-> Normalized[k]] BY <1>1 DEF Normalized
<1>4. Normalized \in Seq(Message) /\ Len(Normalized) = Len(results)
  BY <1>1, <1>2, <1>3, IsASeq, LenProperties
<1> QED BY <1>2, <1>4

LEMMA EventType ==
    ASSUME NEW tool \in Tools, NEW status \in Statuses
    PROVE  [tool |-> tool, status |-> status] \in Event
  BY DEF Event

LEMMA EndType ==
    ASSUME NEW stop \in StopReasons, NEW reported \in Seq(Event), End(stop, reported)
    PROVE  phase' = "done" /\ result'.stop = stop
           /\ result' \in [stop : StopReasons \cup {"none"}, events : Seq(Event)]
  BY DEF End

LEMMA HandleFinalType ==
    ASSUME RunType, NEW r \in Responses, HandleFinal(r)
    PROVE  /\ RunType' /\ phase' = "done" /\ result'.stop \in StopReasons
           /\ UNCHANGED <<caller, initial, iteration, request, ToolState, Counters>>
<1>1. UNCHANGED <<caller, initial, iteration, request, ToolState, Counters>> BY DEF HandleFinal
<1>2. messages' \in Seq(Message)
  <2>1. Append(messages, Plain) \in Seq(Message) /\ messages \in Seq(Message)
    BY BuiltMessages, AppendProperties DEF RunType
  <2> QED BY <2>1 DEF HandleFinal
<1> DEFINE stop == IF r.finish = "error" THEN "error"
                   ELSE IF r.blank THEN "empty_final_response" ELSE "completed"
<1>3. stop \in StopReasons BY DEF StopReasons
<1>4. End(stop, <<>>) BY DEF HandleFinal
<1> HIDE DEF stop
<1>5. <<>> \in Seq(Event) BY EmptySeq
<1>6. phase' = "done" /\ result'.stop = stop
      /\ result' \in [stop : StopReasons \cup {"none"}, events : Seq(Event)]
  BY <1>3, <1>4, <1>5, EndType
<1>7. RunType' BY <1>1, <1>2, <1>6 DEF RunType, ToolState, Counters
<1> QED BY <1>1, <1>3, <1>6, <1>7

LEMMA RunTypeNext == RunType /\ [Next]_vars => RunType'
<1> SUFFICES ASSUME RunType, [Next]_vars PROVE RunType'
  OBVIOUS
<1> USE DEF Counters, ToolState
<1>1. CASE Ask
  <2>1. iteration' \in 0 .. MaxIterations
    BY <1>1, RunnerAssumption DEF Ask, RunType, RunnerConstants
  <2> QED BY <1>1, <2>1 DEF Ask, RunType
<1>2. CASE MaxIterationsReached
  <2>1. messages' \in Seq(Message)
    BY <1>2, BuiltMessages, AppendProperties DEF MaxIterationsReached, RunType
  <2>2. End("max_iterations", events) /\ "max_iterations" \in StopReasons /\ events \in Seq(Event)
    BY <1>2 DEF MaxIterationsReached, StopReasons, RunType
  <2>3. phase' = "done" /\ result' \in [stop : StopReasons \cup {"none"}, events : Seq(Event)]
    BY <2>2, EndType
  <2> QED BY <1>2, <2>1, <2>3 DEF MaxIterationsReached, RunType
<1>3. ASSUME NEW r \in Responses, RespondTools(r) PROVE RunType'
  <2>1. messages \in Seq(Message) BY DEF RunType
  <2>2. r.calls \in Seq(Call) /\ Len(r.calls) <= MostCalls BY <2>1, ResponseType, FreshCalls
  <2>3. messages' \in Seq(Message)
    BY <1>3, <2>1, <2>2, BuiltMessages, AppendProperties DEF RespondTools
  <2>4. <<>> \in Seq(Message) BY EmptySeq
  <2> QED BY <1>3, <2>2, <2>3, <2>4 DEF RespondTools, RunType
<1>4. ASSUME NEW r \in Responses, RespondEmpty(r) PROVE RunType'
  BY <1>4 DEF RespondEmpty, RunType
<1>5. ASSUME NEW r \in Responses, RespondTruncated(r) PROVE RunType'
  <2>1. <<Plain, User>> \in Seq(Message) BY BuiltMessages
  <2>2. messages' \in Seq(Message) BY <1>5, <2>1, ConcatProperties DEF RespondTruncated, RunType
  <2> QED BY <1>5, <2>2 DEF RespondTruncated, RunType
<1>6. ASSUME NEW r \in Responses, HandleFinal(r) PROVE RunType' BY <1>6, HandleFinalType
<1>7. CASE ExecuteTool
  <2>1. /\ pending # <<>> /\ lookups' = IF Head(pending).tool \in LookupTools THEN lookups + 1 ELSE lookups
        /\ UNCHANGED <<caller, initial, messages, iteration, phase, request, emptyRetries,
                          lengthRecoveries, result>>
    BY <1>7, ExecuteCases
  <2>2. PICK status \in Statuses : ToolOutcome(status) BY <1>7, ExecuteCases
  <2>3. Head(pending) \in Call /\ Tail(pending) \in Seq(Call) /\ Len(Tail(pending)) = Len(pending) - 1
    BY <2>1, HeadTailProperties DEF RunType
  <2>4. results' \in Seq(Message)
    <3>1. PICK n \in Nat : results' = Append(results, ToolMessage(Head(pending), n))
      BY <2>2 DEF ToolOutcome
    <3>2. ToolMessage(Head(pending), n) \in Message BY <2>3, BuiltMessages
    <3> QED BY <3>1, <3>2, AppendProperties DEF RunType
  <2>5. events' \in Seq(Event)
    <3>1. Head(pending).tool \in Tools BY <2>3 DEF Call
    <3>2. [tool |-> Head(pending).tool, status |-> status] \in Event BY <3>1, EventType
    <3> QED BY <2>2, <3>2, AppendProperties DEF ToolOutcome, RunType
  <2>6. pending' \in Seq(Call) /\ Len(pending') <= MostCalls
    <3>1. <<>> \in Seq(Call) /\ Len(<<>>) = 0 /\ MostCalls \in Nat BY EmptySeq, MenusBound
    <3>2. Len(pending) \in Nat /\ Len(pending) <= MostCalls BY LenProperties DEF RunType
    <3>3. pending' = <<>> \/ pending' = Tail(pending) BY <2>2 DEF ToolOutcome
    <3>4. \A a, m \in Nat : a <= m => 0 <= m /\ a - 1 <= m OBVIOUS
    <3>5. CASE pending' = <<>> BY <3>1, <3>5
    <3>6. CASE pending' = Tail(pending)
      <4>1. Len(pending') = Len(pending) - 1 /\ pending' \in Seq(Call) BY <2>3, <3>6
      <4> QED BY <3>1, <3>2, <3>4, <4>1
    <3> QED BY <3>3, <3>5, <3>6
  <2>7. lookups' \in Nat BY <2>1 DEF RunType
  <2> QED BY <2>1, <2>4, <2>5, <2>6, <2>7 DEF RunType
<1>8. CASE ToolsDone
  <2>1. messages' = messages \o Normalized \o IF Fatal THEN <<Plain>> ELSE <<>>
    BY <1>8 DEF ToolsDone, Normalized
  <2>2. Normalized \in Seq(Message) /\ messages \in Seq(Message) BY NormalizedType DEF RunType
  <2>3. <<Plain>> \in Seq(Message) /\ <<>> \in Seq(Message) BY BuiltMessages, EmptySeq
  <2>4. messages' \in Seq(Message) BY <2>1, <2>2, <2>3, ConcatProperties
  <2>5. CASE Fatal
    <3>1. End("tool_error", events) /\ "tool_error" \in StopReasons /\ events \in Seq(Event)
      BY <1>8, <2>5 DEF ToolsDone, StopReasons, RunType
    <3>2. phase' = "done" /\ result' \in [stop : StopReasons \cup {"none"}, events : Seq(Event)]
      BY <3>1, EndType
    <3> QED BY <1>8, <2>3, <2>4, <2>5, <3>2 DEF ToolsDone, RunType
  <2>6. CASE ~Fatal BY <1>8, <2>3, <2>4, <2>6 DEF ToolsDone, RunType
  <2> QED BY <2>5, <2>6
<1>9. CASE UNCHANGED vars BY <1>9 DEF vars, RunType
<1>10. ASSUME NEW r \in Responses, RespondFinal(r) \/ RespondFinalization(r) PROVE HandleFinal(r)
  BY <1>10 DEF RespondFinal, RespondFinalization
<1> QED BY <1>1, <1>2, <1>3, <1>4, <1>5, <1>6, <1>7, <1>8, <1>9, <1>10, StepCases DEF Finished

LEMMA AlwaysRunType == Spec => []RunType
<1>1. Init => RunType BY RunTypeInit
<1>2. RunType /\ [Next]_vars => RunType' BY RunTypeNext
<1> QED BY <1>1, <1>2, PTL DEF Spec

-----------------------------------------------------------------------------
(* Every run ends *)

\* One iteration less is one block of steps less.
LEMMA OneBlock ==
    ASSUME NEW i \in Nat, NEW m \in Nat, NEW w \in Nat, i < m
    PROVE  (m - i) * w = (m - (i + 1)) * w + w /\ (m - (i + 1)) * w \in Nat /\ (m - i) * w \in Nat
<1>1. PICK a \in Nat : a = m - (i + 1) BY SMT
<1>2. m - i = a + 1 BY <1>1
<1>3. (a + 1) * w = a * w + w OBVIOUS
<1>4. a * w \in Nat OBVIOUS
<1> QED BY <1>1, <1>2, <1>3, <1>4

LEMMA DistanceDecreases == RunType /\ [Next]_vars /\ vars' # vars => Distance' < Distance
<1> SUFFICES ASSUME RunType, Next, vars' # vars PROVE Distance' < Distance
  BY DEF vars
<1> DEFINE w == MostCalls + 3
           left == (MaxIterations - iteration) * w
<1>1. w \in Nat /\ MostCalls \in Nat BY MenusBound
<1>2. MaxIterations \in Nat BY RunnerAssumption DEF RunnerConstants
<1>3. iteration \in Nat /\ iteration <= MaxIterations BY <1>2 DEF RunType
<1>4. left \in Nat
  <2>1. MaxIterations - iteration \in Nat BY <1>2, <1>3
  <2>2. \A a, b \in Nat : a * b \in Nat OBVIOUS
  <2> QED BY <1>1, <2>1, <2>2
<1>5. /\ phase = "done" => Distance = 0
      /\ phase = "ask" => Distance = 1 + left
      /\ phase = "tools" => Distance = 2 + left + Len(pending)
      /\ phase = "finalize" => Distance = 1 + left
      /\ phase = "model" => Distance = 3 + left + MostCalls
  BY DEF Distance
<1>6. /\ phase' = "done" => Distance' = 0
      /\ phase' = "ask" => Distance' = 1 + left'
      /\ phase' = "tools" => Distance' = 2 + left' + Len(pending')
      /\ phase' = "finalize" => Distance' = 1 + left'
  BY DEF Distance
<1>7. iteration' = iteration => left' = left OBVIOUS
<1>8. Len(pending) \in Nat /\ Len(pending) <= MostCalls BY LenProperties DEF RunType
<1>9. CASE Ask
  <2>1. iteration' = iteration + 1 /\ phase' = "model" /\ phase = "ask" /\ iteration < MaxIterations
    BY <1>9 DEF Ask
  <2>2. left = left' + w /\ left' \in Nat BY <1>1, <1>2, <1>3, <2>1, OneBlock
  <2>3. Distance' = 3 + left' + MostCalls BY <2>1 DEF Distance
  <2>4. \A a, m \in Nat : 3 + a + m < 1 + (a + (m + 3)) OBVIOUS
  <2>5. Distance = 1 + left BY <1>5, <2>1
  <2> HIDE DEF left
  <2>6. Distance = 1 + (left' + (MostCalls + 3)) BY <2>2, <2>5
  <2> QED BY <1>1, <2>2, <2>3, <2>4, <2>6
<1> HIDE DEF left
<1>10. CASE MaxIterationsReached
  BY <1>4, <1>5, <1>6, <1>10 DEF MaxIterationsReached, End
<1>11. ASSUME NEW r \in Responses, RespondTools(r) PROVE Distance' < Distance
  <2>1. messages \in Seq(Message) BY DEF RunType
  <2>2. r.calls \in Seq(Call) /\ Len(r.calls) <= MostCalls BY <2>1, ResponseType, FreshCalls
  <2>3. Len(r.calls) \in Nat BY <2>2, LenProperties
  <2>4. phase = "model" /\ phase' = "tools" /\ pending' = r.calls /\ iteration' = iteration
    BY <1>11 DEF RespondTools
  <2>5. Distance' = 2 + left + Len(r.calls) /\ Distance = 3 + left + MostCalls
    BY <1>5, <1>6, <1>7, <2>4
  <2>6. \A a, b, m \in Nat : b <= m => 2 + a + b < 3 + a + m OBVIOUS
  <2> QED BY <1>1, <1>4, <2>2, <2>3, <2>5, <2>6
<1>12. ASSUME NEW r \in Responses, RespondEmpty(r) PROVE Distance' < Distance
  <2>1. phase = "model" /\ (phase' = "ask" \/ phase' = "finalize") /\ iteration' = iteration
    BY <1>12 DEF RespondEmpty
  <2> QED BY <1>1, <1>4, <1>5, <1>6, <1>7, <2>1
<1>13. ASSUME NEW r \in Responses, RespondTruncated(r) PROVE Distance' < Distance
  <2>1. phase = "model" /\ phase' = "ask" /\ iteration' = iteration
    BY <1>13 DEF RespondTruncated
  <2> QED BY <1>1, <1>4, <1>5, <1>6, <1>7, <2>1
<1>14. ASSUME NEW r \in Responses, RespondFinal(r) \/ RespondFinalization(r) PROVE Distance' < Distance
  <2>1. phase \in {"model", "finalize"} /\ phase' = "done"
    BY <1>14 DEF RespondFinal, RespondFinalization, HandleFinal, End
  <2> QED BY <1>1, <1>4, <1>5, <1>6, <2>1
<1>15. CASE ExecuteTool
  <2>1. phase = "tools" /\ pending # <<>> /\ phase' = phase /\ iteration' = iteration
    BY <1>15, ExecuteCases
  <2>2. PICK status \in Statuses : ToolOutcome(status) BY <1>15, ExecuteCases
  <2>3. pending' = <<>> \/ pending' = Tail(pending) BY <2>2 DEF ToolOutcome
  <2>4. Len(Tail(pending)) = Len(pending) - 1 /\ Len(<<>>) = 0 /\ Len(pending) # 0
    BY <2>1, HeadTailProperties, EmptySeq DEF RunType
  <2>5. Len(pending') < Len(pending) /\ Len(pending') \in Nat BY <1>8, <2>3, <2>4
  <2> QED BY <1>4, <1>5, <1>6, <1>7, <1>8, <2>1, <2>5
<1>16. CASE ToolsDone
  <2>1. phase = "tools" /\ (phase' = "ask" \/ phase' = "done") /\ iteration' = iteration
    BY <1>16 DEF ToolsDone, End
  <2> QED BY <1>4, <1>5, <1>6, <1>7, <1>8, <2>1
<1>17. ~Finished BY DEF Finished
<1> QED BY <1>9, <1>10, <1>11, <1>12, <1>13, <1>14, <1>15, <1>16, <1>17, StepCases

\* Every step of a run brings it closer to its end, whatever the model answers and the
\* tools do: AgentRunner::run makes at most max_iterations requests and one finalization.
THEOREM RunsEnd == Spec => RunEnds
<1>1. RunType /\ [Next]_vars => [Distance' < Distance]_vars BY DistanceDecreases
<1> QED BY <1>1, AlwaysRunType, PTL DEF Spec, RunEnds

-----------------------------------------------------------------------------
(* Transcripts in which calls and results match *)

\* A legal transcript that does not begin with a result can follow any other.
Tidy(s) == s \in Seq(Message) /\ Legal(s) /\ (s # <<>> => s[1].role # "tool")

\* The message at b + 1 is not a result: blocks before it end before it.
LEMMA BlockBefore ==
    ASSUME NEW s \in Seq(Message), NEW j \in 1 .. Len(s), NEW b \in j .. Len(s),
           b < Len(s) => s[b + 1].role # "tool"
    PROVE  BlockOf(s, j) = {i \in (j + 1) .. b : \A k \in (j + 1) .. i : s[k].role = "tool"}
<1>1. Len(s) \in Nat BY LenProperties
<1>2. ASSUME NEW i \in (j + 1) .. Len(s), \A k \in (j + 1) .. i : s[k].role = "tool" PROVE i <= b
  <2> SUFFICES ASSUME i > b PROVE FALSE
    BY <1>1
  <2>1. b + 1 \in (j + 1) .. i /\ b < Len(s) BY <1>1
  <2> QED BY <1>2, <2>1
<1>3. ASSUME NEW i \in (j + 1) .. b PROVE i \in (j + 1) .. Len(s) BY <1>1
<1>4. ASSUME NEW i \in (j + 1) .. Len(s), i <= b PROVE i \in (j + 1) .. b BY <1>1, <1>4
<1> QED BY <1>2, <1>3, <1>4 DEF BlockOf

LEMMA TidyJoin ==
    ASSUME NEW s, NEW t, Tidy(s), Tidy(t)
    PROVE  Tidy(s \o t)
<1> DEFINE q == s \o t
           a == Len(s)
           b == Len(t)
<1>1. s \in Seq(Message) /\ t \in Seq(Message) /\ a \in Nat /\ b \in Nat BY LenProperties DEF Tidy
<1>2. /\ q \in Seq(Message) /\ Len(q) = a + b
      /\ \A i \in 1 .. a : q[i] = s[i]
      /\ \A i \in 1 .. b : q[a + i] = t[i]
  <2>1. /\ q \in Seq(Message) /\ Len(q) = a + b
        /\ \A i \in 1 .. a + b : q[i] = IF i <= a THEN s[i] ELSE t[i - a]
    BY <1>1, ConcatProperties
  <2> HIDE DEF q
  <2>2. ASSUME NEW i \in 1 .. a PROVE q[i] = s[i]
    <3>1. i \in 1 .. a + b /\ i <= a BY <1>1
    <3> QED BY <2>1, <3>1
  <2>3. ASSUME NEW i \in 1 .. b PROVE q[a + i] = t[i]
    <3>1. a + i \in 1 .. a + b /\ ~(a + i <= a) /\ (a + i) - a = i BY <1>1
    <3> QED BY <2>1, <3>1
  <2> QED BY <2>1, <2>2, <2>3
<1>3. DOMAIN s = 1 .. a /\ DOMAIN t = 1 .. b BY <1>1, LenProperties
<1>3d. DOMAIN q = 1 .. a + b
  <2> HIDE DEF q, a, b
  <2> QED BY <1>1, <1>2, LenProperties
<1>4. b > 0 => t[1].role # "tool"
  <2>1. b > 0 => t # <<>> BY EmptySeq
  <2> QED BY <2>1 DEF Tidy
<1>5. a > 0 => s[1].role # "tool"
  <2>1. a > 0 => s # <<>> BY EmptySeq
  <2> QED BY <2>1 DEF Tidy
<1>6. Legal(s) /\ Legal(t) BY DEF Tidy
<1> HIDE DEF q, a, b
<1>7. ASSUME NEW j \in 1 .. a, q[j].role # "tool"
      PROVE  Ids(q[j].calls) = {q[i].id : i \in BlockOf(q, j)}
  <2> DEFINE B == {i \in (j + 1) .. a : \A k \in (j + 1) .. i : s[k].role = "tool"}
             C == {i \in (j + 1) .. a : \A k \in (j + 1) .. i : q[k].role = "tool"}
  <2>1. BlockOf(s, j) = B BY <1>1 DEF a, BlockOf
  <2>2. j \in 1 .. Len(q) /\ a \in j .. Len(q) /\ (a < Len(q) => q[a + 1].role # "tool")
    <3>1. a < Len(q) => b > 0 /\ 1 \in 1 .. b BY <1>1, <1>2
    <3> QED BY <1>1, <1>2, <1>4, <3>1
  <2>3. BlockOf(q, j) = C BY <1>2, <2>2, BlockBefore
  <2>4. \A i \in (j + 1) .. a : i \in 1 .. a /\ q[i] = s[i] BY <1>2
  <2>5. \A i \in (j + 1) .. a : \A k \in (j + 1) .. i : k \in (j + 1) .. a BY <1>1
  <2>6. B = C BY <2>4, <2>5
  <2>7. q[j] = s[j] BY <1>2
  <2>8. Ids(s[j].calls) = {s[i].id : i \in B}
    BY <1>3, <1>6, <1>7, <2>1, <2>7 DEF Legal
  <2>9. {s[i].id : i \in B} = {q[i].id : i \in B} BY <2>4
  <2> HIDE DEF B, C
  <2> QED BY <2>3, <2>6, <2>7, <2>8, <2>9
<1>8. ASSUME NEW j \in 1 .. b, q[a + j].role # "tool"
      PROVE  Ids(q[a + j].calls) = {q[i].id : i \in BlockOf(q, a + j)}
  <2>1. q[a + j] = t[j] BY <1>2
  <2>2. Ids(t[j].calls) = {t[i].id : i \in BlockOf(t, j)} BY <1>3, <1>6, <1>8, <2>1 DEF Legal
  <2>3. ASSUME NEW i \in BlockOf(t, j) PROVE a + i \in BlockOf(q, a + j) /\ q[a + i].id = t[i].id
    <3>1. i \in (j + 1) .. b /\ \A k \in (j + 1) .. i : t[k].role = "tool" BY DEF BlockOf, b
    <3>2. a + i \in ((a + j) + 1) .. Len(q) /\ q[a + i] = t[i] BY <1>1, <1>2, <3>1
    <3>3. ASSUME NEW k \in ((a + j) + 1) .. (a + i) PROVE q[k].role = "tool"
      <4>1. k - a \in (j + 1) .. i /\ k - a \in 1 .. b /\ a + (k - a) = k BY <1>1, <3>1
      <4>2. q[a + (k - a)] = t[k - a] BY <1>2, <4>1
      <4> QED BY <3>1, <4>1, <4>2
    <3> QED BY <3>2, <3>3 DEF BlockOf
  <2>4. ASSUME NEW i \in BlockOf(q, a + j)
        PROVE  i - a \in BlockOf(t, j) /\ t[i - a].id = q[i].id
    <3>1. i \in ((a + j) + 1) .. (a + b) /\ \A k \in ((a + j) + 1) .. i : q[k].role = "tool"
      BY <1>2 DEF BlockOf
    <3>2. i - a \in (j + 1) .. b /\ i - a \in 1 .. b /\ a + (i - a) = i BY <1>1, <3>1
    <3>3. q[a + (i - a)] = t[i - a] BY <1>2, <3>2
    <3>4. ASSUME NEW k \in (j + 1) .. (i - a) PROVE t[k].role = "tool"
      <4>1. a + k \in ((a + j) + 1) .. i /\ k \in 1 .. b BY <1>1, <3>1
      <4>2. q[a + k] = t[k] BY <1>2, <4>1
      <4> QED BY <3>1, <4>1, <4>2
    <3> QED BY <3>2, <3>3, <3>4 DEF BlockOf, b
  <2>5. {t[i].id : i \in BlockOf(t, j)} = {q[i].id : i \in BlockOf(q, a + j)} BY <2>3, <2>4
  <2> QED BY <2>1, <2>2, <2>5
<1>9. ASSUME NEW j \in 1 .. a, q[j].role = "tool"
      PROVE  \E i \in 1 .. (j - 1) : q[j].id \in Ids(q[i].calls)
  <2>1. q[j] = s[j] BY <1>2
  <2>2. PICK i \in 1 .. (j - 1) : s[j].id \in Ids(s[i].calls) BY <1>3, <1>6, <1>9, <2>1 DEF Legal
  <2>3. i \in 1 .. a BY <1>1
  <2>4. q[i] = s[i] BY <1>2, <2>3
  <2> QED BY <2>1, <2>2, <2>4
<1>10. ASSUME NEW j \in 1 .. b, q[a + j].role = "tool"
       PROVE  \E i \in 1 .. (a + j - 1) : q[a + j].id \in Ids(q[i].calls)
  <2>1. q[a + j] = t[j] BY <1>2
  <2>2. PICK i \in 1 .. (j - 1) : t[j].id \in Ids(t[i].calls) BY <1>3, <1>6, <1>10, <2>1 DEF Legal
  <2>3. i \in 1 .. b /\ a + i \in 1 .. (a + j - 1) BY <1>1
  <2>4. q[a + i] = t[i] BY <1>2, <2>3
  <2> QED BY <2>1, <2>2, <2>3, <2>4
<1>11. Legal(q)
  <2> SUFFICES ASSUME NEW j \in 1 .. a + b
               PROVE  /\ q[j].role # "tool" => Ids(q[j].calls) = {q[i].id : i \in BlockOf(q, j)}
                      /\ q[j].role = "tool" => \E i \in 1 .. (j - 1) : q[j].id \in Ids(q[i].calls)
    BY <1>3d DEF Legal
  <2>1. CASE j <= a
    <3>1. j \in 1 .. a BY <1>1, <2>1
    <3> QED BY <1>7, <1>9, <3>1
  <2>2. CASE j > a
    <3>1. j - a \in 1 .. b /\ a + (j - a) = j BY <1>1, <2>2
    <3>2. PICK l \in 1 .. b : j = a + l BY <3>1
    <3>3. q[j].role # "tool" => Ids(q[j].calls) = {q[i].id : i \in BlockOf(q, j)}
      BY <1>8, <3>2, Zenon
    <3>4. q[j].role = "tool" => \E i \in 1 .. (j - 1) : q[j].id \in Ids(q[i].calls)
      <4> SUFFICES ASSUME q[j].role = "tool" PROVE \E i \in 1 .. (j - 1) : q[j].id \in Ids(q[i].calls)
        OBVIOUS
      <4>1. q[a + l].role = "tool" BY <3>2
      <4>2. PICK i \in 1 .. (a + l - 1) : q[a + l].id \in Ids(q[i].calls) BY <1>10, <4>1
      <4>3. i \in 1 .. (j - 1) BY <1>1, <3>2
      <4> QED BY <3>2, <4>2, <4>3
    <3> QED BY <3>3, <3>4
  <2> QED BY <1>1, <2>1, <2>2
<1>12. q # <<>> => q[1].role # "tool"
  <2> SUFFICES ASSUME q # <<>> PROVE q[1].role # "tool"
    OBVIOUS
  <2>1. Len(q) # 0 BY <1>2, EmptySeq
  <2>2. CASE a > 0
    <3>1. 1 \in 1 .. a BY <1>1, <2>2
    <3> QED BY <1>2, <1>5, <2>2, <3>1
  <2>3. CASE a = 0
    <3>1. b > 0 /\ 1 \in 1 .. b /\ a + 1 = 1 BY <1>1, <1>2, <2>1, <2>3
    <3> QED BY <1>2, <1>4, <3>1
  <2> QED BY <1>1, <2>2, <2>3
<1> QED BY <1>2, <1>11, <1>12 DEF Tidy, q

\* The members of two sequences put together.
LEMMA ConcatAt ==
    ASSUME NEW A, NEW s \in Seq(A), NEW t \in Seq(A)
    PROVE  /\ s \o t \in Seq(A) /\ Len(s) \in Nat /\ Len(t) \in Nat
           /\ Len(s \o t) = Len(s) + Len(t)
           /\ DOMAIN (s \o t) = 1 .. Len(s) + Len(t)
           /\ \A i \in 1 .. Len(s) : (s \o t)[i] = s[i]
           /\ \A i \in 1 .. Len(t) : (s \o t)[Len(s) + i] = t[i]
<1> DEFINE q == s \o t
           a == Len(s)
           b == Len(t)
<1>1. a \in Nat /\ b \in Nat BY LenProperties
<1>2. /\ q \in Seq(A) /\ Len(q) = a + b
      /\ \A i \in 1 .. a + b : q[i] = IF i <= a THEN s[i] ELSE t[i - a]
  BY ConcatProperties
<1> HIDE DEF q, a, b
<1>3. DOMAIN q = 1 .. a + b BY <1>2, LenProperties
<1>4. ASSUME NEW i \in 1 .. a PROVE q[i] = s[i]
  <2>1. i \in 1 .. a + b /\ i <= a BY <1>1
  <2> QED BY <1>2, <2>1
<1>5. ASSUME NEW i \in 1 .. b PROVE q[a + i] = t[i]
  <2>1. a + i \in 1 .. a + b /\ ~(a + i <= a) /\ (a + i) - a = i BY <1>1
  <2> QED BY <1>2, <2>1
<1> QED BY <1>1, <1>2, <1>3, <1>4, <1>5 DEF q, a, b

\* A message with one result for every call it makes.
LEMMA TidyBlock ==
    ASSUME NEW m \in Message, m.role # "tool", NEW r \in Seq(Message),
           \A k \in 1 .. Len(r) : r[k].role = "tool",
           Ids(m.calls) = {r[k].id : k \in 1 .. Len(r)}
    PROVE  Tidy(<<m>> \o r)
<1> DEFINE q == <<m>> \o r
           b == Len(r)
<1>1. <<m>> \in Seq(Message) /\ Len(<<m>>) = 1 /\ <<m>>[1] = m OBVIOUS
<1>2. /\ q \in Seq(Message) /\ b \in Nat /\ Len(q) = 1 + b /\ DOMAIN q = 1 .. 1 + b
      /\ q[1] = m
      /\ \A i \in 1 .. b : q[1 + i] = r[i]
  <2> DEFINE u == <<m>>
  <2>1. 1 \in 1 .. 1 OBVIOUS
  <2> HIDE DEF u
  <2>2. u \in Seq(Message) /\ Len(u) = 1 /\ u[1] = m BY <1>1 DEF u
  <2>3. /\ u \o r \in Seq(Message) /\ b \in Nat /\ Len(u \o r) = 1 + b /\ DOMAIN (u \o r) = 1 .. 1 + b
        /\ \A i \in 1 .. 1 : (u \o r)[i] = u[i]
        /\ \A i \in 1 .. b : (u \o r)[1 + i] = r[i]
    <3>1. /\ u \o r \in Seq(Message) /\ Len(u) \in Nat /\ Len(r) \in Nat
          /\ Len(u \o r) = Len(u) + Len(r) /\ DOMAIN (u \o r) = 1 .. Len(u) + Len(r)
          /\ \A i \in 1 .. Len(u) : (u \o r)[i] = u[i]
          /\ \A i \in 1 .. Len(r) : (u \o r)[Len(u) + i] = r[i]
      <4>1. u \in Seq(Message) /\ r \in Seq(Message) BY <2>2
      <4> QED BY ONLY <4>1, ConcatAt
    <3> QED BY <2>2, <3>1
  <2> QED BY <2>1, <2>2, <2>3 DEF u
<1>3. {r[k].id : k \in 1 .. b} = Ids(q[1].calls) BY <1>2
<1> HIDE DEF q, b
<1>4. ASSUME NEW i \in 2 .. 1 + b PROVE q[i].role = "tool" /\ i - 1 \in 1 .. b /\ q[i] = r[i - 1]
  <2>1. i - 1 \in 1 .. b /\ 1 + (i - 1) = i BY <1>2
  <2> QED BY <1>2, <2>1 DEF b
<1>5. BlockOf(q, 1) = 2 .. 1 + b
  <2>1. ASSUME NEW i \in 2 .. 1 + b, NEW k \in 2 .. i PROVE k \in 2 .. 1 + b BY <1>2
  <2>2. 1 + 1 = 2 OBVIOUS
  <2> QED BY <1>2, <1>4, <2>1, <2>2 DEF BlockOf
<1>6. {r[k].id : k \in 1 .. b} = {q[i].id : i \in 2 .. 1 + b}
  <2>1. ASSUME NEW k \in 1 .. b PROVE 1 + k \in 2 .. 1 + b /\ q[1 + k].id = r[k].id BY <1>2
  <2> QED BY <1>4, <2>1
<1>7. ASSUME NEW j \in 1 .. 1 + b
      PROVE  /\ q[j].role # "tool" => Ids(q[j].calls) = {q[i].id : i \in BlockOf(q, j)}
             /\ q[j].role = "tool" => \E i \in 1 .. (j - 1) : q[j].id \in Ids(q[i].calls)
  <2>1. CASE j = 1 BY <1>2, <1>3, <1>5, <1>6, <2>1
  <2>2. CASE j # 1
    <3>1. j \in 2 .. 1 + b /\ 1 \in 1 .. (j - 1) BY <1>2, <2>2
    <3>2. q[j].role = "tool" /\ j - 1 \in 1 .. b /\ q[j] = r[j - 1] BY <1>4, <3>1
    <3>3. q[j].id \in Ids(q[1].calls) BY <1>3, <3>2
    <3> QED BY <3>1, <3>2, <3>3
  <2> QED BY <2>1, <2>2
<1>8. Legal(q) BY <1>2, <1>7 DEF Legal
<1> QED BY <1>2, <1>8 DEF Tidy, q

LEMMA TidyOne ==
    ASSUME NEW m \in Message, m.role # "tool", m.calls = <<>>
    PROVE  Tidy(<<m>>)
<1>1. <<>> \in Seq(Message) /\ Len(<<>>) = 0 BY EmptySeq
<1>2. Ids(m.calls) = {} BY DEF Ids
<1> DEFINE r == <<>>
<1>3. 1 .. Len(r) = {} BY <1>1
<1>4. r \in Seq(Message) BY <1>1
<1>5. <<m>> \o r = <<m>> BY <1>1
<1> HIDE DEF r
<1>6. Tidy(<<m>> \o r) BY <1>2, <1>3, <1>4, TidyBlock
<1> QED BY <1>5, <1>6

LEMMA TidyEmpty == Tidy(<<>>)
<1>1. <<>> \in Seq(Message) /\ DOMAIN <<>> = {} BY EmptySeq
<1> QED BY <1>1 DEF Tidy, Legal

-----------------------------------------------------------------------------
(* The transcript a run leaves behind *)

\* The calls of the last response: those answered and those still to execute.
Answering(calls) ==
    /\ calls \in Seq(Call) /\ Ids(pending) \subseteq Ids(calls)
    /\ \A k \in 1 .. Len(results) :
          results[k].role = "tool" /\ results[k].calls = <<>> /\ results[k].id \in Ids(calls)
    /\ Fatal => pending = <<>>
    /\ ~Fatal => \A x \in Ids(calls) : x \in Ids(pending) \/ \E k \in 1 .. Len(results) : results[k].id = x

\* What the run has added to the transcript it was given.
RunInv ==
    /\ \E h \in Seq(Message) : initial = h \o <<User>>
    /\ phase \in {"ask", "model", "finalize"} =>
          ~Fatal /\ \E u : Tidy(u) /\ messages = initial \o u
    /\ phase = "tools" =>
          \E u, calls : /\ Tidy(u) /\ Answering(calls)
                        /\ messages = (initial \o u) \o <<Asking(calls)>>
    /\ phase = "done" =>
          /\ EndsPlain(messages) /\ result.stop \in StopReasons
          /\ \E u \in Seq(Message) : /\ messages = initial \o u
                                     /\ Tidy(u) \/ result.stop = "tool_error"

LEMMA RunInvInit == Init => RunInv
<1> SUFFICES ASSUME Init PROVE RunInv
  OBVIOUS
<1>1. PICK h \in Seq(Message) : initial = <<System>> \o h \o <<User>> BY StartType
<1>2. initial \in Seq(Message) BY StartType
<1>3. <<System>> \o h \in Seq(Message)
  <2> DEFINE y == <<System>>
  <2>1. y \in Seq(Message) BY BuiltMessages
  <2> HIDE DEF y
  <2>2. y \o h \in Seq(Message) BY <2>1, ConcatProperties
  <2> QED BY <2>2 DEF y
<1>4. messages = initial \o <<>> BY <1>2, ConcatEmptySeq DEF Init
<1>5. ~Fatal BY DEF Init, Fatal
<1>6. phase = "ask" BY DEF Init
<1> QED BY <1>1, <1>3, <1>4, <1>5, <1>6, TidyEmpty DEF RunInv

\* The batch is over when the last event is the error of a tool of a subagent.
LEMMA FatalAfter ==
    ASSUME RunType, NEW e, events' = Append(events, e), caller' = caller, e \in Event
    PROVE  Fatal' <=> FailOnToolError /\ e.status = "error"
<1>1. /\ events' \in Seq(Event) /\ Len(events') = Len(events) + 1 /\ Len(events) \in Nat
      /\ events'[Len(events) + 1] = e
  BY AppendProperties, LenProperties DEF RunType
<1>2. events' # <<>> /\ events'[Len(events')] = e BY <1>1, EmptySeq
<1> QED BY <1>2 DEF Fatal, FailOnToolError

LEMMA IdsHeadTail ==
    ASSUME NEW calls \in Seq(Call), calls # <<>>
    PROVE  /\ Head(calls).id \in Ids(calls) /\ Ids(Tail(calls)) \subseteq Ids(calls)
           /\ \A x \in Ids(calls) : x = Head(calls).id \/ x \in Ids(Tail(calls))
<1> DEFINE n == Len(calls)
           t == Tail(calls)
<1>1. /\ t \in Seq(Call) /\ n \in Nat /\ n # 0 /\ Len(t) = n - 1 /\ Head(calls) = calls[1]
      /\ \A i \in 1 .. n - 1 : t[i] = calls[i + 1]
  <2>1. n \in Nat /\ n # 0 BY LenProperties, EmptySeq
  <2>2. t \in Seq(Call) /\ Len(t) = n - 1 /\ Head(calls) = calls[1]
    BY HeadTailProperties
  <2>3. \A i \in 1 .. Len(t) : t[i] = calls[i + 1] BY HeadTailProperties
  <2> QED BY <2>1, <2>2, <2>3
<1>2. DOMAIN calls = 1 .. n /\ DOMAIN t = 1 .. n - 1 BY <1>1, LenProperties
<1> HIDE DEF n, t
<1>3. Head(calls).id \in Ids(calls)
  <2>1. 1 \in 1 .. n BY <1>1
  <2> QED BY <1>1, <1>2, <2>1 DEF Ids
<1>4. ASSUME NEW x \in Ids(t) PROVE x \in Ids(calls)
  <2>1. PICK k \in 1 .. n - 1 : x = t[k].id BY <1>2 DEF Ids
  <2>2. k + 1 \in 1 .. n BY <1>1
  <2> QED BY <1>1, <1>2, <2>1, <2>2 DEF Ids
<1>5. ASSUME NEW x \in Ids(calls) PROVE x = Head(calls).id \/ x \in Ids(t)
  <2>1. PICK k \in 1 .. n : x = calls[k].id BY <1>2 DEF Ids
  <2>2. CASE k = 1 BY <1>1, <2>1, <2>2
  <2>3. CASE k # 1
    <3>1. k - 1 \in 1 .. n - 1 /\ (k - 1) + 1 = k BY <1>1, <2>3
    <3>2. t[k - 1] = calls[k] BY <1>1, <3>1
    <3> QED BY <1>2, <2>1, <3>1, <3>2 DEF Ids
  <2> QED BY <2>2, <2>3
<1> QED BY <1>3, <1>4, <1>5 DEF t

\* Executing a tool answers one call.
LEMMA AnsweringExecute ==
    ASSUME RunType, ExecuteTool, NEW calls, Answering(calls)
    PROVE  Answering(calls)'
<1>1. pending # <<>> /\ caller' = caller /\ pending \in Seq(Call) BY ExecuteCases DEF RunType
<1>2. PICK status \in Statuses : ToolOutcome(status) BY ExecuteCases
<1> DEFINE call == Head(pending)
<1>3. call \in Call /\ Tail(pending) \in Seq(Call) BY <1>1, HeadTailProperties
<1>4. PICK n \in Nat : results' = Append(results, ToolMessage(call, n)) BY <1>2 DEF ToolOutcome
<1> DEFINE m == ToolMessage(call, n)
           e == [tool |-> call.tool, status |-> status]
           b == Len(results)
<1>5. m \in Message /\ m.role = "tool" /\ m.calls = <<>> /\ m.id = call.id BY <1>3, BuiltMessages
<1>6. e \in Event /\ e.status = status
  <2>1. call.tool \in Tools BY <1>3 DEF Call
  <2> QED BY <2>1, EventType
<1>7. Fatal' <=> FailOnToolError /\ status = "error"
  <2>1. events' = Append(events, e) BY <1>2 DEF ToolOutcome
  <2> HIDE DEF e
  <2> QED BY <1>1, <1>6, <2>1, FatalAfter
<1> HIDE DEF m
<1>8. /\ results' \in Seq(Message) /\ b \in Nat /\ Len(results') = b + 1 /\ results'[b + 1] = m
      /\ \A k \in 1 .. b : results'[k] = results[k]
  BY <1>4, <1>5, AppendProperties, LenProperties DEF RunType, m
<1>9. /\ call.id \in Ids(pending) /\ Ids(Tail(pending)) \subseteq Ids(pending)
      /\ \A x \in Ids(pending) : x = call.id \/ x \in Ids(Tail(pending))
  BY <1>1, IdsHeadTail
<1>10. pending' = IF Fatal' THEN <<>> ELSE Tail(pending) BY <1>2, <1>7 DEF ToolOutcome
<1>11. Ids(<<>>) = {} BY DEF Ids
<1>12. pending # <<>> => ~Fatal BY DEF Answering
<1> HIDE DEF call, b
<1>13. Ids(pending') \subseteq Ids(calls) BY <1>9, <1>10, <1>11 DEF Answering
<1>14. ASSUME NEW k \in 1 .. Len(results')
       PROVE  results'[k].role = "tool" /\ results'[k].calls = <<>> /\ results'[k].id \in Ids(calls)
  <2>1. CASE k = b + 1 BY <1>5, <1>8, <1>9, <2>1 DEF Answering
  <2>2. CASE k # b + 1
    <3>1. k \in 1 .. b BY <1>8, <2>2
    <3> QED BY <1>8, <3>1 DEF Answering, b
  <2> QED BY <2>1, <2>2
<1>15. ASSUME ~Fatal', NEW x \in Ids(calls)
       PROVE  x \in Ids(pending') \/ \E k \in 1 .. Len(results') : results'[k].id = x
  <2>1. pending' = Tail(pending) BY <1>10, <1>15
  <2>2. x \in Ids(pending) \/ \E k \in 1 .. b : results[k].id = x BY <1>1, <1>12 DEF Answering, b
  <2>3. CASE \E k \in 1 .. b : results[k].id = x
    <3>1. PICK k \in 1 .. b : results[k].id = x BY <2>3
    <3>2. k \in 1 .. Len(results') /\ results'[k].id = x BY <1>8, <3>1
    <3> QED BY <3>2
  <2>4. CASE x = call.id
    <3>1. b + 1 \in 1 .. Len(results') /\ results'[b + 1].id = x BY <1>5, <1>8, <2>4
    <3> QED BY <3>1
  <2> QED BY <1>9, <2>1, <2>2, <2>3, <2>4
<1>16. Fatal' => pending' = <<>> BY <1>10
<1> QED BY <1>13, <1>14, <1>15, <1>16 DEF Answering

LEMMA OwnGrows ==
    ASSUME initial \in Seq(Message), NEW u, NEW v, Tidy(u), Tidy(v), messages = initial \o u
    PROVE  Tidy(u \o v) /\ messages \o v = initial \o (u \o v) /\ u \o v \in Seq(Message)
<1>1. u \in Seq(Message) /\ v \in Seq(Message) BY DEF Tidy
<1>2. (initial \o u) \o v = initial \o (u \o v) BY <1>1, ConcatAssociative
<1>3. Tidy(u \o v) BY TidyJoin
<1> QED BY <1>2, <1>3 DEF Tidy

LEMMA EndsAppend ==
    ASSUME NEW s \in Seq(Message), NEW m \in Message, m.role = "assistant", m.calls = <<>>
    PROVE  EndsPlain(s \o <<m>>)
<1> DEFINE v == <<m>>
<1>1. v \in Seq(Message) /\ Len(v) = 1 /\ v[1] = m OBVIOUS
<1> HIDE DEF v
<1>2. Len(s \o v) = Len(s) + 1 /\ (s \o v)[Len(s) + 1] = m
  <2>1. /\ Len(s \o v) = Len(s) + Len(v)
        /\ \A i \in 1 .. Len(v) : (s \o v)[Len(s) + i] = v[i]
    BY ONLY s \in Seq(Message), <1>1, ConcatAt
  <2> QED BY <1>1, <2>1
<1> QED BY <1>2 DEF EndsPlain, v

\* The two ways a run appends messages of its own.
LEMMA TidyAdded ==
    /\ Tidy(<<Plain>>) /\ Tidy(<<User>>) /\ Tidy(<<Plain, User>>)
<1>1. Tidy(<<Plain>>) /\ Tidy(<<User>>) BY BuiltMessages, TidyOne
<1>2. <<Plain, User>> = <<Plain>> \o <<User>> OBVIOUS
<1>3. Tidy(<<Plain>> \o <<User>>) BY <1>1, TidyJoin
<1> QED BY <1>1, <1>2, <1>3

LEMMA RunInvFinal ==
    ASSUME RunType, RunInv, NEW r \in Responses, HandleFinal(r), phase \in {"model", "finalize"}
    PROVE  RunInv'
<1>1. PICK u : Tidy(u) /\ messages = initial \o u BY DEF RunInv
<1>2. u \in Seq(Message) /\ initial \in Seq(Message) /\ messages \in Seq(Message)
  BY <1>1 DEF Tidy, RunType
<1>3. phase' = "done" /\ result'.stop \in StopReasons /\ initial' = initial BY HandleFinalType
<1>4. CASE r.finish = "error" /\ EndsPlain(messages)
  <2>1. messages' = messages BY <1>4 DEF HandleFinal
  <2> QED BY <1>1, <1>2, <1>3, <1>4, <2>1 DEF RunInv
<1>5. CASE ~(r.finish = "error" /\ EndsPlain(messages))
  <2>1. messages' = messages \o <<Plain>>
    <3>1. messages' = Append(messages, Plain) BY <1>5 DEF HandleFinal
    <3> QED BY <1>2, <3>1, BuiltMessages, AppendIsConcat
  <2>2. EndsPlain(messages') BY <1>2, <2>1, BuiltMessages, EndsAppend
  <2>3. Tidy(u \o <<Plain>>) /\ messages' = initial \o (u \o <<Plain>>) /\ u \o <<Plain>> \in Seq(Message)
    BY <1>1, <1>2, <2>1, TidyAdded, OwnGrows
  <2> QED BY <1>3, <2>2, <2>3 DEF RunInv
<1> QED BY <1>4, <1>5

LEMMA RunInvToolsDone ==
    ASSUME RunType, RunInv, ToolsDone
    PROVE  RunInv'
<1>1. phase = "tools" /\ pending = <<>> /\ caller' = caller /\ initial' = initial /\ events' = events
  BY DEF ToolsDone
<1>2. PICK u, calls : /\ Tidy(u) /\ Answering(calls)
                      /\ messages = (initial \o u) \o <<Asking(calls)>>
  BY <1>1 DEF RunInv
<1> DEFINE A == <<Asking(calls)>>
<1>3. u \in Seq(Message) /\ initial \in Seq(Message) /\ messages \in Seq(Message) /\ results \in Seq(Message)
  BY <1>2 DEF Tidy, RunType
<1>4. calls \in Seq(Call) BY <1>2 DEF Answering
<1>5. Asking(calls) \in Message /\ Asking(calls).role = "assistant" /\ Asking(calls).calls = calls
  BY <1>4, BuiltMessages
<1>6. A \in Seq(Message) BY <1>5
<1>7. /\ Normalized \in Seq(Message) /\ Len(Normalized) = Len(results)
      /\ \A k \in 1 .. Len(results) : Normalized[k].role = "tool" /\ Normalized[k].id = results[k].id
  BY <1>2, <1>3, NormalizedType DEF Answering
<1>8. messages' = messages \o Normalized \o IF Fatal THEN <<Plain>> ELSE <<>>
  BY DEF ToolsDone, Normalized
<1>9. messages \o Normalized = initial \o (u \o (A \o Normalized)) /\ A \o Normalized \in Seq(Message)
  <2> DEFINE N == Normalized
  <2> HIDE DEF N, A
  <2>1. N \in Seq(Message) BY <1>7 DEF N
  <2>2. A \o N \in Seq(Message) /\ u \o A \in Seq(Message)
    BY ONLY <1>3, <1>6, <2>1, ConcatProperties
  <2>0. initial \in Seq(Message) /\ u \in Seq(Message) /\ A \in Seq(Message) /\ N \in Seq(Message)
    BY <1>3, <1>6, <2>1
  <2>3. (initial \o u) \o A = initial \o (u \o A) BY ONLY <2>0, Regroup, Zenon
  <2>4. (initial \o (u \o A)) \o N = initial \o ((u \o A) \o N)
    <3> DEFINE z == u \o A
    <3>1. initial \in Seq(Message) /\ z \in Seq(Message) /\ N \in Seq(Message) BY <1>3, <2>1, <2>2
    <3> HIDE DEF z
    <3>2. (initial \o z) \o N = initial \o (z \o N) BY ONLY <3>1, Regroup, Zenon
    <3> QED BY <3>2 DEF z
  <2>5. (u \o A) \o N = u \o (A \o N) BY ONLY <2>0, Regroup, Zenon
  <2> QED BY <1>2, <2>2, <2>3, <2>4, <2>5 DEF N, A
<1>10. u \o (A \o Normalized) \in Seq(Message) BY <1>3, <1>9, ConcatProperties
<1>11. CASE Fatal
  <2> DEFINE w == u \o (A \o Normalized)
             p == <<Plain>>
  <2>1. phase' = "done" /\ result'.stop = "tool_error" /\ "tool_error" \in StopReasons
    BY <1>11 DEF ToolsDone, End, StopReasons
  <2>2. p \in Seq(Message) BY BuiltMessages
  <2>3. messages' = (initial \o w) \o p /\ w \in Seq(Message) BY <1>8, <1>9, <1>10, <1>11
  <2> HIDE DEF w
  <2>4. initial \o w \in Seq(Message) BY <1>3, <2>3, ConcatProperties
  <2>5. EndsPlain(messages') BY <2>3, <2>4, BuiltMessages, EndsAppend
  <2> HIDE DEF p
  <2>6. (initial \o w) \o p = initial \o (w \o p) /\ w \o p \in Seq(Message)
    <3>0. initial \in Seq(Message) /\ w \in Seq(Message) /\ p \in Seq(Message) BY <1>3, <2>2, <2>3
    <3>1. (initial \o w) \o p = initial \o (w \o p) BY ONLY <3>0, ConcatAssociative
    <3>2. w \o p \in Seq(Message) BY <1>3, <2>2, <2>3, ConcatProperties
    <3> QED BY <3>1, <3>2
  <2> QED BY <1>1, <2>1, <2>3, <2>5, <2>6 DEF RunInv
<1>12. CASE ~Fatal
  <2>1. phase' = "ask" BY <1>12 DEF ToolsDone
  <2>2. Ids(calls) = {Normalized[k].id : k \in 1 .. Len(Normalized)}
    <3>1. Ids(pending) = {} BY <1>1 DEF Ids
    <3>2. ASSUME NEW x \in Ids(calls) PROVE \E k \in 1 .. Len(Normalized) : x = Normalized[k].id
      BY <1>2, <1>7, <1>12, <3>1 DEF Answering
    <3>3. ASSUME NEW k \in 1 .. Len(Normalized) PROVE Normalized[k].id \in Ids(calls)
      BY <1>2, <1>7 DEF Answering
    <3> QED BY <3>2, <3>3
  <2>3. Tidy(A \o Normalized) BY <1>5, <1>7, <2>2, TidyBlock
  <2>4. Tidy(u \o (A \o Normalized))
    <3> DEFINE w == A \o Normalized
    <3> HIDE DEF w
    <3>1. Tidy(w) BY <2>3 DEF w
    <3>2. Tidy(u \o w) BY <1>2, <3>1, TidyJoin
    <3> QED BY <3>2 DEF w
  <2>5. messages' = initial \o (u \o (A \o Normalized))
    <3> DEFINE w == u \o (A \o Normalized)
    <3>1. messages' = (initial \o w) \o <<>> BY <1>8, <1>9, <1>12
    <3> HIDE DEF w
    <3>2. w \in Seq(Message) BY <1>10 DEF w
    <3>3. initial \o w \in Seq(Message) BY <1>3, <3>2, ConcatProperties
    <3>4. (initial \o w) \o <<>> = initial \o w BY <3>3, ConcatEmptySeq
    <3> QED BY <3>1, <3>4 DEF w
  <2>6. ~Fatal' BY <1>1, <1>12 DEF Fatal, FailOnToolError
  <2> HIDE DEF A
  <2> QED BY <1>1, <2>1, <2>4, <2>5, <2>6 DEF RunInv
<1> QED BY <1>11, <1>12

LEMMA RunInvNext == RunType /\ RunInv /\ [Next]_vars => RunInv'
<1> SUFFICES ASSUME RunType, RunInv, [Next]_vars PROVE RunInv'
  OBVIOUS
<1> USE DEF Counters, ToolState
<1>1. initial \in Seq(Message) /\ messages \in Seq(Message) BY DEF RunType
<1>2. caller' = caller /\ events' = events => (Fatal' <=> Fatal) BY DEF Fatal, FailOnToolError
<1>3. CASE Ask
  <2>1. phase = "ask" /\ phase' = "model" /\ UNCHANGED <<caller, initial, messages, events>>
    BY <1>3 DEF Ask
  <2> QED BY <1>2, <2>1 DEF RunInv
<1>4. CASE MaxIterationsReached
  <2>1. /\ phase = "ask" /\ phase' = "done" /\ initial' = initial
        /\ messages' = Append(messages, Plain)
        /\ result'.stop = "max_iterations"
    BY <1>4 DEF MaxIterationsReached, End
  <2>2. PICK u : Tidy(u) /\ messages = initial \o u BY <2>1 DEF RunInv
  <2>3. messages' = messages \o <<Plain>> BY <1>1, <2>1, BuiltMessages, AppendIsConcat
  <2>4. EndsPlain(messages') BY <1>1, <2>3, BuiltMessages, EndsAppend
  <2>5. Tidy(u \o <<Plain>>) /\ messages' = initial \o (u \o <<Plain>>) /\ u \o <<Plain>> \in Seq(Message)
    BY <1>1, <2>2, <2>3, TidyAdded, OwnGrows
  <2>6. "max_iterations" \in StopReasons BY DEF StopReasons
  <2> QED BY <2>1, <2>4, <2>5, <2>6 DEF RunInv
<1>5. ASSUME NEW r \in Responses, RespondTools(r) PROVE RunInv'
  <2> DEFINE calls == r.calls
  <2>1. /\ phase = "model" /\ phase' = "tools" /\ UNCHANGED <<caller, initial, events>>
        /\ messages' = Append(messages, Asking(calls)) /\ pending' = calls /\ results' = <<>>
    BY <1>5 DEF RespondTools
  <2>2. PICK u : Tidy(u) /\ messages = initial \o u BY <2>1 DEF RunInv
  <2>3. calls \in Seq(Call) BY <1>1, ResponseType, FreshCalls
  <2>4. messages' = (initial \o u) \o <<Asking(calls)>>
    BY <1>1, <2>1, <2>2, <2>3, BuiltMessages, AppendIsConcat
  <2>5. ~Fatal' BY <1>2, <2>1 DEF RunInv
  <2>6. Answering(calls)'
    <3>1. Len(results') = 0 BY <2>1, EmptySeq
    <3> QED BY <2>1, <2>3, <2>5, <3>1 DEF Answering
  <2> QED BY <2>1, <2>2, <2>4, <2>6 DEF RunInv
<1>6. ASSUME NEW r \in Responses, RespondEmpty(r) PROVE RunInv'
  <2>1. phase = "model" /\ phase' \in {"ask", "finalize"} /\ UNCHANGED <<caller, initial, messages, events>>
    BY <1>6 DEF RespondEmpty
  <2> QED BY <1>2, <2>1 DEF RunInv
<1>7. ASSUME NEW r \in Responses, RespondTruncated(r) PROVE RunInv'
  <2>1. /\ phase = "model" /\ phase' = "ask" /\ UNCHANGED <<caller, initial, events>>
        /\ messages' = messages \o <<Plain, User>>
    BY <1>7 DEF RespondTruncated
  <2>2. PICK u : Tidy(u) /\ messages = initial \o u BY <2>1 DEF RunInv
  <2>3. Tidy(u \o <<Plain, User>>) /\ messages' = initial \o (u \o <<Plain, User>>)
    <3> DEFINE v == <<Plain, User>>
    <3>1. Tidy(v) BY TidyAdded
    <3> HIDE DEF v
    <3>2. Tidy(u \o v) /\ messages \o v = initial \o (u \o v) BY <1>1, <2>2, <3>1, OwnGrows
    <3> QED BY <2>1, <3>2 DEF v
  <2> QED BY <1>2, <2>1, <2>3 DEF RunInv
<1>8. ASSUME NEW r \in Responses, RespondFinal(r) \/ RespondFinalization(r) PROVE RunInv'
  <2>1. HandleFinal(r) /\ phase \in {"model", "finalize"} BY <1>8 DEF RespondFinal, RespondFinalization
  <2> QED BY <2>1, RunInvFinal
<1>9. CASE ExecuteTool
  <2>1. phase = "tools" /\ UNCHANGED <<caller, initial, messages, phase>> BY <1>9, ExecuteCases
  <2>2. PICK u, calls : /\ Tidy(u) /\ Answering(calls)
                        /\ messages = (initial \o u) \o <<Asking(calls)>>
    BY <2>1 DEF RunInv
  <2>3. Answering(calls)' BY <1>9, <2>2, AnsweringExecute
  <2>4. \E v, cs : /\ Tidy(v) /\ Answering(cs)'
                   /\ messages' = (initial' \o v) \o <<Asking(cs)>>
    BY <2>1, <2>2, <2>3
  <2>5. (\E h \in Seq(Message) : initial' = h \o <<User>>) /\ phase' = "tools" BY <2>1 DEF RunInv
  <2> QED BY <2>4, <2>5 DEF RunInv
<1>10. CASE ToolsDone BY <1>10, RunInvToolsDone
<1>11. CASE UNCHANGED vars
  <2>1. UNCHANGED <<caller, initial, messages, phase, pending, results, events, result>> BY <1>11 DEF vars
  <2>2. \A calls : Answering(calls) => Answering(calls)' BY <1>2, <2>1 DEF Answering
  <2>3. EndsPlain(messages) => EndsPlain(messages') BY <2>1
  <2>4. CASE phase = "tools"
    <3>1. PICK u, calls : /\ Tidy(u) /\ Answering(calls)
                          /\ messages = (initial \o u) \o <<Asking(calls)>>
      BY <2>4 DEF RunInv
    <3>2. Answering(calls)' BY <2>2, <3>1
    <3>3. \E v, cs : /\ Tidy(v) /\ Answering(cs)'
                     /\ messages' = (initial' \o v) \o <<Asking(cs)>>
      BY <2>1, <3>1, <3>2
    <3>4. (\E h \in Seq(Message) : initial' = h \o <<User>>) /\ phase' = "tools"
      BY <2>1, <2>4 DEF RunInv
    <3> QED BY <3>3, <3>4 DEF RunInv
  <2>5. CASE phase # "tools" BY <1>2, <2>1, <2>3, <2>5 DEF RunInv
  <2> QED BY <2>4, <2>5
<1> QED BY <1>3, <1>4, <1>5, <1>6, <1>7, <1>8, <1>9, <1>10, <1>11, StepCases DEF Finished

\* The lookups executed so far stay within the counter and within the budget.
Executed == {k \in DOMAIN events : events[k].tool \in LookupTools /\ events[k].status # "refused"}
LookupInv ==
    /\ IsFiniteSet(Executed)
    /\ Cardinality(Executed) <= lookups /\ Cardinality(Executed) <= MaxLookups

LEMMA LookupInit == Init => LookupInv
<1> SUFFICES ASSUME Init PROVE LookupInv
  OBVIOUS
<1>1. Executed = {} BY EmptySeq DEF Executed, Init
<1>2. IsFiniteSet({}) /\ Cardinality({}) = 0 BY FS_EmptySet
<1>3. lookups = 0 /\ MaxLookups \in Nat BY RunnerAssumption DEF Init, RunnerConstants
<1> QED BY <1>1, <1>2, <1>3 DEF LookupInv

LEMMA LookupNext == RunType /\ LookupInv /\ [Next]_vars => LookupInv'
<1> SUFFICES ASSUME RunType, LookupInv, [Next]_vars PROVE LookupInv'
  OBVIOUS
<1>1. CASE ExecuteTool
  <2>1. PICK status \in Statuses :
           /\ ToolOutcome(status)
           /\ (status = "refused") <=> (Head(pending).tool \in LookupTools /\ lookups >= MaxLookups)
    BY <1>1, ExecuteCases
  <2>2. lookups' = IF Head(pending).tool \in LookupTools THEN lookups + 1 ELSE lookups
    BY <1>1, ExecuteCases
  <2>3. pending # <<>> /\ pending \in Seq(Call) BY <1>1, ExecuteCases DEF RunType
  <2>4. Head(pending) \in Call BY <2>3, HeadTailProperties
  <2> DEFINE e == [tool |-> Head(pending).tool, status |-> status]
             n == Len(events)
  <2>5. e \in Event /\ e.tool = Head(pending).tool /\ e.status = status
    <3>1. Head(pending).tool \in Tools BY <2>4 DEF Call
    <3> QED BY <3>1, EventType
  <2>6. events' = Append(events, e) BY <2>1 DEF ToolOutcome
  <2> HIDE DEF e
  <2>7. /\ n \in Nat /\ DOMAIN events = 1 .. n /\ DOMAIN events' = 1 .. n + 1
        /\ events'[n + 1] = e /\ \A k \in 1 .. n : events'[k] = events[k]
    <3>1. events \in Seq(Event) BY DEF RunType
    <3>2. /\ events' \in Seq(Event) /\ Len(events') = n + 1 /\ events'[n + 1] = e
          /\ \A k \in 1 .. n : events'[k] = events[k]
      BY <2>5, <2>6, <3>1, AppendProperties
    <3> QED BY <3>1, <3>2, LenProperties
  <2>8. lookups \in Nat /\ MaxLookups \in Nat BY RunnerAssumption DEF RunnerConstants, RunType
  <2>9. IsFiniteSet(Executed) /\ Cardinality(Executed) \in Nat BY FS_CardinalityType DEF LookupInv
  <2>10. Cardinality(Executed) <= lookups /\ Cardinality(Executed) <= MaxLookups BY DEF LookupInv
  <2> HIDE DEF n
  <2>11. CASE e.tool \in LookupTools /\ status # "refused"
    <3>1. Executed' = Executed \cup {n + 1} BY <2>5, <2>7, <2>11 DEF Executed
    <3>2. n + 1 \notin Executed BY <2>7 DEF Executed
    <3>3. IsFiniteSet(Executed \cup {n + 1}) /\ Cardinality(Executed \cup {n + 1}) = Cardinality(Executed) + 1
      <4> HIDE DEF Executed
      <4> QED BY <2>9, <3>2, FS_AddElement
    <3>4. ~(lookups >= MaxLookups) /\ lookups' = lookups + 1 BY <2>1, <2>2, <2>5, <2>11
    <3>5. \A c, l, m \in Nat : c <= l /\ ~(l >= m) => c + 1 <= l + 1 /\ c + 1 <= m OBVIOUS
    <3>6. Cardinality(Executed) + 1 <= lookups + 1 /\ Cardinality(Executed) + 1 <= MaxLookups
      BY <2>8, <2>9, <2>10, <3>4, <3>5
    <3> QED BY <3>1, <3>3, <3>4, <3>6 DEF LookupInv
  <2>12. CASE ~(e.tool \in LookupTools /\ status # "refused")
    <3>1. Executed' = Executed BY <2>5, <2>7, <2>12 DEF Executed
    <3>2. \A c, l \in Nat : c <= l => c <= l + 1 OBVIOUS
    <3>3. Cardinality(Executed) <= lookups' BY <2>2, <2>8, <2>9, <2>10, <3>2
    <3> QED BY <2>9, <2>10, <3>1, <3>3 DEF LookupInv
  <2> QED BY <2>11, <2>12
<1>2. CASE events' = events /\ lookups' = lookups
  <2>1. Executed' = Executed BY <1>2 DEF Executed
  <2> QED BY <1>2, <2>1 DEF LookupInv
<1>3. Ask \/ MaxIterationsReached \/ ToolsDone \/ UNCHANGED vars => events' = events /\ lookups' = lookups
  BY DEF Ask, MaxIterationsReached, ToolsDone, vars, ToolState, Counters
<1>4. ASSUME NEW r \in Responses,
             \/ RespondTools(r) \/ RespondEmpty(r) \/ RespondTruncated(r)
             \/ RespondFinal(r) \/ RespondFinalization(r)
      PROVE  events' = events /\ lookups' = lookups
  BY <1>4 DEF RespondTools, RespondEmpty, RespondTruncated, RespondFinal, RespondFinalization,
              HandleFinal, ToolState, Counters
<1> QED BY <1>1, <1>2, <1>3, <1>4, StepCases DEF Finished

LEMMA AlwaysRunInv == Spec => []RunInv
<1>1. Init => RunInv BY RunInvInit
<1>2. RunType /\ RunInv /\ [Next]_vars => RunInv' BY RunInvNext
<1> QED BY <1>1, <1>2, AlwaysRunType, PTL DEF Spec

LEMMA AlwaysLookupInv == Spec => []LookupInv
<1>1. Init => LookupInv BY LookupInit
<1>2. RunType /\ LookupInv /\ [Next]_vars => LookupInv' BY LookupNext
<1> QED BY <1>1, <1>2, AlwaysRunType, PTL DEF Spec

\* Cutting a sequence where two were put together.
LEMMA CutConcat ==
    ASSUME NEW A, NEW s \in Seq(A), NEW t \in Seq(A)
    PROVE  /\ SubSeq(s \o t, 1, Len(s)) = s
           /\ From(s \o t, Len(s) + 1) = t
<1> DEFINE q == s \o t
           a == Len(s)
           b == Len(t)
<1>1. /\ q \in Seq(A) /\ a \in Nat /\ b \in Nat /\ Len(q) = a + b
      /\ \A i \in 1 .. a : q[i] = s[i]
      /\ \A i \in 1 .. b : q[a + i] = t[i]
  BY ONLY s \in Seq(A), t \in Seq(A), ConcatAt
<1> HIDE DEF q, a, b
<1>2. \A i \in 1 .. a + b : q[i] \in A
  <2>1. \A i \in 1 .. Len(q) : q[i] \in A BY <1>1, ElementOfSeq
  <2> QED BY <1>1, <2>1
<1>3. SubSeq(q, 1, a) = s
  <2> DEFINE z == SubSeq(q, 1, a)
  <2>1. /\ z \in Seq(A) /\ Len(z) = (IF 1 <= a THEN a - 1 + 1 ELSE 0)
        /\ \A i \in 1 .. (a - 1 + 1) : z[i] = q[1 + i - 1]
    <3>1. 1 \in Int /\ a \in Int /\ \A i \in 1 .. a : q[i] \in A BY <1>1, <1>2
    <3> QED BY ONLY <3>1, SubSeqProperties
  <2> HIDE DEF z
  <2>2. Len(z) = a BY <1>1, <2>1
  <2>3. \A i \in 1 .. a : z[i] = s[i]
    <3> SUFFICES ASSUME NEW i \in 1 .. a PROVE z[i] = s[i]
      OBVIOUS
    <3>1. i \in 1 .. (a - 1 + 1) /\ 1 + i - 1 = i BY <1>1
    <3> QED BY <1>1, <2>1, <3>1
  <2>4. z = s BY <2>1, <2>2, <2>3, SeqEqual DEF a
  <2> QED BY <2>4 DEF z
<1>4. SubSeq(q, a + 1, a + b) = t
  <2> DEFINE z == SubSeq(q, a + 1, a + b)
             c == a + 1
             d == a + b
  <2>1. /\ z \in Seq(A) /\ Len(z) = (IF c <= d THEN d - c + 1 ELSE 0)
        /\ \A i \in 1 .. (d - c + 1) : z[i] = q[c + i - 1]
    <3>1. c \in Int /\ d \in Int /\ \A i \in c .. d : q[i] \in A BY <1>1, <1>2
    <3> HIDE DEF c, d
    <3>2. /\ SubSeq(q, c, d) \in Seq(A) /\ Len(SubSeq(q, c, d)) = (IF c <= d THEN d - c + 1 ELSE 0)
          /\ \A i \in 1 .. (d - c + 1) : SubSeq(q, c, d)[i] = q[c + i - 1]
      BY ONLY <3>1, SubSeqProperties
    <3> QED BY <3>2 DEF c, d
  <2> HIDE DEF z
  <2>2. Len(z) = b BY <1>1, <2>1
  <2>3. \A i \in 1 .. b : z[i] = t[i]
    <3> SUFFICES ASSUME NEW i \in 1 .. b PROVE z[i] = t[i]
      OBVIOUS
    <3>1. i \in 1 .. (d - c + 1) /\ c + i - 1 = a + i BY <1>1
    <3> QED BY <1>1, <2>1, <3>1
  <2>4. z = t BY <2>1, <2>2, <2>3, SeqEqual DEF b
  <2> QED BY <2>4 DEF z
<1> QED BY <1>1, <1>3, <1>4 DEF q, a, b, From

\* What the run added, behind the message it was given last.
LEMMA LastOfInitial ==
    ASSUME NEW h \in Seq(Message), NEW u \in Seq(Message), NEW s, s = h \o <<User>>
    PROVE  From(s \o u, Len(s)) = <<User>> \o u
<1> DEFINE v == <<User>>
<1>1. v \in Seq(Message) /\ Len(v) = 1 BY BuiltMessages
<1> HIDE DEF v
<1>2. Len(s) = Len(h) + 1
  <2>1. Len(h \o v) = Len(h) + Len(v) BY <1>1, ConcatProperties
  <2> QED BY <1>1, <2>1 DEF v
<1>3. s \o u = h \o (v \o u)
  <2>0. h \in Seq(Message) /\ v \in Seq(Message) /\ u \in Seq(Message) BY <1>1
  <2>1. (h \o v) \o u = h \o (v \o u) BY ONLY <2>0, Regroup, Zenon
  <2> QED BY <2>1 DEF v
<1>4. v \o u \in Seq(Message) BY <1>1, ConcatProperties
<1> DEFINE w == v \o u
<1> HIDE DEF w
<1>5. From(h \o w, Len(h) + 1) = w
  <2>1. w \in Seq(Message) BY <1>4 DEF w
  <2> QED BY <2>1, CutConcat
<1> QED BY <1>2, <1>3, <1>5 DEF v, w

\* AgentRunner::run appends to the transcript it was given and leaves it ending in an
\* assistant message without calls; every call it made has its result behind it unless a
\* failing tool ended the run, and no lookup is repeated beyond its budget.
THEOREM TranscriptsSound == Spec => []TranscriptSound
<1>1. RunType /\ RunInv /\ LookupInv => TranscriptSound
  <2> SUFFICES ASSUME RunType, RunInv, LookupInv, phase = "done" PROVE TranscriptSound
    BY DEF TranscriptSound
  <2>1. PICK u \in Seq(Message) : messages = initial \o u /\ (Tidy(u) \/ result.stop = "tool_error")
    BY DEF RunInv
  <2>2. initial \in Seq(Message) BY DEF RunType
  <2>3. IsPrefix(initial, messages)
    <3>1. Len(initial) <= Len(messages)
      <4>1. Len(messages) = Len(initial) + Len(u) /\ Len(initial) \in Nat /\ Len(u) \in Nat
        BY <2>1, <2>2, ConcatAt
      <4> QED BY <4>1
    <3>2. SubSeq(messages, 1, Len(initial)) = initial BY <2>1, <2>2, CutConcat
    <3>3. SubSeq(initial, 1, Len(initial)) = initial BY <2>2, SubSeqFull
    <3> QED BY <3>1, <3>2, <3>3 DEF IsPrefix
  <2>4. EndsPlain(messages) /\ result.stop \in StopReasons BY DEF RunInv
  <2>5. Legal(From(messages, Len(initial))) \/ result.stop = "tool_error"
    <3> SUFFICES ASSUME Tidy(u) PROVE Legal(From(messages, Len(initial)))
      BY <2>1
    <3>1. PICK h \in Seq(Message) : initial = h \o <<User>> BY DEF RunInv
    <3>2. From(messages, Len(initial)) = <<User>> \o u BY <2>1, <3>1, LastOfInitial
    <3>3. Tidy(<<User>> \o u) BY TidyAdded, TidyJoin
    <3> QED BY <3>2, <3>3 DEF Tidy
  <2>6. Cardinality(Executed) <= MaxLookups BY DEF LookupInv
  <2> QED BY <2>3, <2>4, <2>5, <2>6 DEF TranscriptSound, Executed
<1> QED BY <1>1, AlwaysRunType, AlwaysRunInv, AlwaysLookupInv, PTL

-----------------------------------------------------------------------------
(* Threads: where the results of a call stand *)

\* Nothing of s and t refers to the other.
Apart(s, t) ==
    \A i \in 1 .. Len(s), j \in 1 .. Len(t) :
        /\ Ids(s[i].calls) \cap Ids(t[j].calls) = {}
        /\ s[i].role = "tool" => s[i].id \notin Ids(t[j].calls)
        /\ t[j].role = "tool" => t[j].id \notin Ids(s[i].calls)

LEMMA ThreadedJoin ==
    ASSUME NEW s \in Seq(Message), NEW t \in Seq(Message), Threaded(s), Threaded(t), Apart(s, t)
    PROVE  Threaded(s \o t)
<1> DEFINE q == s \o t
           a == Len(s)
           b == Len(t)
<1>1. /\ q \in Seq(Message) /\ a \in Nat /\ b \in Nat /\ DOMAIN q = 1 .. a + b
      /\ \A i \in 1 .. a : q[i] = s[i]
      /\ \A i \in 1 .. b : q[a + i] = t[i]
  BY ONLY s \in Seq(Message), t \in Seq(Message), ConcatAt
<1>2. DOMAIN s = 1 .. a /\ DOMAIN t = 1 .. b BY LenProperties
<1> HIDE DEF q, a, b
<1>3. ASSUME NEW i \in 1 .. a + b
      PROVE  \/ i \in 1 .. a /\ q[i] = s[i]
             \/ \E l \in 1 .. b : i = a + l /\ q[i] = t[l]
  <2>1. CASE i <= a
    <3>1. i \in 1 .. a BY <1>1, <2>1
    <3> QED BY <1>1, <3>1
  <2>2. CASE i > a
    <3>1. i - a \in 1 .. b /\ i = a + (i - a) BY <1>1, <2>2
    <3>2. PICK l \in 1 .. b : i = a + l BY <3>1
    <3>3. q[a + l] = t[l] BY <1>1
    <3> QED BY <3>2, <3>3
  <2> QED BY <1>1, <2>1, <2>2
<1>4. ASSUME NEW i \in 1 .. a + b, q[i].role # "assistant" PROVE q[i].calls = <<>>
  BY <1>2, <1>3, <1>4 DEF Threaded
<1>5. ASSUME NEW i \in 1 .. a + b, NEW j \in 1 .. a + b, i # j
      PROVE  Ids(q[i].calls) \cap Ids(q[j].calls) = {}
  <2>1. CASE i \in 1 .. a /\ q[i] = s[i]
    <3>1. CASE j \in 1 .. a /\ q[j] = s[j] BY <1>2, <1>5, <2>1, <3>1 DEF Threaded
    <3>2. CASE \E l \in 1 .. b : j = a + l /\ q[j] = t[l] BY <2>1, <3>2 DEF Apart, a, b
    <3> QED BY <1>3, <3>1, <3>2
  <2>2. CASE \E l \in 1 .. b : i = a + l /\ q[i] = t[l]
    <3>0. PICK l \in 1 .. b : i = a + l /\ q[i] = t[l] BY <2>2
    <3>1. CASE j \in 1 .. a /\ q[j] = s[j] BY <3>0, <3>1 DEF Apart, a, b
    <3>2. CASE \E n \in 1 .. b : j = a + n /\ q[j] = t[n]
      <4>1. PICK n \in 1 .. b : j = a + n /\ q[j] = t[n] BY <3>2
      <4>2. n # l BY <1>5, <3>0, <4>1
      <4> QED BY <1>2, <3>0, <4>1, <4>2 DEF Threaded
    <3> QED BY <1>3, <3>1, <3>2
  <2> QED BY <1>3, <2>1, <2>2
<1>6. ASSUME NEW i \in 1 .. a + b, NEW j \in 1 .. a + b, q[i].role = "tool", q[i].id \in Ids(q[j].calls)
      PROVE  j < i /\ \A k \in (j + 1) .. i : q[k].role = "tool"
  <2>1. CASE i \in 1 .. a /\ q[i] = s[i]
    <3>1. j \in 1 .. a /\ q[j] = s[j]
      <4>1. ~ \E l \in 1 .. b : j = a + l /\ q[j] = t[l] BY <1>6, <2>1 DEF Apart, a, b
      <4> QED BY <1>3, <4>1
    <3>2. j < i /\ \A k \in (j + 1) .. i : s[k].role = "tool" BY <1>2, <1>6, <2>1, <3>1 DEF Threaded
    <3>3. \A k \in (j + 1) .. i : k \in 1 .. a BY <1>1, <2>1
    <3> QED BY <1>1, <3>2, <3>3
  <2>2. CASE \E l \in 1 .. b : i = a + l /\ q[i] = t[l]
    <3>1. PICK l \in 1 .. b : i = a + l /\ q[i] = t[l] BY <2>2
    <3>2. ~(j \in 1 .. a /\ q[j] = s[j]) BY <1>6, <3>1 DEF Apart, a, b
    <3>3. PICK n \in 1 .. b : j = a + n /\ q[j] = t[n] BY <1>3, <3>2
    <3>4. n < l /\ \A k \in (n + 1) .. l : t[k].role = "tool" BY <1>2, <1>6, <3>1, <3>3 DEF Threaded
    <3>5. j < i BY <1>1, <3>1, <3>3, <3>4
    <3>6. ASSUME NEW k \in (j + 1) .. i PROVE q[k].role = "tool"
      <4>1. k - a \in (n + 1) .. l /\ k - a \in 1 .. b /\ a + (k - a) = k BY <1>1, <3>1, <3>3
      <4>2. q[a + (k - a)] = t[k - a] BY <1>1, <4>1
      <4> QED BY <3>4, <4>1, <4>2
    <3> QED BY <3>5, <3>6
  <2> QED BY <1>3, <2>1, <2>2
<1> QED BY <1>1, <1>4, <1>5, <1>6 DEF Threaded, q

\* Results right behind the message that called for them.
LEMMA ThreadedResults ==
    ASSUME NEW s \in Seq(Message), Threaded(s), s # <<>>, NEW r \in Seq(Message),
           \A k \in 1 .. Len(r) : /\ r[k].role = "tool" /\ r[k].calls = <<>>
                                  /\ r[k].id \in Ids(s[Len(s)].calls)
    PROVE  Threaded(s \o r)
<1> DEFINE q == s \o r
           a == Len(s)
           b == Len(r)
<1>1. /\ q \in Seq(Message) /\ a \in Nat /\ b \in Nat /\ DOMAIN q = 1 .. a + b
      /\ \A i \in 1 .. a : q[i] = s[i]
      /\ \A i \in 1 .. b : q[a + i] = r[i]
  BY ONLY s \in Seq(Message), r \in Seq(Message), ConcatAt
<1>2. DOMAIN s = 1 .. a /\ a # 0 /\ a \in 1 .. a BY LenProperties, EmptySeq
<1>3. Ids(<<>>) = {} BY DEF Ids
<1> HIDE DEF q, a, b
<1>4. ASSUME NEW i \in 1 .. a + b, i > a
      PROVE  q[i].role = "tool" /\ q[i].calls = <<>> /\ q[i].id \in Ids(q[a].calls)
  <2>1. i - a \in 1 .. b /\ a + (i - a) = i BY <1>1, <1>4
  <2>2. q[i] = r[i - a] BY <1>1, <2>1
  <2> QED BY <1>1, <1>2, <2>1, <2>2 DEF a, b
<1>5. ASSUME NEW i \in 1 .. a + b, i <= a PROVE i \in 1 .. a /\ q[i] = s[i] BY <1>1, <1>5
<1>6. ASSUME NEW i \in 1 .. a + b, q[i].role # "assistant" PROVE q[i].calls = <<>>
  BY <1>1, <1>2, <1>4, <1>5, <1>6 DEF Threaded
<1>7. ASSUME NEW i \in 1 .. a + b, NEW j \in 1 .. a + b, i # j
      PROVE  Ids(q[i].calls) \cap Ids(q[j].calls) = {}
  <2>1. CASE i > a BY <1>3, <1>4, <2>1
  <2>2. CASE j > a BY <1>3, <1>4, <2>2
  <2>3. CASE i <= a /\ j <= a BY <1>2, <1>5, <1>7, <2>3 DEF Threaded
  <2> QED BY <1>1, <2>1, <2>2, <2>3
<1>8. ASSUME NEW i \in 1 .. a + b, NEW j \in 1 .. a + b, q[i].role = "tool", q[i].id \in Ids(q[j].calls)
      PROVE  j < i /\ \A k \in (j + 1) .. i : q[k].role = "tool"
  <2>1. j <= a
    <3>1. j > a => Ids(q[j].calls) = {} BY <1>3, <1>4
    <3> QED BY <1>1, <1>8, <3>1
  <2>2. CASE i <= a
    <3>1. j < i /\ \A k \in (j + 1) .. i : s[k].role = "tool" BY <1>2, <1>5, <1>8, <2>1, <2>2 DEF Threaded
    <3>2. \A k \in (j + 1) .. i : k \in 1 .. a BY <1>1, <2>2
    <3> QED BY <1>1, <3>1, <3>2
  <2>3. CASE i > a
    <3>1. q[i].id \in Ids(q[a].calls) BY <1>4, <2>3
    <3>2. a \in 1 .. a + b BY <1>1, <1>2
    <3>3. j = a
      <4>1. j # a => Ids(q[a].calls) \cap Ids(q[j].calls) = {} BY <1>7, <3>2
      <4> QED BY <1>8, <3>1, <4>1
    <3>4. \A k \in (a + 1) .. i : k \in 1 .. a + b /\ k > a BY <1>1
    <3> QED BY <1>1, <1>4, <2>3, <3>3, <3>4
  <2> QED BY <1>1, <2>2, <2>3
<1> QED BY <1>1, <1>6, <1>7, <1>8 DEF Threaded, q

\* Losing messages leaves the others threaded.
LEMMA ThreadedKeepAt ==
    ASSUME NEW s \in Seq(Message), NEW S, Threaded(s)
    PROVE  Threaded(KeepAt(s, S)) /\ KeepAt(s, S) \in Seq(Message)
<1> DEFINE r == KeepAt(s, S)
<1>1. r \in Seq(Message) BY KeepAtPlaces
<1>2. PICK g : Places(g, r, s, S, Len(s)) BY KeepAtPlaces
<1> HIDE DEF r
<1>3. /\ g \in [1 .. Len(r) -> 1 .. Len(s)]
      /\ \A k \in 1 .. Len(r) : r[k] = s[g[k]]
      /\ \A k, l \in 1 .. Len(r) : k < l => g[k] < g[l]
      /\ \A i \in 1 .. Len(s) : i \in S => \E k \in 1 .. Len(r) : g[k] = i
  BY <1>2 DEF Places
<1>4. DOMAIN r = 1 .. Len(r) /\ DOMAIN s = 1 .. Len(s) /\ Len(r) \in Nat /\ Len(s) \in Nat
  BY <1>1, LenProperties
<1>5. \A k \in 1 .. Len(r) : g[k] \in 1 .. Len(s) BY <1>3
<1>6. ASSUME NEW i \in 1 .. Len(r), r[i].role # "assistant" PROVE r[i].calls = <<>>
  BY <1>3, <1>4, <1>5, <1>6 DEF Threaded
<1>7. ASSUME NEW i \in 1 .. Len(r), NEW j \in 1 .. Len(r), i # j
      PROVE  Ids(r[i].calls) \cap Ids(r[j].calls) = {}
  <2>1. g[i] # g[j]
    <3>1. i < j \/ j < i BY <1>4, <1>7
    <3> QED BY <1>3, <1>5, <3>1
  <2>2. \A x, y \in 1 .. Len(s) : x # y => Ids(s[x].calls) \cap Ids(s[y].calls) = {}
    BY <1>4 DEF Threaded
  <2>3. Ids(s[g[i]].calls) \cap Ids(s[g[j]].calls) = {} BY <1>5, <2>1, <2>2
  <2>4. r[i] = s[g[i]] /\ r[j] = s[g[j]] BY <1>3
  <2> QED BY <2>3, <2>4
<1>8. ASSUME NEW i \in 1 .. Len(r), NEW j \in 1 .. Len(r), r[i].role = "tool", r[i].id \in Ids(r[j].calls)
      PROVE  j < i /\ \A k \in (j + 1) .. i : r[k].role = "tool"
  <2>1. g[j] < g[i] /\ \A k \in (g[j] + 1) .. g[i] : s[k].role = "tool"
    BY <1>3, <1>4, <1>5, <1>8 DEF Threaded
  <2>2. j < i
    <3>1. j = i \/ i < j \/ j < i BY <1>4
    <3> QED BY <1>3, <1>5, <2>1, <3>1
  <2>3. ASSUME NEW k \in (j + 1) .. i PROVE r[k].role = "tool"
    <3>1. k \in 1 .. Len(r) /\ j < k /\ (k < i \/ k = i) BY <1>4
    <3>2. g[j] < g[k] /\ (g[k] < g[i] \/ g[k] = g[i]) BY <1>3, <3>1
    <3>3. g[j] \in Nat /\ g[k] \in Nat /\ g[i] \in Nat BY <1>4, <1>5, <3>1
    <3>4. g[k] \in (g[j] + 1) .. g[i] BY <3>2, <3>3
    <3> QED BY <1>3, <2>1, <3>1, <3>4
  <2> QED BY <2>2, <2>3
<1>9. Threaded(r) BY <1>4, <1>6, <1>7, <1>8 DEF Threaded
<1> QED BY <1>1, <1>9 DEF r

\* The transcript starts with the system message and holds no other.
Headed(s) == s # <<>> /\ s[1] = System /\ \A k \in 2 .. Len(s) : s[k].role # "system"

LEMMA HeadedJoin ==
    ASSUME NEW s \in Seq(Message), NEW t \in Seq(Message), Headed(s),
           \A k \in 1 .. Len(t) : t[k].role # "system"
    PROVE  Headed(s \o t)
<1> DEFINE q == s \o t
           a == Len(s)
           b == Len(t)
<1>1. /\ q \in Seq(Message) /\ a \in Nat /\ b \in Nat /\ Len(q) = a + b
      /\ \A i \in 1 .. a : q[i] = s[i]
      /\ \A i \in 1 .. b : q[a + i] = t[i]
  BY ONLY s \in Seq(Message), t \in Seq(Message), ConcatAt
<1>2. a # 0 BY EmptySeq DEF Headed
<1> HIDE DEF q, a, b
<1>3. q # <<>> BY <1>1, <1>2, EmptySeq
<1>4. q[1] = System
  <2>1. 1 \in 1 .. a BY <1>1, <1>2
  <2> QED BY <1>1, <2>1 DEF Headed
<1>5. ASSUME NEW k \in 2 .. a + b PROVE q[k].role # "system"
  <2>1. CASE k <= a
    <3>1. k \in 1 .. a /\ k \in 2 .. a BY <1>1, <2>1
    <3> QED BY <1>1, <3>1 DEF Headed, a
  <2>2. CASE k > a
    <3>1. k - a \in 1 .. b /\ a + (k - a) = k BY <1>1, <2>2
    <3>2. q[a + (k - a)] = t[k - a] BY <1>1, <3>1
    <3> QED BY <3>1, <3>2 DEF b
  <2> QED BY <1>1, <2>1, <2>2
<1> QED BY <1>1, <1>3, <1>4, <1>5 DEF Headed, q

LEMMA OneMessage ==
    ASSUME NEW m \in Message
    PROVE  /\ <<m>> \in Seq(Message) /\ Len(<<m>>) = 1 /\ <<m>>[1] = m /\ <<m>> # <<>>
           /\ DOMAIN <<m>> = 1 .. 1
  OBVIOUS

\* A message alone is threaded, unless it is a result that answers itself.
LEMMA ThreadedOne ==
    ASSUME NEW m \in Message, m.role # "tool", m.role # "assistant" => m.calls = <<>>
    PROVE  Threaded(<<m>>)
<1> DEFINE s == <<m>>
<1>1. DOMAIN s = 1 .. 1 /\ s[1] = m BY OneMessage
<1> HIDE DEF s
<1>2. \A i \in 1 .. 1 : i = 1 OBVIOUS
<1>3. Threaded(s) BY <1>1, <1>2 DEF Threaded
<1> QED BY <1>3 DEF s

\* One more message that is no result and makes no call.
LEMMA ThreadedPut ==
    ASSUME NEW s \in Seq(Message), NEW m \in Message, m.role # "tool", m.calls = <<>>, Threaded(s)
    PROVE  Threaded(s \o <<m>>) /\ Threaded(<<m>> \o s)
<1> DEFINE v == <<m>>
<1>1. v \in Seq(Message) /\ Len(v) = 1 /\ v[1] = m /\ Threaded(v) BY OneMessage, ThreadedOne
<1>2. Ids(m.calls) = {} BY DEF Ids
<1> HIDE DEF v
<1>3. \A i \in 1 .. Len(v) : v[i] = m
  <2>1. \A i \in 1 .. Len(v) : i = 1 BY <1>1
  <2> QED BY <1>1, <2>1
<1>4. Apart(s, v) /\ Apart(v, s) BY <1>2, <1>3 DEF Apart
<1>5. Threaded(s \o v) /\ Threaded(v \o s) BY <1>1, <1>4, ThreadedJoin
<1> QED BY <1>5 DEF v

\* The pipeline depends on the caller only besides the transcript.
LEMMA GovernSame ==
    ASSUME messages' = messages, caller' = caller
    PROVE  Govern(messages)' = Govern(messages)
<1>1. HasWindow' = HasWindow /\ HasWorkspace' = HasWorkspace /\ Budget' = Budget
  BY DEF HasWindow, HasWorkspace, Budget
<1> HIDE DEF HasWindow, HasWorkspace, Budget
<1>2. \A n : Normalize(n)' = Normalize(n) BY <1>1 DEF Normalize
<1>3. \A s : ApplyResultBudget(s)' = ApplyResultBudget(s) BY <1>2 DEF ApplyResultBudget
<1>4. \A s : Room(s)' = Room(s) BY <1>1 DEF Room, SnipLimit
<1>5. \A s : SnipHistory(s)' = SnipHistory(s) BY <1>1, <1>4 DEF SnipHistory
<1> QED BY <1>3, <1>5 DEF Govern

ThreadInv ==
    /\ Threaded(messages) /\ Headed(messages)
    /\ phase = "model" => request = Govern(messages)
    /\ phase = "finalize" => request = Append(messages, User)

LEMMA ThreadInit == Init => ThreadInv
<1> SUFFICES ASSUME Init PROVE ThreadInv
  OBVIOUS
<1>1. PICK h : initial = <<System>> \o h \o <<User>> /\ h \in Histories \cup {<<>>}
  BY StartType DEF Starts
<1>2. h \in Seq(Message) /\ Threaded(h) /\ \A k \in 1 .. Len(h) : h[k].role # "system"
  <2>1. CASE h = <<>>
    <3>1. h \in Seq(Message) /\ DOMAIN h = {} /\ Len(h) = 0 BY <2>1, EmptySeq
    <3> QED BY <3>1 DEF Threaded
  <2>2. CASE h \in Histories
    <3>1. PICK S : h = KeepAt(Conversation, S) BY <2>2 DEF Histories
    <3>2. /\ Conversation \in Seq(Message) /\ Threaded(Conversation)
          /\ \A i \in 1 .. Len(Conversation) : Conversation[i].role # "system"
      BY RunnerAssumption, LenProperties DEF RunnerConstants
    <3>3. h \in Seq(Message) /\ Threaded(h) BY <3>1, <3>2, ThreadedKeepAt
    <3>4. PICK g : Places(g, h, Conversation, S, Len(Conversation)) BY <3>1, <3>2, KeepAtPlaces
    <3>5. \A k \in 1 .. Len(h) : h[k] = Conversation[g[k]] /\ g[k] \in 1 .. Len(Conversation)
      BY <3>4 DEF Places
    <3> QED BY <3>2, <3>3, <3>5
  <2> QED BY <1>1, <2>1, <2>2
<1> DEFINE a == <<System>>
           b == <<User>>
<1>3. a \in Seq(Message) /\ b \in Seq(Message) BY BuiltMessages, OneMessage
<1>4. Threaded(a \o h) BY <1>2, BuiltMessages, ThreadedPut
<1>5. Headed(a)
  <2>1. a # <<>> /\ a[1] = System /\ Len(a) = 1 BY BuiltMessages, OneMessage
  <2>2. 2 .. 1 = {} OBVIOUS
  <2> QED BY <2>1, <2>2 DEF Headed
<1>6. \A k \in 1 .. Len(b) : b[k].role # "system"
  <2>1. b[1] = User /\ Len(b) = 1 BY BuiltMessages, OneMessage
  <2>2. \A k \in 1 .. 1 : k = 1 OBVIOUS
  <2> QED BY <2>1, <2>2, BuiltMessages
<1> HIDE DEF a
<1>7. a \o h \in Seq(Message) /\ Headed(a \o h) BY <1>2, <1>3, <1>5, HeadedJoin, ConcatProperties
<1> DEFINE c == a \o h
<1> HIDE DEF c
<1>8. Threaded(c \o b) BY <1>4, <1>7, BuiltMessages, ThreadedPut DEF c
<1> HIDE DEF b
<1>9. Headed(c \o b) BY <1>3, <1>6, <1>7, HeadedJoin DEF c
<1>10. messages = c \o b /\ phase = "ask" BY <1>1 DEF Init, a, b, c
<1> QED BY <1>8, <1>9, <1>10 DEF ThreadInv

\* The messages of an answer.
LEMMA ThreadAnswer ==
    ASSUME NEW s \in Seq(Message), Threaded(s), Headed(s), NEW m \in {Plain, User}
    PROVE  s \o <<m>> \in Seq(Message) /\ Threaded(s \o <<m>>) /\ Headed(s \o <<m>>)
<1>1. m \in Message /\ m.role \notin {"tool", "system"} /\ m.calls = <<>> BY BuiltMessages
<1> DEFINE v == <<m>>
<1>2. v \in Seq(Message) /\ Len(v) = 1 /\ v[1] = m BY <1>1, OneMessage
<1>3. Threaded(s \o v) BY <1>1, ThreadedPut
<1> HIDE DEF v
<1>4. \A k \in 1 .. Len(v) : v[k].role # "system"
  <2>1. \A k \in 1 .. 1 : k = 1 OBVIOUS
  <2> QED BY <1>1, <1>2, <2>1
<1>5. Headed(s \o v) BY <1>2, <1>4, HeadedJoin
<1>6. s \o v \in Seq(Message) BY <1>2, ConcatProperties
<1> QED BY <1>3, <1>5, <1>6 DEF v

LEMMA ThreadAsking ==
    ASSUME messages \in Seq(Message), Threaded(messages), Headed(messages), NEW calls \in CallLists
    PROVE  Threaded(messages \o <<Asking(calls)>>) /\ Headed(messages \o <<Asking(calls)>>)
<1>1. /\ calls \in Seq(Call)
      /\ \A i \in DOMAIN messages : messages[i].id \notin Ids(calls)
            /\ Ids(messages[i].calls) \cap Ids(calls) = {}
  BY FreshCalls
<1> DEFINE m == Asking(calls)
<1>2. m \in Message /\ m.role = "assistant" /\ m.calls = calls BY <1>1, BuiltMessages
<1> HIDE DEF m
<1> DEFINE v == <<m>>
<1>3. v \in Seq(Message) /\ Len(v) = 1 /\ v[1] = m BY <1>2, OneMessage
<1>4. Threaded(v) BY <1>2, ThreadedOne
<1> HIDE DEF v
<1>5. \A k \in 1 .. Len(v) : v[k] = m
  <2>1. \A k \in 1 .. 1 : k = 1 OBVIOUS
  <2> QED BY <1>3, <2>1
<1>6. Apart(messages, v)
  <2>1. DOMAIN messages = 1 .. Len(messages) BY LenProperties
  <2> QED BY <1>1, <1>2, <1>5, <2>1 DEF Apart
<1>7. Threaded(messages \o v) BY <1>3, <1>4, <1>6, ThreadedJoin
<1>8. Headed(messages \o v) BY <1>2, <1>3, <1>5, HeadedJoin
<1> QED BY <1>7, <1>8 DEF v, m

LEMMA ThreadToolsDone ==
    ASSUME RunType, RunInv, ThreadInv, ToolsDone
    PROVE  Threaded(messages') /\ Headed(messages')
<1>1. phase = "tools" BY DEF ToolsDone
<1>2. PICK u, calls : /\ Tidy(u) /\ Answering(calls)
                      /\ messages = (initial \o u) \o <<Asking(calls)>>
  BY <1>1 DEF RunInv
<1>3. messages \in Seq(Message) /\ initial \o u \in Seq(Message) /\ results \in Seq(Message)
  BY <1>2, ConcatProperties DEF RunType, Tidy
<1>4. calls \in Seq(Call) BY <1>2 DEF Answering
<1>5. Asking(calls) \in Message /\ Asking(calls).calls = calls BY <1>4, BuiltMessages
<1>6. messages # <<>> /\ messages[Len(messages)] = Asking(calls)
  <2> DEFINE s == initial \o u
             m == Asking(calls)
             v == <<m>>
  <2>1. v \in Seq(Message) /\ Len(v) = 1 /\ v[1] = m BY <1>5, OneMessage
  <2>2. messages = s \o v BY <1>2
  <2>3. s \in Seq(Message) BY <1>3
  <2> HIDE DEF s, v, m
  <2>4. /\ Len(s \o v) = Len(s) + Len(v) /\ Len(s) \in Nat
        /\ \A i \in 1 .. Len(v) : (s \o v)[Len(s) + i] = v[i]
    BY ONLY <2>1, <2>3, ConcatAt
  <2>5. Len(messages) = Len(s) + 1 /\ messages[Len(s) + 1] = m /\ Len(messages) # 0
    BY <2>1, <2>2, <2>4
  <2> QED BY <2>5, EmptySeq DEF m
<1>7. /\ Normalized \in Seq(Message)
      /\ \A k \in 1 .. Len(Normalized) :
            /\ Normalized[k].role = "tool" /\ Normalized[k].calls = <<>>
            /\ Normalized[k].id \in Ids(messages[Len(messages)].calls)
  BY <1>2, <1>3, <1>5, <1>6, NormalizedType DEF Answering
<1>8. Threaded(messages \o Normalized) BY <1>3, <1>6, <1>7, ThreadedResults DEF ThreadInv
<1>9. Headed(messages \o Normalized) /\ messages \o Normalized \in Seq(Message)
  <2> DEFINE N == Normalized
  <2> HIDE DEF N
  <2>1. N \in Seq(Message) /\ \A k \in 1 .. Len(N) : N[k].role # "system" BY <1>7 DEF N
  <2>2. Headed(messages \o N) BY <1>3, <2>1, HeadedJoin DEF ThreadInv
  <2>3. messages \o N \in Seq(Message) BY <1>3, <2>1, ConcatProperties
  <2> QED BY <2>2, <2>3 DEF N
<1>10. messages' = messages \o Normalized \o IF Fatal THEN <<Plain>> ELSE <<>>
  BY DEF ToolsDone, Normalized
<1> DEFINE q == messages \o Normalized
<1> HIDE DEF q
<1>11. q \in Seq(Message) /\ Threaded(q) /\ Headed(q) BY <1>8, <1>9 DEF q
<1>12. CASE Fatal
  <2>1. messages' = q \o <<Plain>> BY <1>10, <1>12 DEF q
  <2> QED BY <1>11, <2>1, ThreadAnswer
<1>13. CASE ~Fatal
  <2>1. messages' = q \o <<>> BY <1>10, <1>13 DEF q
  <2>2. q \o <<>> = q BY <1>11, ConcatEmptySeq
  <2> QED BY <1>11, <2>1, <2>2
<1> QED BY <1>12, <1>13

LEMMA ThreadNext == RunType /\ RunInv /\ ThreadInv /\ [Next]_vars => ThreadInv'
<1> SUFFICES ASSUME RunType, RunInv, ThreadInv, [Next]_vars PROVE ThreadInv'
  OBVIOUS
<1>1. messages \in Seq(Message) /\ Threaded(messages) /\ Headed(messages) BY DEF ThreadInv, RunType
<1>2. Append(messages, Plain) = messages \o <<Plain>> BY <1>1, BuiltMessages, AppendIsConcat
<1>3. Threaded(messages \o <<Plain>>) /\ Headed(messages \o <<Plain>>) BY <1>1, ThreadAnswer
<1>4. CASE Ask
  <2>1. /\ phase' = "model" /\ messages' = messages /\ request' = Govern(messages)
        /\ caller' = caller
    BY <1>4 DEF Ask
  <2>2. request' = Govern(messages)' BY <2>1, GovernSame
  <2> QED BY <1>1, <2>1, <2>2 DEF ThreadInv
<1>5. CASE MaxIterationsReached
  <2>1. phase' = "done" /\ messages' = Append(messages, Plain) BY <1>5 DEF MaxIterationsReached, End
  <2> QED BY <1>2, <1>3, <2>1 DEF ThreadInv
<1>6. ASSUME NEW r \in Responses, RespondTools(r) PROVE ThreadInv'
  <2>1. phase' = "tools" /\ messages' = Append(messages, Asking(r.calls)) BY <1>6 DEF RespondTools
  <2>2. r.calls \in CallLists BY ResponseType
  <2>3. r.calls \in Seq(Call) BY <1>1, <2>2, FreshCalls
  <2>4. Append(messages, Asking(r.calls)) = messages \o <<Asking(r.calls)>>
    BY <1>1, <2>3, BuiltMessages, AppendIsConcat
  <2> QED BY <1>1, <2>1, <2>2, <2>4, ThreadAsking DEF ThreadInv
<1>7. ASSUME NEW r \in Responses, RespondEmpty(r) PROVE ThreadInv'
  <2>1. /\ messages' = messages
        /\ phase' = "ask" \/ (phase' = "finalize" /\ request' = Append(messages, User))
    BY <1>7 DEF RespondEmpty
  <2> QED BY <1>1, <2>1 DEF ThreadInv
<1>8. ASSUME NEW r \in Responses, RespondTruncated(r) PROVE ThreadInv'
  <2>1. phase' = "ask" /\ messages' = messages \o <<Plain, User>> BY <1>8 DEF RespondTruncated
  <2> DEFINE p == <<Plain>>
             b == <<User>>
  <2>2. <<Plain, User>> = p \o b OBVIOUS
  <2>3. p \in Seq(Message) /\ b \in Seq(Message) BY BuiltMessages, OneMessage
  <2>4. messages \o p \in Seq(Message) /\ Threaded(messages \o p) /\ Headed(messages \o p)
    BY <1>1, ThreadAnswer
  <2> DEFINE c == messages \o p
  <2>5. c \in Seq(Message) /\ Threaded(c) /\ Headed(c) BY <2>4
  <2> HIDE DEF c
  <2>6. Threaded(c \o b) /\ Headed(c \o b) BY <2>5, ThreadAnswer
  <2> HIDE DEF p, b
  <2>7. (messages \o p) \o b = messages \o (p \o b)
    <3>1. messages \in Seq(Message) /\ p \in Seq(Message) /\ b \in Seq(Message) BY <1>1, <2>3
    <3> QED BY ONLY <3>1, ConcatAssociative
  <2>8. messages' = c \o b BY <2>1, <2>2, <2>7 DEF c
  <2> QED BY <2>1, <2>6, <2>8 DEF ThreadInv
<1>9. ASSUME NEW r \in Responses, RespondFinal(r) \/ RespondFinalization(r) PROVE ThreadInv'
  <2>1. phase' = "done" /\ (messages' = messages \/ messages' = Append(messages, Plain))
    BY <1>9 DEF RespondFinal, RespondFinalization, HandleFinal, End
  <2> QED BY <1>1, <1>2, <1>3, <2>1 DEF ThreadInv
<1>10. CASE ExecuteTool
  <2>1. phase = "tools" /\ phase' = phase /\ messages' = messages BY <1>10, ExecuteCases
  <2> QED BY <1>1, <2>1 DEF ThreadInv
<1>11. CASE ToolsDone
  <2>1. phase' \in {"ask", "done"} BY <1>11 DEF ToolsDone, End
  <2> QED BY <1>11, <2>1, ThreadToolsDone DEF ThreadInv
<1>12. CASE UNCHANGED vars
  <2>1. messages' = messages /\ phase' = phase /\ request' = request /\ caller' = caller BY <1>12 DEF vars
  <2>2. Govern(messages)' = Govern(messages) BY <2>1, GovernSame
  <2> QED BY <2>1, <2>2 DEF ThreadInv
<1> QED BY <1>4, <1>5, <1>6, <1>7, <1>8, <1>9, <1>10, <1>11, <1>12, StepCases DEF Finished

LEMMA AlwaysThreadInv == Spec => []ThreadInv
<1>1. Init => ThreadInv BY ThreadInit
<1>2. RunType /\ RunInv /\ ThreadInv /\ [Next]_vars => ThreadInv' BY ThreadNext
<1> QED BY <1>1, <1>2, AlwaysRunType, AlwaysRunInv, PTL DEF Spec

-----------------------------------------------------------------------------
(* The passes of the governance pipeline *)

\* A recursion that only appends the members of t appends t.
LEMMA AppendRun ==
    ASSUME NEW A, NEW t \in Seq(A), NEW f, NEW a \in Nat, f[a] \in Seq(A),
           \A i \in 1 .. Len(t) : f[a + i] = Append(f[a + i - 1], t[i])
    PROVE  f[a + Len(t)] = f[a] \o t
<1> DEFINE b == Len(t)
           P(m) == SubSeq(t, 1, m)
           F(m) == f[a + m] = f[a] \o P(m)
           T == {m \in Nat : m <= b => F(m)}
<1>1. b \in Nat /\ \A i \in 1 .. b : t[i] \in A BY LenProperties, ElementOfSeq
<1>2. P(0) = <<>> BY SubSeqEmpty
<1>3. 0 \in T
  <2>1. a + 0 = a /\ f[a] \o <<>> = f[a] BY ConcatEmptySeq
  <2> QED BY <1>2, <2>1
<1>4. ASSUME NEW m \in Nat, m \in T PROVE m + 1 \in T
  <2> SUFFICES ASSUME m + 1 <= b PROVE f[a + (m + 1)] = f[a] \o P(m + 1)
    <3>1. m + 1 \in Nat OBVIOUS
    <3> HIDE DEF F, b
    <3> QED BY <3>1 DEF F
  <2>1. m <= b /\ m + 1 \in 1 .. b /\ a + (m + 1) - 1 = a + m BY <1>1
  <2>2. f[a + (m + 1)] = Append(f[a + m], t[m + 1]) BY <2>1
  <2>3. f[a + m] = f[a] \o P(m) BY <1>4, <2>1
  <2>4. P(m) \in Seq(A)
    <3>1. 1 \in Int /\ m \in Int /\ \A i \in 1 .. m : t[i] \in A BY <1>1, <2>1
    <3> QED BY ONLY <3>1, SubSeqProperties
  <2>5. P(m + 1) = P(m) \o <<t[m + 1]>>
    <3>1. 1 \in 1 .. b /\ m + 1 \in 1 .. Len(t) /\ (m + 1) - 1 = m BY <1>1, <2>1
    <3>2. SubSeq(t, 1, m + 1) = SubSeq(t, 1, (m + 1) - 1) \o <<t[m + 1]>> BY <3>1, SubSeqRecursiveSecond
    <3> QED BY <3>1, <3>2
  <2> DEFINE x == f[a]
             y == P(m)
             e == t[m + 1]
             v == <<e>>
  <2>6. x \in Seq(A) /\ y \in Seq(A) /\ e \in A BY <1>1, <2>1, <2>4
  <2>7. v \in Seq(A) BY <2>6
  <2>8. Append(x \o y, e) = (x \o y) \o v
    <3> HIDE DEF x, y, e
    <3>1. x \o y \in Seq(A) BY <2>6, ConcatProperties
    <3> QED BY <2>6, <3>1, AppendIsConcat
  <2>9. (x \o y) \o v = x \o (y \o v)
    <3>1. x \in Seq(A) /\ y \in Seq(A) /\ v \in Seq(A) BY <2>6, <2>7
    <3> HIDE DEF x, y, v
    <3> QED BY ONLY <3>1, ConcatAssociative
  <2> QED BY <2>2, <2>3, <2>5, <2>8, <2>9
<1>5. b \in T
  <2> HIDE DEF T, b
  <2> QED BY <1>1, <1>3, <1>4, NatInduct
<1>6. P(b) = t BY SubSeqFull
<1>7. b <= b BY <1>1
<1>8. f[a + b] = f[a] \o P(b)
  <2> HIDE DEF P, b
  <2> QED BY <1>5, <1>7
<1> QED BY <1>6, <1>8

\* What is kept of two parts, when the second is kept whole.
LEMMA KeepAtTail ==
    ASSUME NEW A, NEW s \in Seq(A), NEW t \in Seq(A), NEW S,
           \A i \in 1 .. Len(t) : Len(s) + i \in S
    PROVE  KeepAt(s \o t, S) = KeepAt(s, S) \o t
<1> DEFINE q == s \o t
           a == Len(s)
           b == Len(t)
<1>1. /\ q \in Seq(A) /\ a \in Nat /\ b \in Nat /\ Len(q) = a + b
      /\ \A i \in 1 .. a : q[i] = s[i]
      /\ \A i \in 1 .. b : q[a + i] = t[i]
  BY ONLY s \in Seq(A), t \in Seq(A), ConcatAt
<1> HIDE DEF q
<1>2. PICK f : /\ f = [i \in 0 .. Len(q) |->
                            IF i = 0 THEN <<>>
                            ELSE IF i \in S THEN Append(f[i - 1], q[i]) ELSE f[i - 1]]
               /\ KeepAt(q, S) = f[Len(q)]
  <2>1. Len(q) \in Nat BY <1>1
  <2> QED BY ONLY <2>1, KeepAtRec
<1>3. PICK h : /\ h = [i \in 0 .. a |->
                            IF i = 0 THEN <<>>
                            ELSE IF i \in S THEN Append(h[i - 1], s[i]) ELSE h[i - 1]]
               /\ KeepAt(s, S) = h[a]
  BY <1>1, KeepAtRec
<1>4. \A i \in 0 .. a + b : f[i] = IF i = 0 THEN <<>>
                                   ELSE IF i \in S THEN Append(f[i - 1], q[i]) ELSE f[i - 1]
  BY <1>1, <1>2
<1>5. \A i \in 0 .. a : h[i] = IF i = 0 THEN <<>>
                               ELSE IF i \in S THEN Append(h[i - 1], s[i]) ELSE h[i - 1]
  BY <1>3
<1>6. f[a] = h[a]
  <2> DEFINE T == {m \in Nat : m <= a => f[m] = h[m]}
  <2>1. 0 \in T
    <3>1. 0 \in 0 .. a + b /\ 0 \in 0 .. a BY <1>1
    <3> QED BY <1>4, <1>5, <3>1
  <2>2. ASSUME NEW m \in Nat, m \in T PROVE m + 1 \in T
    <3> SUFFICES ASSUME m + 1 <= a PROVE f[m + 1] = h[m + 1]
      OBVIOUS
    <3>1. /\ m <= a /\ m + 1 \in 0 .. a + b /\ m + 1 \in 0 .. a /\ m + 1 \in 1 .. a /\ m + 1 # 0
          /\ (m + 1) - 1 = m
      BY <1>1
    <3>2. f[m] = h[m] /\ q[m + 1] = s[m + 1] BY <1>1, <2>2, <3>1
    <3>3. f[m + 1] = IF m + 1 \in S THEN Append(f[m], q[m + 1]) ELSE f[m] BY <1>4, <3>1
    <3>4. h[m + 1] = IF m + 1 \in S THEN Append(h[m], s[m + 1]) ELSE h[m] BY <1>5, <3>1
    <3> QED BY <3>2, <3>3, <3>4
  <2>3. a \in T
    <3> HIDE DEF T, a
    <3> QED BY <1>1, <2>1, <2>2, NatInduct
  <2> QED BY <1>1, <2>3
<1>7. \A i \in 1 .. b : f[a + i] = Append(f[a + i - 1], t[i])
  <2> SUFFICES ASSUME NEW i \in 1 .. b PROVE f[a + i] = Append(f[a + i - 1], t[i])
    OBVIOUS
  <2>1. a + i \in 0 .. a + b /\ a + i # 0 /\ a + i \in S BY <1>1
  <2>2. q[a + i] = t[i] BY <1>1
  <2> DEFINE k == a + i
  <2> HIDE DEF k
  <2>3. k \in 0 .. a + b /\ k # 0 /\ k \in S BY <2>1 DEF k
  <2>4. f[k] = Append(f[k - 1], q[k]) BY <1>4, <2>3
  <2> QED BY <2>2, <2>4 DEF k
<1>8. f[a] \in Seq(A) BY <1>3, <1>6, KeepAtPlaces
<1>9. f[a + b] = f[a] \o t
  <2> HIDE DEF a
  <2> QED BY <1>1, <1>7, <1>8, AppendRun
<1>10. KeepAt(q, S) = KeepAt(s, S) \o t BY <1>1, <1>2, <1>3, <1>6, <1>9
<1> QED BY <1>10 DEF q

LEMMA KeepAtAll ==
    ASSUME NEW A, NEW s \in Seq(A), NEW S, \A i \in 1 .. Len(s) : i \in S
    PROVE  KeepAt(s, S) = s
<1> DEFINE e == <<>>
<1>1. e \in Seq(A) /\ Len(e) = 0 BY EmptySeq
<1>2. e \o s = s BY ConcatEmptySeq
<1>3. KeepAt(e, S) = e
  <2>1. KeepAt(e, S) \in Seq(A) /\ \E g : Places(g, KeepAt(e, S), e, S, Len(e)) BY <1>1, KeepAtPlaces
  <2> DEFINE r == KeepAt(e, S)
  <2>2. PICK g : Places(g, r, e, S, Len(e)) BY <2>1
  <2> HIDE DEF r
  <2>3. g \in [1 .. Len(r) -> 1 .. 0] BY <1>1, <2>2 DEF Places
  <2>4. Len(r) \in Nat /\ r \in Seq(A) BY <2>1, LenProperties DEF r
  <2>5. Len(r) = 0
    <3> SUFFICES ASSUME Len(r) # 0 PROVE FALSE
      OBVIOUS
    <3>1. 1 \in 1 .. Len(r) BY <2>4
    <3>2. g[1] \in 1 .. 0 BY <2>3, <3>1
    <3> QED BY <3>2
  <2>6. r = <<>> BY <2>4, <2>5, EmptySeq
  <2> QED BY <2>6 DEF r
<1>4. \A i \in 1 .. Len(s) : Len(e) + i \in S
  <2>1. \A i \in 1 .. Len(s) : 0 + i = i OBVIOUS
  <2> QED BY <1>1, <2>1
<1> HIDE DEF e
<1>5. KeepAt(e \o s, S) = KeepAt(e, S) \o s BY <1>1, <1>4, KeepAtTail
<1> QED BY <1>2, <1>3, <1>5

\* The recursive function inside InsertBehind exists.
LEMMA InsertRec ==
    ASSUME NEW s, Len(s) \in Nat, NEW more
    PROVE  \E f : /\ f = [i \in 0 .. Len(s) |->
                            IF i = 0 THEN <<>> ELSE Append(f[i - 1], s[i]) \o more[i]]
                  /\ InsertBehind(s, more) = f[Len(s)]
<1> DEFINE Round(x, k) == Append(x, s[k]) \o more[k]
           Rec(f, m) == f = [k \in 0 .. m |-> IF k = 0 THEN <<>> ELSE Round(f[k - 1], k)]
           T == {m \in Nat : \E f : Rec(f, m)}
<1>1. InsertBehind(s, more) = (CHOOSE f : Rec(f, Len(s)))[Len(s)] BY DEF InsertBehind
<1> HIDE DEF Round
<1>2. 0 \in T
  <2> DEFINE g == [k \in 0 .. 0 |-> <<>>]
  <2>1. Rec(g, 0) OBVIOUS
  <2> QED BY <2>1
<1>3. ASSUME NEW m \in Nat, m \in T PROVE m + 1 \in T
  <2>1. PICK f : Rec(f, m) BY <1>3
  <2> DEFINE n == m + 1
             g == [k \in 0 .. n |-> IF k = n THEN Round(f[m], n) ELSE f[k]]
             h == [k \in 0 .. n |-> IF k = 0 THEN <<>> ELSE Round(g[k - 1], k)]
  <2>2. \A k \in 0 .. n : g[k] = h[k]
    <3> SUFFICES ASSUME NEW k \in 0 .. n PROVE g[k] = h[k]
      OBVIOUS
    <3>1. CASE k = n
      <4>1. m \in 0 .. n /\ m # n /\ k - 1 = m /\ k # 0 BY <3>1
      <4>2. g[m] = f[m] BY <4>1
      <4> QED BY <3>1, <4>1, <4>2
    <3>2. CASE k # n
      <4>1. k \in 0 .. m BY <3>2
      <4>2. f[k] = IF k = 0 THEN <<>> ELSE Round(f[k - 1], k) BY <2>1, <4>1
      <4>3. CASE k = 0 BY <3>2, <4>2, <4>3
      <4>4. CASE k # 0
        <5>1. k - 1 \in 0 .. n /\ k - 1 # n BY <3>2, <4>4
        <5>2. g[k - 1] = f[k - 1] BY <5>1
        <5> QED BY <3>2, <4>2, <4>4, <5>2
      <4> QED BY <4>3, <4>4
    <3> QED BY <3>1, <3>2
  <2>3. g = h BY <2>2
  <2>4. Rec(g, n) BY <2>3
  <2>5. n \in Nat OBVIOUS
  <2> QED BY <2>4, <2>5
<1>4. Len(s) \in T
  <2> HIDE DEF T
  <2> QED BY <1>2, <1>3, NatInduct
<1> DEFINE f == CHOOSE g : Rec(g, Len(s))
<1>5. Rec(f, Len(s)) BY <1>4
<1> HIDE DEF f
<1>6. f = [i \in 0 .. Len(s) |-> IF i = 0 THEN <<>> ELSE Append(f[i - 1], s[i]) \o more[i]]
  BY <1>5 DEF Round
<1>7. InsertBehind(s, more) = f[Len(s)] BY <1>1 DEF f
<1> QED BY <1>6, <1>7

\* Everything inserted is of the kind of the sequence.
LEMMA InsertType ==
    ASSUME NEW A, NEW s \in Seq(A), NEW more, \A i \in 1 .. Len(s) : more[i] \in Seq(A), NEW f,
           \A i \in 0 .. Len(s) : f[i] = IF i = 0 THEN <<>> ELSE Append(f[i - 1], s[i]) \o more[i]
    PROVE  \A m \in 0 .. Len(s) : f[m] \in Seq(A)
<1> DEFINE n == Len(s)
           T == {m \in Nat : m <= n => f[m] \in Seq(A)}
<1>1. n \in Nat /\ \A i \in 1 .. n : s[i] \in A BY LenProperties, ElementOfSeq
<1>2. 0 \in T
  <2>1. 0 \in 0 .. n BY <1>1
  <2>2. f[0] = <<>> BY <2>1
  <2> QED BY <2>2, EmptySeq
<1>3. ASSUME NEW m \in Nat, m \in T PROVE m + 1 \in T
  <2> SUFFICES ASSUME m + 1 <= n PROVE f[m + 1] \in Seq(A)
    OBVIOUS
  <2>1. m <= n /\ m + 1 \in 0 .. n /\ m + 1 \in 1 .. n /\ m + 1 # 0 /\ (m + 1) - 1 = m BY <1>1
  <2>2. f[m + 1] = Append(f[m], s[m + 1]) \o more[m + 1] BY <2>1
  <2> DEFINE x == f[m]
             e == s[m + 1]
             w == more[m + 1]
  <2>3. x \in Seq(A) /\ e \in A /\ w \in Seq(A) BY <1>1, <1>3, <2>1
  <2> HIDE DEF x, e, w
  <2>4. Append(x, e) \in Seq(A) BY <2>3, AppendProperties
  <2>5. Append(x, e) \o w \in Seq(A) BY <2>3, <2>4, ConcatProperties
  <2> QED BY <2>2, <2>5 DEF x, e, w
<1>4. Nat \subseteq T
  <2> HIDE DEF T
  <2> QED BY <1>2, <1>3, NatInduct
<1>5. ASSUME NEW m \in 0 .. n PROVE f[m] \in Seq(A)
  <2>1. m \in Nat /\ m <= n BY <1>1
  <2> QED BY <1>4, <2>1
<1> QED BY <1>5

\* Where nothing is inserted any more, the rest follows as it is.
LEMMA InsertTail ==
    ASSUME NEW s \in Seq(Message), NEW t \in Seq(Message), NEW more,
           \A i \in 1 .. Len(s) + Len(t) : more[i] \in Seq(Message),
           \A i \in 1 .. Len(t) : more[Len(s) + i] = <<>>
    PROVE  \E c \in Seq(Message) : InsertBehind(s \o t, more) = c \o t /\ (s = <<>> => c = <<>>)
<1> DEFINE q == s \o t
           a == Len(s)
           b == Len(t)
<1>1. /\ q \in Seq(Message) /\ a \in Nat /\ b \in Nat /\ Len(q) = a + b
      /\ \A i \in 1 .. a : q[i] = s[i]
      /\ \A i \in 1 .. b : q[a + i] = t[i]
  BY ONLY s \in Seq(Message), t \in Seq(Message), ConcatAt
<1> HIDE DEF q
<1>2. PICK f : /\ f = [i \in 0 .. Len(q) |-> IF i = 0 THEN <<>> ELSE Append(f[i - 1], q[i]) \o more[i]]
               /\ InsertBehind(q, more) = f[Len(q)]
  <2>1. Len(q) \in Nat BY <1>1
  <2> QED BY ONLY <2>1, InsertRec
<1>3. \A i \in 0 .. Len(q) : f[i] = IF i = 0 THEN <<>> ELSE Append(f[i - 1], q[i]) \o more[i]
  BY <1>2
<1>4. \A m \in 0 .. Len(q) : f[m] \in Seq(Message)
  <2>1. q \in Seq(Message) /\ \A i \in 1 .. Len(q) : more[i] \in Seq(Message) BY <1>1
  <2> QED BY ONLY <1>3, <2>1, InsertType
<1>5. \A i \in 1 .. b : f[a + i] = Append(f[a + i - 1], t[i])
  <2> SUFFICES ASSUME NEW i \in 1 .. b PROVE f[a + i] = Append(f[a + i - 1], t[i])
    OBVIOUS
  <2> DEFINE k == a + i
  <2>1. k \in 0 .. Len(q) /\ k # 0 /\ k - 1 \in 0 .. Len(q) /\ q[k] = t[i] /\ more[k] = <<>> BY <1>1
  <2>2. t[i] \in Message BY ElementOfSeq
  <2> HIDE DEF k
  <2>3. f[k] = Append(f[k - 1], t[i]) \o <<>> BY <1>3, <2>1
  <2>4. Append(f[k - 1], t[i]) \in Seq(Message) BY <1>4, <2>1, <2>2, AppendProperties
  <2>5. Append(f[k - 1], t[i]) \o <<>> = Append(f[k - 1], t[i]) BY ONLY <2>4, NothingMore, Zenon
  <2>6. f[k] = Append(f[k - 1], t[i]) BY ONLY <2>3, <2>5
  <2> QED BY ONLY <2>6 DEF k
<1>6. a \in 0 .. Len(q) BY <1>1
<1>7. f[a] \in Seq(Message) BY <1>4, <1>6
<1>8. f[a + b] = f[a] \o t
  <2> HIDE DEF a
  <2> QED BY <1>1, <1>5, <1>7, AppendRun
<1>9. s = <<>> => f[a] = <<>>
  <2>1. s = <<>> => a = 0 BY EmptySeq
  <2>2. f[0] = <<>>
    <3>1. 0 \in 0 .. Len(q) BY <1>1
    <3> QED BY <1>3, <3>1
  <2> QED BY <2>1, <2>2
<1>10. InsertBehind(q, more) = f[a] \o t BY <1>1, <1>2, <1>8
<1> QED BY <1>7, <1>9, <1>10 DEF q

-----------------------------------------------------------------------------
(* Blocks of results *)

\* o opens the block that i is in.
Opens(s, o, i) == o \in 1 .. i /\ s[o].role # "tool" /\ \A k \in (o + 1) .. i : s[k].role = "tool"

LEMMA OpensUnique ==
    ASSUME NEW s, NEW i \in Nat, NEW o, NEW p, Opens(s, o, i), Opens(s, p, i)
    PROVE  o = p
<1>1. o \in 1 .. i /\ p \in 1 .. i BY DEF Opens
<1>2. o < p => p \in (o + 1) .. i BY <1>1
<1>3. p < o => o \in (p + 1) .. i BY <1>1
<1>4. ~(o < p) /\ ~(p < o) BY <1>2, <1>3 DEF Opens
<1> QED BY <1>1, <1>4

LEMMA OwnerOpens ==
    ASSUME NEW s, NEW i \in Nat, NEW a \in 1 .. i, s[a].role # "tool"
    PROVE  Opens(s, BlockOwner(s, i), i) /\ BlockOwner(s, i) >= a
<1> DEFINE S == {j \in 1 .. i : s[j].role # "tool"}
<1>1. S \in SUBSET Nat /\ S # {} /\ \A x \in S : x <= i OBVIOUS
<1>2. BlockOwner(s, i) = Max(S)
  <2>1. BlockOwner(s, i) = IF S = {} THEN i ELSE Max(S) BY DEF BlockOwner
  <2> HIDE DEF S
  <2> QED BY <1>1, <2>1
<1>3. Max(S) \in S /\ \A y \in S : y <= Max(S)
  <2> HIDE DEF S
  <2> QED BY <1>1, BoundedMax
<1> DEFINE o == Max(S)
<1> HIDE DEF o
<1>4. o \in 1 .. i /\ s[o].role # "tool" /\ \A y \in S : y <= o BY <1>3 DEF o
<1>5. ASSUME NEW k \in (o + 1) .. i PROVE s[k].role = "tool"
  <2>1. k \in 1 .. i /\ ~(k <= o) BY <1>4
  <2> QED BY <1>4, <2>1
<1>6. a \in S OBVIOUS
<1>7. o >= a BY <1>4, <1>6
<1> QED BY <1>2, <1>4, <1>5, <1>7 DEF Opens, o

\* What the backfill adds for the calls of message j.
LEMMA BackfillType ==
    ASSUME NEW s \in Seq(Message), NEW j \in 1 .. Len(s), NEW r, r = Backfilled(MissingCalls(s, j))
    PROVE  /\ r \in Seq(Message)
           /\ \A k \in 1 .. Len(r) : /\ r[k].role = "tool" /\ r[k].calls = <<>>
                                     /\ r[k].id \in Ids(s[j].calls)
           /\ \A x \in Ids(s[j].calls) : x \in Fulfilled(s) \/ \E k \in 1 .. Len(r) : r[k].id = x
           /\ Ids(s[j].calls) \subseteq Fulfilled(s) => r = <<>>
<1> DEFINE calls == s[j].calls
           S == {k \in DOMAIN calls : calls[k].id \notin Fulfilled(s)}
           c == KeepAt(calls, S)
<1>1. calls \in Seq(Call)
  <2>1. s[j] \in Message BY ElementOfSeq
  <2> QED BY <2>1 DEF Message
<1>2. r = Backfilled(c) BY DEF MissingCalls
<1> HIDE DEF calls
<1>3. c \in Seq(Call) BY <1>1, KeepAtPlaces
<1>4. PICK g : Places(g, c, calls, S, Len(calls)) BY <1>1, KeepAtPlaces
<1>5. DOMAIN calls = 1 .. Len(calls) BY <1>1, LenProperties
<1> HIDE DEF c
<1>6. /\ \A k \in 1 .. Len(c) : c[k] = calls[g[k]] /\ g[k] \in 1 .. Len(calls) /\ g[k] \in S
      /\ \A i \in 1 .. Len(calls) : i \in S => \E k \in 1 .. Len(c) : g[k] = i
  <2> HIDE DEF S
  <2> QED BY <1>4 DEF Places
<1>7. DOMAIN c = 1 .. Len(c) /\ Len(c) \in Nat BY <1>3, LenProperties
<1>8. r = [k \in 1 .. Len(c) |-> ToolMessage(c[k], BackfillSize)] BY <1>2, <1>7 DEF Backfilled
<1>9. ASSUME NEW k \in 1 .. Len(c)
      PROVE  r[k] \in Message /\ r[k].role = "tool" /\ r[k].calls = <<>> /\ r[k].id = c[k].id
  <2>1. c[k] \in Call BY <1>3, ElementOfSeq
  <2>2. r[k] = ToolMessage(c[k], BackfillSize) /\ BackfillSize \in Nat BY <1>8 DEF BackfillSize
  <2> QED BY <2>1, <2>2, BuiltMessages
<1>10. r \in Seq(Message) /\ Len(r) = Len(c)
  <2>1. r = [k \in 1 .. Len(c) |-> r[k]] BY <1>8
  <2> QED BY <1>7, <1>9, <2>1, IsASeq, LenProperties
<1>11. ASSUME NEW k \in 1 .. Len(r) PROVE r[k].id \in Ids(calls)
  <2>1. k \in 1 .. Len(c) BY <1>10
  <2>2. r[k].id = calls[g[k]].id /\ g[k] \in DOMAIN calls BY <1>5, <1>6, <1>9, <2>1
  <2> QED BY <2>2 DEF Ids
<1>12. ASSUME NEW x \in Ids(calls), x \notin Fulfilled(s) PROVE \E k \in 1 .. Len(r) : r[k].id = x
  <2>1. PICK i \in DOMAIN calls : x = calls[i].id BY DEF Ids
  <2>2. i \in S /\ i \in 1 .. Len(calls) BY <1>5, <1>12, <2>1
  <2>3. PICK k \in 1 .. Len(c) : g[k] = i BY <1>6, <2>2
  <2>4. r[k].id = c[k].id /\ c[k] = calls[i] BY <1>6, <1>9, <2>3
  <2> QED BY <1>10, <2>1, <2>3, <2>4
<1>13. ASSUME Ids(calls) \subseteq Fulfilled(s) PROVE r = <<>>
  <2>1. ASSUME NEW k \in 1 .. Len(c) PROVE FALSE
    <3>1. g[k] \in S BY <1>6
    <3>2. calls[g[k]].id \in Ids(calls) /\ calls[g[k]].id \notin Fulfilled(s) BY <3>1 DEF Ids
    <3> QED BY <1>13, <3>2
  <2>2. Len(c) = 0
    <3> SUFFICES ASSUME Len(c) # 0 PROVE FALSE
      OBVIOUS
    <3>1. 1 \in 1 .. Len(c) BY <1>7
    <3> QED BY <2>1, <3>1
  <2> QED BY <1>10, <2>2, EmptySeq
<1> QED BY <1>9, <1>10, <1>11, <1>12, <1>13 DEF calls

\* r answers the calls of message j that nothing in s answers.
Answers(r, s, j) ==
    /\ r \in Seq(Message)
    /\ \A k \in 1 .. Len(r) : r[k].role = "tool" /\ r[k].id \in Ids(s[j].calls)
    /\ \A x \in Ids(s[j].calls) : x \in Fulfilled(s) \/ \E k \in 1 .. Len(r) : r[k].id = x

LEMMA BackfillAnswers ==
    ASSUME NEW s \in Seq(Message), NEW j \in 1 .. Len(s)
    PROVE  Answers(Backfilled(MissingCalls(s, j)), s, j)
<1> DEFINE r == Backfilled(MissingCalls(s, j))
<1>1. /\ r \in Seq(Message)
      /\ \A k \in 1 .. Len(r) : /\ r[k].role = "tool" /\ r[k].calls = <<>>
                                /\ r[k].id \in Ids(s[j].calls)
      /\ \A x \in Ids(s[j].calls) : x \in Fulfilled(s) \/ \E k \in 1 .. Len(r) : r[k].id = x
      /\ Ids(s[j].calls) \subseteq Fulfilled(s) => r = <<>>
  BY BackfillType
<1> HIDE DEF r
<1>2. Answers(r, s, j) BY <1>1 DEF Answers
<1> QED BY <1>2 DEF r

LEMMA DeclaredAt ==
    ASSUME NEW s, NEW i, NEW j \in 1 .. (i - 1), NEW x \in Ids(s[j].calls)
    PROVE  x \in DeclaredBefore(s, i)
BY DEF DeclaredBefore

\* Dropping orphans leaves a tidy end of the transcript as it is.
LEMMA DropTail ==
    ASSUME NEW s \in Seq(Message), NEW t, Tidy(t)
    PROVE  \E c \in Seq(Message) : DropOrphanToolResults(s \o t) = c \o t /\ (s = <<>> => c = <<>>)
<1> DEFINE q == s \o t
           a == Len(s)
           b == Len(t)
           S == {i \in DOMAIN q : q[i].role = "tool" => q[i].id \in DeclaredBefore(q, i)}
<1>1. t \in Seq(Message) BY DEF Tidy
<1>2. /\ q \in Seq(Message) /\ a \in Nat /\ b \in Nat /\ DOMAIN q = 1 .. a + b
      /\ \A i \in 1 .. b : q[a + i] = t[i]
  BY ONLY s \in Seq(Message), <1>1, ConcatAt
<1>3. DOMAIN t = 1 .. b BY <1>1, LenProperties
<1>4. DropOrphanToolResults(q) = KeepAt(q, S) BY DEF DropOrphanToolResults
<1>5. \A i \in 1 .. b : a + i \in S
  <2> SUFFICES ASSUME NEW i \in 1 .. b PROVE a + i \in S
    OBVIOUS
  <2> HIDE DEF q, a, b
  <2>1. a + i \in 1 .. a + b BY <1>2
  <2>2. ASSUME t[i].role = "tool" PROVE t[i].id \in DeclaredBefore(q, a + i)
    <3>1. PICK k \in 1 .. (i - 1) : t[i].id \in Ids(t[k].calls) BY <1>3, <2>2 DEF Tidy, Legal
    <3>2. a + k \in 1 .. (a + i - 1) /\ k \in 1 .. b BY <1>2
    <3>3. q[a + k] = t[k] BY <1>2, <3>2
    <3>4. t[i].id \in Ids(q[a + k].calls) BY <3>1, <3>3
    <3> DEFINE n == a + i
               j == a + k
    <3>5. j \in 1 .. (n - 1) /\ t[i].id \in Ids(q[j].calls) BY <1>2, <3>2, <3>4
    <3> HIDE DEF n, j
    <3>6. t[i].id \in DeclaredBefore(q, n) BY <3>5, DeclaredAt
    <3> QED BY <3>6 DEF n
  <2>3. q[a + i] = t[i] BY <1>2
  <2> QED BY <1>2, <2>1, <2>2, <2>3
<1> HIDE DEF S
<1>6. KeepAt(q, S) = KeepAt(s, S) \o t BY <1>1, <1>5, KeepAtTail
<1>7. KeepAt(s, S) \in Seq(Message) BY KeepAtPlaces
<1>8. s = <<>> => KeepAt(s, S) = s
  <2>1. s = <<>> => \A i \in 1 .. Len(s) : i \in S BY EmptySeq
  <2> QED BY <2>1, KeepAtAll
<1> QED BY <1>4, <1>6, <1>7, <1>8

\* What BackfillMissing inserts behind each message.
Fill(s) == [i \in DOMAIN s |->
               IF EndsBlock(s, i) THEN Backfilled(MissingCalls(s, BlockOwner(s, i))) ELSE <<>>]

LEMMA FillType ==
    ASSUME NEW s \in Seq(Message), NEW i \in 1 .. Len(s)
    PROVE  /\ Fill(s)[i] \in Seq(Message)
           /\ \A k \in 1 .. Len(Fill(s)[i]) : Fill(s)[i][k].role = "tool"
           /\ BlockOwner(s, i) \in 1 .. i
<1>1. DOMAIN s = 1 .. Len(s) /\ Len(s) \in Nat BY LenProperties
<1>2. BlockOwner(s, i) \in 1 .. i
  <2>1. CASE \E a \in 1 .. i : s[a].role # "tool"
    <3>1. PICK a \in 1 .. i : s[a].role # "tool" BY <2>1
    <3>2. Opens(s, BlockOwner(s, i), i) BY <1>1, <3>1, OwnerOpens
    <3> QED BY <3>2 DEF Opens
  <2>2. CASE ~\E a \in 1 .. i : s[a].role # "tool"
    <3>1. {j \in 1 .. i : s[j].role # "tool"} = {} BY <2>2
    <3>2. BlockOwner(s, i) = i BY <3>1 DEF BlockOwner
    <3> QED BY <1>1, <3>2
  <2> QED BY <2>1, <2>2
<1> DEFINE o == BlockOwner(s, i)
<1>3. o \in 1 .. Len(s) BY <1>1, <1>2
<1> HIDE DEF o
<1> DEFINE r == Backfilled(MissingCalls(s, o))
<1>4. r \in Seq(Message) /\ \A k \in 1 .. Len(r) : r[k].role = "tool" BY <1>3, BackfillType
<1>5. Fill(s)[i] = IF EndsBlock(s, i) THEN r ELSE <<>> BY <1>1 DEF Fill, o
<1>6. <<>> \in Seq(Message) /\ Len(<<>>) = 0 BY EmptySeq
<1> HIDE DEF r
<1>7. CASE EndsBlock(s, i) BY <1>2, <1>4, <1>5, <1>7
<1>8. CASE ~EndsBlock(s, i) BY <1>2, <1>5, <1>6, <1>8
<1> QED BY <1>7, <1>8

LEMMA BackfillTail ==
    ASSUME NEW s \in Seq(Message), NEW t, Tidy(t)
    PROVE  \E c \in Seq(Message) : BackfillMissing(s \o t) = c \o t /\ (s = <<>> => c = <<>>)
<1> DEFINE q == s \o t
           a == Len(s)
           b == Len(t)
           more == Fill(q)
<1>1. t \in Seq(Message) /\ Legal(t) BY DEF Tidy
<1>2. /\ q \in Seq(Message) /\ a \in Nat /\ b \in Nat /\ DOMAIN q = 1 .. a + b /\ Len(q) = a + b
      /\ \A i \in 1 .. b : q[a + i] = t[i]
  BY ONLY s \in Seq(Message), <1>1, ConcatAt
<1>3. DOMAIN t = 1 .. b BY <1>1, LenProperties
<1>4. b # 0 => t[1].role # "tool"
  <2>1. b # 0 => t # <<>> BY EmptySeq
  <2> QED BY <2>1 DEF Tidy
<1>5. BackfillMissing(q) = InsertBehind(q, more) BY DEF BackfillMissing, Fill
<1>6. \A i \in 1 .. a + b : more[i] \in Seq(Message)
  <2> HIDE DEF q, a, b
  <2> QED BY <1>2, FillType
<1>7. \A i \in 1 .. b : more[a + i] = <<>>
  <2> SUFFICES ASSUME NEW i \in 1 .. b PROVE more[a + i] = <<>>
    OBVIOUS
  <2> DEFINE k == a + i
             o == BlockOwner(q, k)
  <2> HIDE DEF q, a, b
  <2>1. k \in 1 .. a + b /\ k \in Nat /\ a + 1 \in 1 .. k /\ 1 \in 1 .. b /\ b # 0 BY <1>2
  <2>2. q[a + 1].role # "tool" BY <1>2, <1>4, <2>1
  <2>3. Opens(q, o, k) /\ o >= a + 1
    <3> HIDE DEF k
    <3> QED BY <2>1, <2>2, OwnerOpens
  <2> HIDE DEF o
  <2>4. PICK l \in 1 .. b : o = a + l
    <3>1. o - a \in 1 .. b /\ o = a + (o - a) BY <1>2, <2>1, <2>3 DEF Opens
    <3> QED BY <3>1
  <2>5. q[o] = t[l] /\ o \in 1 .. Len(q) BY <1>2, <2>4
  <2>6. Ids(t[l].calls) = {t[j].id : j \in BlockOf(t, l)} BY <1>1, <1>3, <2>3, <2>5 DEF Legal, Opens
  <2>7. ASSUME NEW x \in Ids(t[l].calls) PROVE x \in Fulfilled(q)
    <3>1. PICK j \in BlockOf(t, l) : x = t[j].id BY <2>6
    <3>2. j \in (l + 1) .. b /\ t[j].role = "tool"
      <4>1. j \in (l + 1) .. b /\ \A n \in (l + 1) .. j : t[n].role = "tool" BY DEF BlockOf, b
      <4>2. j \in (l + 1) .. j BY <1>2, <4>1
      <4> QED BY <4>1, <4>2
    <3>3. j \in 1 .. b /\ a + j \in 1 .. a + b BY <1>2, <3>2
    <3>4. q[a + j] = t[j] BY <1>2, <3>3
    <3> QED BY <1>2, <3>1, <3>2, <3>3, <3>4 DEF Fulfilled
  <2>8. Backfilled(MissingCalls(q, o)) = <<>>
    <3>1. q \in Seq(Message) /\ o \in 1 .. Len(q) /\ Ids(q[o].calls) \subseteq Fulfilled(q)
      BY <1>2, <2>5, <2>7
    <3> QED BY ONLY <3>1, BackfillType
  <2>9. more[k] = IF EndsBlock(q, k) THEN Backfilled(MissingCalls(q, o)) ELSE <<>>
    BY <1>2, <2>1 DEF Fill, o
  <2> QED BY <2>8, <2>9
<1>8. PICK c \in Seq(Message) : InsertBehind(s \o t, more) = c \o t /\ (s = <<>> => c = <<>>)
  <2>1. s \in Seq(Message) /\ t \in Seq(Message) BY <1>1
  <2> HIDE DEF more
  <2> QED BY ONLY <1>6, <1>7, <2>1, InsertTail
<1> QED BY <1>5, <1>8

\* A tidy transcript passes both unchanged.
LEMMA SecondPass ==
    ASSUME NEW s, Tidy(s)
    PROVE  DropOrphanToolResults(s) = s /\ BackfillMissing(s) = s
<1> DEFINE e == <<>>
<1>1. e \in Seq(Message) /\ s \in Seq(Message) BY EmptySeq DEF Tidy
<1>2. e \o s = s BY <1>1, ConcatEmptySeq
<1>3. PICK c : DropOrphanToolResults(e \o s) = c \o s /\ (e = <<>> => c = <<>>)
  <2> HIDE DEF e
  <2> QED BY <1>1, DropTail
<1>4. PICK d : BackfillMissing(e \o s) = d \o s /\ (e = <<>> => d = <<>>)
  <2> HIDE DEF e
  <2> QED BY <1>1, BackfillTail
<1> QED BY <1>2, <1>3, <1>4

\* Every result left by the first pass is declared before it.
Declared(s) == \A i \in 1 .. Len(s) : s[i].role = "tool" => s[i].id \in DeclaredBefore(s, i)

LEMMA DropOrphanType ==
    ASSUME NEW s \in Seq(Message), Threaded(s)
    PROVE  LET r == DropOrphanToolResults(s)
           IN  r \in Seq(Message) /\ Threaded(r) /\ Declared(r) /\ (Headed(s) => Headed(r))
<1> DEFINE S == {i \in DOMAIN s : s[i].role = "tool" => s[i].id \in DeclaredBefore(s, i)}
           r == KeepAt(s, S)
<1>1. DropOrphanToolResults(s) = r BY DEF DropOrphanToolResults
<1>2. r \in Seq(Message) /\ Threaded(r)
  <2> HIDE DEF S
  <2> QED BY ThreadedKeepAt
<1>3. DOMAIN s = 1 .. Len(s) /\ Len(s) \in Nat /\ Len(r) \in Nat BY <1>2, LenProperties
<1>4. PICK g : Places(g, r, s, S, Len(s))
  <2> HIDE DEF S
  <2> QED BY KeepAtPlaces
<1> HIDE DEF r
<1>5. /\ \A k \in 1 .. Len(r) : r[k] = s[g[k]] /\ g[k] \in 1 .. Len(s) /\ g[k] \in S
      /\ \A k, l \in 1 .. Len(r) : k < l => g[k] < g[l]
      /\ \A i \in 1 .. Len(s) : i \in S => \E k \in 1 .. Len(r) : g[k] = i
  <2> HIDE DEF S
  <2> QED BY <1>4 DEF Places
<1>6. ASSUME NEW k \in 1 .. Len(r), r[k].role = "tool" PROVE r[k].id \in DeclaredBefore(r, k)
  <2>1. r[k] = s[g[k]] /\ g[k] \in S /\ g[k] \in 1 .. Len(s) BY <1>5
  <2>2. s[g[k]].id \in DeclaredBefore(s, g[k]) BY <1>6, <2>1
  <2>3. PICK j \in 1 .. (g[k] - 1) : s[g[k]].id \in Ids(s[j].calls) BY <2>2 DEF DeclaredBefore
  <2>4. j \in 1 .. Len(s) /\ j < g[k] BY <1>3, <2>1
  <2>5. s[j].role # "tool"
    <3>1. Ids(<<>>) = {} BY DEF Ids
    <3>2. s[j].calls # <<>> BY <2>3, <3>1
    <3> QED BY <1>3, <2>4, <3>2 DEF Threaded
  <2>6. j \in S BY <1>3, <2>4, <2>5
  <2>7. PICK l \in 1 .. Len(r) : g[l] = j BY <1>5, <2>4, <2>6
  <2>8. l < k
    <3>1. l < k \/ l = k \/ k < l BY <1>3
    <3>2. g[l] \in Nat /\ g[k] \in Nat /\ g[l] < g[k] BY <1>3, <2>1, <2>4, <2>7
    <3> QED BY <1>5, <3>1, <3>2
  <2>9. l \in 1 .. (k - 1) /\ r[k].id \in Ids(r[l].calls) BY <1>3, <1>5, <2>1, <2>3, <2>7, <2>8
  <2> QED BY <2>9 DEF DeclaredBefore
<1>7. ASSUME Headed(s) PROVE Headed(r)
  <2>1. Len(s) # 0 /\ s[1] = System BY <1>7, EmptySeq DEF Headed
  <2>2. 1 \in 1 .. Len(s) /\ 1 \in S BY <1>3, <2>1, BuiltMessages
  <2>3. PICK l \in 1 .. Len(r) : g[l] = 1 BY <1>5, <2>2
  <2>4. l = 1
    <3> SUFFICES ASSUME l # 1 PROVE FALSE
      OBVIOUS
    <3>1. 1 \in 1 .. Len(r) /\ 1 < l BY <1>3
    <3>2. g[1] < g[l] /\ g[1] \in 1 .. Len(s) BY <1>5, <3>1
    <3> QED BY <1>3, <2>3, <3>2
  <2>5. Len(r) # 0 /\ r[1] = System BY <1>3, <1>5, <2>1, <2>3, <2>4
  <2>6. ASSUME NEW k \in 2 .. Len(r) PROVE r[k].role # "system"
    <3>1. k \in 1 .. Len(r) /\ l < k BY <1>3, <2>4
    <3>2. g[l] < g[k] /\ g[k] \in 1 .. Len(s) /\ r[k] = s[g[k]] BY <1>5, <3>1
    <3>3. g[k] \in 2 .. Len(s) BY <1>3, <2>3, <3>2
    <3> QED BY <1>7, <3>2, <3>3 DEF Headed
  <2> QED BY <2>5, <2>6, EmptySeq DEF Headed
<1>8. Declared(r) BY <1>6 DEF Declared
<1> QED BY <1>1, <1>2, <1>7, <1>8

-----------------------------------------------------------------------------
(* The first pass leaves calls and results that match *)

\* Part of a block: the members of x behind o, up to i.
Slice(c, x, o, i) ==
    /\ c \in Seq(Message) /\ o \in Nat /\ i \in Nat /\ Len(c) = i - o
    /\ \A k \in 1 .. Len(c) : c[k] = x[o + k]

\* A message, the results behind it and the missing ones together.
LEMMA BlockClose ==
    ASSUME NEW x \in Seq(Message), Threaded(x), Declared(x), NEW i \in 1 .. Len(x), EndsBlock(x, i),
           NEW o, Opens(x, o, i), NEW c, Slice(c, x, o, i),
           NEW r, r = Backfilled(MissingCalls(x, o))
    PROVE  Tidy(<<x[o]>> \o (c \o r))
<1> DEFINE n == Len(x)
           w == c \o r
<1>1. n \in Nat /\ DOMAIN x = 1 .. n BY LenProperties
<1>2. o \in 1 .. i /\ o \in 1 .. n /\ x[o].role # "tool" /\ \A k \in (o + 1) .. i : x[k].role = "tool"
  BY <1>1 DEF Opens
<1>3. /\ r \in Seq(Message)
      /\ \A k \in 1 .. Len(r) : r[k].role = "tool" /\ r[k].id \in Ids(x[o].calls)
      /\ \A y \in Ids(x[o].calls) : y \in Fulfilled(x) \/ \E k \in 1 .. Len(r) : r[k].id = y
  <2>1. Answers(Backfilled(MissingCalls(x, o)), x, o) BY <1>2, BackfillAnswers
  <2>2. Answers(r, x, o) BY <2>1
  <2> QED BY <2>2 DEF Answers
<1>4. c \in Seq(Message) /\ Len(c) = i - o /\ \A k \in 1 .. Len(c) : c[k] = x[o + k] BY DEF Slice
<1>5. /\ w \in Seq(Message) /\ Len(c) \in Nat /\ Len(r) \in Nat /\ Len(w) = Len(c) + Len(r)
      /\ \A k \in 1 .. Len(c) : w[k] = c[k]
      /\ \A k \in 1 .. Len(r) : w[Len(c) + k] = r[k]
  <2>1. c \in Seq(Message) /\ r \in Seq(Message) BY <1>3, <1>4
  <2> QED BY ONLY <2>1, ConcatAt
<1> HIDE DEF w
<1>6. x[o] \in Message BY <1>2, ElementOfSeq
<1>7. ASSUME NEW k \in 1 .. Len(c)
      PROVE  /\ w[k] = x[o + k] /\ o + k \in (o + 1) .. i /\ o + k \in 1 .. n /\ x[o + k].role = "tool"
             /\ x[o + k].id \in Ids(x[o].calls)
  <2> DEFINE p == o + k
  <2>1. p \in (o + 1) .. i /\ p \in 1 .. n BY <1>1, <1>2, <1>4
  <2>2. w[k] = x[p] BY <1>4, <1>5
  <2>3. x[p].role = "tool" BY <1>2, <2>1
  <2> HIDE DEF p
  <2>4. x[p].id \in DeclaredBefore(x, p) BY <2>1, <2>3 DEF Declared
  <2>5. PICK j \in 1 .. (p - 1) : x[p].id \in Ids(x[j].calls) BY <2>4 DEF DeclaredBefore
  <2>6. j \in 1 .. n /\ p \in Nat /\ o \in Nat /\ i \in Nat /\ j \in Nat BY <1>1, <1>2, <2>1
  <2>7. j < p /\ \A l \in (j + 1) .. p : x[l].role = "tool" BY <1>1, <2>1, <2>3, <2>5, <2>6 DEF Threaded
  <2>8. x[j].role # "tool"
    <3>1. Ids(<<>>) = {} BY DEF Ids
    <3>2. x[j].calls # <<>> BY <2>5, <3>1
    <3> QED BY <1>1, <2>6, <3>2 DEF Threaded
  <2>9. ~(j < o)
    <3> SUFFICES ASSUME j < o PROVE FALSE
      OBVIOUS
    <3>1. o \in (j + 1) .. p BY <2>1, <2>6
    <3> QED BY <1>2, <2>7, <3>1
  <2>10. ~(o < j)
    <3> SUFFICES ASSUME o < j PROVE FALSE
      OBVIOUS
    <3>1. j \in (o + 1) .. i BY <2>1, <2>6, <2>7
    <3> QED BY <1>2, <2>8, <3>1
  <2>11. j = o BY <2>6, <2>9, <2>10
  <2> QED BY <2>1, <2>2, <2>3, <2>5, <2>11 DEF p
<1>8. ASSUME NEW k \in 1 .. Len(w) PROVE w[k].role = "tool" /\ w[k].id \in Ids(x[o].calls)
  <2>1. CASE k <= Len(c)
    <3>1. k \in 1 .. Len(c) BY <1>5, <2>1
    <3> QED BY <1>7, <3>1
  <2>2. CASE ~(k <= Len(c))
    <3>1. PICK l \in 1 .. Len(r) : k = Len(c) + l
      <4>1. k - Len(c) \in 1 .. Len(r) /\ k = Len(c) + (k - Len(c)) BY <1>5, <2>2
      <4> QED BY <4>1
    <3>2. w[k] = r[l] BY <1>5, <3>1
    <3> QED BY <1>3, <3>2
  <2> QED BY <2>1, <2>2
<1>9. ASSUME NEW y \in Ids(x[o].calls) PROVE \E k \in 1 .. Len(w) : w[k].id = y
  <2>1. CASE \E k \in 1 .. Len(r) : r[k].id = y
    <3>1. PICK k \in 1 .. Len(r) : r[k].id = y BY <2>1
    <3>2. Len(c) + k \in 1 .. Len(w) /\ w[Len(c) + k] = r[k] BY <1>5
    <3> QED BY <3>1, <3>2
  <2>2. CASE y \in Fulfilled(x)
    <3>1. PICK j \in {k \in DOMAIN x : x[k].role = "tool"} : y = x[j].id BY <2>2 DEF Fulfilled
    <3>2. j \in 1 .. n /\ o < j /\ \A k \in (o + 1) .. j : x[k].role = "tool"
      BY <1>1, <1>2, <3>1 DEF Threaded
    <3>3. j <= i
      <4> SUFFICES ASSUME i < j PROVE FALSE
        BY <1>1, <3>2
      <4>1. \A a, d, e, l \in Nat : a <= d /\ d < e /\ e <= l => d # l /\ d + 1 \in (a + 1) .. e
        OBVIOUS
      <4>2. o \in Nat /\ i \in Nat /\ j \in Nat /\ o <= i /\ j <= n BY <1>1, <1>2, <3>2
      <4>3. i # n /\ i + 1 \in (o + 1) .. j BY <1>1, <4>1, <4>2
      <4>4. x[i + 1].role # "tool" BY <4>3 DEF EndsBlock
      <4> QED BY <3>2, <4>3, <4>4
    <3>4. PICK k \in 1 .. Len(c) : j = o + k
      <4>1. j - o \in 1 .. Len(c) /\ j = o + (j - o) BY <1>1, <1>2, <1>4, <3>2, <3>3
      <4> QED BY <4>1
    <3>5. w[k] = x[j] /\ k \in 1 .. Len(w) BY <1>5, <1>7, <3>4
    <3> QED BY <3>1, <3>5
  <2> QED BY <1>3, <2>1, <2>2
<1>10. Ids(x[o].calls) = {w[k].id : k \in 1 .. Len(w)} BY <1>8, <1>9
<1>11. Tidy(<<x[o]>> \o w) BY <1>2, <1>5, <1>6, <1>8, <1>10, TidyBlock
<1> QED BY <1>11 DEF w

\* What stands at i, before the backfill behind it: tidy up to the message that opens the block.
Building(g, x, i) ==
    \E pre, o, c : /\ Tidy(pre) /\ Opens(x, o, i) /\ Slice(c, x, o, i)
                   /\ g = pre \o (<<x[o]>> \o c)

LEMMA BuildingClose ==
    ASSUME NEW x \in Seq(Message), Threaded(x), Declared(x), NEW i \in 1 .. Len(x), EndsBlock(x, i),
           NEW g, Building(g, x, i)
    PROVE  Tidy(g \o Fill(x)[i])
<1>1. PICK pre, o, c : /\ Tidy(pre) /\ Opens(x, o, i) /\ Slice(c, x, o, i)
                       /\ g = pre \o (<<x[o]>> \o c)
  BY DEF Building
<1>2. Len(x) \in Nat /\ DOMAIN x = 1 .. Len(x) /\ i \in Nat BY LenProperties
<1>3. o \in 1 .. i /\ o \in 1 .. Len(x) /\ x[o].role # "tool" BY <1>1, <1>2 DEF Opens
<1>4. BlockOwner(x, i) = o BY <1>1, <1>2, <1>3, OwnerOpens, OpensUnique
<1> DEFINE r == Backfilled(MissingCalls(x, o))
           v == <<x[o]>>
<1>5. Fill(x)[i] = r BY <1>2, <1>4 DEF Fill
<1>6. r \in Seq(Message) BY <1>3, BackfillType
<1>7. Tidy(v \o (c \o r)) BY <1>1, BlockClose
<1>8. v \in Seq(Message)
  <2>1. x[o] \in Message BY <1>3, ElementOfSeq
  <2> QED BY <2>1, OneMessage
<1>9. pre \in Seq(Message) /\ c \in Seq(Message) BY <1>1 DEF Tidy, Slice
<1> HIDE DEF r, v
<1>10. v \o c \in Seq(Message) BY <1>8, <1>9, ConcatProperties
<1> DEFINE vc == v \o c
<1>11. (pre \o vc) \o r = pre \o (vc \o r)
  <2> HIDE DEF vc
  <2>1. pre \in Seq(Message) /\ vc \in Seq(Message) /\ r \in Seq(Message) BY <1>6, <1>9, <1>10 DEF vc
  <2> QED BY ONLY <2>1, Regroup, Zenon
<1>12. vc \o r = v \o (c \o r)
  <2>1. v \in Seq(Message) /\ c \in Seq(Message) /\ r \in Seq(Message) BY <1>6, <1>8, <1>9
  <2> QED BY ONLY <2>1, Regroup, Zenon
<1> DEFINE b == v \o (c \o r)
<1>13. Tidy(pre \o b)
  <2>1. Tidy(b) BY <1>7
  <2> HIDE DEF b
  <2> QED BY <1>1, <2>1, TidyJoin
<1>14. g = pre \o vc BY <1>1 DEF v
<1> QED BY <1>5, <1>11, <1>12, <1>13, <1>14

LEMMA BuildingOpen ==
    ASSUME NEW x \in Seq(Message), NEW i \in 1 .. Len(x), x[i].role # "tool", NEW pre, Tidy(pre)
    PROVE  Building(Append(pre, x[i]), x, i)
<1> DEFINE v == <<x[i]>>
           c == <<>>
<1>1. x[i] \in Message /\ i \in Nat BY ElementOfSeq, LenProperties
<1>2. v \in Seq(Message) BY <1>1, OneMessage
<1>3. c \in Seq(Message) /\ Len(c) = 0 BY EmptySeq
<1>4. v \o c = v BY <1>2, ConcatEmptySeq
<1>5. pre \in Seq(Message) BY DEF Tidy
<1>6. Append(pre, x[i]) = pre \o v BY <1>1, <1>5, AppendIsConcat
<1>7. Opens(x, i, i)
  <2>1. i \in 1 .. i /\ (i + 1) .. i = {} BY <1>1
  <2> QED BY <2>1 DEF Opens
<1> HIDE DEF c
<1>8. Slice(c, x, i, i)
  <2>1. i - i = 0 /\ 1 .. 0 = {} BY <1>1
  <2> QED BY <1>1, <1>3, <2>1 DEF Slice
<1>9. Append(pre, x[i]) = pre \o (<<x[i]>> \o c) BY <1>4, <1>6
<1> QED BY <1>7, <1>8, <1>9 DEF Building

LEMMA BuildingMore ==
    ASSUME NEW x \in Seq(Message), NEW i \in 1 .. Len(x), i + 1 \in 1 .. Len(x),
           x[i + 1].role = "tool", NEW g, Building(g, x, i)
    PROVE  Building(Append(g, x[i + 1]), x, i + 1)
<1>1. PICK pre, o, c : /\ Tidy(pre) /\ Opens(x, o, i) /\ Slice(c, x, o, i)
                       /\ g = pre \o (<<x[o]>> \o c)
  BY DEF Building
<1> DEFINE v == <<x[o]>>
           y == x[i + 1]
           d == Append(c, y)
           u == <<y>>
<1>2. Len(x) \in Nat /\ i \in Nat /\ y \in Message BY LenProperties, ElementOfSeq
<1>3. o \in 1 .. i /\ o \in 1 .. Len(x) BY <1>1, <1>2 DEF Opens
<1>4. /\ v \in Seq(Message) /\ u \in Seq(Message) /\ c \in Seq(Message) /\ pre \in Seq(Message)
      /\ Len(c) = i - o /\ \A k \in 1 .. Len(c) : c[k] = x[o + k]
  <2>1. x[o] \in Message BY <1>3, ElementOfSeq
  <2> QED BY <1>1, <1>2, <2>1, OneMessage DEF Tidy, Slice
<1>5. Opens(x, o, i + 1)
  <2>1. o \in 1 .. i + 1 BY <1>2, <1>3
  <2>2. ASSUME NEW k \in (o + 1) .. i + 1 PROVE k \in (o + 1) .. i \/ k = i + 1 BY <1>2, <1>3
  <2> QED BY <1>1, <2>1, <2>2 DEF Opens
<1>6. Slice(d, x, o, i + 1)
  <2>1. d \in Seq(Message) /\ Len(d) = Len(c) + 1 /\ Len(c) \in Nat BY <1>2, <1>4, AppendProperties, LenProperties
  <2>2. \A k \in 1 .. Len(c) : d[k] = c[k] BY <1>2, <1>4, AppendProperties
  <2>3. d[Len(c) + 1] = y BY <1>2, <1>4, AppendProperties
  <2>4. Len(d) = (i + 1) - o /\ o + (Len(c) + 1) = i + 1 BY <1>2, <1>3, <1>4, <2>1
  <2> HIDE DEF d
  <2>5. ASSUME NEW k \in 1 .. Len(d) PROVE d[k] = x[o + k]
    <3>1. k \in 1 .. Len(c) \/ k = Len(c) + 1 BY <2>1
    <3> QED BY <1>4, <2>2, <2>3, <2>4, <3>1
  <2> QED BY <1>2, <1>3, <2>1, <2>4, <2>5 DEF Slice
<1>7. d = c \o u BY <1>2, <1>4, AppendIsConcat
<1>8. v \o c \in Seq(Message) BY <1>4, ConcatProperties
<1> DEFINE vc == v \o c
<1>9. pre \o vc \in Seq(Message)
  <2> HIDE DEF vc
  <2>1. vc \in Seq(Message) BY <1>8 DEF vc
  <2> QED BY <1>4, <2>1, ConcatProperties
<1>10. g = pre \o vc BY <1>1
<1>11. Append(g, y) = g \o u
  <2>1. g \in Seq(Message) BY <1>9, <1>10
  <2> QED BY <1>2, <2>1, AppendIsConcat
<1> HIDE DEF v, u, d
<1>12. (pre \o vc) \o u = pre \o (vc \o u)
  <2> HIDE DEF vc
  <2>1. pre \in Seq(Message) /\ vc \in Seq(Message) /\ u \in Seq(Message) BY <1>4, <1>8 DEF vc
  <2> QED BY ONLY <2>1, Regroup, Zenon
<1>13. vc \o u = v \o (c \o u)
  <2>1. v \in Seq(Message) /\ c \in Seq(Message) /\ u \in Seq(Message) BY <1>4
  <2> QED BY ONLY <2>1, Regroup, Zenon
<1>14. Append(g, y) = pre \o (v \o d) BY <1>7, <1>10, <1>11, <1>12, <1>13
<1>15. Append(g, x[i + 1]) = pre \o (<<x[o]>> \o d) BY <1>14 DEF v
<1> QED BY <1>1, <1>5, <1>6, <1>15 DEF Building

\* The recursion of BackfillMissing.
LEMMA BackfillRec ==
    ASSUME NEW x \in Seq(Message)
    PROVE  \E f : /\ \A i \in 0 .. Len(x) : f[i] \in Seq(Message)
                  /\ f[0] = <<>>
                  /\ \A i \in 1 .. Len(x) : f[i] = Append(f[i - 1], x[i]) \o Fill(x)[i]
                  /\ BackfillMissing(x) = f[Len(x)]
<1> DEFINE more == Fill(x)
           n == Len(x)
<1>1. n \in Nat BY LenProperties
<1>2. BackfillMissing(x) = InsertBehind(x, more) BY DEF BackfillMissing, Fill
<1>3. \A i \in 1 .. n : more[i] \in Seq(Message) BY FillType
<1> HIDE DEF more
<1>4. PICK f : /\ f = [i \in 0 .. Len(x) |-> IF i = 0 THEN <<>> ELSE Append(f[i - 1], x[i]) \o more[i]]
               /\ InsertBehind(x, more) = f[Len(x)]
  BY ONLY <1>1, InsertRec
<1>5. \A i \in 0 .. Len(x) : f[i] = IF i = 0 THEN <<>> ELSE Append(f[i - 1], x[i]) \o more[i]
  BY <1>4
<1>6. \A m \in 0 .. Len(x) : f[m] \in Seq(Message)
  <2>1. x \in Seq(Message) OBVIOUS
  <2> QED BY ONLY <1>3, <1>5, <2>1, InsertType
<1>7. f[0] = <<>>
  <2>1. 0 \in 0 .. n BY <1>1
  <2> QED BY <1>5, <2>1
<1>8. ASSUME NEW i \in 1 .. n PROVE f[i] = Append(f[i - 1], x[i]) \o more[i]
  <2>1. i \in 0 .. n /\ i # 0 BY <1>1
  <2> QED BY <1>5, <2>1
<1> QED BY <1>2, <1>4, <1>6, <1>7, <1>8 DEF more

\* Where every result left is declared and stands with its call, the backfill makes calls and
\* results match.
LEMMA MatchedTidy ==
    ASSUME NEW x \in Seq(Message), Threaded(x), Declared(x)
    PROVE  Tidy(BackfillMissing(x))
<1> DEFINE n == Len(x)
           r == Fill(x)
<1>1. n \in Nat BY LenProperties
<1>2. PICK f : /\ \A i \in 0 .. n : f[i] \in Seq(Message)
               /\ f[0] = <<>>
               /\ \A i \in 1 .. n : f[i] = Append(f[i - 1], x[i]) \o r[i]
               /\ BackfillMissing(x) = f[n]
  BY BackfillRec
<1> DEFINE g(i) == Append(f[i - 1], x[i])
           T == {i \in Nat : i \in 1 .. n => Building(g(i), x, i)}
<1>3. 0 \in T OBVIOUS
<1>4. ASSUME NEW m \in Nat, m \in T PROVE m + 1 \in T
  <2> SUFFICES ASSUME m + 1 \in 1 .. n PROVE Building(g(m + 1), x, m + 1)
    <3>1. m + 1 \in Nat OBVIOUS
    <3> HIDE DEF g
    <3> QED BY <3>1
  <2> DEFINE y == x[m + 1]
  <2>1. g(m + 1) = Append(f[m], y)
    <3>1. (m + 1) - 1 = m OBVIOUS
    <3> QED BY <3>1
  <2> HIDE DEF g
  <2>2. CASE m = 0
    <3>1. y.role # "tool"
      <4> SUFFICES ASSUME y.role = "tool" PROVE FALSE
        OBVIOUS
      <4>1. y.id \in DeclaredBefore(x, m + 1) BY DEF Declared
      <4>2. 1 .. ((m + 1) - 1) = {} BY <2>2
      <4>3. DeclaredBefore(x, m + 1) = UNION {} BY <4>2 DEF DeclaredBefore
      <4> QED BY <4>1, <4>3
    <3>2. Tidy(f[m]) BY <1>2, <2>2, TidyEmpty
    <3>3. Building(Append(f[m], y), x, m + 1) BY <3>1, <3>2, BuildingOpen
    <3> QED BY <2>1, <3>3
  <2>3. CASE m # 0
    <3>1. m \in 1 .. n BY <1>1, <2>3
    <3>2. Building(g(m), x, m) BY <1>4, <3>1
    <3>3. f[m] = g(m) \o r[m] BY <1>2, <3>1 DEF g
    <3>4. CASE y.role = "tool"
      <4>1. ~EndsBlock(x, m) BY <1>1, <3>4 DEF EndsBlock
      <4>2. DOMAIN x = 1 .. n BY LenProperties
      <4>3. r[m] = <<>> BY <3>1, <4>1, <4>2 DEF Fill
      <4>4. g(m) \in Seq(Message)
        <5>1. m - 1 \in 0 .. n BY <1>1, <3>1
        <5>2. f[m - 1] \in Seq(Message) /\ x[m] \in Message BY <1>2, <3>1, <5>1, ElementOfSeq
        <5> QED BY <5>2, AppendProperties DEF g
      <4>5. f[m] = g(m) BY <3>3, <4>3, <4>4, ConcatEmptySeq
      <4>6. Building(Append(g(m), y), x, m + 1) BY <3>1, <3>2, <3>4, BuildingMore
      <4> QED BY <2>1, <4>5, <4>6
    <3>5. CASE y.role # "tool"
      <4>1. EndsBlock(x, m) BY <3>5 DEF EndsBlock
      <4>2. Tidy(g(m) \o r[m]) BY <3>1, <3>2, <4>1, BuildingClose
      <4>3. Tidy(f[m]) BY <3>3, <4>2
      <4>4. Building(Append(f[m], y), x, m + 1) BY <3>5, <4>3, BuildingOpen
      <4> QED BY <2>1, <4>4
    <3> QED BY <3>4, <3>5
  <2> QED BY <2>2, <2>3
<1>5. n \in T
  <2> HIDE DEF T, n
  <2> QED BY <1>1, <1>3, <1>4, NatInduct
<1> HIDE DEF g
<1>6. Tidy(f[n])
  <2>1. CASE n = 0 BY <1>2, <2>1, TidyEmpty
  <2>2. CASE n # 0
    <3>1. n \in 1 .. n BY <1>1, <2>2
    <3>2. Building(g(n), x, n) BY <1>5, <3>1
    <3>3. EndsBlock(x, n) BY DEF EndsBlock
    <3>4. Tidy(g(n) \o r[n]) BY <3>1, <3>2, <3>3, BuildingClose
    <3>5. f[n] = g(n) \o r[n] BY <1>2, <3>1 DEF g
    <3> QED BY <3>4, <3>5
  <2> QED BY <2>1, <2>2
<1> QED BY <1>2, <1>6

LEMMA HeadedOne == Headed(<<System>>)
<1> DEFINE v == <<System>>
<1>1. v # <<>> /\ v[1] = System /\ Len(v) = 1 BY BuiltMessages, OneMessage
<1> HIDE DEF v
<1>2. 2 .. Len(v) = {} BY <1>1
<1>3. Headed(v) BY <1>1, <1>2 DEF Headed
<1> QED BY <1>3 DEF v

LEMMA HeadedInsert ==
    ASSUME NEW x \in Seq(Message), Headed(x)
    PROVE  Headed(BackfillMissing(x))
<1> DEFINE n == Len(x)
           r == Fill(x)
<1>1. n \in Nat /\ n # 0 /\ x[1] = System BY LenProperties, EmptySeq DEF Headed
<1>2. PICK f : /\ \A i \in 0 .. n : f[i] \in Seq(Message)
               /\ f[0] = <<>>
               /\ \A i \in 1 .. n : f[i] = Append(f[i - 1], x[i]) \o r[i]
               /\ BackfillMissing(x) = f[n]
  BY BackfillRec
<1>3. ASSUME NEW i \in 1 .. n
      PROVE  r[i] \in Seq(Message) /\ \A k \in 1 .. Len(r[i]) : r[i][k].role # "system"
  BY FillType
<1> HIDE DEF r
<1> DEFINE T == {i \in Nat : i \in 1 .. n => Headed(f[i])}
<1>4. 0 \in T OBVIOUS
<1>5. ASSUME NEW m \in Nat, m \in T PROVE m + 1 \in T
  <2> SUFFICES ASSUME m + 1 \in 1 .. n PROVE Headed(f[m + 1])
    <3>1. m + 1 \in Nat OBVIOUS
    <3> QED BY <3>1
  <2> DEFINE y == x[m + 1]
             w == r[m + 1]
             v == <<y>>
             p == f[m]
  <2>1. f[m + 1] = Append(p, y) \o w
    <3>1. (m + 1) - 1 = m OBVIOUS
    <3> QED BY <1>2, <3>1
  <2>2. /\ y \in Message /\ w \in Seq(Message) /\ \A k \in 1 .. Len(w) : w[k].role # "system"
        /\ p \in Seq(Message) /\ v \in Seq(Message)
    <3>1. m \in 0 .. n BY <1>1
    <3>2. y \in Message BY ElementOfSeq
    <3> QED BY <1>2, <1>3, <3>1, <3>2, OneMessage
  <2>3. Append(p, y) = p \o v BY <2>2, AppendIsConcat
  <2>4. Headed(p \o v)
    <3>1. CASE m = 0
      <4>1. p = <<>> /\ y = System BY <1>1, <1>2, <3>1
      <4>2. p \o v = v BY <2>2, <4>1, ConcatEmptySeq
      <4> QED BY <4>1, <4>2, HeadedOne
    <3>2. CASE m # 0
      <4>1. m \in 1 .. n /\ m + 1 \in 2 .. n BY <1>1, <3>2
      <4>2. Headed(p) BY <1>5, <4>1
      <4>3. y.role # "system" BY <4>1 DEF Headed
      <4>4. \A k \in 1 .. Len(v) : v[k] = y
        <5>1. Len(v) = 1 /\ v[1] = y BY <2>2, OneMessage
        <5> HIDE DEF v
        <5>2. \A k \in 1 .. Len(v) : k = 1 BY <5>1
        <5> QED BY <5>1, <5>2
      <4> HIDE DEF v, p, y
      <4> QED BY <2>2, <4>2, <4>3, <4>4, HeadedJoin
    <3> QED BY <3>1, <3>2
  <2>5. p \o v \in Seq(Message)
    <3> HIDE DEF p, v
    <3> QED BY <2>2, ConcatProperties
  <2> DEFINE q == p \o v
  <2>6. Headed(q \o w)
    <3>1. q \in Seq(Message) /\ Headed(q) BY <2>4, <2>5
    <3> HIDE DEF q, w
    <3> QED BY <2>2, <3>1, HeadedJoin
  <2> QED BY <2>1, <2>3, <2>6
<1>6. n \in T
  <2> HIDE DEF T, n
  <2> QED BY <1>1, <1>4, <1>5, NatInduct
<1>7. n \in 1 .. n BY <1>1
<1> QED BY <1>2, <1>6, <1>7

-----------------------------------------------------------------------------
(* Shrinking results changes nothing else *)

\* t is s with other texts in its results.
Alike(s, t) ==
    /\ s \in Seq(Message) /\ t \in Seq(Message) /\ Len(t) = Len(s)
    /\ \A i \in 1 .. Len(s) :
          /\ t[i].role = s[i].role /\ t[i].calls = s[i].calls /\ t[i].id = s[i].id
          /\ s[i].role # "tool" => t[i] = s[i]

LEMMA AlikeMade ==
    ASSUME NEW s \in Seq(Message), NEW t, DOMAIN t = DOMAIN s, t = [i \in DOMAIN s |-> t[i]],
           \A i \in 1 .. Len(s) :
              t[i] = s[i] \/ (s[i].role = "tool" /\ \E n \in Nat : t[i] = [s[i] EXCEPT !.size = n])
    PROVE  Alike(s, t)
<1>1. Len(s) \in Nat /\ DOMAIN s = 1 .. Len(s) BY LenProperties
<1>2. ASSUME NEW i \in 1 .. Len(s)
      PROVE  /\ t[i] \in Message
             /\ t[i].role = s[i].role /\ t[i].calls = s[i].calls /\ t[i].id = s[i].id
             /\ s[i].role # "tool" => t[i] = s[i]
  <2>1. s[i] \in Message BY ElementOfSeq
  <2>2. CASE t[i] = s[i] BY <2>1, <2>2
  <2>3. CASE s[i].role = "tool" /\ \E n \in Nat : t[i] = [s[i] EXCEPT !.size = n]
    <3>1. PICK n \in Nat : t[i] = [s[i] EXCEPT !.size = n] BY <2>3
    <3> DEFINE m == s[i]
               k == t[i]
    <3>2. m \in Message /\ k = [m EXCEPT !.size = n] /\ m.role = "tool" BY <2>1, <2>3, <3>1
    <3> HIDE DEF m, k
    <3>3. k \in Message /\ k.role = m.role /\ k.calls = m.calls /\ k.id = m.id BY ONLY n \in Nat, <3>2 DEF Message
    <3> QED BY <3>2, <3>3 DEF m, k
  <2> QED BY <2>2, <2>3
<1>3. t \in Seq(Message) /\ Len(t) = Len(s)
  <2>1. t = [i \in 1 .. Len(s) |-> t[i]] BY <1>1
  <2> QED BY <1>1, <1>2, <2>1, IsASeq, LenProperties
<1> QED BY <1>2, <1>3 DEF Alike

LEMMA AlikeTrans ==
    ASSUME NEW s, NEW t, NEW u, Alike(s, t), Alike(t, u)
    PROVE  Alike(s, u)
<1>1. /\ s \in Seq(Message) /\ u \in Seq(Message) /\ Len(u) = Len(s) /\ Len(t) = Len(s)
  BY DEF Alike
<1>2. ASSUME NEW i \in 1 .. Len(s)
      PROVE  /\ u[i].role = s[i].role /\ u[i].calls = s[i].calls /\ u[i].id = s[i].id
             /\ s[i].role # "tool" => u[i] = s[i]
  <2>1. i \in 1 .. Len(t) BY <1>1
  <2>2. /\ t[i].role = s[i].role /\ t[i].calls = s[i].calls /\ t[i].id = s[i].id
        /\ s[i].role # "tool" => t[i] = s[i]
    BY DEF Alike
  <2>3. /\ u[i].role = t[i].role /\ u[i].calls = t[i].calls /\ u[i].id = t[i].id
        /\ t[i].role # "tool" => u[i] = t[i]
    BY <2>1 DEF Alike
  <2> QED BY <2>2, <2>3
<1> QED BY <1>1, <1>2 DEF Alike

LEMMA AlikeMicrocompact ==
    ASSUME NEW s \in Seq(Message)
    PROVE  Alike(s, Microcompact(s))
<1> DEFINE compactable == {i \in DOMAIN s : s[i].role = "tool" /\ s[i].name \in Compactable}
           Old(i) == i \in compactable /\ Cardinality({j \in compactable : j >= i}) > KeepRecent
           t == [i \in DOMAIN s |-> IF Old(i) THEN [s[i] EXCEPT !.size = SummarySize] ELSE s[i]]
<1>1. Microcompact(s) = t BY DEF Microcompact
<1>2. \A i : Old(i) => s[i].role = "tool" OBVIOUS
<1>3. SummarySize \in Nat BY DEF SummarySize
<1>4. DOMAIN s = 1 .. Len(s) BY LenProperties
<1> HIDE DEF Old
<1>5. ASSUME NEW i \in 1 .. Len(s)
      PROVE  t[i] = s[i] \/ (s[i].role = "tool" /\ \E n \in Nat : t[i] = [s[i] EXCEPT !.size = n])
  <2>1. CASE Old(i)
    <3>1. t[i] = [s[i] EXCEPT !.size = SummarySize] BY <1>4, <2>1
    <3> QED BY <1>2, <1>3, <2>1, <3>1
  <2>2. CASE ~Old(i) BY <1>4, <2>2
  <2> QED BY <2>1, <2>2
<1>6. DOMAIN t = DOMAIN s /\ t = [i \in DOMAIN s |-> t[i]] OBVIOUS
<1> HIDE DEF t
<1>7. Alike(s, t) BY <1>5, <1>6, AlikeMade
<1> QED BY <1>1, <1>7

LEMMA NormalizeType ==
    ASSUME NEW n \in Nat
    PROVE  Normalize(n) \in Nat
BY DEF Normalize, ReferenceSize

LEMMA AlikeBudget ==
    ASSUME NEW s \in Seq(Message)
    PROVE  Alike(s, ApplyResultBudget(s))
<1> DEFINE t == ApplyResultBudget(s)
<1>1. DOMAIN s = 1 .. Len(s) BY LenProperties
<1>2. ASSUME NEW i \in 1 .. Len(s)
      PROVE  t[i] = s[i] \/ (s[i].role = "tool" /\ \E n \in Nat : t[i] = [s[i] EXCEPT !.size = n])
  <2>1. CASE s[i].role = "tool"
    <3>1. t[i] = [s[i] EXCEPT !.size = Normalize(s[i].size)] BY <1>1, <2>1 DEF ApplyResultBudget
    <3>2. s[i].size \in Nat
      <4>1. s[i] \in Message BY ElementOfSeq
      <4> QED BY <4>1 DEF Message
    <3>3. Normalize(s[i].size) \in Nat BY <3>2, NormalizeType
    <3> QED BY <2>1, <3>1, <3>3
  <2>2. CASE s[i].role # "tool" BY <1>1, <2>2 DEF ApplyResultBudget
  <2> QED BY <2>1, <2>2
<1>3. DOMAIN t = DOMAIN s /\ t = [i \in DOMAIN s |-> t[i]] BY DEF ApplyResultBudget
<1> HIDE DEF t
<1>4. Alike(s, t) BY <1>2, <1>3, AlikeMade
<1> QED BY <1>4 DEF t

LEMMA AlikeTidy ==
    ASSUME NEW s, NEW t, Alike(s, t), Tidy(s)
    PROVE  Tidy(t)
<1> DEFINE n == Len(s)
<1>1. /\ s \in Seq(Message) /\ t \in Seq(Message) /\ Len(t) = n /\ n \in Nat
      /\ DOMAIN s = 1 .. n /\ DOMAIN t = 1 .. n
  BY LenProperties DEF Alike
<1>2. \A i \in 1 .. n : t[i].role = s[i].role /\ t[i].calls = s[i].calls /\ t[i].id = s[i].id
  BY DEF Alike
<1> HIDE DEF n
<1>3. ASSUME NEW j \in 1 .. n
      PROVE  /\ BlockOf(t, j) = BlockOf(s, j)
             /\ \A i \in BlockOf(s, j) : i \in 1 .. n
  <2>1. ASSUME NEW i \in (j + 1) .. n, NEW k \in (j + 1) .. i PROVE k \in 1 .. n /\ i \in 1 .. n BY <1>1
  <2>2. \A i \in (j + 1) .. n : (\A k \in (j + 1) .. i : t[k].role = "tool")
                                    <=> (\A k \in (j + 1) .. i : s[k].role = "tool")
    BY <1>2, <2>1
  <2>3. ASSUME NEW i \in (j + 1) .. n PROVE i \in 1 .. n BY <1>1
  <2> QED BY <1>1, <2>2, <2>3 DEF BlockOf, n
<1>4. ASSUME NEW j \in 1 .. n, t[j].role # "tool"
      PROVE  Ids(t[j].calls) = {t[i].id : i \in BlockOf(t, j)}
  <2>1. Ids(s[j].calls) = {s[i].id : i \in BlockOf(s, j)} BY <1>1, <1>2, <1>4 DEF Tidy, Legal
  <2>2. \A i \in BlockOf(s, j) : t[i].id = s[i].id BY <1>2, <1>3
  <2>3. {s[i].id : i \in BlockOf(s, j)} = {t[i].id : i \in BlockOf(s, j)} BY <2>2
  <2> QED BY <1>2, <1>3, <2>1, <2>3
<1>5. ASSUME NEW j \in 1 .. n, t[j].role = "tool"
      PROVE  \E i \in 1 .. (j - 1) : t[j].id \in Ids(t[i].calls)
  <2>1. PICK i \in 1 .. (j - 1) : s[j].id \in Ids(s[i].calls) BY <1>1, <1>2, <1>5 DEF Tidy, Legal
  <2>2. i \in 1 .. n BY <1>1
  <2> QED BY <1>2, <2>1, <2>2
<1>6. t # <<>> => t[1].role # "tool"
  <2> SUFFICES ASSUME t # <<>> PROVE t[1].role # "tool"
    OBVIOUS
  <2>1. n # 0 BY <1>1, EmptySeq
  <2>2. s # <<>> /\ 1 \in 1 .. n BY <1>1, <2>1, EmptySeq DEF n
  <2> QED BY <1>2, <2>2 DEF Tidy
<1> QED BY <1>1, <1>4, <1>5, <1>6 DEF Tidy, Legal

LEMMA AlikeHeaded ==
    ASSUME NEW s, NEW t, Alike(s, t), Headed(s)
    PROVE  Headed(t)
<1>1. s \in Seq(Message) /\ t \in Seq(Message) /\ Len(t) = Len(s) /\ Len(s) \in Nat
  BY LenProperties DEF Alike
<1>2. Len(s) # 0 BY <1>1, EmptySeq DEF Headed
<1>3. t # <<>> BY <1>1, <1>2, EmptySeq
<1>4. t[1] = System
  <2>1. 1 \in 1 .. Len(s) BY <1>1, <1>2
  <2> QED BY <2>1, BuiltMessages DEF Headed, Alike
<1>5. ASSUME NEW k \in 2 .. Len(t) PROVE t[k].role # "system"
  <2>1. k \in 2 .. Len(s) /\ k \in 1 .. Len(s) BY <1>1
  <2> QED BY <2>1 DEF Headed, Alike
<1> QED BY <1>3, <1>4, <1>5 DEF Headed

-----------------------------------------------------------------------------
(* Cutting the transcript *)

LEMMA Parts ==
    ASSUME NEW s \in Seq(Message), NEW t \in Seq(Message)
    PROVE  /\ s \o t \in Seq(Message) /\ Len(s) \in Nat /\ Len(t) \in Nat
           /\ Len(s \o t) = Len(s) + Len(t) /\ DOMAIN (s \o t) = 1 .. Len(s) + Len(t)
           /\ \A i \in 1 .. Len(s) : (s \o t)[i] = s[i]
           /\ \A i \in 1 .. Len(t) : (s \o t)[Len(s) + i] = t[i]
           /\ From(s \o t, Len(s) + 1) = t
<1>1. s \in Seq(Message) /\ t \in Seq(Message) OBVIOUS
<1> QED BY ONLY <1>1, ConcatAt, CutConcat

\* A sequence cut in front of its a-th member.
LEMMA CutAt ==
    ASSUME NEW s \in Seq(Message), NEW a \in 1 .. Len(s)
    PROVE  \E p \in Seq(Message) : /\ s = p \o From(s, a) /\ From(s, a) \in Seq(Message)
                                   /\ Len(p) = a - 1 /\ From(s, a) # <<>> /\ From(s, a)[1] = s[a]
                                   /\ Len(s) = Len(p) + Len(From(s, a))
<1> DEFINE n == Len(s)
           k == a - 1
           p == SubSeq(s, 1, k)
           t == SubSeq(s, a, n)
<1>1. n \in Nat /\ a \in Nat /\ k \in Nat /\ k <= n /\ k + 1 = a BY LenProperties
<1>2. \A i \in 1 .. n : s[i] \in Message BY ElementOfSeq
<1>3. p \in Seq(Message) /\ Len(p) = k
  <2>1. 1 \in Int /\ k \in Int /\ \A i \in 1 .. k : s[i] \in Message BY <1>1, <1>2
  <2> HIDE DEF k
  <2>2. p \in Seq(Message) /\ Len(p) = (IF 1 <= k THEN k - 1 + 1 ELSE 0) BY ONLY <2>1, SubSeqProperties
  <2> QED BY <1>1, <2>2
<1>4. t \in Seq(Message) /\ Len(t) = n - a + 1 /\ t[1] = s[a]
  <2>1. a \in Int /\ n \in Int /\ \A i \in a .. n : s[i] \in Message BY <1>1, <1>2
  <2> HIDE DEF n
  <2>2. t \in Seq(Message) /\ Len(t) = (IF a <= n THEN n - a + 1 ELSE 0)
        /\ \A i \in 1 .. n - a + 1 : t[i] = s[a + i - 1]
    BY ONLY <2>1, SubSeqProperties
  <2>3. a <= n /\ 1 \in 1 .. n - a + 1 /\ a + 1 - 1 = a BY <1>1 DEF n
  <2> QED BY <2>2, <2>3
<1>5. p \o t = s
  <2>1. 1 \in 1 .. Len(s) + 1 /\ k \in 1 - 1 .. Len(s) /\ n \in k .. Len(s) BY <1>1
  <2> HIDE DEF k, n
  <2>2. SubSeq(s, 1, k) \o SubSeq(s, k + 1, n) = SubSeq(s, 1, n) BY <2>1, ConcatAdjacentSubSeq
  <2>3. SubSeq(s, 1, n) = s BY SubSeqFull DEF n
  <2> QED BY <1>1, <2>2, <2>3
<1>6. t = From(s, a) BY DEF From
<1>7. t # <<>>
  <2>1. Len(t) # 0 BY <1>1, <1>4
  <2> HIDE DEF t
  <2> QED BY <2>1, EmptySeq
<1>8. n = Len(p) + Len(t) BY <1>1, <1>3, <1>4
<1> QED BY <1>3, <1>4, <1>5, <1>6, <1>7, <1>8

\* What follows a cut in a tidy transcript is tidy, unless it begins with a result.
LEMMA TidySuffix ==
    ASSUME NEW p \in Seq(Message), NEW t \in Seq(Message), Tidy(p \o t),
           t # <<>> => t[1].role # "tool"
    PROVE  Tidy(t)
<1> DEFINE q == p \o t
           a == Len(p)
           b == Len(t)
<1>1. /\ a \in Nat /\ b \in Nat /\ Len(q) = a + b /\ DOMAIN q = 1 .. a + b
      /\ \A i \in 1 .. b : q[a + i] = t[i]
  BY ONLY p \in Seq(Message), t \in Seq(Message), Parts
<1>2. Legal(q) /\ DOMAIN t = 1 .. b BY LenProperties DEF Tidy
<1> HIDE DEF q, a, b
<1>3. ASSUME NEW j \in 1 .. b, t[j].role # "tool"
      PROVE  Ids(t[j].calls) = {t[i].id : i \in BlockOf(t, j)}
  <2>1. a + j \in 1 .. a + b /\ q[a + j] = t[j] BY <1>1
  <2>2. Ids(t[j].calls) = {q[i].id : i \in BlockOf(q, a + j)} BY <1>1, <1>2, <1>3, <2>1 DEF Legal
  <2>3. ASSUME NEW i \in BlockOf(t, j) PROVE \E k \in BlockOf(q, a + j) : q[k].id = t[i].id
    <3>1. i \in (j + 1) .. b /\ \A k \in (j + 1) .. i : t[k].role = "tool" BY DEF BlockOf, b
    <3>2. a + i \in (a + j + 1) .. a + b /\ i \in 1 .. b BY <1>1, <3>1
    <3>3. ASSUME NEW k \in (a + j + 1) .. a + i PROVE q[k].role = "tool"
      <4>1. PICK l \in (j + 1) .. i : k = a + l
        <5>1. k - a \in (j + 1) .. i /\ k = a + (k - a) BY <1>1, <3>1
        <5> QED BY <5>1
      <4>2. l \in 1 .. b BY <1>1, <3>1
      <4> QED BY <1>1, <3>1, <4>1, <4>2
    <3>4. a + i \in BlockOf(q, a + j) BY <1>1, <3>2, <3>3 DEF BlockOf
    <3>5. q[a + i] = t[i] BY <1>1, <3>2
    <3> QED BY <3>4, <3>5
  <2>4. ASSUME NEW k \in BlockOf(q, a + j) PROVE \E i \in BlockOf(t, j) : q[k].id = t[i].id
    <3>1. k \in (a + j + 1) .. a + b /\ \A l \in (a + j + 1) .. k : q[l].role = "tool"
      BY <1>1 DEF BlockOf
    <3>2. PICK i \in (j + 1) .. b : k = a + i
      <4>1. k - a \in (j + 1) .. b /\ k = a + (k - a) BY <1>1, <3>1
      <4> QED BY <4>1
    <3>3. ASSUME NEW l \in (j + 1) .. i PROVE t[l].role = "tool"
      <4>1. a + l \in (a + j + 1) .. k /\ l \in 1 .. b BY <1>1, <3>2
      <4> QED BY <1>1, <3>1, <4>1
    <3>4. i \in BlockOf(t, j) /\ i \in 1 .. b BY <1>1, <3>2, <3>3 DEF BlockOf, b
    <3>5. q[k] = t[i] BY <1>1, <3>2, <3>4
    <3> QED BY <3>4, <3>5
  <2> QED BY <2>2, <2>3, <2>4
<1>4. ASSUME NEW j \in 1 .. b, t[j].role = "tool"
      PROVE  \E i \in 1 .. (j - 1) : t[j].id \in Ids(t[i].calls)
  <2>1. b # 0 /\ 1 \in 1 .. j /\ j \in Nat BY <1>1
  <2>2. t # <<>> BY <2>1, EmptySeq DEF b
  <2> DEFINE o == BlockOwner(t, j)
  <2>3. Opens(t, o, j) BY <2>1, <2>2, OwnerOpens
  <2> HIDE DEF o
  <2>4. o \in 1 .. j /\ t[o].role # "tool" /\ \A k \in (o + 1) .. j : t[k].role = "tool"
    BY <2>3 DEF Opens
  <2>5. o # j BY <1>4, <2>4
  <2>6. o \in 1 .. (j - 1) /\ o \in 1 .. b /\ j \in (o + 1) .. b BY <1>1, <2>4, <2>5
  <2>7. j \in BlockOf(t, o) BY <2>4, <2>6 DEF BlockOf, b
  <2>8. t[j].id \in Ids(t[o].calls) BY <1>3, <2>4, <2>6, <2>7
  <2> QED BY <2>6, <2>8
<1> QED BY <1>2, <1>3, <1>4 DEF Tidy, Legal

LEMMA KeepAtNone ==
    ASSUME NEW s \in Seq(Message), NEW S, \A i \in 1 .. Len(s) : i \notin S
    PROVE  KeepAt(s, S) = <<>>
<1> DEFINE r == KeepAt(s, S)
<1>1. r \in Seq(Message) BY KeepAtPlaces
<1>2. PICK g : Places(g, r, s, S, Len(s)) BY KeepAtPlaces
<1> HIDE DEF r
<1>3. ASSUME NEW k \in 1 .. Len(r) PROVE FALSE
  <2>1. g[k] \in 1 .. Len(s) /\ g[k] \in S BY <1>2 DEF Places
  <2> QED BY <2>1
<1>4. Len(r) = 0
  <2>1. Len(r) \in Nat BY <1>1, LenProperties
  <2>2. Len(r) # 0 => 1 \in 1 .. Len(r) BY <2>1
  <2> QED BY <1>3, <2>2
<1>5. r = <<>> BY <1>1, <1>4, EmptySeq
<1> QED BY <1>5 DEF r

\* The system message and the rest, as SnipHistory tells them apart.
LEMMA HeadedSplit ==
    ASSUME NEW z \in Seq(Message), Headed(z), NEW rest, rest = KeepAt(z, {i \in DOMAIN z : z[i].role # "system"})
    PROVE  /\ KeepAt(z, {i \in DOMAIN z : z[i].role = "system"}) = <<System>>
           /\ rest \in Seq(Message) /\ z = <<System>> \o rest
<1> DEFINE v == <<System>>
           t == From(z, 2)
           n == Len(z)
           S == {i \in DOMAIN z : z[i].role # "system"}
           Y == {i \in DOMAIN z : z[i].role = "system"}
<1>1. /\ v \in Seq(Message) /\ Len(v) = 1 /\ v[1] = System /\ System.role = "system"
      /\ n \in Nat /\ DOMAIN z = 1 .. n /\ n # 0 /\ z[1] = System
  BY BuiltMessages, OneMessage, LenProperties, EmptySeq DEF Headed
<1>2. z = v \o t /\ t \in Seq(Message)
  <2>1. 1 \in 1 .. n BY <1>1
  <2>2. z = <<z[1]>> \o SubSeq(z, 1 + 1, n)
    <3>1. SubSeq(z, 1, n) = <<z[1]>> \o SubSeq(z, 1 + 1, n)
      <4>1. n \in 1 .. Len(z) BY <1>1
      <4> QED BY <2>1, <4>1, SubSeqRecursiveFirst
    <3>2. SubSeq(z, 1, n) = z BY SubSeqFull
    <3> QED BY <3>1, <3>2
  <2>3. t \in Seq(Message)
    <3>1. \A i \in 2 .. n : z[i] \in Message
      <4>1. \A i \in 2 .. n : i \in 1 .. n BY <1>1
      <4> QED BY <4>1, ElementOfSeq
    <3>2. 2 \in Int /\ n \in Int BY <1>1
    <3>3. SubSeq(z, 2, n) \in Seq(Message)
      <4> HIDE DEF n
      <4> QED BY ONLY <3>1, <3>2, SubSeqProperties
    <3> QED BY <3>3 DEF From
  <2>4. 1 + 1 = 2 OBVIOUS
  <2> QED BY <1>1, <2>2, <2>3, <2>4 DEF From
<1> HIDE DEF v, t
<1>3. n = 1 + Len(t) /\ Len(t) \in Nat
  <2>1. Len(v \o t) = Len(v) + Len(t) /\ Len(t) \in Nat BY <1>1, <1>2, Parts
  <2> QED BY <1>1, <1>2, <2>1
<1>4. rest = t
  <2>1. \A i \in 1 .. Len(t) : Len(v) + i \in S
    <3> SUFFICES ASSUME NEW i \in 1 .. Len(t) PROVE 1 + i \in S
      BY <1>1
    <3>1. 1 + i \in 2 .. n BY <1>3
    <3>2. 1 + i \in 1 .. n BY <1>3
    <3> QED BY <1>1, <3>1, <3>2 DEF Headed
  <2>2. KeepAt(v \o t, S) = KeepAt(v, S) \o t
    <3> HIDE DEF S
    <3> QED BY <1>1, <1>2, <2>1, KeepAtTail
  <2>3. KeepAt(v, S) = <<>>
    <3>1. \A i \in 1 .. Len(v) : i \notin S
      <4>1. \A i \in 1 .. Len(v) : i = 1 BY <1>1
      <4> QED BY <1>1, <4>1
    <3> HIDE DEF S
    <3> QED BY <1>1, <3>1, KeepAtNone
  <2>4. <<>> \o t = t BY <1>2, ConcatEmptySeq
  <2> QED BY <1>2, <2>2, <2>3, <2>4
<1>5. KeepAt(z, Y) = v
  <2> DEFINE r == KeepAt(z, Y)
  <2>1. 1 \in Y BY <1>1
  <2>2. \A i \in Y : i = 1
    <3> SUFFICES ASSUME NEW i \in Y, i # 1 PROVE FALSE
      OBVIOUS
    <3>1. i \in 1 .. n /\ z[i].role = "system" BY <1>1
    <3>2. i \in 2 .. n BY <1>1, <3>1
    <3> QED BY <3>1, <3>2 DEF Headed
  <2> HIDE DEF Y
  <2>3. r \in Seq(Message) BY KeepAtPlaces
  <2>4. PICK g : Places(g, r, z, Y, n) BY KeepAtPlaces
  <2> HIDE DEF r
  <2>5. Len(r) \in Nat BY <2>3, LenProperties
  <2>6. ASSUME NEW k \in 1 .. Len(r) PROVE g[k] = 1 /\ r[k] = System
    <3>1. g[k] \in Y /\ r[k] = z[g[k]] BY <2>4 DEF Places
    <3> QED BY <1>1, <2>2, <3>1
  <2>7. Len(r) = 1
    <3>1. Len(r) # 0
      <4>1. 1 \in 1 .. n BY <1>1
      <4>2. \E k \in 1 .. Len(r) : g[k] = 1 BY <2>1, <2>4, <4>1 DEF Places
      <4> QED BY <2>5, <4>2
    <3>2. ~(2 <= Len(r))
      <4> SUFFICES ASSUME 2 <= Len(r) PROVE FALSE
        OBVIOUS
      <4>1. 1 \in 1 .. Len(r) /\ 2 \in 1 .. Len(r) /\ 1 < 2 BY <2>5
      <4>2. g[1] < g[2] BY <2>4, <4>1 DEF Places
      <4>3. g[1] = 1 /\ g[2] = 1 BY <2>6, <4>1
      <4> QED BY <4>2, <4>3
    <3>3. \A l \in Nat : l # 0 /\ ~(2 <= l) => l = 1 OBVIOUS
    <3> QED BY <2>5, <3>1, <3>2, <3>3
  <2>8. \A k \in 1 .. 1 : r[k] = v[k]
    <3>1. \A k \in 1 .. 1 : k = 1 OBVIOUS
    <3> QED BY <1>1, <2>6, <2>7, <3>1
  <2>9. r = v BY <1>1, <2>3, <2>7, <2>8, SeqEqual
  <2> QED BY <2>9 DEF r
<1> QED BY <1>2, <1>4, <1>5 DEF v

\* The recursive function inside FindLegalStart exists.
LEMMA StartRec ==
    ASSUME NEW s, Len(s) \in Nat
    PROVE  \E f : /\ f = [i \in 0 .. Len(s) |->
                            IF i = 0 THEN 1
                            ELSE IF s[i].role = "tool"
                                       /\ s[i].id \notin UNION {Ids(s[j].calls) : j \in f[i - 1] .. (i - 1)}
                                 THEN i + 1 ELSE f[i - 1]]
                  /\ FindLegalStart(s) = f[Len(s)]
<1> DEFINE Round(x, k) ==
               IF s[k].role = "tool" /\ s[k].id \notin UNION {Ids(s[j].calls) : j \in x .. (k - 1)}
               THEN k + 1 ELSE x
           Rec(f, m) == f = [k \in 0 .. m |-> IF k = 0 THEN 1 ELSE Round(f[k - 1], k)]
           T == {m \in Nat : \E f : Rec(f, m)}
<1>1. FindLegalStart(s) = (CHOOSE f : Rec(f, Len(s)))[Len(s)] BY DEF FindLegalStart
<1> HIDE DEF Round
<1>2. 0 \in T
  <2> DEFINE g == [k \in 0 .. 0 |-> 1]
  <2>1. Rec(g, 0) OBVIOUS
  <2> QED BY <2>1
<1>3. ASSUME NEW m \in Nat, m \in T PROVE m + 1 \in T
  <2>1. PICK f : Rec(f, m) BY <1>3
  <2> DEFINE n == m + 1
             g == [k \in 0 .. n |-> IF k = n THEN Round(f[m], n) ELSE f[k]]
             h == [k \in 0 .. n |-> IF k = 0 THEN 1 ELSE Round(g[k - 1], k)]
  <2>2. \A k \in 0 .. n : g[k] = h[k]
    <3> SUFFICES ASSUME NEW k \in 0 .. n PROVE g[k] = h[k]
      OBVIOUS
    <3>1. CASE k = n
      <4>1. m \in 0 .. n /\ m # n /\ k - 1 = m /\ k # 0 BY <3>1
      <4>2. g[m] = f[m] BY <4>1
      <4> QED BY <3>1, <4>1, <4>2
    <3>2. CASE k # n
      <4>1. k \in 0 .. m BY <3>2
      <4>2. f[k] = IF k = 0 THEN 1 ELSE Round(f[k - 1], k) BY <2>1, <4>1
      <4>3. CASE k = 0 BY <3>2, <4>2, <4>3
      <4>4. CASE k # 0
        <5>1. k - 1 \in 0 .. n /\ k - 1 # n BY <3>2, <4>4
        <5>2. g[k - 1] = f[k - 1] BY <5>1
        <5> QED BY <3>2, <4>2, <4>4, <5>2
      <4> QED BY <4>3, <4>4
    <3> QED BY <3>1, <3>2
  <2>3. g = h BY <2>2
  <2>4. Rec(g, n) BY <2>3
  <2>5. n \in Nat OBVIOUS
  <2> QED BY <2>4, <2>5
<1>4. Len(s) \in T
  <2> HIDE DEF T
  <2> QED BY <1>2, <1>3, NatInduct
<1> DEFINE f == CHOOSE g : Rec(g, Len(s))
<1>5. Rec(f, Len(s)) BY <1>4
<1> HIDE DEF f
<1>6. f = [i \in 0 .. Len(s) |->
             IF i = 0 THEN 1
             ELSE IF s[i].role = "tool"
                        /\ s[i].id \notin UNION {Ids(s[j].calls) : j \in f[i - 1] .. (i - 1)}
                  THEN i + 1 ELSE f[i - 1]]
  BY <1>5 DEF Round
<1>7. FindLegalStart(s) = f[Len(s)] BY <1>1 DEF f
<1> QED BY <1>6, <1>7

\* A tidy tail is kept from its first message on.
LEMMA LegalFromStart ==
    ASSUME NEW s, Tidy(s)
    PROVE  From(s, FindLegalStart(s)) = s
<1> DEFINE n == Len(s)
<1>1. s \in Seq(Message) /\ Legal(s) /\ n \in Nat /\ DOMAIN s = 1 .. n BY LenProperties DEF Tidy
<1>2. PICK f : /\ f = [i \in 0 .. n |->
                         IF i = 0 THEN 1
                         ELSE IF s[i].role = "tool"
                                    /\ s[i].id \notin UNION {Ids(s[j].calls) : j \in f[i - 1] .. (i - 1)}
                              THEN i + 1 ELSE f[i - 1]]
               /\ FindLegalStart(s) = f[n]
  BY <1>1, StartRec
<1> DEFINE T == {m \in Nat : m <= n => f[m] = 1}
<1>3. 0 \in T
  <2>1. 0 \in 0 .. n BY <1>1
  <2> QED BY <1>2, <2>1
<1>4. ASSUME NEW m \in Nat, m \in T PROVE m + 1 \in T
  <2> SUFFICES ASSUME m + 1 <= n PROVE f[m + 1] = 1
    OBVIOUS
  <2> DEFINE k == m + 1
  <2>1. k \in 0 .. n /\ k \in 1 .. n /\ k # 0 /\ k - 1 = m /\ m <= n BY <1>1
  <2>2. f[m] = 1 BY <1>4, <2>1
  <2> HIDE DEF k
  <2>3. f[k] = IF s[k].role = "tool"
                    /\ s[k].id \notin UNION {Ids(s[j].calls) : j \in f[k - 1] .. (k - 1)}
               THEN k + 1 ELSE f[k - 1]
    BY <1>2, <2>1
  <2>4. ASSUME s[k].role = "tool" PROVE s[k].id \in DeclaredBefore(s, k)
    <3>1. PICK j \in 1 .. (k - 1) : s[k].id \in Ids(s[j].calls) BY <1>1, <2>1, <2>4 DEF Legal
    <3> QED BY <3>1, DeclaredAt
  <2>5. f[k - 1] = 1 BY <2>1, <2>2
  <2>6. s[k].role = "tool" => s[k].id \in UNION {Ids(s[j].calls) : j \in f[k - 1] .. (k - 1)}
    BY <2>4, <2>5 DEF DeclaredBefore
  <2>7. f[k] = f[k - 1] BY <2>3, <2>6
  <2> QED BY <2>5, <2>7 DEF k
<1>5. n \in T
  <2> HIDE DEF T, n
  <2> QED BY <1>1, <1>3, <1>4, NatInduct
<1>6. FindLegalStart(s) = 1 BY <1>1, <1>2, <1>5
<1> QED BY <1>1, <1>6, SubSeqFull DEF From

-----------------------------------------------------------------------------
(* Tokens *)

\* A message costs at least its overhead.
LEMMA MessageCost ==
    ASSUME NEW m \in Message
    PROVE  MessageTokens(m) \in Nat /\ MessageTokens(m) > 0
<1> DEFINE n == m.size + IF m.role = "user" THEN Media ELSE 0
<1>1. n \in Nat
  <2>1. m.size \in Nat BY DEF Message
  <2>2. Media \in Nat BY RunnerAssumption DEF RunnerConstants
  <2> QED BY <2>1, <2>2
<1> HIDE DEF n
<1>2. (n + 3) \div 4 \in Nat BY <1>1
<1>3. MessageTokens(m) = ((n + 3) \div 4) + 4 BY DEF MessageTokens, CharTokens, n
<1> QED BY <1>2, <1>3

\* The recursive function inside Tokens exists, and adds up natural numbers.
LEMMA TokensRec ==
    ASSUME NEW s \in Seq(Message)
    PROVE  \E f : /\ f[0] = 0
                  /\ \A i \in 1 .. Len(s) : f[i] = f[i - 1] + MessageTokens(s[i])
                  /\ \A i \in 0 .. Len(s) : f[i] \in Nat
                  /\ Tokens(s) = f[Len(s)]
<1> DEFINE Round(x, k) == x + MessageTokens(s[k])
           Rec(f, m) == f = [k \in 0 .. m |-> IF k = 0 THEN 0 ELSE Round(f[k - 1], k)]
           T == {m \in Nat : \E f : Rec(f, m)}
<1>1. Tokens(s) = (CHOOSE f : Rec(f, Len(s)))[Len(s)] BY DEF Tokens
<1> HIDE DEF Round
<1>2. 0 \in T
  <2> DEFINE g == [k \in 0 .. 0 |-> 0]
  <2>1. Rec(g, 0) OBVIOUS
  <2> QED BY <2>1
<1>3. ASSUME NEW m \in Nat, m \in T PROVE m + 1 \in T
  <2>1. PICK f : Rec(f, m) BY <1>3
  <2> DEFINE n == m + 1
             g == [k \in 0 .. n |-> IF k = n THEN Round(f[m], n) ELSE f[k]]
             h == [k \in 0 .. n |-> IF k = 0 THEN 0 ELSE Round(g[k - 1], k)]
  <2>2. \A k \in 0 .. n : g[k] = h[k]
    <3> SUFFICES ASSUME NEW k \in 0 .. n PROVE g[k] = h[k]
      OBVIOUS
    <3>1. CASE k = n
      <4>1. m \in 0 .. n /\ m # n /\ k - 1 = m /\ k # 0 BY <3>1
      <4>2. g[m] = f[m] BY <4>1
      <4> QED BY <3>1, <4>1, <4>2
    <3>2. CASE k # n
      <4>1. k \in 0 .. m BY <3>2
      <4>2. f[k] = IF k = 0 THEN 0 ELSE Round(f[k - 1], k) BY <2>1, <4>1
      <4>3. CASE k = 0 BY <3>2, <4>2, <4>3
      <4>4. CASE k # 0
        <5>1. k - 1 \in 0 .. n /\ k - 1 # n BY <3>2, <4>4
        <5>2. g[k - 1] = f[k - 1] BY <5>1
        <5> QED BY <3>2, <4>2, <4>4, <5>2
      <4> QED BY <4>3, <4>4
    <3> QED BY <3>1, <3>2
  <2>3. g = h BY <2>2
  <2>4. Rec(g, n) BY <2>3
  <2>5. n \in Nat OBVIOUS
  <2> QED BY <2>4, <2>5
<1>4. Len(s) \in Nat /\ \A i \in 1 .. Len(s) : MessageTokens(s[i]) \in Nat
  <2>1. \A i \in 1 .. Len(s) : s[i] \in Message BY ElementOfSeq
  <2> QED BY <2>1, LenProperties, MessageCost
<1>5. Len(s) \in T
  <2> HIDE DEF T
  <2> QED BY <1>2, <1>3, <1>4, NatInduct
<1> DEFINE f == CHOOSE g : Rec(g, Len(s))
           n == Len(s)
<1>6. Rec(f, n) BY <1>5
<1> HIDE DEF f
<1>7. \A i \in 0 .. n : f[i] = IF i = 0 THEN 0 ELSE f[i - 1] + MessageTokens(s[i]) BY <1>6 DEF Round
<1>8. f[0] = 0
  <2>1. 0 \in 0 .. n BY <1>4
  <2> QED BY <1>7, <2>1
<1>9. ASSUME NEW i \in 1 .. n PROVE f[i] = f[i - 1] + MessageTokens(s[i])
  <2>1. i \in 0 .. n /\ i # 0 BY <1>4
  <2> QED BY <1>7, <2>1
<1> DEFINE U == {m \in Nat : m <= n => f[m] \in Nat}
<1>10. 0 \in U BY <1>8
<1>11. ASSUME NEW m \in Nat, m \in U PROVE m + 1 \in U
  <2> SUFFICES ASSUME m + 1 <= n PROVE f[m + 1] \in Nat
    OBVIOUS
  <2>1. m + 1 \in 1 .. n /\ m <= n /\ (m + 1) - 1 = m BY <1>4
  <2>2. f[m + 1] = f[m] + MessageTokens(s[m + 1]) BY <1>9, <2>1
  <2>3. f[m] \in Nat /\ MessageTokens(s[m + 1]) \in Nat BY <1>4, <1>11, <2>1
  <2> QED BY <2>2, <2>3
<1>12. Nat \subseteq U
  <2> HIDE DEF U
  <2> QED BY <1>10, <1>11, NatInduct
<1>13. ASSUME NEW m \in 0 .. n PROVE f[m] \in Nat
  <2>1. m \in Nat /\ m <= n BY <1>4
  <2> QED BY <1>12, <2>1
<1>14. Tokens(s) = f[n] BY <1>1 DEF f
<1> QED BY <1>8, <1>9, <1>13, <1>14

LEMMA TokensJoin ==
    ASSUME NEW s \in Seq(Message), NEW t \in Seq(Message)
    PROVE  /\ Tokens(s) \in Nat /\ Tokens(t) \in Nat
           /\ Tokens(s \o t) = Tokens(s) + Tokens(t)
<1> DEFINE q == s \o t
           a == Len(s)
           b == Len(t)
<1>1. /\ q \in Seq(Message) /\ a \in Nat /\ b \in Nat /\ Len(q) = a + b
      /\ \A i \in 1 .. a : q[i] = s[i]
      /\ \A i \in 1 .. b : q[a + i] = t[i]
  BY ONLY s \in Seq(Message), t \in Seq(Message), Parts
<1> HIDE DEF q
<1>2. PICK f : /\ f[0] = 0 /\ (\A i \in 1 .. Len(q) : f[i] = f[i - 1] + MessageTokens(q[i]))
               /\ (\A i \in 0 .. Len(q) : f[i] \in Nat) /\ Tokens(q) = f[Len(q)]
  BY <1>1, TokensRec
<1>3. PICK g : /\ g[0] = 0 /\ (\A i \in 1 .. Len(s) : g[i] = g[i - 1] + MessageTokens(s[i]))
               /\ (\A i \in 0 .. Len(s) : g[i] \in Nat) /\ Tokens(s) = g[Len(s)]
  BY TokensRec
<1>4. PICK h : /\ h[0] = 0 /\ (\A i \in 1 .. Len(t) : h[i] = h[i - 1] + MessageTokens(t[i]))
               /\ (\A i \in 0 .. Len(t) : h[i] \in Nat) /\ Tokens(t) = h[Len(t)]
  BY TokensRec
<1> HIDE DEF a, b
<1>5. f[a] = g[a] /\ g[a] \in Nat
  <2> DEFINE T == {m \in Nat : m <= a => f[m] = g[m]}
  <2>1. 0 \in T BY <1>2, <1>3
  <2>2. ASSUME NEW m \in Nat, m \in T PROVE m + 1 \in T
    <3> SUFFICES ASSUME m + 1 <= a PROVE f[m + 1] = g[m + 1]
      OBVIOUS
    <3>1. m + 1 \in 1 .. a /\ m + 1 \in 1 .. Len(q) /\ m <= a /\ (m + 1) - 1 = m BY <1>1
    <3>2. f[m + 1] = f[m] + MessageTokens(q[m + 1]) BY <1>2, <3>1
    <3>3. g[m + 1] = g[m] + MessageTokens(s[m + 1]) BY <1>3, <3>1 DEF a
    <3> QED BY <1>1, <2>2, <3>1, <3>2, <3>3
  <2>3. a \in T
    <3> HIDE DEF T
    <3> QED BY <1>1, <2>1, <2>2, NatInduct
  <2>4. a \in 0 .. a BY <1>1
  <2> QED BY <1>1, <1>3, <2>3, <2>4 DEF a
<1>6. f[a + b] = g[a] + h[b] /\ h[b] \in Nat
  <2> DEFINE T == {m \in Nat : m <= b => f[a + m] = g[a] + h[m]}
  <2>1. 0 \in T
    <3>1. a + 0 = a /\ g[a] + 0 = g[a] BY <1>1, <1>5
    <3> QED BY <1>4, <1>5, <3>1
  <2>2. ASSUME NEW m \in Nat, m \in T PROVE m + 1 \in T
    <3> SUFFICES ASSUME m + 1 <= b PROVE f[a + (m + 1)] = g[a] + h[m + 1]
      OBVIOUS
    <3>1. /\ m + 1 \in 1 .. b /\ m \in 0 .. b /\ a + (m + 1) \in 1 .. Len(q) /\ m <= b
          /\ (m + 1) - 1 = m /\ (a + (m + 1)) - 1 = a + m
      <4>1. a \in Nat /\ b \in Nat /\ Len(q) = a + b /\ m + 1 <= b BY <1>1
      <4> QED BY ONLY m \in Nat, <4>1
    <3>2. f[a + (m + 1)] = f[a + m] + MessageTokens(q[a + (m + 1)]) BY <1>2, <3>1
    <3>3. h[m + 1] = h[m] + MessageTokens(t[m + 1]) BY <1>4, <3>1 DEF b
    <3>4. q[a + (m + 1)] = t[m + 1] /\ f[a + m] = g[a] + h[m] BY <1>1, <2>2, <3>1
    <3>5. MessageTokens(t[m + 1]) \in Nat /\ h[m] \in Nat
      <4>1. t[m + 1] \in Message BY <3>1, ElementOfSeq DEF b
      <4> QED BY <1>4, <3>1, <4>1, MessageCost DEF b
    <3>6. \A x, y, w \in Nat : (x + y) + w = x + (y + w) OBVIOUS
    <3> QED BY <1>5, <3>2, <3>3, <3>4, <3>5, <3>6
  <2>3. b \in T
    <3> HIDE DEF T
    <3> QED BY <1>1, <2>1, <2>2, NatInduct
  <2>4. b \in 0 .. b BY <1>1
  <2> QED BY <1>1, <1>4, <2>3, <2>4 DEF b
<1>7. Tokens(s) = g[a] /\ Tokens(t) = h[b] /\ Tokens(q) = f[a + b] BY <1>1, <1>2, <1>3, <1>4 DEF a, b
<1> QED BY <1>5, <1>6, <1>7 DEF q

\* A transcript that is not empty costs something.
LEMMA TokensPositive ==
    ASSUME NEW s \in Seq(Message), s # <<>>
    PROVE  Tokens(s) \in Nat /\ Tokens(s) > 0
<1> DEFINE n == Len(s)
<1>1. n \in Nat /\ n # 0 BY LenProperties, EmptySeq
<1>2. PICK f : /\ \A i \in 1 .. n : f[i] = f[i - 1] + MessageTokens(s[i])
               /\ \A i \in 0 .. n : f[i] \in Nat
               /\ Tokens(s) = f[n]
  BY TokensRec
<1>3. n \in 1 .. n /\ n \in 0 .. n /\ n - 1 \in 0 .. n BY <1>1
<1>4. s[n] \in Message BY <1>3, ElementOfSeq
<1>5. f[n] = f[n - 1] + MessageTokens(s[n]) /\ f[n - 1] \in Nat /\ f[n] \in Nat BY <1>2, <1>3
<1>6. MessageTokens(s[n]) \in Nat /\ MessageTokens(s[n]) > 0 BY <1>4, MessageCost
<1> QED BY <1>2, <1>5, <1>6

-----------------------------------------------------------------------------
(* Snipping *)

LEMMA LeastOf ==
    ASSUME NEW S \in SUBSET Nat, S # {}
    PROVE  Min(S) \in S /\ \A y \in S : Min(S) <= y
<1>1. \E x \in S : \A y \in S : x <= y
  <2> SUFFICES ASSUME \A x \in S : \E y \in S : ~(x <= y) PROVE FALSE
    OBVIOUS
  <2> DEFINE T == {n \in Nat : \A m \in 0 .. n : m \notin S}
  <2>1. 0 \in T
    <3>1. 0 \notin S
      <4> SUFFICES ASSUME 0 \in S PROVE FALSE
        OBVIOUS
      <4>1. PICK y \in S : ~(0 <= y) OBVIOUS
      <4> QED BY <4>1
    <3>2. \A m \in 0 .. 0 : m = 0 OBVIOUS
    <3> QED BY <3>1, <3>2
  <2>2. ASSUME NEW n \in Nat, n \in T PROVE n + 1 \in T
    <3>1. n + 1 \notin S
      <4> SUFFICES ASSUME n + 1 \in S PROVE FALSE
        OBVIOUS
      <4>1. PICK y \in S : ~(n + 1 <= y) OBVIOUS
      <4>2. y \in 0 .. n BY <4>1
      <4> QED BY <2>2, <4>2
    <3>2. \A m \in 0 .. n + 1 : m \in 0 .. n \/ m = n + 1 OBVIOUS
    <3> QED BY <2>2, <3>1, <3>2
  <2>3. Nat \subseteq T
    <3> HIDE DEF T
    <3> QED BY <2>1, <2>2, NatInduct
  <2>4. PICK x \in S : TRUE OBVIOUS
  <2>5. x \in T /\ x \in 0 .. x BY <2>3
  <2> QED BY <2>4, <2>5
<1> QED BY <1>1 DEF Min

\* Where the kept tail starts: at a user message, inside the tail that fits or at the last one.
LEMMA TailStart ==
    ASSUME NEW s \in Seq(Message), Users(s) # {}, NEW room \in Int,
           NEW p, p = TailFromUser(s, FittingTail(s, room))
    PROVE  /\ p \in Users(s) /\ p \in 1 .. Len(s)
           /\ \/ \E i \in 1 .. p : Tokens(From(s, i)) <= room
              \/ \A j \in Users(s) : j <= p
<1> DEFINE n == Len(s)
           U == Users(s)
           fits == {i \in DOMAIN s : Tokens(From(s, i)) <= room}
           i == FittingTail(s, room)
           inside == {j \in U : j >= i}
<1>1. n \in Nat /\ DOMAIN s = 1 .. n BY LenProperties
<1>2. U \in SUBSET Nat /\ \A j \in U : j \in 1 .. n BY <1>1 DEF Users
<1>3. i = IF fits = {} THEN n ELSE Min(fits) BY DEF FittingTail
<1>4. p = IF inside # {} THEN Min(inside) ELSE IF U # {} THEN Max(U) ELSE i BY DEF TailFromUser
<1>5. fits \in SUBSET Nat /\ \A j \in fits : j \in 1 .. n BY <1>1
<1>6. fits # {} => i \in fits
  <2> HIDE DEF fits, i
  <2> QED BY <1>3, <1>5, LeastOf
<1>7. fits = {} => i = n
  <2> HIDE DEF fits, i
  <2> QED BY <1>3
<1>8. i \in 1 .. n
  <2>1. n # 0
    <3>1. PICK j \in U : TRUE OBVIOUS
    <3> QED BY <1>1, <1>2, <3>1
  <2>2. n \in 1 .. n BY <1>1, <2>1
  <2> HIDE DEF fits, i
  <2> QED BY <1>5, <1>6, <1>7, <2>2
<1> HIDE DEF i
<1>9. CASE inside # {}
  <2>1. inside \in SUBSET Nat BY <1>2
  <2>2. p = Min(inside)
    <3> HIDE DEF inside
    <3> QED BY <1>4, <1>9
  <2>3. p \in inside
    <3> HIDE DEF inside
    <3> QED BY <1>9, <2>1, <2>2, LeastOf
  <2>4. p \in U /\ p >= i BY <2>3
  <2>5. p \in 1 .. n BY <1>2, <2>4
  <2>6. CASE fits # {}
    <3>1. Tokens(From(s, i)) <= room BY <1>6, <2>6
    <3>2. i \in 1 .. p BY <1>1, <1>8, <2>4, <2>5
    <3> QED BY <2>4, <2>5, <3>1, <3>2
  <2>7. CASE fits = {}
    <3>1. p = n
      <4>1. i = n BY <1>7, <2>7
      <4> QED BY <1>1, <2>4, <2>5, <4>1
    <3>2. \A j \in U : j <= p BY <1>1, <1>2, <3>1
    <3> QED BY <2>4, <2>5, <3>2
  <2> QED BY <2>6, <2>7
<1>10. CASE inside = {}
  <2>1. p = Max(U)
    <3> HIDE DEF inside, U
    <3> QED BY <1>4, <1>10 DEF U
  <2>2. p \in U /\ \A j \in U : j <= p
    <3>1. n \in Nat /\ \A j \in U : j <= n BY <1>1, <1>2
    <3>2. U # {} OBVIOUS
    <3> HIDE DEF U, n
    <3> QED BY <1>2, <2>1, <3>1, <3>2, BoundedMax
  <2> QED BY <1>2, <2>2
<1> QED BY <1>9, <1>10

\* A shorter tail holds no more tokens.
LEMMA TokensTail ==
    ASSUME NEW s \in Seq(Message), NEW p \in 1 .. Len(s), NEW i \in 1 .. p
    PROVE  Tokens(From(s, p)) <= Tokens(From(s, i))
<1> DEFINE n == Len(s)
           k == p - 1
           x == SubSeq(s, i, k)
           y == From(s, p)
<1>1. n \in Nat /\ k \in Nat /\ k + 1 = p /\ i \in Nat BY LenProperties
<1>2. x \o y = From(s, i)
  <2>1. i \in 1 .. n + 1 /\ k \in i - 1 .. n /\ n \in k .. n BY <1>1
  <2>2. SubSeq(s, i, k) \o SubSeq(s, k + 1, n) = SubSeq(s, i, n)
    <3> HIDE DEF k
    <3> QED BY <2>1, ConcatAdjacentSubSeq
  <2> QED BY <1>1, <2>2 DEF From
<1>3. y \in Seq(Message) BY CutAt
<1>4. x \in Seq(Message)
  <2>1. \A j \in 1 .. n : s[j] \in Message BY ElementOfSeq
  <2>2. i \in Int /\ k \in Int /\ \A j \in i .. k : s[j] \in Message BY <1>1, <2>1
  <2> HIDE DEF k
  <2> QED BY ONLY <2>2, SubSeqProperties
<1> HIDE DEF x, y
<1>5. Tokens(x) \in Nat /\ Tokens(y) \in Nat /\ Tokens(x \o y) = Tokens(x) + Tokens(y)
  BY <1>3, <1>4, TokensJoin
<1>6. Tokens(y) <= Tokens(x \o y) BY <1>5
<1> QED BY <1>2, <1>6 DEF y

\* w is the transcript z, or the system message and the exchanges from a user message on: the
\* last one, or as many as fit.
Snipped(w, z) ==
    \/ w = z /\ (HasWindow /\ Budget # 0 => PromptTokens(z) <= Budget)
    \/ \E p \in Seq(Message), kept \in Seq(Message) :
          /\ z = p \o kept /\ kept # <<>> /\ kept[1].role = "user"
          /\ w = <<System>> \o kept
          /\ Tokens(w) <= SnipLimit \/ \A i \in 2 .. Len(kept) : kept[i].role # "user"

LEMMA SnipLimitType == caller \in Callers => Budget \in Nat /\ SnipLimit \in Nat
<1> SUFFICES ASSUME caller \in Callers PROVE Budget \in Nat /\ SnipLimit \in Nat
  OBVIOUS
<1>1. Budgets \subseteq Nat /\ SnipFloor \in Nat BY RunnerAssumption DEF RunnerConstants
<1>2. caller.budget \in Budgets \cup {0} BY Zenon DEF Callers
<1>3. Budgets \cup {0} \subseteq Nat BY <1>1
<1>4. Budget \in Nat BY <1>2, <1>3, Zenon DEF Budget
<1> QED BY <1>1, <1>4 DEF SnipLimit

LEMMA SnipShape ==
    ASSUME NEW z, caller \in Callers, Tidy(z), Headed(z), Users(z) # {}
    PROVE  Tidy(SnipHistory(z)) /\ Snipped(SnipHistory(z), z)
<1> DEFINE w == SnipHistory(z)
           system == KeepAt(z, {i \in DOMAIN z : z[i].role = "system"})
           rest == KeepAt(z, {i \in DOMAIN z : z[i].role # "system"})
           room == Room(system)
           whole == ~HasWindow \/ Budget = 0 \/ PromptTokens(z) <= Budget
           p == TailFromUser(rest, FittingTail(rest, room))
           kept == From(rest, p)
           legal == From(kept, FindLegalStart(kept))
           lastFour == From(rest, Max({1, Len(rest) - 3}))
           other == From(lastFour, FindLegalStart(lastFour))
<1>1. w = IF whole \/ rest = <<>> THEN z
          ELSE system \o IF legal # <<>> THEN legal ELSE other
  BY DEF SnipHistory
<1> HIDE DEF w
<1>2. z \in Seq(Message) /\ Len(z) \in Nat /\ DOMAIN z = 1 .. Len(z) BY LenProperties DEF Tidy
<1>3. system = <<System>> /\ rest \in Seq(Message) /\ z = <<System>> \o rest
  BY <1>2, HeadedSplit
<1> HIDE DEF system, rest
<1>4. /\ system \in Seq(Message) /\ Len(system) = 1 /\ Tidy(system)
      /\ z = system \o rest /\ system[1] = System
  <2>1. <<System>> \in Seq(Message) /\ Len(<<System>>) = 1 /\ <<System>>[1] = System
    BY BuiltMessages, OneMessage
  <2>2. Tidy(<<System>>) BY BuiltMessages, TidyOne
  <2> QED BY <1>3, <2>1, <2>2
<1> DEFINE m == Len(rest)
<1>5. /\ m \in Nat /\ Len(z) = 1 + m /\ DOMAIN rest = 1 .. m
      /\ z[1] = System
      /\ \A i \in 1 .. m : z[1 + i] = rest[i]
  <2>1. /\ m \in Nat /\ Len(system \o rest) = Len(system) + m
        /\ \A i \in 1 .. Len(system) : (system \o rest)[i] = system[i]
        /\ \A i \in 1 .. m : (system \o rest)[Len(system) + i] = rest[i]
    BY <1>3, <1>4, Parts
  <2>2. 1 \in 1 .. Len(system) BY <1>4
  <2>3. DOMAIN rest = 1 .. m BY <1>3, LenProperties
  <2> QED BY <1>4, <2>1, <2>2, <2>3
<1>6. Users(rest) # {}
  <2>1. PICK k \in 1 .. Len(z) : z[k].role = "user" BY <1>2 DEF Users
  <2>2. k # 1 BY <1>5, <2>1, BuiltMessages
  <2>3. PICK j \in 1 .. m : k = 1 + j
    <3>1. k - 1 \in 1 .. m /\ k = 1 + (k - 1) BY <1>5, <2>2
    <3> QED BY <3>1
  <2>4. rest[j].role = "user" BY <1>5, <2>1, <2>3
  <2> QED BY <1>5, <2>4 DEF Users
<1>7. rest # <<>>
  <2>1. m # 0
    <3>1. PICK j \in 1 .. m : TRUE BY <1>5, <1>6 DEF Users
    <3> QED BY <1>5, <3>1
  <2> QED BY <2>1, EmptySeq
<1>8. /\ Tokens(system) \in Nat /\ SnipLimit \in Nat /\ room \in Int
      /\ room = IF Tokens(system) < SnipLimit THEN SnipLimit - Tokens(system) ELSE 0
  <2>1. Tokens(system) \in Nat BY ONLY <1>4, TokensJoin
  <2>2. SnipLimit \in Nat BY SnipLimitType
  <2> QED BY <2>1, <2>2 DEF Room
<1>9. CASE whole
  <2>1. w = z BY <1>1, <1>9
  <2> QED BY <1>9, <2>1 DEF Snipped, w
<1>10. CASE ~whole
  <2>1. w = system \o IF legal # <<>> THEN legal ELSE other BY <1>1, <1>7, <1>10
  <2>2. Tidy(rest)
    <3>1. rest[1].role # "tool"
      <4> SUFFICES ASSUME rest[1].role = "tool" PROVE FALSE
        OBVIOUS
      <4>1. m # 0 BY <1>3, <1>7, EmptySeq
      <4>2. 1 \in 1 .. m /\ 1 + 1 \in 1 .. Len(z) /\ 1 \in 1 .. Len(z) BY <1>5, <4>1
      <4>3. z[1 + 1].role = "tool" BY <1>5, <4>2
      <4>4. \A k \in (1 + 1) .. (1 + 1) : k = 1 + 1 OBVIOUS
      <4>5. 1 + 1 \in (1 + 1) .. Len(z) BY <1>2, <4>2
      <4>6. 1 + 1 \in BlockOf(z, 1) BY <4>3, <4>4, <4>5 DEF BlockOf
      <4>7. z[1].role # "tool" BY <1>5, BuiltMessages
      <4>8. Ids(z[1].calls) = {z[i].id : i \in BlockOf(z, 1)} BY <1>2, <4>2, <4>7 DEF Tidy, Legal
      <4>9. z[1 + 1].id \in Ids(z[1].calls) BY <4>6, <4>8
      <4>10. Ids(<<>>) = {} BY DEF Ids
      <4> QED BY <1>5, <4>9, <4>10, BuiltMessages
    <3>2. Tidy(system \o rest) BY <1>4
    <3> QED BY <1>3, <1>4, <3>1, <3>2, TidySuffix
  <2> HIDE DEF room
  <2>3. /\ p \in Users(rest) /\ p \in 1 .. Len(rest)
        /\ \/ \E i \in 1 .. p : Tokens(From(rest, i)) <= room
           \/ \A j \in Users(rest) : j <= p
    BY <1>3, <1>6, <1>8, TailStart
  <2> HIDE DEF p
  <2>4. PICK r0 \in Seq(Message) :
            /\ rest = r0 \o kept /\ kept \in Seq(Message)
            /\ Len(r0) = p - 1 /\ kept # <<>> /\ kept[1] = rest[p] /\ Len(rest) = Len(r0) + Len(kept)
    BY <1>3, <2>3, CutAt
  <2>5. kept[1].role = "user" BY <2>3, <2>4 DEF Users
  <2>6. Tokens(kept) <= room \/ \A j \in Users(rest) : j <= p
    <3> SUFFICES ASSUME NEW i \in 1 .. p, Tokens(From(rest, i)) <= room PROVE Tokens(kept) <= room
      BY <2>3
    <3>1. Tokens(kept) <= Tokens(From(rest, i)) BY <1>3, <2>3, TokensTail
    <3>2. Tokens(kept) \in Nat BY <2>4, TokensJoin
    <3>3. Tokens(From(rest, i)) \in Nat
      <4>1. i \in 1 .. Len(rest) BY <1>5, <2>3
      <4>2. From(rest, i) \in Seq(Message) BY <1>3, <4>1, CutAt
      <4> QED BY <4>2, TokensJoin
    <3> QED BY <1>8, <3>1, <3>2, <3>3
  <2> HIDE DEF kept
  <2>7. Tidy(kept) BY <2>2, <2>4, <2>5, TidySuffix
  <2>8. legal = kept BY <2>7, LegalFromStart
  <2>9. w = system \o kept BY <2>1, <2>4, <2>8
  <2>10. Tidy(w) BY <1>4, <2>7, <2>9, TidyJoin
  <2>11. z = (system \o r0) \o kept
    <3>1. system \in Seq(Message) /\ r0 \in Seq(Message) /\ kept \in Seq(Message) BY <1>4, <2>4
    <3>2. (system \o r0) \o kept = system \o (r0 \o kept) BY ONLY <3>1, Regroup, Zenon
    <3> QED BY <1>4, <2>4, <3>2
  <2>12. system \o r0 \in Seq(Message) BY <1>4, ConcatProperties
  <2>13. Tokens(w) <= SnipLimit \/ \A i \in 2 .. Len(kept) : kept[i].role # "user"
    <3>1. CASE Tokens(kept) <= room
      <4>1. Tokens(kept) \in Nat /\ Tokens(w) = Tokens(system) + Tokens(kept)
        BY <1>4, <2>4, <2>9, TokensJoin
      <4>2. Tokens(kept) > 0 BY <2>4, TokensPositive
      <4> QED BY <1>8, <3>1, <4>1, <4>2
    <3>2. CASE \A j \in Users(rest) : j <= p
      <4> SUFFICES ASSUME NEW i \in 2 .. Len(kept), kept[i].role = "user" PROVE FALSE
        OBVIOUS
      <4>1. /\ Len(kept) \in Nat /\ Len(r0) \in Nat
            /\ \A j \in 1 .. Len(kept) : (r0 \o kept)[Len(r0) + j] = kept[j]
        BY <2>4, Parts
      <4>2. i \in 1 .. Len(kept) /\ Len(r0) + i \in 1 .. m /\ ~(Len(r0) + i <= p)
        BY <1>5, <2>3, <2>4, <4>1
      <4>3. rest[Len(r0) + i].role = "user" BY <2>4, <4>1, <4>2
      <4>4. Len(r0) + i \in Users(rest) BY <1>5, <4>2, <4>3 DEF Users
      <4> QED BY <3>2, <4>2, <4>4
    <3> QED BY <2>6, <3>1, <3>2
  <2>14. w = <<System>> \o kept BY <1>3, <2>9
  <2>15. Snipped(w, z) BY <2>4, <2>5, <2>11, <2>12, <2>13, <2>14 DEF Snipped
  <2> QED BY <2>10, <2>15 DEF w
<1> QED BY <1>9, <1>10

-----------------------------------------------------------------------------
(* What the model is sent *)

\* The whole pipeline, on a transcript that ends in the exchange t: y is what the first passes make
\* of it, and the second passes change nothing of what SnipHistory leaves of y.
LEMMA Governed ==
    ASSUME NEW s \in Seq(Message), Threaded(s), Headed(s), NEW h \in Seq(Message), NEW t, s = h \o t,
           Tidy(t), t # <<>>, t[1].role = "user", caller \in Callers
    PROVE  \E c, y \in Seq(Message) :
              /\ Alike(c \o t, y) /\ Tidy(y) /\ Headed(y) /\ Users(y) # {}
              /\ Govern(s) = SnipHistory(y) /\ Tidy(Govern(s))
<1> DEFINE d == DropOrphanToolResults(s)
           x == BackfillMissing(d)
           v == Microcompact(x)
           y == ApplyResultBudget(v)
           w == SnipHistory(y)
<1>1. t \in Seq(Message) BY DEF Tidy
<1>2. Govern(s) = BackfillMissing(DropOrphanToolResults(w)) BY DEF Govern
<1>3. d \in Seq(Message) /\ Threaded(d) /\ Declared(d) /\ Headed(d) BY DropOrphanType
<1>4. PICK c0 \in Seq(Message) : d = c0 \o t
  <2>1. \E c \in Seq(Message) : DropOrphanToolResults(h \o t) = c \o t BY DropTail
  <2> QED BY <2>1
<1> HIDE DEF d
<1>5. Tidy(x) /\ Headed(x) BY <1>3, MatchedTidy, HeadedInsert
<1>6. PICK c \in Seq(Message) : x = c \o t
  <2>1. \E c \in Seq(Message) : BackfillMissing(c0 \o t) = c \o t BY BackfillTail
  <2> QED BY <1>4, <2>1
<1> HIDE DEF x
<1>7. Alike(x, v)
  <2>1. x \in Seq(Message) BY <1>5 DEF Tidy
  <2> QED BY <2>1, AlikeMicrocompact
<1> HIDE DEF v
<1>8. Alike(v, y)
  <2>1. v \in Seq(Message) BY <1>7 DEF Alike
  <2> QED BY <2>1, AlikeBudget
<1> HIDE DEF y
<1>9. Alike(x, y) BY <1>7, <1>8, AlikeTrans
<1>10. Tidy(y) /\ Headed(y) BY <1>5, <1>9, AlikeTidy, AlikeHeaded
<1>11. Users(y) # {}
  <2>1. /\ Len(c) \in Nat /\ Len(t) \in Nat /\ Len(c \o t) = Len(c) + Len(t)
        /\ \A i \in 1 .. Len(t) : (c \o t)[Len(c) + i] = t[i]
    BY <1>1, Parts
  <2>2. Len(t) # 0 BY <1>1, EmptySeq
  <2>3. 1 \in 1 .. Len(t) /\ Len(c) + 1 \in 1 .. Len(x) BY <1>6, <2>1, <2>2
  <2>4. x[Len(c) + 1].role = "user" BY <1>6, <2>1, <2>3
  <2>5. y[Len(c) + 1].role = "user" /\ Len(y) = Len(x) BY <1>9, <2>3, <2>4 DEF Alike
  <2>6. DOMAIN y = 1 .. Len(y)
    <3>1. y \in Seq(Message) BY <1>9 DEF Alike
    <3> QED BY <3>1, LenProperties
  <2> QED BY <2>3, <2>5, <2>6 DEF Users
<1>12. Tidy(w) BY <1>10, <1>11, SnipShape
<1> HIDE DEF w
<1>13. Govern(s) = w BY <1>2, <1>12, SecondPass
<1>14. y \in Seq(Message) BY <1>10 DEF Tidy
<1> QED BY <1>6, <1>9, <1>10, <1>11, <1>12, <1>13, <1>14 DEF w

\* The transcript of a run that is asked or answered: the last message it was given, and behind it
\* exchanges that match.
LEMMA RunTurn ==
    ASSUME RunType, RunInv, phase \in {"model", "finalize"}
    PROVE  \E h, u \in Seq(Message) : /\ Tidy(u) /\ initial = h \o <<User>> /\ messages = initial \o u
                                      /\ messages = h \o (<<User>> \o u) /\ Tidy(<<User>> \o u)
<1>1. PICK h \in Seq(Message) : initial = h \o <<User>> BY DEF RunInv
<1>2. PICK u : Tidy(u) /\ messages = initial \o u BY DEF RunInv
<1>3. Tidy(<<User>> \o u) BY <1>2, TidyAdded, TidyJoin
<1> DEFINE b == <<User>>
<1>4. b \in Seq(Message) /\ u \in Seq(Message) BY <1>2, BuiltMessages, OneMessage DEF Tidy
<1> HIDE DEF b
<1>5. (h \o b) \o u = h \o (b \o u)
  <2>1. h \in Seq(Message) /\ b \in Seq(Message) /\ u \in Seq(Message) BY <1>4
  <2> QED BY ONLY <2>1, Regroup, Zenon
<1>6. messages = h \o (b \o u) BY <1>1, <1>2, <1>5 DEF b
<1> QED BY <1>1, <1>2, <1>3, <1>4, <1>6 DEF b

LEMMA UserFirst ==
    ASSUME NEW u \in Seq(Message)
    PROVE  LET t == <<User>> \o u IN t \in Seq(Message) /\ t # <<>> /\ t[1] = User
<1> DEFINE b == <<User>>
<1>1. b \in Seq(Message) /\ Len(b) = 1 /\ b[1] = User BY BuiltMessages, OneMessage
<1> HIDE DEF b
<1> DEFINE t == b \o u
<1>2. /\ t \in Seq(Message) /\ Len(u) \in Nat /\ Len(t) = Len(b) + Len(u)
      /\ \A i \in 1 .. Len(b) : t[i] = b[i]
  BY <1>1, Parts
<1>3. 1 \in 1 .. Len(b) /\ Len(t) # 0 BY <1>1, <1>2
<1> HIDE DEF t
<1>4. t # <<>> /\ t[1] = User BY <1>1, <1>2, <1>3, EmptySeq
<1> QED BY <1>2, <1>4 DEF t, b

\* Every request to the model has a result behind every call and a call in front of every result,
\* whatever lines the session file lost; the finalization request has when the history had.
THEOREM RequestsAreLegal == Spec => []RequestsLegal
<1>1. RunType /\ RunInv /\ ThreadInv => RequestsLegal
  <2> SUFFICES ASSUME RunType, RunInv, ThreadInv PROVE RequestsLegal
    OBVIOUS
  <2>1. /\ messages \in Seq(Message) /\ Threaded(messages) /\ Headed(messages)
        /\ initial \in Seq(Message) /\ caller \in Callers
    BY DEF RunType, ThreadInv
  <2>2. ASSUME phase = "model" PROVE Legal(request)
    <3>1. PICK h, u \in Seq(Message) : Tidy(u) /\ messages = h \o (<<User>> \o u) /\ Tidy(<<User>> \o u)
      BY <2>2, RunTurn
    <3> DEFINE t == <<User>> \o u
    <3>2. t # <<>> /\ t[1].role = "user"
      <4>1. u \in Seq(Message) BY <3>1 DEF Tidy
      <4> QED BY <4>1, UserFirst, BuiltMessages
    <3>3. Tidy(t) /\ messages = h \o t BY <3>1
    <3> HIDE DEF t
    <3>4. Tidy(Govern(messages)) BY <2>1, <3>2, <3>3, Governed
    <3>5. request = Govern(messages) BY <2>2 DEF ThreadInv
    <3> QED BY <3>4, <3>5 DEF Tidy
  <2>3. ASSUME phase = "finalize", Legal(initial) PROVE Legal(request)
    <3>1. PICK h, u \in Seq(Message) : Tidy(u) /\ initial = h \o <<User>> /\ messages = initial \o u
      BY <2>3, RunTurn
    <3>2. u \in Seq(Message) BY <3>1 DEF Tidy
    <3>3. Len(initial) # 0
      <4> DEFINE b == <<User>>
      <4>1. b \in Seq(Message) /\ Len(b) = 1 BY BuiltMessages, OneMessage
      <4> HIDE DEF b
      <4>2. Len(h \o b) = Len(h) + Len(b) /\ Len(h) \in Nat BY <4>1, Parts
      <4>3. initial = h \o b BY <3>1 DEF b
      <4> QED BY <4>1, <4>2, <4>3
    <3>4. initial[1] = System
      <4>1. Len(initial) \in Nat /\ \A i \in 1 .. Len(initial) : messages[i] = initial[i]
        BY <2>1, <3>1, <3>2, Parts
      <4>2. 1 \in 1 .. Len(initial) BY <3>3, <4>1
      <4> QED BY <2>1, <4>1, <4>2 DEF Headed
    <3>5. Tidy(initial) BY <2>1, <2>3, <3>4, BuiltMessages DEF Tidy
    <3>6. Tidy(messages) BY <3>1, <3>5, TidyJoin
    <3>7. Tidy(<<User>>) BY BuiltMessages, TidyOne
    <3>8. Tidy(messages \o <<User>>) BY <3>6, <3>7, TidyJoin
    <3>9. request = messages \o <<User>>
      <4>1. request = Append(messages, User) BY <2>3 DEF ThreadInv
      <4> QED BY <2>1, <4>1, BuiltMessages, AppendIsConcat
    <3> QED BY <3>8, <3>9 DEF Tidy
  <2> QED BY <2>2, <2>3 DEF RequestsLegal
<1> QED BY <1>1, AlwaysRunType, AlwaysRunInv, AlwaysThreadInv, PTL

\* e has the messages of t, but for their texts.
SameShape(e, t) ==
    /\ e \in Seq(Message) /\ Len(e) = Len(t)
    /\ \A i \in 1 .. Len(t) : e[i].role = t[i].role /\ e[i].calls = t[i].calls /\ e[i].id = t[i].id

\* k ends in the messages of t, but for their texts, behind n others.
EndsAlike(k, t, n) == \E d, e \in Seq(Message) : k = d \o e /\ SameShape(e, t) /\ Len(d) = n

\* A transcript that is c and t but for texts still ends in t when no more than c is cut off.
LEMMA TailAlike ==
    ASSUME NEW c \in Seq(Message), NEW t \in Seq(Message), t # <<>>, NEW p \in Seq(Message),
           NEW k \in Seq(Message), Alike(c \o t, p \o k), Len(p) <= Len(c)
    PROVE  EndsAlike(k, t, Len(c) - Len(p))
<1> DEFINE q == c \o t
           a == Len(c)
           b == Len(t)
           g == Len(p)
           n == (a - g) + 1
           y == p \o k
<1>1. /\ a \in Nat /\ b \in Nat /\ Len(q) = a + b /\ \A i \in 1 .. b : q[a + i] = t[i]
  BY Parts
<1>2. /\ g \in Nat /\ Len(k) \in Nat /\ Len(y) = g + Len(k) /\ \A i \in 1 .. Len(k) : y[g + i] = k[i]
  BY Parts
<1>3. Len(y) = Len(q) /\ \A i \in 1 .. Len(q) : y[i].role = q[i].role /\ y[i].calls = q[i].calls /\ y[i].id = q[i].id
  BY DEF Alike
<1>4. b # 0 BY EmptySeq
<1> HIDE DEF q, a, b, g, y
<1>5. g <= a BY DEF g, a
<1>6. Len(k) = (a - g) + b /\ n \in 1 .. Len(k)
  <2>1. \A i, j, l, o \in Nat : /\ i + j = l + o /\ j # 0 /\ l <= i
                               => o = (i - l) + j /\ (i - l) + 1 \in 1 .. o
    OBVIOUS
  <2>2. a + b = g + Len(k) BY <1>1, <1>2, <1>3
  <2> QED BY <1>1, <1>2, <1>4, <1>5, <2>1, <2>2
<1> DEFINE e == From(k, n)
<1> HIDE DEF n
<1>7. PICK d \in Seq(Message) : /\ k = d \o e /\ e \in Seq(Message) /\ Len(d) = n - 1
                                /\ Len(k) = Len(d) + Len(e)
  BY <1>6, CutAt
<1> HIDE DEF e
<1>8. Len(d) \in Nat /\ Len(e) \in Nat /\ \A i \in 1 .. Len(e) : (d \o e)[Len(d) + i] = e[i]
  BY <1>7, Parts
<1>9. Len(d) = a - g /\ Len(e) = b BY <1>1, <1>2, <1>5, <1>6, <1>7, <1>8 DEF n
<1>10. ASSUME NEW i \in 1 .. b
       PROVE  e[i].role = t[i].role /\ e[i].calls = t[i].calls /\ e[i].id = t[i].id
  <2> DEFINE j == (a - g) + i
  <2>1. k[j] = e[i] BY <1>7, <1>8, <1>9
  <2>2. j \in 1 .. Len(k) /\ g + j = a + i /\ a + i \in 1 .. Len(q)
    <3>1. \A l, o, b0, x \in Nat : l <= o /\ x \in 1 .. b0 =>
              (o - l) + x \in 1 .. (o - l) + b0 /\ l + ((o - l) + x) = o + x /\ o + x \in 1 .. o + b0
      OBVIOUS
    <3> QED BY <1>1, <1>2, <1>5, <1>6, <3>1
  <2> HIDE DEF j
  <2>3. y[g + j] = k[j] BY <1>2, <2>2
  <2>4. y[a + i] = e[i] BY <2>1, <2>2, <2>3
  <2>5. q[a + i] = t[i] BY <1>1
  <2> QED BY <1>3, <2>2, <2>4, <2>5
<1>11. SameShape(e, t) BY <1>7, <1>9, <1>10 DEF SameShape, b
<1> QED BY <1>7, <1>9, <1>11 DEF EndsAlike, a, g

\* The tail of a request that ends in e.
LEMMA RequestTail ==
    ASSUME NEW d \in Seq(Message), NEW t \in Seq(Message), NEW e, SameShape(e, t)
    PROVE  LET w == d \o e
               tail == From(w, Len(w) - Len(t) + 1)
           IN  Len(w) >= Len(t) /\ tail = e /\ Shape(tail) = Shape(t)
<1> DEFINE w == d \o e
<1>1. e \in Seq(Message) /\ Len(e) = Len(t) BY DEF SameShape
<1>2. Len(d) \in Nat /\ Len(e) \in Nat /\ Len(w) = Len(d) + Len(e) /\ From(w, Len(d) + 1) = e
  BY <1>1, Parts
<1> HIDE DEF w
<1>3. Len(w) >= Len(t) /\ Len(w) - Len(t) + 1 = Len(d) + 1 BY <1>1, <1>2
<1>4. DOMAIN e = 1 .. Len(t) /\ DOMAIN t = 1 .. Len(t) BY <1>1, LenProperties
<1>5. Shape(e) = Shape(t) BY <1>4 DEF Shape, SameShape
<1> QED BY <1>2, <1>3, <1>5 DEF w

\* The newest exchange: from the last user message on.
LEMMA LastTurn ==
    ASSUME RunType, RunInv, phase = "model", NEW turn, turn = From(messages, Max(Users(messages)))
    PROVE  /\ \E p \in Seq(Message) : messages = p \o turn
           /\ turn \in Seq(Message) /\ Tidy(turn) /\ turn # <<>> /\ turn[1].role = "user"
           /\ \A i \in 2 .. Len(turn) : turn[i].role # "user"
<1>1. PICK h, u \in Seq(Message) : Tidy(u) /\ messages = h \o (<<User>> \o u) /\ Tidy(<<User>> \o u)
  BY RunTurn
<1> DEFINE t == <<User>> \o u
           U == Users(messages)
           a == Len(h)
           b == Len(t)
           m == Max(U)
<1>2. t \in Seq(Message) /\ t # <<>> /\ t[1].role = "user"
  <2>1. u \in Seq(Message) BY <1>1 DEF Tidy
  <2> QED BY <2>1, UserFirst, BuiltMessages
<1>3. Tidy(t) /\ messages = h \o t BY <1>1
<1> HIDE DEF t
<1>4. /\ a \in Nat /\ b \in Nat /\ DOMAIN messages = 1 .. a + b
      /\ \A i \in 1 .. b : messages[a + i] = t[i]
  BY <1>2, <1>3, Parts
<1>5. b # 0 BY <1>2, EmptySeq
<1>6. a + 1 \in U
  <2>1. 1 \in 1 .. b /\ a + 1 \in 1 .. a + b BY <1>4, <1>5
  <2> QED BY <1>2, <1>4, <2>1 DEF Users
<1>7. m \in U /\ \A j \in U : j <= m
  <2>1. a + b \in Nat /\ U \in SUBSET Nat /\ U # {} /\ \A j \in U : j <= a + b BY <1>4, <1>6 DEF Users
  <2> HIDE DEF U, a, b
  <2> QED BY <2>1, BoundedMax
<1>8. m \in 1 .. a + b /\ messages[m].role = "user" /\ a + 1 <= m BY <1>4, <1>6, <1>7 DEF Users
<1> HIDE DEF m
<1>9. PICK l \in 1 .. b : m = a + l
  <2>1. m - a \in 1 .. b /\ m = a + (m - a) BY <1>4, <1>8
  <2> QED BY <2>1
<1> DEFINE e == From(t, l)
<1>10. PICK q \in Seq(Message) : /\ t = q \o e /\ e \in Seq(Message) /\ Len(q) = l - 1 /\ e # <<>>
                                 /\ e[1] = t[l] /\ Len(t) = Len(q) + Len(e)
  BY <1>2, CutAt
<1> HIDE DEF e
<1>11. messages = (h \o q) \o e
  <2>1. h \in Seq(Message) /\ q \in Seq(Message) /\ e \in Seq(Message) BY <1>10
  <2>2. (h \o q) \o e = h \o (q \o e) BY ONLY <2>1, Regroup, Zenon
  <2> QED BY <1>3, <1>10, <2>2
<1>12. h \o q \in Seq(Message) /\ Len(h \o q) = a + Len(q) BY Parts
<1> DEFINE p == h \o q
<1>13. p \in Seq(Message) /\ Len(p) = a + (l - 1) /\ messages = p \o e BY <1>10, <1>11, <1>12
<1> HIDE DEF p
<1>14. /\ Len(p) \in Nat /\ Len(e) \in Nat /\ Len(messages) = Len(p) + Len(e)
       /\ From(messages, Len(p) + 1) = e
       /\ \A i \in 1 .. Len(e) : messages[Len(p) + i] = e[i]
  BY <1>10, <1>13, Parts
<1>15. Len(p) + 1 = m BY <1>4, <1>9, <1>13
<1>16. turn = e BY <1>14, <1>15 DEF m
<1>17. e[1].role = "user"
  <2>1. t[l] = messages[m] BY <1>4, <1>9
  <2> QED BY <1>8, <1>10, <2>1
<1>18. Tidy(e)
  <2>1. Tidy(q \o e) BY <1>3, <1>10
  <2> QED BY <1>10, <1>17, <2>1, TidySuffix
<1>19. ASSUME NEW i \in 2 .. Len(e) PROVE e[i].role # "user"
  <2> SUFFICES ASSUME e[i].role = "user" PROVE FALSE
    OBVIOUS
  <2> DEFINE j == Len(p) + i
  <2>1. i \in 1 .. Len(e) BY <1>14
  <2>2. j \in 1 .. Len(messages) /\ ~(j <= m) BY <1>14, <1>15
  <2>3. messages[j].role = "user" BY <1>14, <2>1
  <2>4. DOMAIN messages = 1 .. Len(messages) BY LenProperties DEF RunType
  <2> HIDE DEF j
  <2>5. j \in U BY <2>2, <2>3, <2>4 DEF Users
  <2> QED BY <1>7, <2>2, <2>5
<1> QED BY <1>10, <1>13, <1>16, <1>17, <1>18, <1>19

\* Snipping drops the past only: every message since the newest user message reaches the model,
\* and with a budget the request is within it, or cut to the larger of the budget and the floor,
\* or the system prompt and the newest exchange alone.
THEOREM RequestsKeepTurn == Spec => []RequestKeepsTurn
<1>1. RunType /\ RunInv /\ ThreadInv => RequestKeepsTurn
  <2> SUFFICES ASSUME RunType, RunInv, ThreadInv, phase = "model" PROVE RequestKeepsTurn
    BY DEF RequestKeepsTurn
  <2> DEFINE turn == From(messages, Max(Users(messages)))
             w == request
             tail == From(w, Len(w) - Len(turn) + 1)
             Sized == HasWindow /\ Budget # 0 =>
                          \/ PromptTokens(w) <= Budget
                          \/ Tokens(w) <= SnipLimit
                          \/ w = <<System>> \o tail
  <2>1. /\ \E p \in Seq(Message) : messages = p \o turn
        /\ turn \in Seq(Message) /\ Tidy(turn) /\ turn # <<>> /\ turn[1].role = "user"
        /\ \A i \in 2 .. Len(turn) : turn[i].role # "user"
    BY LastTurn
  <2> SUFFICES /\ Len(w) >= Len(turn)
               /\ Shape(tail) = Shape(turn)
               /\ Sized
    BY DEF RequestKeepsTurn
  <2> HIDE DEF turn
  <2>2. /\ messages \in Seq(Message) /\ Threaded(messages) /\ Headed(messages) /\ w = Govern(messages)
        /\ caller \in Callers
    BY DEF RunType, ThreadInv
  <2>3. PICK c, y \in Seq(Message) : /\ Alike(c \o turn, y) /\ Tidy(y) /\ Headed(y) /\ Users(y) # {}
                                     /\ w = SnipHistory(y) /\ Tidy(w)
    <3>1. PICK p \in Seq(Message) : messages = p \o turn BY <2>1
    <3>2. \E c, y \in Seq(Message) : /\ Alike(c \o turn, y) /\ Tidy(y) /\ Headed(y) /\ Users(y) # {}
                                     /\ Govern(messages) = SnipHistory(y) /\ Tidy(Govern(messages))
      BY <2>1, <2>2, <3>1, Governed
    <3> QED BY <2>2, <3>2
  <2>4. y \in Seq(Message) /\ w \in Seq(Message) BY <2>3 DEF Tidy
  <2>5. SnipLimit \in Nat /\ Tokens(w) \in Nat BY <2>2, <2>4, TokensJoin, SnipLimitType
  <2>6. CASE w = y /\ (HasWindow /\ Budget # 0 => PromptTokens(y) <= Budget)
    <3> DEFINE p == <<>>
    <3>1. p \in Seq(Message) /\ Len(p) = 0 /\ y = p \o y BY <2>4, EmptySeq, ConcatEmptySeq
    <3>2. Len(p) <= Len(c)
      <4>1. Len(c) \in Nat BY LenProperties
      <4> QED BY <3>1, <4>1
    <3> HIDE DEF p
    <3>3. PICK d, e \in Seq(Message) : y = d \o e /\ SameShape(e, turn)
      <4>1. turn \in Seq(Message) /\ turn # <<>> /\ p \in Seq(Message) /\ y \in Seq(Message) BY <2>1, <2>4, <3>1
      <4>2. Alike(c \o turn, p \o y) BY <2>3, <3>1
      <4>3. EndsAlike(y, turn, Len(c) - Len(p)) BY ONLY c \in Seq(Message), <3>2, <4>1, <4>2, TailAlike
      <4> QED BY <4>3 DEF EndsAlike
    <3>4. Len(w) >= Len(turn) /\ Shape(tail) = Shape(turn)
      <4>1. turn \in Seq(Message) BY <2>1
      <4>2. Len(d \o e) >= Len(turn) /\ Shape(From(d \o e, Len(d \o e) - Len(turn) + 1)) = Shape(turn)
        BY ONLY d \in Seq(Message), <3>3, <4>1, RequestTail
      <4> QED BY <2>6, <3>3, <4>2
    <3>5. Sized BY <2>6
    <3> QED BY <3>4, <3>5
  <2>7. ASSUME NEW p \in Seq(Message), NEW kept \in Seq(Message),
               y = p \o kept, kept # <<>>, kept[1].role = "user",
               w = <<System>> \o kept,
               Tokens(w) <= SnipLimit \/ \A i \in 2 .. Len(kept) : kept[i].role # "user"
        PROVE  /\ Len(w) >= Len(turn)
               /\ Shape(tail) = Shape(turn)
               /\ Sized
    <3> DEFINE q == c \o turn
               a == Len(c)
               g == Len(p)
               v == <<System>>
    <3>1. /\ a \in Nat /\ Len(turn) \in Nat /\ Len(q) = a + Len(turn)
          /\ \A i \in 1 .. Len(turn) : q[a + i] = turn[i]
      BY <2>1, Parts
    <3>2. /\ g \in Nat /\ Len(kept) \in Nat /\ Len(y) = g + Len(kept)
          /\ \A i \in 1 .. Len(kept) : y[g + i] = kept[i]
      BY <2>7, Parts
    <3>3. Len(y) = Len(q) /\ \A i \in 1 .. Len(q) : y[i].role = q[i].role BY <2>3 DEF Alike
    <3>4. Len(turn) # 0 /\ Len(kept) # 0 BY <2>1, <2>7, EmptySeq
    <3> HIDE DEF q
    <3>5. g <= a
      <4> SUFFICES ASSUME ~(g <= a) PROVE FALSE
        OBVIOUS
      <4>1. PICK i \in 2 .. Len(turn) : g + 1 = a + i
        <5>1. (g + 1) - a \in 2 .. Len(turn) /\ g + 1 = a + ((g + 1) - a) BY <3>1, <3>2, <3>3, <3>4
        <5> QED BY <5>1
      <4>2. 1 \in 1 .. Len(kept) /\ i \in 1 .. Len(turn) /\ g + 1 \in 1 .. Len(q)
        BY <3>1, <3>2, <3>3, <3>4
      <4>3. y[g + 1].role = "user" BY <2>7, <3>2, <4>2
      <4>4. q[g + 1] = turn[i] BY <3>1, <4>1, <4>2
      <4> QED BY <2>1, <3>3, <4>2, <4>3, <4>4
    <3>6. PICK d, e \in Seq(Message) : kept = d \o e /\ SameShape(e, turn) /\ Len(d) = a - g
      <4>1. turn \in Seq(Message) /\ turn # <<>> /\ p \in Seq(Message) /\ kept \in Seq(Message) BY <2>1
      <4>2. Alike(c \o turn, p \o kept) BY <2>3, <2>7
      <4>3. EndsAlike(kept, turn, a - g) BY ONLY c \in Seq(Message), <3>5, <4>1, <4>2, TailAlike
      <4> QED BY <4>3 DEF EndsAlike
    <3>7. v \in Seq(Message) /\ e \in Seq(Message) BY <3>6, BuiltMessages, OneMessage DEF SameShape
    <3> HIDE DEF v
    <3>8. w = (v \o d) \o e
      <4>1. v \in Seq(Message) /\ d \in Seq(Message) /\ e \in Seq(Message) BY <3>7
      <4>2. \A x, z \in Seq(Message) : (v \o x) \o z = v \o (x \o z) BY <4>1, Regroup
      <4>3. (v \o d) \o e = v \o (d \o e) BY <4>1, <4>2
      <4> QED BY <2>7, <3>6, <4>3 DEF v
    <3>9. v \o d \in Seq(Message) BY <3>7, ConcatProperties
    <3> DEFINE vd == v \o d
    <3>10. Len(w) >= Len(turn) /\ tail = e /\ Shape(tail) = Shape(turn)
      <4>1. vd \in Seq(Message) /\ w = vd \o e BY <3>8, <3>9
      <4> HIDE DEF vd
      <4>2. turn \in Seq(Message) /\ SameShape(e, turn) /\ vd \in Seq(Message) BY <2>1, <3>6, <4>1
      <4>3. /\ Len(vd \o e) >= Len(turn) /\ From(vd \o e, Len(vd \o e) - Len(turn) + 1) = e
            /\ Shape(From(vd \o e, Len(vd \o e) - Len(turn) + 1)) = Shape(turn)
        BY ONLY <4>2, RequestTail
      <4> QED BY <4>1, <4>3
    <3>11. ASSUME ~(Tokens(w) <= SnipLimit) PROVE w = v \o e
      <4>1. \A i \in 2 .. Len(kept) : kept[i].role # "user" BY <2>5, <2>7, <3>11
      <4>2. a = g
        <5> SUFFICES ASSUME a # g PROVE FALSE
          OBVIOUS
        <5>1. PICK i \in 2 .. Len(kept) : g + i = a + 1
          <6>1. (a + 1) - g \in 2 .. Len(kept) /\ g + ((a + 1) - g) = a + 1
            BY <3>1, <3>2, <3>3, <3>4, <3>5
          <6> QED BY <6>1
        <5>2. i \in 1 .. Len(kept) /\ 1 \in 1 .. Len(turn) /\ a + 1 \in 1 .. Len(q)
          BY <3>1, <3>2, <3>4
        <5>3. q[a + 1].role = "user" BY <2>1, <3>1, <5>2
        <5>4. y[a + 1].role = "user" BY <3>3, <5>2, <5>3
        <5>5. y[a + 1] = kept[i] BY <3>2, <5>1, <5>2
        <5> QED BY <4>1, <5>4, <5>5
      <4>3. Len(d) = 0 BY <3>1, <3>6, <4>2
      <4>4. d = <<>> BY <4>3, EmptySeq
      <4>5. d \o e = e BY <3>7, <4>4, ConcatEmptySeq
      <4> QED BY <2>7, <3>6, <4>5 DEF v
    <3> QED BY <3>10, <3>11 DEF v
  <2>8. Snipped(w, y) BY <2>2, <2>3, SnipShape
  <2> HIDE DEF w, tail
  <2> QED BY ONLY <2>6, <2>7, <2>8 DEF Snipped
<1> QED BY <1>1, AlwaysRunType, AlwaysRunInv, AlwaysThreadInv, PTL

-----------------------------------------------------------------------------
(* The provider a run asks: the failover wrapper *)

\* The theorems below hold for any number of requests and fallbacks and any
\* threshold, cooldown and length of the clock.

\* Whatever the caller of a request has seen comes from the provider it is with
\* now; a request that has not called anyone, or that is failing over from the
\* primary, has shown nothing.
VoiceInv ==
    \A r \in Requests :
        /\ voices[r] \subseteq {idx[r]}
        /\ pc[r] \in {"idle", "count", "trip"} => voices[r] = {} /\ idx[r] = 0

\* The fallbacks up to the current one were asked, and a verdict is only given by
\* a request that is done.
ChainInv ==
    \A r \in Requests :
        /\ 1..idx[r] \subseteq tried[r]
        /\ pc[r] # "done" => verdict[r] = "none"
        /\ pc[r] = "idle" => idx[r] = 0
        /\ verdict[r] = "error" => HasStreamed(r) \/ idx[r] >= Fallbacks

UnderWay(r) == pc[r] \notin {"idle", "done"}

\* While requests come one after the other: one is under way at most, and counter
\* and circuit disagree only between the two halves of a success ("close") or of a
\* failure that reaches the threshold ("trip").
SerialInv ==
    /\ \A r, q \in Requests : UnderWay(r) /\ UnderWay(q) => r = q
    /\ \A r \in Requests :
          /\ pc[r] = "close" => failures = 0
          /\ pc[r] = "trip" => failures >= Threshold
    /\ (\A r \in Requests : pc[r] \notin {"close", "trip"}) =>
          (trippedAt # Never <=> failures >= Threshold)

BreakerInv == ~overlapped => SerialInv

-----------------------------------------------------------------------------
(* Types *)

LEMMA BreakerInitType == BreakerInit => TypeOK
<1> SUFFICES ASSUME BreakerInit PROVE TypeOK
  OBVIOUS
<1>1. now \in 0..MaxTime /\ failures \in Nat /\ trippedAt \in (0..MaxTime) \cup {Never}
  BY BreakerAssumption DEF BreakerConstants, BreakerInit
<1>2. pc \in [Requests -> Stages] /\ idx \in [Requests -> 0..Fallbacks]
  BY BreakerAssumption DEF BreakerConstants, BreakerInit, Stages
<1>3. overlapped \in BOOLEAN
  BY DEF BreakerInit
<1> QED BY <1>1, <1>2, <1>3 DEF BreakerInit, TypeOK

LEMMA BreakerNextType == TypeOK /\ [BreakerNext]_breakerVars => TypeOK'
<1> SUFFICES ASSUME TypeOK, [BreakerNext]_breakerVars PROVE TypeOK'
  OBVIOUS
<1> USE DEF TypeOK, Stages
<1>1. CASE Tick
  BY <1>1, BreakerAssumption DEF BreakerConstants, Tick
<1>2. ASSUME NEW r \in Requests, Begin(r) PROVE TypeOK'
  BY <1>2, BreakerAssumption DEF BreakerConstants, Begin
<1>3. ASSUME NEW r \in Requests, PrimaryOk(r) PROVE TypeOK'
  BY <1>3 DEF PrimaryOk
<1>4. ASSUME NEW r \in Requests, CloseCircuit(r) PROVE TypeOK'
  BY <1>4 DEF CloseCircuit, Return
<1>5. ASSUME NEW r \in Requests, NEW a \in BOOLEAN, PrimaryError(r, a) PROVE TypeOK'
  BY <1>5 DEF PrimaryError, Return, shared
<1>6. ASSUME NEW r \in Requests, CountFailure(r) PROVE TypeOK'
  BY <1>6 DEF CountFailure
<1>7. ASSUME NEW r \in Requests, Trip(r) PROVE TypeOK'
  BY <1>7 DEF Trip
<1>8. ASSUME NEW r \in Requests, NextFallback(r) PROVE TypeOK'
  BY <1>8, BreakerAssumption DEF BreakerConstants, NextFallback, Return, shared
<1>9. ASSUME NEW r \in Requests, FallbackOk(r) PROVE TypeOK'
  BY <1>9 DEF FallbackOk, Return, shared
<1>10. ASSUME NEW r \in Requests, FallbackError(r) PROVE TypeOK'
  BY <1>10 DEF FallbackError, shared
<1>11. ASSUME NEW r \in Requests, Stream(r) PROVE TypeOK'
  BY <1>11 DEF Stream, shared
<1>12. ASSUME NEW r \in Requests, Again(r) PROVE TypeOK'
  BY <1>12, BreakerAssumption DEF BreakerConstants, Again, shared
<1>13. CASE UNCHANGED breakerVars
  BY <1>13 DEF breakerVars
<1> QED
  BY <1>1, <1>2, <1>3, <1>4, <1>5, <1>6, <1>7, <1>8, <1>9, <1>10, <1>11, <1>12, <1>13
     DEF BreakerNext, RequestStep

\* Every variable of the wrapper keeps its type: in particular no request asks for a
\* fallback beyond the list of presets.
THEOREM BreakerTypeCorrect == BreakerSpec => []TypeOK
<1> QED BY BreakerInitType, BreakerNextType, PTL DEF BreakerSpec

-----------------------------------------------------------------------------
(* One provider per answer, and complete chains *)

LEMMA BreakerNextVoice == TypeOK /\ VoiceInv /\ [BreakerNext]_breakerVars => VoiceInv'
<1> SUFFICES ASSUME TypeOK, VoiceInv, [BreakerNext]_breakerVars PROVE VoiceInv'
  OBVIOUS
<1> USE DEF TypeOK, VoiceInv
<1>1. CASE Tick
  BY <1>1 DEF Tick
<1>2. ASSUME NEW r \in Requests, Begin(r) PROVE VoiceInv'
  BY <1>2 DEF Begin
<1>3. ASSUME NEW r \in Requests, PrimaryOk(r) PROVE VoiceInv'
  BY <1>3 DEF PrimaryOk
<1>4. ASSUME NEW r \in Requests, CloseCircuit(r) PROVE VoiceInv'
  BY <1>4 DEF CloseCircuit, Return
<1>5. ASSUME NEW r \in Requests, NEW a \in BOOLEAN, PrimaryError(r, a) PROVE VoiceInv'
  BY <1>5 DEF PrimaryError, Return, HasStreamed
<1>6. ASSUME NEW r \in Requests, CountFailure(r) PROVE VoiceInv'
  BY <1>6 DEF CountFailure
<1>7. ASSUME NEW r \in Requests, Trip(r) PROVE VoiceInv'
  BY <1>7 DEF Trip
<1>8. ASSUME NEW r \in Requests, NextFallback(r) PROVE VoiceInv'
  BY <1>8 DEF NextFallback, Return, HasStreamed
<1>9. ASSUME NEW r \in Requests, FallbackOk(r) PROVE VoiceInv'
  BY <1>9 DEF FallbackOk, Return
<1>10. ASSUME NEW r \in Requests, FallbackError(r) PROVE VoiceInv'
  BY <1>10 DEF FallbackError
<1>11. ASSUME NEW r \in Requests, Stream(r) PROVE VoiceInv'
  BY <1>11 DEF Stream
<1>12. ASSUME NEW r \in Requests, Again(r) PROVE VoiceInv'
  BY <1>12 DEF Again
<1>13. CASE UNCHANGED breakerVars
  BY <1>13 DEF breakerVars
<1> QED
  BY <1>1, <1>2, <1>3, <1>4, <1>5, <1>6, <1>7, <1>8, <1>9, <1>10, <1>11, <1>12, <1>13
     DEF BreakerNext, RequestStep

LEMMA VoiceInvImplies == VoiceInv => OneVoice
BY DEF VoiceInv, OneVoice

\* The caller of a request sees the content of one provider, for any number of
\* fallbacks and any failures of other requests (try_with_fallback_stream).
THEOREM OneVoiceHolds == BreakerSpec => []OneVoice
<1>1. BreakerInit => VoiceInv BY DEF BreakerInit, VoiceInv
<1> QED BY <1>1, BreakerInitType, BreakerNextType, BreakerNextVoice, VoiceInvImplies, PTL DEF BreakerSpec

LEMMA BreakerNextChain == TypeOK /\ ChainInv /\ [BreakerNext]_breakerVars => ChainInv'
<1> SUFFICES ASSUME TypeOK, ChainInv, [BreakerNext]_breakerVars PROVE ChainInv'
  OBVIOUS
<1> USE DEF TypeOK, ChainInv, HasStreamed
<1>1. CASE Tick
  BY <1>1 DEF Tick
<1>2. ASSUME NEW r \in Requests, Begin(r) PROVE ChainInv'
  BY <1>2 DEF Begin
<1>3. ASSUME NEW r \in Requests, PrimaryOk(r) PROVE ChainInv'
  BY <1>3 DEF PrimaryOk
<1>4. ASSUME NEW r \in Requests, CloseCircuit(r) PROVE ChainInv'
  BY <1>4 DEF CloseCircuit, Return
<1>5. ASSUME NEW r \in Requests, NEW a \in BOOLEAN, PrimaryError(r, a) PROVE ChainInv'
  BY <1>5 DEF PrimaryError, Return
<1>6. ASSUME NEW r \in Requests, CountFailure(r) PROVE ChainInv'
  BY <1>6 DEF CountFailure
<1>7. ASSUME NEW r \in Requests, Trip(r) PROVE ChainInv'
  BY <1>7 DEF Trip
<1>8. ASSUME NEW r \in Requests, NextFallback(r) PROVE ChainInv'
  BY <1>8, BreakerAssumption DEF BreakerConstants, NextFallback, Return
<1>9. ASSUME NEW r \in Requests, FallbackOk(r) PROVE ChainInv'
  BY <1>9 DEF FallbackOk, Return
<1>10. ASSUME NEW r \in Requests, FallbackError(r) PROVE ChainInv'
  BY <1>10 DEF FallbackError
<1>11. ASSUME NEW r \in Requests, Stream(r) PROVE ChainInv'
  BY <1>11 DEF Stream
<1>12. ASSUME NEW r \in Requests, Again(r) PROVE ChainInv'
  BY <1>12, BreakerAssumption DEF BreakerConstants, Again
<1>13. CASE UNCHANGED breakerVars
  BY <1>13 DEF breakerVars
<1> QED
  BY <1>1, <1>2, <1>3, <1>4, <1>5, <1>6, <1>7, <1>8, <1>9, <1>10, <1>11, <1>12, <1>13
     DEF BreakerNext, RequestStep

LEMMA ChainInvImplies == TypeOK /\ ChainInv => ErrorsAreExhaustive
BY BreakerAssumption DEF BreakerConstants, TypeOK, ChainInv, ErrorsAreExhaustive

\* A request that ends in an error has asked every fallback or shown content, for
\* any number of fallbacks and whatever the circuit does meanwhile.
THEOREM ErrorsAreExhaustiveHolds == BreakerSpec => []ErrorsAreExhaustive
<1>1. BreakerInit => ChainInv BY BreakerAssumption DEF BreakerConstants, BreakerInit, ChainInv, HasStreamed
<1> QED BY <1>1, BreakerInitType, BreakerNextType, BreakerNextChain, ChainInvImplies, PTL DEF BreakerSpec

-----------------------------------------------------------------------------
(* Counter and circuit *)

LEMMA BreakerNextSerial == TypeOK /\ BreakerInv /\ [BreakerNext]_breakerVars => BreakerInv'
<1> SUFFICES ASSUME TypeOK, BreakerInv, [BreakerNext]_breakerVars, ~overlapped' PROVE SerialInv'
  BY DEF BreakerInv
<1> USE DEF TypeOK, SerialInv, UnderWay
<1>0. ~overlapped => SerialInv
  BY DEF BreakerInv
<1>1. CASE Tick
  BY <1>0, <1>1 DEF Tick
<1>2. ASSUME NEW r \in Requests, Begin(r) PROVE SerialInv'
  BY <1>0, <1>2 DEF Begin
<1>3. ASSUME NEW r \in Requests, PrimaryOk(r) PROVE SerialInv'
  BY <1>0, <1>3 DEF PrimaryOk
<1>4. ASSUME NEW r \in Requests, CloseCircuit(r) PROVE SerialInv'
  BY <1>0, <1>4, BreakerAssumption DEF BreakerConstants, CloseCircuit, Return
<1>5. ASSUME NEW r \in Requests, NEW a \in BOOLEAN, PrimaryError(r, a) PROVE SerialInv'
  BY <1>0, <1>5 DEF PrimaryError, Return, shared
<1>6. ASSUME NEW r \in Requests, CountFailure(r) PROVE SerialInv'
  BY <1>0, <1>6, BreakerAssumption DEF BreakerConstants, CountFailure
<1>7. ASSUME NEW r \in Requests, Trip(r) PROVE SerialInv'
  BY <1>0, <1>7, BreakerAssumption DEF BreakerConstants, Trip
<1>8. ASSUME NEW r \in Requests, NextFallback(r) PROVE SerialInv'
  BY <1>0, <1>8 DEF NextFallback, Return, shared
<1>9. ASSUME NEW r \in Requests, FallbackOk(r) PROVE SerialInv'
  BY <1>0, <1>9 DEF FallbackOk, Return, shared
<1>10. ASSUME NEW r \in Requests, FallbackError(r) PROVE SerialInv'
  BY <1>0, <1>10 DEF FallbackError, shared
<1>11. ASSUME NEW r \in Requests, Stream(r) PROVE SerialInv'
  BY <1>0, <1>11 DEF Stream, shared
<1>12. ASSUME NEW r \in Requests, Again(r) PROVE SerialInv'
  BY <1>0, <1>12 DEF Again, shared
<1>13. CASE UNCHANGED breakerVars
  BY <1>0, <1>13 DEF breakerVars
<1> QED
  BY <1>1, <1>2, <1>3, <1>4, <1>5, <1>6, <1>7, <1>8, <1>9, <1>10, <1>11, <1>12, <1>13
     DEF BreakerNext, RequestStep

LEMMA BreakerInvImplies == BreakerInv => BreakerConsistent
BY DEF BreakerInv, SerialInv, BreakerConsistent

\* Between requests that came one after the other, the circuit is open exactly when
\* the counter has reached the threshold, for any threshold and cooldown.
THEOREM BreakerConsistentHolds == BreakerSpec => []BreakerConsistent
<1>1. BreakerInit => BreakerInv
  BY BreakerAssumption DEF BreakerConstants, BreakerInit, BreakerInv, SerialInv, UnderWay
<1> QED BY <1>1, BreakerInitType, BreakerNextType, BreakerNextSerial, BreakerInvImplies, PTL DEF BreakerSpec
=============================================================================
