-------------------------- MODULE WebRuntimeProofs --------------------------
(***************************************************************************)
(* Safety of the web runtime: of InstancePool for any finite sets of       *)
(* plugins, calls and instances and any size of the idle queues; and of    *)
(* WorkflowRun for any finite set of node keys, any graphs and any edits   *)
(* while a workflow runs.                                                  *)
(***************************************************************************)
EXTENDS InstancePool, WorkflowRun, FiniteSetTheorems, SequenceTheorems, TLAPS

-----------------------------------------------------------------------------
(* Queues *)

LEMMA AppendRange ==
    ASSUME NEW S, NEW s \in Seq(S), NEW x \in S
    PROVE  /\ Range(Append(s, x)) = Range(s) \cup {x}
           /\ IsInjective(s) /\ x \notin Range(s) => IsInjective(Append(s, x))
<1> DEFINE t == Append(s, x)
<1>1. /\ t \in Seq(S) /\ Len(s) \in Nat /\ Len(t) = Len(s) + 1
      /\ DOMAIN t = 1..(Len(s) + 1) /\ DOMAIN s = 1..Len(s)
      /\ \A i \in 1..Len(s) : t[i] = s[i]
      /\ t[Len(s) + 1] = x
  BY AppendProperties, LenProperties
<1> HIDE DEF t
<1>2. 1..(Len(s) + 1) = (1..Len(s)) \cup {Len(s) + 1} BY <1>1
<1>3. Range(t) = Range(s) \cup {x}
  <2>1. Range(t) \subseteq Range(s) \cup {x} BY <1>1, <1>2 DEF Range
  <2>2. \A i \in DOMAIN s : s[i] \in Range(t) BY <1>1, <1>2 DEF Range
  <2>3. x \in Range(t) BY <1>1, <1>2 DEF Range
  <2> QED BY <2>1, <2>2, <2>3 DEF Range
<1>4. ASSUME IsInjective(s), x \notin Range(s), NEW a \in DOMAIN t, NEW b \in DOMAIN t, t[a] = t[b]
      PROVE  a = b
  <2>1. CASE a \in 1..Len(s) /\ b \in 1..Len(s) BY <1>1, <1>4, <2>1 DEF IsInjective
  <2>2. \A i \in 1..Len(s) : t[i] # x BY <1>1, <1>4 DEF Range
  <2> QED BY <1>1, <1>2, <1>4, <2>1, <2>2
<1> QED BY <1>3, <1>4 DEF t, IsInjective

LEMMA TailRange ==
    ASSUME NEW S, NEW s \in Seq(S), s # <<>>, IsInjective(s)
    PROVE  /\ Head(s) \in Range(s)
           /\ Range(Tail(s)) = Range(s) \ {Head(s)}
           /\ IsInjective(Tail(s))
<1> DEFINE t == Tail(s)
<1>1. /\ t \in Seq(S) /\ Len(s) \in Nat /\ Len(s) > 0 /\ Len(t) = Len(s) - 1
      /\ DOMAIN t = 1..(Len(s) - 1) /\ DOMAIN s = 1..Len(s)
      /\ \A i \in 1..(Len(s) - 1) : t[i] = s[i + 1]
      /\ Head(s) = s[1]
  <2>1. Len(s) \in Nat /\ Len(s) > 0 /\ DOMAIN s = 1..Len(s) BY EmptySeq, LenProperties
  <2>2. Head(s) = s[1] OBVIOUS
  <2> QED BY <2>1, <2>2, HeadTailProperties, LenProperties
<1> HIDE DEF t
<1>2. Range(t) \subseteq Range(s) \ {Head(s)}
  <2> SUFFICES ASSUME NEW i \in DOMAIN t PROVE t[i] \in Range(s) /\ t[i] # Head(s)
    BY DEF Range
  <2>1. i + 1 \in DOMAIN s /\ 1 \in DOMAIN s /\ i + 1 # 1 BY <1>1
  <2> QED BY <1>1, <2>1 DEF Range, IsInjective
<1>3. Range(s) \ {Head(s)} \subseteq Range(t)
  <2> SUFFICES ASSUME NEW i \in DOMAIN s, s[i] # Head(s) PROVE s[i] \in Range(t)
    BY DEF Range
  <2>1. i - 1 \in DOMAIN t /\ t[i - 1] = s[i] BY <1>1
  <2> QED BY <2>1 DEF Range
<1>4. IsInjective(t)
  <2> SUFFICES ASSUME NEW a \in DOMAIN t, NEW b \in DOMAIN t, t[a] = t[b] PROVE a = b
    BY DEF IsInjective
  <2>1. a + 1 \in DOMAIN s /\ b + 1 \in DOMAIN s /\ s[a + 1] = s[b + 1] BY <1>1
  <2>2. a + 1 = b + 1 BY <2>1 DEF IsInjective
  <2> QED BY <1>1, <2>2
<1>5. Head(s) \in Range(s) BY <1>1, 1 \in DOMAIN s DEF Range
<1> QED BY <1>2, <1>3, <1>4, <1>5 DEF t

-----------------------------------------------------------------------------
(* Types: a call holds an instance from acquire to release, and knows its   *)
(* plugin as long as it is under way.                                       *)

PoolType ==
    /\ pc \in [Calls -> {"new", "cold", "running", "returned", "orphan"}]
    /\ plugin \in [Calls -> Plugins \cup {NoPlugin}]
    /\ inst \in [Calls -> Instances \cup {NoInstance}]
    /\ clean \in [Calls -> BOOLEAN]
    /\ idle \in [Plugins -> Seq(Instances)]
    /\ \A p \in Plugins : Len(idle[p]) <= MaxPerPlugin
    /\ inUse \in [Plugins -> Nat]
    /\ metrics \in [in_use : Nat, idle : Nat]
    /\ dirty \subseteq Instances
    /\ leaked \in [Plugins -> Nat]
    /\ \A c \in Calls :
          /\ pc[c] # "new" => plugin[c] \in Plugins
          /\ pc[c] \in {"running", "returned", "orphan"} <=> inst[c] # NoInstance

LEMMA InitType == Init => PoolType
<1> SUFFICES ASSUME Init PROVE PoolType
  OBVIOUS
<1>1. idle \in [Plugins -> Seq(Instances)] /\ \A p \in Plugins : Len(idle[p]) = 0
  BY EmptySeq DEF Init
<1>2. clean \in [Calls -> BOOLEAN] BY DEF Init
<1> QED BY <1>1, <1>2, PoolAssumption DEF Init, PoolType

LEMMA NextType == PoolType /\ [Next]_vars => PoolType'
<1> SUFFICES ASSUME PoolType, [Next]_vars PROVE PoolType'
  OBVIOUS
<1> USE PoolAssumption DEF PoolType
<1>1. ASSUME NEW c \in Calls, NEW p \in Plugins, AcquireIdle(c, p) PROVE PoolType'
  <2>1. /\ Head(idle[p]) \in Instances /\ Tail(idle[p]) \in Seq(Instances)
        /\ Len(Tail(idle[p])) = Len(idle[p]) - 1 /\ Len(idle[p]) \in Nat
    BY <1>1, HeadTailProperties, LenProperties DEF AcquireIdle
  <2>2. idle' \in [Plugins -> Seq(Instances)] BY <1>1, <2>1 DEF AcquireIdle
  <2>3. \A q \in Plugins : Len(idle'[q]) <= MaxPerPlugin BY <1>1, <2>1 DEF AcquireIdle
  <2>4. metrics' \in [in_use : Nat, idle : Nat]
    <3>1. metrics.in_use + 1 \in Nat /\ Minus1(metrics.idle) \in Nat BY DEF Minus1
    <3> QED BY <1>1, <3>1 DEF AcquireIdle
  <2>5. /\ pc' = [pc EXCEPT ![c] = "running"] /\ plugin' = [plugin EXCEPT ![c] = p]
        /\ inst' = [inst EXCEPT ![c] = Head(idle[p])] /\ inUse' = [inUse EXCEPT ![p] = @ + 1]
        /\ UNCHANGED <<clean, dirty, leaked>>
    BY <1>1 DEF AcquireIdle
  <2> QED BY <2>1, <2>2, <2>3, <2>4, <2>5
<1>2. ASSUME NEW c \in Calls, NEW p \in Plugins, AcquireMiss(c, p) PROVE PoolType'
  BY <1>2 DEF AcquireMiss
<1>3. ASSUME NEW c \in Calls, ColdFails(c) PROVE PoolType'
  BY <1>3 DEF ColdFails, Finish
<1>4. ASSUME NEW c \in Calls, NEW i \in Instances, ColdStarts(c, i) PROVE PoolType'
  <2>1. metrics' \in [in_use : Nat, idle : Nat] BY <1>4 DEF ColdStarts
  <2> QED BY <1>4, <2>1 DEF ColdStarts
<1>5. ASSUME NEW c \in Calls, NEW ok \in BOOLEAN, CallReturns(c, ok) PROVE PoolType'
  <2>1. inst[c] \in Instances BY <1>5 DEF CallReturns
  <2> QED BY <1>5, <2>1 DEF CallReturns
<1>6. ASSUME NEW c \in Calls, Release(c) PROVE PoolType'
  <2>1. inst[c] \in Instances /\ plugin[c] \in Plugins BY <1>6 DEF Release
  <2>2. /\ Append(idle[plugin[c]], inst[c]) \in Seq(Instances)
        /\ Len(Append(idle[plugin[c]], inst[c])) = Len(idle[plugin[c]]) + 1
        /\ Len(idle[plugin[c]]) \in Nat
    BY <2>1, AppendProperties, LenProperties
  <2>3. idle' \in [Plugins -> Seq(Instances)] BY <1>6, <2>1, <2>2 DEF Release
  <2>4. \A q \in Plugins : Len(idle'[q]) <= MaxPerPlugin
    BY <1>6, <2>1, <2>2 DEF Release, Keeps
  <2>5. metrics' \in [in_use : Nat, idle : Nat] BY <1>6 DEF Release, Minus1
  <2>6. inUse' \in [Plugins -> Nat] BY <1>6 DEF Release, Minus1
  <2> QED BY <1>6, <2>3, <2>4, <2>5, <2>6 DEF Release, Finish
<1>7. ASSUME NEW c \in Calls, JoinFails(c) PROVE PoolType'
  BY <1>7 DEF JoinFails, Finish
<1>8. ASSUME NEW c \in Calls, DropFuture(c) PROVE PoolType'
  BY <1>8 DEF DropFuture
<1>9. ASSUME NEW c \in Calls, OrphanEnds(c) PROVE PoolType'
  BY <1>9 DEF OrphanEnds, Finish
<1>10. CASE UNCHANGED vars
  BY <1>10 DEF vars
<1> QED BY <1>1, <1>2, <1>3, <1>4, <1>5, <1>6, <1>7, <1>8, <1>9, <1>10 DEF Next

-----------------------------------------------------------------------------
(* Ownership *)

\* Part of the inductive invariant: an instance is in one idle queue, once, or with one
\* call (acquire pops it, the closure and release move it by value).
OneOwner ==
    /\ \A c, d \in Calls : c # d /\ inst[c] = inst[d] => inst[c] = NoInstance
    /\ \A c \in Calls, p \in Plugins : inst[c] \notin Queued[p]
    /\ \A p, q \in Plugins : p # q => Queued[p] \cap Queued[q] = {}
    /\ \A p \in Plugins : IsInjective(idle[p])

LEMMA NextOwner == PoolType /\ OneOwner /\ [Next]_vars => OneOwner'
<1> SUFFICES ASSUME PoolType, OneOwner, [Next]_vars PROVE OneOwner'
  OBVIOUS
<1>0. /\ \A c, d \in Calls : c # d /\ inst[c] = inst[d] => inst[c] = NoInstance
      /\ \A c \in Calls, p \in Plugins : inst[c] \notin Range(idle[p])
      /\ \A p, q \in Plugins : p # q => Range(idle[p]) \cap Range(idle[q]) = {}
      /\ \A p \in Plugins : IsInjective(idle[p])
  BY DEF OneOwner, Queued
<1>1. \A p \in Plugins : idle[p] \in Seq(Instances) /\ Range(idle[p]) \subseteq Instances
  BY LenProperties DEF PoolType, Range
<1>2. ASSUME UNCHANGED <<idle, inst>> PROVE OneOwner'
  BY <1>2 DEF OneOwner, Queued
<1>3. ASSUME idle' = idle, NEW c \in Calls, inst' = [inst EXCEPT ![c] = NoInstance]
      PROVE  OneOwner'
  <2>1. \A d \in Calls : inst'[d] = inst[d] \/ inst'[d] = NoInstance
    BY <1>3 DEF PoolType
  <2>2. \A p \in Plugins : NoInstance \notin Range(idle[p]) BY <1>1, PoolAssumption
  <2> QED BY <1>0, <1>3, <2>1, <2>2 DEF OneOwner, Queued
<1>4. ASSUME NEW c \in Calls, NEW p \in Plugins, AcquireIdle(c, p) PROVE OneOwner'
  <2> DEFINE h == Head(idle[p])
  <2>1. /\ h \in Range(idle[p]) /\ Range(Tail(idle[p])) = Range(idle[p]) \ {h}
        /\ IsInjective(Tail(idle[p]))
    BY <1>0, <1>1, <1>4, TailRange DEF AcquireIdle
  <2>2. /\ \A q \in Plugins : q # p => idle'[q] = idle[q]
        /\ idle'[p] = Tail(idle[p])
        /\ inst' = [inst EXCEPT ![c] = h]
    BY <1>4 DEF AcquireIdle, PoolType
  <2> HIDE DEF h
  <2>3. \A d \in Calls : d # c => inst'[d] = inst[d] /\ inst[d] # h
    BY <1>0, <2>1, <2>2 DEF PoolType
  <2>4. inst'[c] = h BY <2>2 DEF PoolType
  <2>5. \A q \in Plugins : Range(idle'[q]) \subseteq Range(idle[q]) /\ h \notin Range(idle'[q])
    BY <1>0, <2>1, <2>2
  <2>6. \A q \in Plugins : IsInjective(idle'[q]) BY <1>0, <2>1, <2>2
  <2> QED BY <1>0, <2>3, <2>4, <2>5, <2>6 DEF OneOwner, Queued
<1>5. ASSUME NEW c \in Calls, NEW i \in Instances, ColdStarts(c, i) PROVE OneOwner'
  <2>1. /\ \A d \in Calls : inst[d] # i
        /\ \A p \in Plugins : i \notin Range(idle[p])
    BY <1>5 DEF ColdStarts, Alive, Range, PoolType
  <2>2. idle' = idle /\ inst' = [inst EXCEPT ![c] = i] BY <1>5 DEF ColdStarts
  <2> QED BY <1>0, <2>1, <2>2 DEF OneOwner, Queued, PoolType
<1>6. ASSUME NEW c \in Calls, Release(c) PROVE OneOwner'
  <2>1. inst[c] \in Instances /\ plugin[c] \in Plugins
    BY <1>6, PoolAssumption DEF Release, PoolType
  <2>2. inst' = [inst EXCEPT ![c] = NoInstance] BY <1>6 DEF Release, Finish
  <2>3. CASE Keeps(c)
    <3> DEFINE p == plugin[c]
               s == Append(idle[p], inst[c])
    <3>1. /\ Range(s) = Range(idle[p]) \cup {inst[c]}
          /\ IsInjective(s)
      BY <1>0, <1>1, <2>1, AppendRange
    <3>2. /\ \A q \in Plugins : q # p => idle'[q] = idle[q]
          /\ idle'[p] = s
      BY <1>6, <2>1, <2>3 DEF Release, PoolType
    <3> HIDE DEF s
    <3>3. \A d \in Calls : d # c => inst'[d] = inst[d] /\ (inst[d] = inst[c] => inst[c] = NoInstance)
      BY <1>0, <2>2 DEF PoolType
    <3>4. inst'[c] = NoInstance /\ inst[c] # NoInstance BY <2>1, <2>2, PoolAssumption DEF PoolType
    <3>5. \A q \in Plugins : NoInstance \notin Range(idle'[q])
      BY <1>1, <2>1, <3>1, <3>2, PoolAssumption
    <3>6. \A d \in Calls, q \in Plugins : inst'[d] \notin Range(idle'[q])
      BY <1>0, <3>1, <3>2, <3>3, <3>4, <3>5
    <3>7. \A q, r \in Plugins : q # r => Range(idle'[q]) \cap Range(idle'[r]) = {}
      BY <1>0, <3>1, <3>2
    <3>8. \A q \in Plugins : IsInjective(idle'[q]) BY <1>0, <3>1, <3>2
    <3>9. \A d, e \in Calls : d # e /\ inst'[d] = inst'[e] => inst'[d] = NoInstance
      BY <1>0, <3>3, <3>4
    <3> QED BY <3>6, <3>7, <3>8, <3>9 DEF OneOwner, Queued
  <2>4. CASE ~Keeps(c)
    <3>1. idle' = idle BY <1>6, <2>4 DEF Release
    <3> QED BY <1>3, <2>2, <3>1
  <2> QED BY <2>3, <2>4
<1> QED
  BY <1>2, <1>3, <1>4, <1>5, <1>6
     DEF Next, AcquireMiss, ColdFails, CallReturns, JoinFails, DropFuture, OrphanEnds, Finish, vars

LEMMA InitOwner == Init => OneOwner
<1> SUFFICES ASSUME Init PROVE OneOwner
  OBVIOUS
<1>1. /\ \A p \in Plugins : idle[p] = <<>>
      /\ \A c \in Calls : inst[c] = NoInstance
  BY DEF Init
<1>2. Range(<<>>) = {} /\ IsInjective(<<>>) BY DEF Range, IsInjective
<1> QED BY <1>1, <1>2 DEF OneOwner, Queued

-----------------------------------------------------------------------------
(* Nothing used is handed on *)

\* IdleIsReset, and the same of an instance that waits for release after a reset
\* that succeeded.
ResetInv ==
    /\ \A p \in Plugins : Range(idle[p]) \cap dirty = {}
    /\ \A c \in Calls : pc[c] = "returned" /\ clean[c] => inst[c] \notin dirty

LEMMA NextReset == PoolType /\ OneOwner /\ ResetInv /\ [Next]_vars => ResetInv'
<1> SUFFICES ASSUME PoolType, OneOwner, ResetInv, [Next]_vars PROVE ResetInv'
  OBVIOUS
<1>0. /\ \A c, d \in Calls : c # d /\ inst[c] = inst[d] => inst[c] = NoInstance
      /\ \A c \in Calls, p \in Plugins : inst[c] \notin Range(idle[p])
  BY DEF OneOwner, Queued
<1>1. \A p \in Plugins : idle[p] \in Seq(Instances)
  BY DEF PoolType
<1>2. ASSUME NEW c \in Calls, NEW p \in Plugins, AcquireIdle(c, p) PROVE ResetInv'
  <2>1. Range(Tail(idle[p])) \subseteq Range(idle[p])
    BY <1>1, <1>2, TailRange DEF AcquireIdle, OneOwner
  <2>2. \A q \in Plugins : Range(idle'[q]) \subseteq Range(idle[q])
    BY <1>2, <2>1 DEF AcquireIdle, PoolType
  <2>3. \A d \in Calls : pc'[d] = "returned" => pc[d] = "returned" /\ inst'[d] = inst[d]
    BY <1>2 DEF AcquireIdle, PoolType
  <2>4. clean' = clean /\ dirty' = dirty BY <1>2 DEF AcquireIdle
  <2> QED BY <2>2, <2>3, <2>4 DEF ResetInv
<1>3. ASSUME NEW c \in Calls, NEW p \in Plugins, AcquireMiss(c, p) PROVE ResetInv'
  BY <1>3 DEF AcquireMiss, ResetInv, PoolType
<1>4. ASSUME NEW c \in Calls, NEW i \in Instances, ColdStarts(c, i) PROVE ResetInv'
  BY <1>4 DEF ColdStarts, ResetInv, PoolType
<1>5. ASSUME NEW c \in Calls, NEW ok \in BOOLEAN, CallReturns(c, ok) PROVE ResetInv'
  <2>1. inst[c] # NoInstance BY <1>5 DEF CallReturns, PoolType
  <2>2. UNCHANGED <<inst, idle>> BY <1>5 DEF CallReturns
  <2>3. \A d \in Calls : d # c => pc'[d] = pc[d] /\ clean'[d] = clean[d] /\ inst[d] # inst[c]
    BY <1>0, <1>5, <2>1 DEF CallReturns, PoolType
  <2>4. clean'[c] = ok BY <1>5 DEF CallReturns, PoolType
  <2>5. dirty' = IF ok THEN dirty \ {inst[c]} ELSE dirty \cup {inst[c]}
    BY <1>5 DEF CallReturns
  <2>6. CASE ok BY <2>2, <2>3, <2>4, <2>5, <2>6 DEF ResetInv
  <2>7. CASE ~ok BY <1>0, <2>2, <2>3, <2>4, <2>5, <2>7 DEF ResetInv
  <2> QED BY <2>6, <2>7
<1>6. ASSUME NEW c \in Calls, Release(c) PROVE ResetInv'
  <2>1. inst[c] \in Instances /\ plugin[c] \in Plugins
    BY <1>6, PoolAssumption DEF Release, PoolType
  <2>2. Range(Append(idle[plugin[c]], inst[c])) = Range(idle[plugin[c]]) \cup {inst[c]}
    BY <1>1, <2>1, AppendRange
  <2>3. clean[c] => inst[c] \notin dirty BY <1>6 DEF Release, ResetInv
  <2>4. \A q \in Plugins : Range(idle'[q]) \cap dirty = {}
    BY <1>6, <2>1, <2>2, <2>3 DEF Release, Keeps, PoolType, ResetInv
  <2>5. \A d \in Calls : d # c => pc'[d] = pc[d] /\ clean'[d] = clean[d] /\ inst'[d] = inst[d]
    BY <1>6 DEF Release, Finish, PoolType
  <2>6. pc'[c] = "new" /\ dirty' = dirty BY <1>6 DEF Release, Finish, PoolType
  <2> QED BY <2>4, <2>5, <2>6 DEF ResetInv
<1>7. ASSUME NEW c \in Calls, ColdFails(c) \/ JoinFails(c) \/ OrphanEnds(c) PROVE ResetInv'
  BY <1>7 DEF ColdFails, JoinFails, OrphanEnds, Finish, ResetInv, PoolType
<1>8. ASSUME NEW c \in Calls, DropFuture(c) PROVE ResetInv'
  BY <1>8 DEF DropFuture, ResetInv, PoolType
<1>9. CASE UNCHANGED vars
  BY <1>9 DEF vars, ResetInv
<1> QED BY <1>2, <1>3, <1>4, <1>5, <1>6, <1>7, <1>8, <1>9 DEF Next

\* An idle instance was reset after its last use, for any number of plugins, calls
\* and failed resets: no session inherits the memory of another.
THEOREM IdleIsResetHolds == Spec => []IdleIsReset
<1>1. Init => ResetInv
  BY DEF Init, ResetInv
<1>2. Init => OneOwner
  BY InitOwner
<1>3. ResetInv => IdleIsReset BY DEF ResetInv, IdleIsReset, Queued
<1> QED BY <1>1, <1>2, <1>3, InitType, NextType, NextOwner, NextReset, PTL DEF Spec

-----------------------------------------------------------------------------
(* The gauge *)

LEMMA HoldersFinite ==
    ASSUME NEW p \in Plugins
    PROVE  IsFiniteSet(Holders(p)) /\ Cardinality(Holders(p)) \in Nat
<1>1. IsFiniteSet(Holders(p))
  BY PoolAssumption, FS_Subset, Holders(p) \subseteq Calls DEF Holders
<1> QED BY <1>1, FS_CardinalityType

LEMMA NextInUse == PoolType /\ InUseAccounted /\ [Next]_vars => InUseAccounted'
<1> SUFFICES ASSUME PoolType, InUseAccounted, [Next]_vars, NEW p \in Plugins
             PROVE  inUse'[p] = Cardinality(Holders(p)') + leaked'[p]
  BY DEF InUseAccounted
<1>0. /\ inUse[p] = Cardinality(Holders(p)) + leaked[p]
      /\ inUse[p] \in Nat /\ leaked[p] \in Nat
      /\ IsFiniteSet(Holders(p)) /\ Cardinality(Holders(p)) \in Nat
  BY HoldersFinite DEF InUseAccounted, PoolType
<1>1. ASSUME NEW c \in Calls, Holders(p)' = Holders(p) \cup {c}, c \notin Holders(p),
             inUse'[p] = inUse[p] + 1, leaked'[p] = leaked[p]
      PROVE  inUse'[p] = Cardinality(Holders(p)') + leaked'[p]
  <2>1. Cardinality(Holders(p)') = Cardinality(Holders(p)) + 1
    BY <1>0, <1>1, FS_AddElement
  <2> QED BY <1>0, <1>1, <2>1
<1>2. ASSUME NEW c \in Calls, Holders(p)' = Holders(p) \ {c}, c \in Holders(p),
             \/ inUse'[p] = Minus1(inUse[p]) /\ leaked'[p] = leaked[p]
             \/ inUse'[p] = inUse[p] /\ leaked'[p] = leaked[p] + 1
      PROVE  inUse'[p] = Cardinality(Holders(p)') + leaked'[p]
  <2>1. Cardinality(Holders(p)') = Cardinality(Holders(p)) - 1 /\ Cardinality(Holders(p)') \in Nat
    BY <1>0, <1>2, FS_RemoveElement, FS_CardinalityType
  <2> QED BY <1>0, <1>2, <2>1 DEF Minus1
<1>3. ASSUME Holders(p)' = Holders(p), inUse'[p] = inUse[p], leaked'[p] = leaked[p]
      PROVE  inUse'[p] = Cardinality(Holders(p)') + leaked'[p]
  BY <1>0, <1>3
<1>4. ASSUME NEW c \in Calls, NEW q \in Plugins, AcquireIdle(c, q)
      PROVE  inUse'[p] = Cardinality(Holders(p)') + leaked'[p]
  <2>1. CASE p = q
    BY <1>1, <1>4, <2>1, Holders(p)' = Holders(p) \cup {c}, c \notin Holders(p)
       DEF AcquireIdle, Holders, PoolType
  <2>2. CASE p # q
    BY <1>3, <1>4, <2>2, Holders(p)' = Holders(p) DEF AcquireIdle, Holders, PoolType
  <2> QED BY <2>1, <2>2
<1>5. ASSUME NEW c \in Calls, NEW q \in Plugins, AcquireMiss(c, q)
      PROVE  inUse'[p] = Cardinality(Holders(p)') + leaked'[p]
  BY <1>3, <1>5, Holders(p)' = Holders(p) DEF AcquireMiss, Holders, PoolType
<1>6. ASSUME NEW c \in Calls, ColdFails(c) \/ OrphanEnds(c)
      PROVE  inUse'[p] = Cardinality(Holders(p)') + leaked'[p]
  BY <1>3, <1>6, Holders(p)' = Holders(p) DEF ColdFails, OrphanEnds, Finish, Holders, PoolType
<1>7. ASSUME NEW c \in Calls, NEW i \in Instances, ColdStarts(c, i)
      PROVE  inUse'[p] = Cardinality(Holders(p)') + leaked'[p]
  <2>1. CASE p = plugin[c]
    BY <1>1, <1>7, <2>1, Holders(p)' = Holders(p) \cup {c}, c \notin Holders(p)
       DEF ColdStarts, Holders, PoolType
  <2>2. CASE p # plugin[c]
    BY <1>3, <1>7, <2>2, Holders(p)' = Holders(p) DEF ColdStarts, Holders, PoolType
  <2> QED BY <2>1, <2>2
<1>8. ASSUME NEW c \in Calls, NEW ok \in BOOLEAN, CallReturns(c, ok)
      PROVE  inUse'[p] = Cardinality(Holders(p)') + leaked'[p]
  BY <1>3, <1>8, Holders(p)' = Holders(p) DEF CallReturns, Holders, PoolType
<1>9. ASSUME NEW c \in Calls, Release(c) \/ JoinFails(c) \/ DropFuture(c)
      PROVE  inUse'[p] = Cardinality(Holders(p)') + leaked'[p]
  <2>1. CASE p = plugin[c]
    BY <1>2, <1>9, <2>1, Holders(p)' = Holders(p) \ {c}, c \in Holders(p)
       DEF Release, JoinFails, DropFuture, Finish, Holders, PoolType
  <2>2. CASE p # plugin[c]
    BY <1>3, <1>9, <2>2, Holders(p)' = Holders(p)
       DEF Release, JoinFails, DropFuture, Finish, Holders, PoolType
  <2> QED BY <2>1, <2>2
<1>10. CASE UNCHANGED vars
  BY <1>3, <1>10 DEF vars, Holders
<1> QED BY <1>4, <1>5, <1>6, <1>7, <1>8, <1>9, <1>10 DEF Next

\* in_use is the number of invocations under way and of those that ended without
\* release, for any number of plugins and calls: release never underflows it.
THEOREM InUseAccountedHolds == Spec => []InUseAccounted
<1>1. Init => InUseAccounted
  <2> SUFFICES ASSUME Init, NEW p \in Plugins PROVE inUse[p] = Cardinality(Holders(p)) + leaked[p]
    BY DEF InUseAccounted
  <2>1. Holders(p) = {} BY DEF Init, Holders
  <2> QED BY <2>1, FS_EmptySet DEF Init
<1> QED BY <1>1, InitType, NextType, NextInUse, PTL DEF Spec

-----------------------------------------------------------------------------
(* The workflow executor: its nodes run plugins on the pool *)

\* Induction over the natural numbers with a set in place of a predicate.
LEMMA NatInduct ==
    ASSUME NEW T, 0 \in T, \A n \in Nat : n \in T => n + 1 \in T
    PROVE  Nat \subseteq T
<1> DEFINE X == Nat \ T
           R == {ss \in Nat \X Nat : ss[1] < ss[2]}
<1> SUFFICES ASSUME X # {} PROVE FALSE
  OBVIOUS
<1>1. IsWellFoundedOn(R, Nat) BY NatLessThanWellFounded DEF OpToRel
<1>2. PICK m \in X : \A n \in X : ~(<<n, m>> \in R)
  <2>1. X \subseteq Nat OBVIOUS
  <2> HIDE DEF R, X
  <2> QED BY <1>1, <2>1, WFMin
<1>3. m \in Nat /\ m # 0 OBVIOUS
<1>4. m - 1 \in Nat /\ (m - 1) + 1 = m /\ <<m - 1, m>> \in Nat \X Nat /\ m - 1 < m BY <1>3
<1>5. m - 1 \in X
  <2>1. m - 1 \notin T BY <1>4
  <2> QED BY <1>4, <2>1
<1>6. <<m - 1, m>> \in R BY <1>4
<1> QED BY <1>2, <1>5, <1>6

-----------------------------------------------------------------------------
(* detect_cycle finds every cycle *)

Colors == {"white", "gray", "black"}
White(d) == {k \in DOMAIN d.color : d.color[k] = "white"}
Left(d) == {k \in DOMAIN d.color : d.color[k] # "black"}

\* What an edge says about the order of its ends.
Falls(rank, edges) == \A e \in edges : rank[e[2]] < rank[e[1]]

\* A graph without a cycle: its nodes can be numbered so that every edge falls.
Acyclic(keys, edges) == \E b \in Nat : \E rank \in [keys -> 0 .. b] : Falls(rank, edges)

\* The nodes that are done are numbered in the order they were left: what an edge
\* from one of them leads to was left before.
Numbered(rank, b, keys, edges, color) ==
    /\ rank \in [keys -> Nat] /\ b \in Nat /\ \A k \in keys : rank[k] < b
    /\ \A e \in edges : color[e[1]] = "black" => color[e[2]] = "black" /\ rank[e[2]] < rank[e[1]]

\* The stack holds the Gray nodes, each once.
OnStack(keys, color, stack) ==
    /\ stack \in Seq(keys)
    /\ \A i, j \in 1 .. Len(stack) : stack[i] = stack[j] => i = j
    /\ \A k \in keys : color[k] = "gray" <=> \E i \in 1 .. Len(stack) : stack[i] = k

SearchInv(keys, edges, d) ==
    /\ d \in [color : [keys -> Colors], stack : Seq(keys), cycle : BOOLEAN]
    /\ OnStack(keys, d.color, d.stack)
    /\ \E rank, b : Numbered(rank, b, keys, edges, d.color)

\* What the search still has to do: every node is entered once and left once.
Work(d) == Cardinality(White(d)) + Cardinality(Left(d))

LEMMA WorkType ==
    ASSUME NEW keys, IsFiniteSet(keys), NEW d, DOMAIN d.color = keys
    PROVE  /\ IsFiniteSet(White(d)) /\ IsFiniteSet(Left(d))
           /\ Cardinality(White(d)) \in Nat /\ Cardinality(Left(d)) \in Nat /\ Work(d) \in Nat
           /\ Work(d) = 0 => White(d) = {} /\ Left(d) = {}
<1>1. White(d) \subseteq keys /\ Left(d) \subseteq keys BY DEF White, Left
<1>2. IsFiniteSet(White(d)) /\ IsFiniteSet(Left(d)) BY <1>1, FS_Subset
<1>3. Cardinality(White(d)) \in Nat /\ Cardinality(Left(d)) \in Nat BY <1>2, FS_CardinalityType
<1>4. ASSUME Work(d) = 0 PROVE White(d) = {} /\ Left(d) = {}
  <2>1. Cardinality(White(d)) = 0 /\ Cardinality(Left(d)) = 0 BY <1>3, <1>4 DEF Work
  <2> QED BY <1>2, <2>1, FS_EmptySet
<1> QED BY <1>2, <1>3, <1>4 DEF Work

\* A node is entered.
LEMMA EnterInv ==
    ASSUME NEW keys, IsFiniteSet(keys), NEW edges \in SUBSET (keys \X keys), NEW d,
           SearchInv(keys, edges, d), NEW k \in keys, d.color[k] = "white"
    PROVE  /\ SearchInv(keys, edges, Enter(d, k))
           /\ Work(Enter(d, k)) < Work(d)
<1> DEFINE s == Enter(d, k)
<1>1. /\ d \in [color : [keys -> Colors], stack : Seq(keys), cycle : BOOLEAN]
      /\ d.color \in [keys -> Colors] /\ d.stack \in Seq(keys)
  BY DEF SearchInv
<1>2. /\ s.color = [d.color EXCEPT ![k] = "gray"] /\ s.stack = Append(d.stack, k)
      /\ s \in [color : [keys -> Colors], stack : Seq(keys), cycle : BOOLEAN]
  <2>1. Append(d.stack, k) \in Seq(keys) BY <1>1, AppendProperties
  <2>2. [d.color EXCEPT ![k] = "gray"] \in [keys -> Colors] BY <1>1 DEF Colors
  <2> QED BY <2>1, <2>2 DEF Enter, Paint
<1> DEFINE c == d.color
           t == d.stack
<1>3. OnStack(keys, c, t) BY DEF SearchInv
<1>4. OnStack(keys, s.color, s.stack)
  <2>1. /\ Append(t, k) \in Seq(keys) /\ Len(t) \in Nat /\ Len(Append(t, k)) = Len(t) + 1
        /\ \A i \in 1 .. Len(t) : Append(t, k)[i] = t[i]
        /\ Append(t, k)[Len(t) + 1] = k
    BY <1>1, AppendProperties, LenProperties
  <2>2. \A i \in 1 .. Len(t) : t[i] # k BY <1>3 DEF OnStack
  <2> DEFINE a == Append(t, k)
             n == Len(t)
  <2>3. \A i \in 1 .. Len(a) : i \in 1 .. n \/ i = n + 1 BY <2>1
  <2>4. n + 1 \in 1 .. Len(a) /\ \A i \in 1 .. n : i \in 1 .. Len(a) BY <2>1
  <2> HIDE DEF a, n
  <2>5. \A i, j \in 1 .. Len(a) : a[i] = a[j] => i = j
    BY <1>3, <2>1, <2>2, <2>3 DEF OnStack, a, n
  <2>6. \A l \in keys : [c EXCEPT ![k] = "gray"][l] = "gray" <=> \E i \in 1 .. Len(a) : a[i] = l
    <3> SUFFICES ASSUME NEW l \in keys
                 PROVE [c EXCEPT ![k] = "gray"][l] = "gray" <=> \E i \in 1 .. Len(a) : a[i] = l
      OBVIOUS
    <3>1. CASE l = k BY <1>1, <2>1, <2>4, <3>1 DEF a, n
    <3>2. CASE l # k
      <4>1. [c EXCEPT ![k] = "gray"][l] = c[l] BY <1>1, <3>2
      <4>2. c[l] = "gray" <=> \E i \in 1 .. n : t[i] = l BY <1>3 DEF OnStack, n
      <4>3. (\E i \in 1 .. n : t[i] = l) <=> \E i \in 1 .. Len(a) : a[i] = l
        BY <2>1, <2>3, <2>4, <3>2 DEF a, n
      <4> QED BY <4>1, <4>2, <4>3
    <3> QED BY <3>1, <3>2
  <2> QED BY <1>2, <2>1, <2>5, <2>6 DEF OnStack, a
<1>5. \E rank, b : Numbered(rank, b, keys, edges, s.color)
  <2>1. PICK rank, b : Numbered(rank, b, keys, edges, c) BY DEF SearchInv
  <2>2. \A e \in edges : e[1] \in keys /\ e[2] \in keys OBVIOUS
  <2>3. \A l \in keys : s.color[l] = IF l = k THEN "gray" ELSE c[l] BY <1>1, <1>2
  <2>4. Numbered(rank, b, keys, edges, s.color) BY <2>1, <2>2, <2>3 DEF Numbered
  <2> QED BY <2>4
<1>6. Work(s) < Work(d)
  <2>1. DOMAIN c = keys /\ DOMAIN s.color = keys BY <1>1, <1>2
  <2>2. White(s) = White(d) \ {k} /\ k \in White(d) /\ Left(s) = Left(d)
    BY <1>1, <1>2, <2>1 DEF White, Left
  <2>3. Cardinality(White(s)) = Cardinality(White(d)) - 1
    BY <2>1, <2>2, WorkType, FS_RemoveElement
  <2>4. Cardinality(White(d)) \in Nat /\ Cardinality(Left(d)) \in Nat BY <2>1, WorkType
  <2> HIDE DEF s
  <2> QED BY <2>2, <2>3, <2>4 DEF Work
<1> HIDE DEF s, c, t
<1> QED BY <1>2, <1>4, <1>5, <1>6 DEF SearchInv, s

LEMMA FrontOf ==
    ASSUME NEW A, NEW t \in Seq(A), t # <<>>
    PROVE  /\ SubSeq(t, 1, Len(t) - 1) \in Seq(A) /\ Len(SubSeq(t, 1, Len(t) - 1)) = Len(t) - 1
           /\ \A i \in 1 .. Len(t) - 1 : SubSeq(t, 1, Len(t) - 1)[i] = t[i]
<1> DEFINE m == Len(t) - 1
<1>1. Len(t) \in Nat /\ Len(t) # 0 BY EmptySeq, LenProperties
<1>2. m \in Nat /\ m - 1 + 1 = m /\ \A i \in 1 .. m : i \in 1 .. Len(t) /\ 1 + i - 1 = i BY <1>1
<1>3. 1 \in Int /\ m \in Int /\ \A i \in 1 .. m : t[i] \in A BY <1>2, ElementOfSeq
<1> HIDE DEF m
<1>4. /\ SubSeq(t, 1, m) \in Seq(A)
      /\ Len(SubSeq(t, 1, m)) = (IF 1 <= m THEN m - 1 + 1 ELSE 0)
      /\ \A i \in 1 .. m - 1 + 1 : SubSeq(t, 1, m)[i] = t[1 + i - 1]
  BY ONLY <1>3, SubSeqProperties
<1>5. Len(SubSeq(t, 1, m)) = m BY <1>2, <1>4
<1>6. \A i \in 1 .. m : SubSeq(t, 1, m)[i] = t[i] BY <1>2, <1>4
<1> QED BY <1>4, <1>5, <1>6 DEF m

\* A node is left: all it leads to was left before, and it gets the next number.
LEMMA LeaveInv ==
    ASSUME NEW keys, IsFiniteSet(keys), NEW edges \in SUBSET (keys \X keys), NEW d,
           SearchInv(keys, edges, d), d.stack # <<>>, NEW k, k = d.stack[Len(d.stack)],
           \A e \in edges : e[1] = k => d.color[e[2]] = "black"
    PROVE  /\ k \in keys
           /\ SearchInv(keys, edges, Paint(d, k, "black", Front(d.stack)))
           /\ Work(Paint(d, k, "black", Front(d.stack))) < Work(d)
<1> DEFINE s == Paint(d, k, "black", Front(d.stack))
           c == d.color
           t == d.stack
           n == Len(t)
           a == SubSeq(t, 1, n - 1)
<1>1. /\ d \in [color : [keys -> Colors], stack : Seq(keys), cycle : BOOLEAN]
      /\ c \in [keys -> Colors] /\ t \in Seq(keys)
  BY DEF SearchInv
<1>2. OnStack(keys, c, t) BY DEF SearchInv
<1>3. n \in Nat /\ n # 0 /\ n \in 1 .. n /\ k = t[n] /\ k \in keys
  <2>1. n \in Nat /\ n # 0 BY <1>1, EmptySeq, LenProperties
  <2>2. n \in 1 .. n BY <2>1
  <2> QED BY <1>1, <2>1, <2>2, ElementOfSeq
<1>4. c[k] = "gray" BY <1>2, <1>3 DEF OnStack
<1>5. /\ a \in Seq(keys) /\ Len(a) = n - 1 /\ \A i \in 1 .. n - 1 : a[i] = t[i]
  BY ONLY <1>1, d.stack # <<>>, FrontOf
<1>6. /\ s.color = [c EXCEPT ![k] = "black"] /\ s.stack = a
      /\ s \in [color : [keys -> Colors], stack : Seq(keys), cycle : BOOLEAN]
  <2>1. [c EXCEPT ![k] = "black"] \in [keys -> Colors] BY <1>1 DEF Colors
  <2> HIDE DEF a
  <2> QED BY <1>5, <2>1 DEF Paint, Front, a
<1>7. \A l \in keys : s.color[l] = IF l = k THEN "black" ELSE c[l]
  BY <1>1, <1>6
<1> HIDE DEF a, s
<1>8. OnStack(keys, s.color, s.stack)
  <2>1. \A i \in 1 .. Len(a) : i \in 1 .. n - 1 /\ i \in 1 .. n /\ i # n BY <1>3, <1>5
  <2>2. \A i \in 1 .. n : i # n => i \in 1 .. Len(a) BY <1>3, <1>5
  <2> HIDE DEF n
  <2>3. \A i, j \in 1 .. Len(a) : a[i] = a[j] => i = j
    BY <1>2, <1>5, <2>1 DEF OnStack, n
  <2>4. ASSUME NEW l \in keys
        PROVE  s.color[l] = "gray" <=> \E i \in 1 .. Len(a) : a[i] = l
    <3>1. c[l] = "gray" <=> \E i \in 1 .. n : t[i] = l BY <1>2 DEF OnStack, n
    <3>2. \A i \in 1 .. n : t[i] = k => i = n BY <1>2, <1>3 DEF OnStack, n
    <3>3. CASE l = k
      <4>1. \A i \in 1 .. Len(a) : a[i] # k BY <1>5, <2>1, <3>2
      <4> QED BY <1>7, <3>3, <4>1
    <3>4. CASE l # k
      <4>1. (\E i \in 1 .. n : t[i] = l) <=> \E i \in 1 .. Len(a) : a[i] = l
        BY <1>3, <1>5, <2>1, <2>2, <3>4
      <4> QED BY <1>7, <3>1, <3>4, <4>1
    <3> QED BY <3>3, <3>4
  <2> QED BY <1>5, <1>6, <2>3, <2>4 DEF OnStack
<1>9. \E rank, b : Numbered(rank, b, keys, edges, s.color)
  <2>1. PICK rank, b : Numbered(rank, b, keys, edges, c) BY DEF SearchInv
  <2> DEFINE r == [l \in keys |-> IF l = k THEN b ELSE rank[l]]
  <2>2. /\ rank \in [keys -> Nat] /\ b \in Nat /\ \A l \in keys : rank[l] < b
        /\ \A e \in edges : c[e[1]] = "black" => c[e[2]] = "black" /\ rank[e[2]] < rank[e[1]]
    BY <2>1 DEF Numbered
  <2>3. r \in [keys -> Nat] BY <2>2
  <2>4. b + 1 \in Nat /\ \A l \in keys : r[l] < b + 1
    <3>1. \A x \in Nat : x < b => x < b + 1 BY <2>2
    <3>2. b < b + 1 BY <2>2
    <3> QED BY <2>2, <3>1, <3>2
  <2>5. ASSUME NEW e \in edges, s.color[e[1]] = "black"
        PROVE  s.color[e[2]] = "black" /\ r[e[2]] < r[e[1]]
    <3>1. e[1] \in keys /\ e[2] \in keys OBVIOUS
    <3>2. c[e[2]] = "black" BY <1>7, <2>2, <2>5, <3>1
    <3>3. e[2] # k BY <1>4, <3>2
    <3>4. r[e[2]] = rank[e[2]] /\ s.color[e[2]] = "black" BY <1>7, <3>1, <3>2, <3>3
    <3>5. CASE e[1] = k
      <4>1. r[e[1]] = b BY <3>1, <3>5
      <4> QED BY <2>2, <3>1, <3>4, <4>1
    <3>6. CASE e[1] # k
      <4>1. r[e[1]] = rank[e[1]] /\ c[e[1]] = "black" BY <1>7, <2>5, <3>1, <3>6
      <4> QED BY <2>2, <3>4, <4>1
    <3> QED BY <3>5, <3>6
  <2> HIDE DEF r
  <2>6. Numbered(r, b + 1, keys, edges, s.color) BY <2>3, <2>4, <2>5 DEF Numbered
  <2> QED BY <2>6
<1>10. Work(s) < Work(d)
  <2>1. DOMAIN c = keys /\ DOMAIN s.color = keys BY <1>1, <1>6
  <2>2. White(s) = White(d) /\ k \in Left(d) /\ Left(s) = Left(d) \ {k}
    BY <1>3, <1>4, <1>7, <2>1 DEF White, Left
  <2>3. IsFiniteSet(Left(d)) /\ Cardinality(White(d)) \in Nat /\ Cardinality(Left(d)) \in Nat
    BY <2>1, WorkType
  <2>4. Cardinality(Left(d) \ {k}) = IF k \in Left(d) THEN Cardinality(Left(d)) - 1 ELSE Cardinality(Left(d))
    BY ONLY <2>3, FS_RemoveElement
  <2>5. Cardinality(Left(s)) = Cardinality(Left(d)) - 1 BY ONLY <2>2, <2>4
  <2> QED BY <2>2, <2>3, <2>5 DEF Work
<1> QED BY <1>3, <1>6, <1>8, <1>9, <1>10 DEF SearchInv, s

\* One turn of the loops: the search ends, or has less to do.
LEMMA SearchStep ==
    ASSUME NEW keys, IsFiniteSet(keys), NEW edges \in SUBSET (keys \X keys), NEW d,
           SearchInv(keys, edges, d)
    PROVE  /\ SearchInv(keys, edges, Search(edges, d))
           /\ \/ Search(edges, d).cycle
              \/ Work(Search(edges, d)) < Work(d)
              \/ Work(Search(edges, d)) = 0
<1> DEFINE s == Search(edges, d)
           white == {k \in DOMAIN d.color : d.color[k] = "white"}
           node == Last(d.stack)
           open == Entered(d.color, Successors(edges, node))
           next == CHOOSE k \in open : TRUE
           first == CHOOSE k \in white : TRUE
           left == Paint(d, node, "black", Front(d.stack))
<1>1. s = IF d.cycle \/ (d.stack = <<>> /\ white = {}) THEN d
          ELSE IF d.stack = <<>> THEN Enter(d, first)
          ELSE IF open = {} THEN left
          ELSE IF d.color[next] = "gray" THEN [d EXCEPT !.cycle = TRUE]
          ELSE Enter(d, next)
  BY DEF Search
<1> HIDE DEF s
<1>2. /\ d \in [color : [keys -> Colors], stack : Seq(keys), cycle : BOOLEAN]
      /\ d.color \in [keys -> Colors] /\ DOMAIN d.color = keys /\ OnStack(keys, d.color, d.stack)
  BY DEF SearchInv
<1>3. CASE d.cycle
  <2>1. s = d BY <1>1, <1>3
  <2> QED BY <1>3, <2>1 DEF s
<1>4. CASE ~d.cycle /\ d.stack = <<>> /\ white = {}
  <2>1. s = d BY <1>1, <1>4
  <2>2. White(d) = {} BY <1>4 DEF White
  <2>3. \A k \in keys : d.color[k] # "gray"
    <3>1. Len(d.stack) = 0 BY <1>4
    <3>2. 1 .. 0 = {} OBVIOUS
    <3> QED BY <1>2, <3>1, <3>2 DEF OnStack
  <2>4. Left(d) = {} BY <1>2, <2>2, <2>3 DEF Left, White, Colors
  <2>5. Cardinality({}) = 0 BY FS_EmptySet
  <2>6. Work(d) = 0 BY <2>2, <2>4, <2>5 DEF Work
  <2> QED BY <2>1, <2>6 DEF s
<1>5. CASE ~d.cycle /\ d.stack = <<>> /\ white # {}
  <2>1. first \in white BY <1>5
  <2>2. first \in keys /\ d.color[first] = "white" BY <1>2, <2>1
  <2> HIDE DEF first
  <2>3. s = Enter(d, first) BY <1>1, <1>5
  <2> QED BY <2>2, <2>3, EnterInv DEF s
<1>6. CASE ~d.cycle /\ d.stack # <<>> /\ open = {}
  <2>1. s = left BY <1>1, <1>6
  <2>2. node = d.stack[Len(d.stack)] BY DEF Last
  <2>3. \A e \in edges : e[1] = node => d.color[e[2]] = "black"
    BY <1>6 DEF Entered, Successors
  <2> HIDE DEF node
  <2> QED BY <1>6, <2>1, <2>2, <2>3, LeaveInv DEF s
<1>7. CASE ~d.cycle /\ d.stack # <<>> /\ open # {}
  <2>1. next \in open BY <1>7
  <2>2. next \in keys /\ d.color[next] # "black"
    <3>1. \A e \in edges : e[2] \in keys OBVIOUS
    <3> QED BY <2>1, <3>1 DEF Entered, Successors
  <2> HIDE DEF next, open, white
  <2>3. CASE d.color[next] = "gray"
    <3>1. s = [d EXCEPT !.cycle = TRUE] BY <1>1, <1>7, <2>3
    <3>2. /\ s \in [color : [keys -> Colors], stack : Seq(keys), cycle : BOOLEAN]
          /\ s.color = d.color /\ s.stack = d.stack /\ s.cycle
      BY <1>2, <3>1
    <3>3. SearchInv(keys, edges, s) BY <3>2 DEF SearchInv
    <3> QED BY <3>2, <3>3 DEF s
  <2>4. CASE d.color[next] # "gray"
    <3>1. s = Enter(d, next) BY <1>1, <1>7, <2>4
    <3>2. d.color[next] = "white" BY <1>2, <2>2, <2>4 DEF Colors
    <3> QED BY <2>2, <3>1, <3>2, EnterInv DEF s
  <2> QED BY <2>3, <2>4
<1> QED BY <1>3, <1>4, <1>5, <1>6, <1>7

Start(keys) == [color |-> [k \in keys |-> "white"], stack |-> <<>>, cycle |-> FALSE]

\* The recursive function inside DetectCycle exists.
LEMMA DetectRec ==
    ASSUME NEW keys, IsFiniteSet(keys), NEW edges
    PROVE  \E f : /\ f[0] = Start(keys)
                  /\ \A n \in 1 .. 2 * Cardinality(keys) : f[n] = Search(edges, f[n - 1])
                  /\ DetectCycle(keys, edges) = f[2 * Cardinality(keys)].cycle
<1> DEFINE w == 2 * Cardinality(keys)
           Round(x) == Search(edges, x)
           Rec(f, m) == f = [n \in 0 .. m |-> IF n = 0 THEN Start(keys) ELSE Round(f[n - 1])]
           T == {m \in Nat : \E f : Rec(f, m)}
<1>0. w \in Nat BY FS_CardinalityType
<1>1. DetectCycle(keys, edges) = (CHOOSE f : Rec(f, w))[w].cycle BY DEF DetectCycle, Start
<1> HIDE DEF Round, w
<1>2. 0 \in T
  <2> DEFINE g == [k \in 0 .. 0 |-> Start(keys)]
  <2>1. Rec(g, 0) OBVIOUS
  <2> QED BY <2>1
<1>3. ASSUME NEW m \in Nat, m \in T PROVE m + 1 \in T
  <2>1. PICK f : Rec(f, m) BY <1>3
  <2> DEFINE n == m + 1
             g == [k \in 0 .. n |-> IF k = n THEN Round(f[m]) ELSE f[k]]
             h == [k \in 0 .. n |-> IF k = 0 THEN Start(keys) ELSE Round(g[k - 1])]
  <2>2. \A k \in 0 .. n : g[k] = h[k]
    <3> SUFFICES ASSUME NEW k \in 0 .. n PROVE g[k] = h[k]
      OBVIOUS
    <3>1. CASE k = n
      <4>1. m \in 0 .. n /\ m # n /\ k - 1 = m /\ k # 0 BY <3>1
      <4>2. g[m] = f[m] BY <4>1
      <4> QED BY <3>1, <4>1, <4>2
    <3>2. CASE k # n
      <4>1. k \in 0 .. m BY <3>2
      <4>2. f[k] = IF k = 0 THEN Start(keys) ELSE Round(f[k - 1]) BY <2>1, <4>1
      <4>3. CASE k = 0 BY <3>2, <4>2, <4>3
      <4>4. CASE k # 0
        <5>1. k - 1 \in 0 .. n /\ k - 1 # n BY <3>2, <4>4
        <5>2. g[k - 1] = f[k - 1] BY <5>1
        <5> QED BY <3>2, <4>2, <4>4, <5>2
      <4> QED BY <4>3, <4>4
    <3> QED BY <3>1, <3>2
  <2>3. g = h BY <2>2
  <2>4. Rec(g, n) BY <2>3
  <2>5. n \in Nat OBVIOUS
  <2> QED BY <2>4, <2>5
<1>4. w \in T
  <2> HIDE DEF T
  <2> QED BY <1>0, <1>2, <1>3, NatInduct
<1> DEFINE f == CHOOSE g : Rec(g, w)
<1>5. Rec(f, w) BY <1>4
<1>6. DetectCycle(keys, edges) = f[w].cycle BY <1>1
<1> HIDE DEF f
<1>7. f[0] = Start(keys) BY <1>0, <1>5
<1>8. ASSUME NEW n \in 1 .. w PROVE f[n] = Search(edges, f[n - 1])
  <2>1. n \in 0 .. w /\ n # 0 BY <1>0
  <2> QED BY <1>5, <2>1 DEF Round
<1> QED BY <1>6, <1>7, <1>8 DEF w

\* A graph in which detect_cycle finds no cycle has none.
LEMMA DetectSound ==
    ASSUME NEW keys, IsFiniteSet(keys), NEW edges \in SUBSET (keys \X keys),
           ~DetectCycle(keys, edges)
    PROVE  Acyclic(keys, edges)
<1> DEFINE w == 2 * Cardinality(keys)
<1>0. w \in Nat /\ Cardinality(keys) \in Nat BY FS_CardinalityType
<1>1. PICK f : /\ f[0] = Start(keys)
               /\ \A n \in 1 .. w : f[n] = Search(edges, f[n - 1])
               /\ DetectCycle(keys, edges) = f[w].cycle
  BY DetectRec
<1> DEFINE Good(n) == SearchInv(keys, edges, f[n]) /\ (f[n].cycle \/ Work(f[n]) <= w - n)
           T == {n \in Nat : n <= w => Good(n)}
<1>2. 0 \in T
  <2> DEFINE d == Start(keys)
  <2>1. d \in [color : [keys -> Colors], stack : Seq(keys), cycle : BOOLEAN]
    BY EmptySeq DEF Start, Colors
  <2>2. DOMAIN d.color = keys /\ d.stack = <<>> /\ \A k \in keys : d.color[k] = "white"
    BY DEF Start
  <2> HIDE DEF d
  <2>3. OnStack(keys, d.color, d.stack)
    <3>1. Len(d.stack) = 0 /\ 1 .. 0 = {} /\ d.stack \in Seq(keys) BY <2>1, <2>2
    <3> QED BY <2>2, <3>1 DEF OnStack
  <2>4. \E rank, b : Numbered(rank, b, keys, edges, d.color)
    <3> DEFINE r == [k \in keys |-> 0]
    <3>1. \A e \in edges : e[1] \in keys OBVIOUS
    <3>2. Numbered(r, 1, keys, edges, d.color) BY <2>2, <3>1 DEF Numbered
    <3> QED BY <3>2
  <2>5. White(d) = keys /\ Left(d) = keys BY <2>2 DEF White, Left
  <2>6. Work(d) = w BY <1>0, <2>5 DEF Work
  <2>7. SearchInv(keys, edges, d) BY <2>1, <2>3, <2>4 DEF SearchInv
  <2>8. f[0] = d BY <1>1 DEF d
  <2> HIDE DEF w
  <2>9. Good(0) BY <1>0, <2>6, <2>7, <2>8
  <2> QED BY <2>9
<1>3. ASSUME NEW n \in Nat, n \in T PROVE n + 1 \in T
  <2> SUFFICES ASSUME n + 1 <= w PROVE Good(n + 1)
    OBVIOUS
  <2>1. n <= w /\ n + 1 \in 1 .. w /\ (n + 1) - 1 = n BY <1>0
  <2>2. SearchInv(keys, edges, f[n]) /\ (f[n].cycle \/ Work(f[n]) <= w - n) BY <1>3, <2>1
  <2> DEFINE d == f[n]
             s == Search(edges, d)
  <2>3. f[n + 1] = s BY <1>1, <2>1
  <2>4. /\ SearchInv(keys, edges, s)
        /\ s.cycle \/ Work(s) < Work(d) \/ Work(s) = 0
    BY <2>2, SearchStep
  <2>5. d.cycle => s = d BY DEF Search
  <2>6. Work(d) \in Nat /\ Work(s) \in Nat
    <3>1. DOMAIN d.color = keys BY <2>2 DEF SearchInv
    <3>2. DOMAIN s.color = keys
      <4> HIDE DEF s
      <4> QED BY <2>4 DEF SearchInv
    <3> HIDE DEF d, s
    <3> QED BY <3>1, <3>2, WorkType
  <2> HIDE DEF s, w
  <2>7. s.cycle \/ Work(s) <= w - (n + 1)
    <3>1. CASE d.cycle BY <2>5, <3>1
    <3>2. CASE ~d.cycle
      <4>1. Work(d) <= w - n BY <2>2, <3>2
      <4>2. \A x, y \in Nat : x <= w - n /\ (y < x \/ y = 0) => y <= w - (n + 1)
        BY <1>0, <2>1
      <4> HIDE DEF d
      <4> QED BY <2>4, <2>6, <4>1, <4>2
    <3> QED BY <3>1, <3>2
  <2> QED BY <2>3, <2>4, <2>7
<1>4. Good(w)
  <2>1. w \in T
    <3> HIDE DEF T, w
    <3> QED BY <1>0, <1>2, <1>3, NatInduct
  <2> HIDE DEF w, Good
  <2> QED BY <1>0, <2>1
<1> DEFINE d == f[w]
<1>5. ~d.cycle BY <1>1
<1>6. SearchInv(keys, edges, d) /\ Work(d) <= 0
  <2> HIDE DEF w
  <2>1. w - w = 0 BY <1>0
  <2> QED BY <1>4, <1>5, <2>1
<1> HIDE DEF d
<1>7. d.color \in [keys -> Colors] /\ DOMAIN d.color = keys BY <1>6 DEF SearchInv
<1>8. Left(d) = {}
  <2>1. Work(d) \in Nat /\ (Work(d) = 0 => Left(d) = {}) BY <1>7, WorkType
  <2> QED BY <1>6, <2>1
<1>9. \A k \in keys : d.color[k] = "black" BY <1>7, <1>8 DEF Left
<1>10. PICK rank, b : Numbered(rank, b, keys, edges, d.color) BY <1>6 DEF SearchInv
<1>11. \A e \in edges : e[1] \in keys OBVIOUS
<1>12. b \in Nat /\ rank \in [keys -> 0 .. b]
  <2>1. rank \in [keys -> Nat] /\ b \in Nat /\ \A k \in keys : rank[k] < b BY <1>10 DEF Numbered
  <2>2. \A k \in keys : rank[k] \in 0 .. b BY <2>1
  <2> QED BY <2>1, <2>2
<1>13. Falls(rank, edges) BY <1>9, <1>10, <1>11 DEF Numbered, Falls
<1> QED BY <1>12, <1>13 DEF Acyclic

-----------------------------------------------------------------------------
(* run_layers: indegrees and outputs *)

LEMMA NoEdgesAcyclic == ASSUME NEW keys PROVE Acyclic(keys, {})
<1> DEFINE rank == [k \in keys |-> 0]
<1>1. rank \in [keys -> 0 .. 0] /\ Falls(rank, {}) BY DEF Falls
<1> QED BY <1>1 DEF Acyclic

\* The edges to k that its indegree still counts.
Before(edges, outputs, k) == {e \in edges : e[2] = k /\ e[1] \notin outputs}
Count(r, k) == Cardinality(Before(r.edges, r.outputs, k)) + Cardinality(Before(r.twice, r.outputs, k))

\* A graph that put_graph accepts.
Drawn(g) ==
    /\ g.keys \subseteq Keys /\ g.edges \subseteq g.keys \X g.keys /\ g.twice \subseteq g.edges
    /\ Acyclic(g.keys, g.edges)

\* Between two layers: what has its output is closed under predecessors, the rest
\* remains, and the indegrees count the edges from what remains.
LayerInv(r) ==
    /\ r.keys \subseteq Keys /\ r.edges \subseteq r.keys \X r.keys /\ r.twice \subseteq r.edges
    /\ Acyclic(r.keys, r.edges)
    /\ r.outputs \subseteq r.keys /\ r.remaining = r.keys \ r.outputs
    /\ \A e \in r.edges : e[2] \in r.outputs => e[1] \in r.outputs
    /\ r.indegree = [k \in r.keys |-> Count(r, k)]

\* A layer: what waits for nothing.
Ready(r) ==
    /\ r.layer \subseteq r.remaining /\ r.done \cup r.failed \subseteq r.layer
    /\ \A e \in r.edges : e[2] \in r.layer => e[1] \in r.outputs

LEMMA CountType ==
    ASSUME IsFiniteSet(Keys), NEW r, LayerInv(r), NEW k
    PROVE  /\ IsFiniteSet(Before(r.edges, r.outputs, k)) /\ IsFiniteSet(Before(r.twice, r.outputs, k))
           /\ Cardinality(Before(r.edges, r.outputs, k)) \in Nat
           /\ Cardinality(Before(r.twice, r.outputs, k)) \in Nat
<1>1. IsFiniteSet(Keys \X Keys) BY FS_Product
<1>2. Before(r.edges, r.outputs, k) \subseteq Keys \X Keys /\ Before(r.twice, r.outputs, k) \subseteq Keys \X Keys
  BY DEF LayerInv, Before
<1>3. IsFiniteSet(Before(r.edges, r.outputs, k)) /\ IsFiniteSet(Before(r.twice, r.outputs, k))
  BY <1>1, <1>2, FS_Subset
<1> QED BY <1>3, FS_CardinalityType

\* A node is scheduled when every node before it has its output, and only then.
LEMMA ScheduledWhenReady ==
    ASSUME IsFiniteSet(Keys), NEW r, LayerInv(r), NEW k \in r.remaining
    PROVE  k \in Schedulable(r) <=> \A e \in r.edges : e[2] = k => e[1] \in r.outputs
<1> DEFINE A == Before(r.edges, r.outputs, k)
           B == Before(r.twice, r.outputs, k)
<1>1. k \in r.keys /\ r.indegree[k] = Cardinality(A) + Cardinality(B) BY DEF LayerInv, Count
<1>2. IsFiniteSet(A) /\ IsFiniteSet(B) /\ Cardinality(A) \in Nat /\ Cardinality(B) \in Nat BY CountType
<1>3. B \subseteq A BY DEF LayerInv, Before
<1>4. A = {} <=> \A e \in r.edges : e[2] = k => e[1] \in r.outputs BY DEF Before
<1>5. (Cardinality(A) = 0 <=> A = {}) /\ (Cardinality(B) = 0 <=> B = {}) BY <1>2, FS_EmptySet
<1> HIDE DEF A, B
<1>6. r.indegree[k] = 0 <=> A = {}
  <2>1. \A x, y \in Nat : x + y = 0 <=> x = 0 /\ y = 0 OBVIOUS
  <2> QED BY <1>1, <1>2, <1>3, <1>5, <2>1
<1> QED BY <1>4, <1>6 DEF Schedulable

\* The least of the distances to b.
LEMMA HighestRank ==
    ASSUME NEW keys, NEW b \in Nat, NEW rank \in [keys -> 0 .. b],
           NEW S \in SUBSET keys, S # {}
    PROVE  \E k \in S : \A j \in S : rank[j] <= rank[k]
<1> DEFINE X == {n \in Nat : \E k \in S : n = b - rank[k]}
           R == {ss \in Nat \X Nat : ss[1] < ss[2]}
<1>1. IsWellFoundedOn(R, Nat) BY NatLessThanWellFounded DEF OpToRel
<1>2. \A k \in S : rank[k] \in 0 .. b /\ b - rank[k] \in Nat OBVIOUS
<1>3. X \subseteq Nat /\ X # {} BY <1>2
<1>4. PICK m \in X : \A n \in X : ~(<<n, m>> \in R)
  <2> HIDE DEF R, X
  <2> QED BY <1>1, <1>3, WFMin
<1>5. PICK k \in S : m = b - rank[k] BY <1>4
<1>6. ASSUME NEW j \in S PROVE rank[j] <= rank[k]
  <2>1. b - rank[j] \in X BY <1>2
  <2>2. ~(b - rank[j] < m)
    <3>1. <<b - rank[j], m>> \notin R BY <1>4, <2>1
    <3>2. b - rank[j] \in Nat /\ m \in Nat BY <1>2, <1>3, <1>4
    <3> QED BY <3>1, <3>2
  <2>3. \A x, y \in 0 .. b : ~(b - x < b - y) => x <= y OBVIOUS
  <2> QED BY <1>2, <1>5, <2>2, <2>3
<1> QED BY <1>6

\* As long as a node remains, one can be scheduled.
LEMMA SomeScheduled ==
    ASSUME IsFiniteSet(Keys), NEW r, LayerInv(r), r.remaining # {}
    PROVE  Schedulable(r) # {}
<1>0. PICK b \in Nat : \E rank \in [r.keys -> 0 .. b] : Falls(rank, r.edges)
  BY DEF LayerInv, Acyclic
<1>1. PICK rank \in [r.keys -> 0 .. b] : Falls(rank, r.edges) BY <1>0
<1>2. r.remaining \in SUBSET r.keys BY DEF LayerInv
<1>3. PICK k \in r.remaining : \A j \in r.remaining : rank[j] <= rank[k]
  BY <1>2, HighestRank
<1>4. ASSUME NEW e \in r.edges, e[2] = k PROVE e[1] \in r.outputs
  <2>1. e[1] \in r.keys /\ k \in r.keys BY <1>2 DEF LayerInv
  <2>2. rank[k] < rank[e[1]] /\ rank[k] \in 0 .. b /\ rank[e[1]] \in 0 .. b BY <1>1, <1>4, <2>1 DEF Falls
  <2>3. e[1] \notin r.remaining BY <1>3, <2>2
  <2> QED BY <2>1, <2>3 DEF LayerInv
<1> QED BY <1>4, ScheduledWhenReady

-----------------------------------------------------------------------------
(* Executions and the edits made meanwhile *)

RunFields == {"pc", "v", "keys", "edges", "twice", "reads", "remaining", "layer", "done", "failed",
              "outputs", "indegree", "whole"}
Waits == {"idle", "nodes", "edges", "layer", "running"}
Ends == {"ok", "error", "mapping", "timeout", "not_found"}

\* The rows, and the graph an edit in flight has checked.
RowsInv ==
    /\ DOMAIN wf = {"exists", "v", "graph"} /\ wf.v \in Nat /\ Drawn(wf.graph)
    /\ edit.open => Drawn(edit.graph)

\* The nodes are read and the edges are not: the nodes are those of the rows unless the
\* graph was replaced.
NodesRead(r) ==
    /\ r.v \in Nat /\ r.v <= wf.v /\ r.keys \subseteq Keys
    /\ r.v = wf.v => r.keys = wf.graph.keys
    /\ r.remaining = r.keys /\ r.outputs = {} /\ r.done = {} /\ r.failed = {}

ExecutionInv ==
    /\ DOMAIN run = RunFields /\ run.pc \in Waits \cup Ends
    /\ run.pc = "nodes" => run.outputs = {} /\ run.done = {} /\ run.failed = {}
    /\ run.pc = "edges" => NodesRead(run)
    /\ run.pc \in {"layer", "running", "mapping"} => LayerInv(run)
    /\ run.pc = "layer" => run.done = {} /\ run.failed = {}
    /\ run.pc \in {"running", "mapping"} => Ready(run)

\* What a layer knows depends on these fields only.
LEMMA LayerInvSame ==
    ASSUME NEW r, NEW q, LayerInv(r), q.keys = r.keys, q.edges = r.edges, q.twice = r.twice,
           q.outputs = r.outputs, q.remaining = r.remaining, q.indegree = r.indegree
    PROVE  LayerInv(q)
<1>1. \A k : Count(q, k) = Count(r, k) BY DEF Count
<1> QED BY <1>1 DEF LayerInv

LEMMA WorkflowInitInv ==
    ASSUME WorkflowInit
    PROVE  RowsInv /\ ExecutionInv
<1>1. /\ wf = [exists |-> TRUE, v |-> 0, graph |-> NoGraph] /\ edit = NoEdit
      /\ run = NoRun
  BY DEF WorkflowInit
<1>2. Drawn(NoGraph) BY NoEdgesAcyclic DEF Drawn, NoGraph
<1>3. RowsInv BY <1>1, <1>2 DEF RowsInv, NoEdit
<1>4. DOMAIN run = RunFields /\ run.pc = "idle" BY <1>1 DEF NoRun, RunFields
<1> QED BY <1>3, <1>4 DEF ExecutionInv, Waits

\* The rows change, the run does not.
LEMMA RowsReplaced ==
    ASSUME RowsInv, ExecutionInv, run' = run, wf'.v \in Nat,
           wf' = wf \/ wf'.v > wf.v
    PROVE  ExecutionInv'
<1>1. run.pc = "edges" => NodesRead(run)'
  <2> SUFFICES ASSUME run.pc = "edges" PROVE NodesRead(run)'
    OBVIOUS
  <2>1. NodesRead(run) BY DEF ExecutionInv
  <2>2. CASE wf' = wf BY <2>1, <2>2 DEF NodesRead
  <2>3. CASE wf'.v > wf.v
    <3>1. run.v \in Nat /\ run.v <= wf.v /\ wf.v \in Nat BY <2>1 DEF NodesRead, RowsInv
    <3>2. run.v <= wf'.v /\ run.v # wf'.v BY <2>3, <3>1
    <3> QED BY <2>1, <3>1, <3>2 DEF NodesRead
  <2> QED BY <2>2, <2>3
<1>2. (LayerInv(run) => LayerInv(run)') /\ (Ready(run) => Ready(run)') BY DEF LayerInv, Count, Ready
<1> QED BY <1>1, <1>2 DEF ExecutionInv

LEMMA WorkflowPutCheck ==
    ASSUME RowsInv, ExecutionInv, PutCheck
    PROVE  RowsInv' /\ ExecutionInv'
<1>1. /\ wf' = wf /\ run' = run
      /\ \E g \in Accepted, s \in AtMostOne(Strays) :
           edit' = [open |-> TRUE,
                    graph |-> [g EXCEPT !.twice = g.edges \cap Doubled,
                                        !.reads = (g.edges \ Bare) \cup {m \in s : m[2] \in g.keys}]]
  BY DEF PutCheck
<1>2. PICK g \in Accepted : \E R :
           edit' = [open |-> TRUE,
                    graph |-> [g EXCEPT !.twice = g.edges \cap Doubled, !.reads = R]]
  BY <1>1
<1> PICK S : edit' = [open |-> TRUE,
                      graph |-> [g EXCEPT !.twice = g.edges \cap Doubled, !.reads = S]]
  BY <1>2
<1>3. /\ g \in Graphs /\ g.edges \subseteq g.keys \X g.keys
      /\ ~DetectCycle(g.keys, g.edges)
  BY DEF Accepted
<1>4. PICK K \in SUBSET Keys, E \in SUBSET (Keys \X Keys) :
        g = [keys |-> K, edges |-> E, twice |-> {}, reads |-> {}]
  BY <1>3 DEF Graphs
<1>5. g.keys = K /\ g.edges = E BY <1>4
<1>6. IsFiniteSet(K)
  <2>1. IsFiniteSet(Keys) BY WorkflowAssumption DEF WorkflowConstants
  <2> QED BY <2>1, FS_Subset
<1>7. Acyclic(K, E) BY <1>3, <1>5, <1>6, DetectSound
<1> DEFINE h == [g EXCEPT !.twice = g.edges \cap Doubled, !.reads = S]
<1>8. h.keys = K /\ h.edges = E /\ h.twice = E \cap Doubled BY <1>4
<1> HIDE DEF h
<1>9. Drawn(h)
  <2>1. E \subseteq K \X K BY <1>3, <1>5
  <2> QED BY <1>7, <1>8, <2>1 DEF Drawn
<1>10. edit'.graph = h BY DEF h
<1>11. Drawn(edit'.graph) BY <1>9, <1>10
<1>12. RowsInv'
  <2>1. Drawn(wf.graph)' BY <1>1 DEF RowsInv, Drawn
  <2>2. Drawn(edit.graph)' BY <1>11 DEF Drawn
  <2> QED BY <1>1, <2>1, <2>2 DEF RowsInv
<1> QED BY <1>1, <1>12, RowsReplaced DEF RowsInv

LEMMA WorkflowPutCommit ==
    ASSUME RowsInv, ExecutionInv, PutCommit
    PROVE  RowsInv' /\ ExecutionInv'
<1>1. /\ edit.open /\ edit' = NoEdit /\ run' = run
      /\ \/ wf' = [wf EXCEPT !.v = @ + 1, !.graph = edit.graph]
         \/ wf' = wf
  BY DEF PutCommit
<1>2. ~edit'.open BY <1>1 DEF NoEdit
<1>3. DOMAIN wf = {"exists", "v", "graph"} /\ wf.v \in Nat /\ Drawn(wf.graph) /\ Drawn(edit.graph)
  BY <1>1 DEF RowsInv
<1>4. CASE wf' = wf
  <2>1. RowsInv' BY <1>2, <1>3, <1>4 DEF RowsInv, Drawn
  <2> QED BY <1>1, <1>3, <1>4, <2>1, RowsReplaced
<1>5. CASE wf' = [wf EXCEPT !.v = @ + 1, !.graph = edit.graph]
  <2>1. DOMAIN wf' = {"exists", "v", "graph"} BY <1>3, <1>5
  <2>2. wf'.v = wf.v + 1 BY <1>3, <1>5
  <2>3. wf'.graph = edit.graph BY <1>3, <1>5
  <2>4. wf'.v \in Nat /\ wf'.v > wf.v BY <1>3, <2>2
  <2>5. RowsInv' BY <1>2, <1>3, <2>1, <2>3, <2>4 DEF RowsInv, Drawn
  <2> QED BY <1>1, <2>4, <2>5, RowsReplaced
<1> QED BY <1>1, <1>4, <1>5

LEMMA WorkflowDelete ==
    ASSUME RowsInv, ExecutionInv, Delete
    PROVE  RowsInv' /\ ExecutionInv'
<1>1. /\ wf' = [exists |-> FALSE, v |-> wf.v + 1, graph |-> NoGraph]
      /\ edit' = edit /\ run' = run
  BY DEF Delete
<1>2. wf.v \in Nat /\ (edit.open => Drawn(edit.graph)) BY DEF RowsInv
<1>3. Drawn(NoGraph) BY NoEdgesAcyclic DEF Drawn, NoGraph
<1>4. wf'.v \in Nat /\ wf'.v > wf.v BY <1>1, <1>2
<1>5. RowsInv' BY <1>1, <1>2, <1>3, <1>4 DEF RowsInv, Drawn
<1> QED BY <1>1, <1>4, <1>5, RowsReplaced

\* The run changes, the rows do not.
LEMMA RowsSame ==
    ASSUME RowsInv, wf' = wf, edit' = edit
    PROVE  RowsInv'
BY DEF RowsInv, Drawn

LEMMA WorkflowLoadWorkflow ==
    ASSUME RowsInv, ExecutionInv, LoadWorkflow
    PROVE  ExecutionInv'
<1> DEFINE p == IF wf.exists THEN "nodes" ELSE "not_found"
<1>1. run' = [NoRun EXCEPT !.pc = p] BY DEF LoadWorkflow
<1>2. run'.pc = p /\ run'.outputs = {} /\ run'.done = {} /\ run'.failed = {} BY <1>1 DEF NoRun
<1>3. DOMAIN run' = RunFields BY <1>1 DEF NoRun, RunFields
<1> QED BY <1>2, <1>3 DEF ExecutionInv, Waits, Ends

LEMMA WorkflowLoadNodes ==
    ASSUME RowsInv, ExecutionInv, LoadNodes
    PROVE  ExecutionInv'
<1>1. /\ run.pc = "nodes" /\ wf' = wf
      /\ run' = [run EXCEPT !.pc = "edges", !.v = wf.v, !.keys = wf.graph.keys,
                            !.remaining = wf.graph.keys, !.reads = wf.graph.reads]
  BY DEF LoadNodes
<1>2. DOMAIN run = RunFields /\ run.outputs = {} /\ run.done = {} /\ run.failed = {}
  BY <1>1 DEF ExecutionInv
<1>3. /\ DOMAIN run' = RunFields /\ run'.pc = "edges" /\ run'.v = wf.v
      /\ run'.keys = wf.graph.keys /\ run'.remaining = wf.graph.keys
      /\ run'.outputs = {} /\ run'.done = {} /\ run'.failed = {}
  BY <1>1, <1>2 DEF RunFields
<1>4. wf.v \in Nat /\ wf.graph.keys \subseteq Keys BY DEF RowsInv, Drawn
<1>5. wf.v <= wf.v BY <1>4
<1>6. NodesRead(run)' BY <1>1, <1>3, <1>4, <1>5 DEF NodesRead
<1> QED BY <1>3, <1>6 DEF ExecutionInv, Waits

LEMMA WorkflowLoadEdges ==
    ASSUME RowsInv, ExecutionInv, LoadEdges
    PROVE  ExecutionInv'
<1> DEFINE E == KnownEdges(run, wf.graph)
           D == wf.graph.twice \cap E
           G == [k \in run.keys |-> InDegree(E, D, k)]
<1>1. /\ run.pc = "edges"
      /\ run' = [run EXCEPT !.pc = "layer", !.edges = E, !.twice = D, !.whole = (run.v = wf.v),
                            !.indegree = G]
  BY DEF LoadEdges
<1>2. DOMAIN run = RunFields /\ NodesRead(run) BY <1>1 DEF ExecutionInv
<1>3. E \subseteq run.keys \X run.keys /\ Acyclic(run.keys, E)
  <2>1. CASE run.v = wf.v
    <3>1. E = wf.graph.edges BY <2>1 DEF KnownEdges
    <3> QED BY <1>2, <2>1, <3>1 DEF NodesRead, RowsInv, Drawn
  <2>2. CASE run.v # wf.v
    <3>1. E = {} BY <2>2 DEF KnownEdges
    <3> QED BY <3>1, NoEdgesAcyclic
  <2> QED BY <2>1, <2>2
<1> HIDE DEF E, D, G
<1>4. /\ DOMAIN run' = RunFields /\ run'.pc = "layer" /\ run'.edges = E /\ run'.twice = D
      /\ run'.indegree = G /\ run'.keys = run.keys /\ run'.remaining = run.remaining
      /\ run'.outputs = run.outputs /\ run'.done = run.done /\ run'.failed = run.failed
  BY <1>1, <1>2 DEF RunFields
<1>5. D \subseteq E BY DEF D
<1>6. G = [k \in run.keys |-> Count(run', k)]
  <2>1. ASSUME NEW k \in run.keys PROVE InDegree(E, D, k) = Count(run', k)
    <3>1. run'.outputs = {} BY <1>2, <1>4 DEF NodesRead
    <3>2. Before(E, {}, k) = {e \in E : e[2] = k} /\ Before(D, {}, k) = {e \in D : e[2] = k} BY DEF Before
    <3> QED BY <1>4, <3>1, <3>2 DEF Count, InDegree
  <2> QED BY <2>1 DEF G
<1>7. LayerInv(run')
  <2>1. /\ run.keys \subseteq Keys /\ run.remaining = run.keys /\ run.outputs = {}
    BY <1>2 DEF NodesRead
  <2> QED BY <1>3, <1>4, <1>5, <1>6, <2>1 DEF LayerInv
<1>8. LayerInv(run)' BY <1>7 DEF LayerInv, Count
<1> QED BY <1>2, <1>4, <1>8 DEF ExecutionInv, Waits, NodesRead

LEMMA WorkflowPickLayer ==
    ASSUME IsFiniteSet(Keys), RowsInv, ExecutionInv, PickLayer
    PROVE  ExecutionInv'
<1> DEFINE L == Schedulable(run)
<1>1. /\ run.pc = "layer"
      /\ run' \in IF run.remaining = {} THEN {[run EXCEPT !.pc = "ok"]}
                  ELSE IF L = {} THEN {[run EXCEPT !.pc = "topology"]}
                  ELSE {[run EXCEPT !.pc = o, !.layer = L] : o \in BuildInputs(run, L)}
  BY DEF PickLayer
<1>2. DOMAIN run = RunFields /\ LayerInv(run) /\ run.done = {} /\ run.failed = {}
  BY <1>1 DEF ExecutionInv
<1>3. L \subseteq run.remaining /\ \A e \in run.edges : e[2] \in L => e[1] \in run.outputs
  <2>1. L \subseteq run.remaining BY DEF Schedulable
  <2> QED BY <1>2, <2>1, ScheduledWhenReady
<1>4. run.remaining # {} => L # {} BY <1>2, SomeScheduled
<1>5. run.remaining = {} => L = {} BY <1>3
<1> HIDE DEF L
<1>6. CASE run.remaining = {}
  <2>1. run' = [run EXCEPT !.pc = "ok"] BY <1>1, <1>5, <1>6
  <2>2. DOMAIN run' = RunFields /\ run'.pc = "ok" BY <1>2, <2>1 DEF RunFields
  <2> QED BY <2>2 DEF ExecutionInv, Ends
<1>7. CASE run.remaining # {}
  <2>1. PICK p \in BuildInputs(run, L) : run' = [run EXCEPT !.pc = p, !.layer = L]
    BY <1>1, <1>4, <1>7
  <2>0. p \in {"running", "mapping"} BY DEF BuildInputs
  <2>2. /\ DOMAIN run' = RunFields /\ run'.pc = p /\ run'.layer = L
        /\ run'.keys = run.keys /\ run'.edges = run.edges /\ run'.twice = run.twice
        /\ run'.outputs = run.outputs /\ run'.remaining = run.remaining
        /\ run'.indegree = run.indegree /\ run'.done = run.done /\ run'.failed = run.failed
        /\ run'.reads = run.reads
    BY <1>2, <2>1 DEF RunFields
  <2>3. LayerInv(run') BY <1>2, <2>2, LayerInvSame
  <2>4. LayerInv(run)' BY <2>3 DEF LayerInv, Count
  <2>5. Ready(run)' BY <1>2, <1>3, <2>2 DEF Ready
  <2> QED BY <1>2, <2>0, <2>2, <2>4, <2>5 DEF ExecutionInv, Waits, Ends
<1> QED BY <1>6, <1>7

LEMMA WorkflowNodeEnds ==
    ASSUME ExecutionInv, NodeEnds
    PROVE  ExecutionInv'
<1>1. /\ run.pc = "running"
      /\ \E k \in run.layer : \/ run' = [run EXCEPT !.done = @ \cup {k}]
                              \/ run' = [run EXCEPT !.failed = @ \cup {k}]
  BY DEF NodeEnds
<1>2. DOMAIN run = RunFields /\ LayerInv(run) /\ Ready(run) BY <1>1 DEF ExecutionInv
<1>3. /\ DOMAIN run' = RunFields /\ run'.pc = "running" /\ run'.layer = run.layer
      /\ run'.keys = run.keys /\ run'.edges = run.edges /\ run'.twice = run.twice
      /\ run'.outputs = run.outputs /\ run'.remaining = run.remaining
      /\ run'.indegree = run.indegree
      /\ run'.done \cup run'.failed \subseteq run.layer
  <2>1. PICK k \in run.layer : \/ run' = [run EXCEPT !.done = @ \cup {k}]
                               \/ run' = [run EXCEPT !.failed = @ \cup {k}]
    BY <1>1
  <2>2. run.done \cup run.failed \subseteq run.layer BY <1>2 DEF Ready
  <2>3. CASE run' = [run EXCEPT !.done = @ \cup {k}] BY <1>1, <1>2, <2>2, <2>3 DEF RunFields
  <2>4. CASE run' = [run EXCEPT !.failed = @ \cup {k}] BY <1>1, <1>2, <2>2, <2>4 DEF RunFields
  <2> QED BY <2>1, <2>3, <2>4
<1>4. LayerInv(run') BY <1>2, <1>3, LayerInvSame
<1>5. LayerInv(run)' BY <1>4 DEF LayerInv, Count
<1>6. Ready(run)' BY <1>2, <1>3 DEF Ready
<1> QED BY <1>3, <1>5, <1>6 DEF ExecutionInv, Waits

\* The decrements of a layer: exactly the edges from it.
LEMMA CountFalls ==
    ASSUME IsFiniteSet(Keys), NEW r, LayerInv(r), NEW S, S \subseteq r.remaining, NEW k \in r.keys,
           NEW q, q.edges = r.edges, q.twice = r.twice, q.outputs = r.outputs \cup S
    PROVE  Lowered(r, S)[k] = Count(q, k)
<1> DEFINE A == Before(r.edges, r.outputs, k)
           B == Before(r.twice, r.outputs, k)
           a == {e \in r.edges : e[1] \in S /\ e[2] = k}
           b == {e \in r.twice : e[1] \in S /\ e[2] = k}
           n == Cardinality(a) + Cardinality(b)
<1>1. Lowered(r, S)[k] = IF r.indegree[k] >= n THEN r.indegree[k] - n ELSE 0 BY DEF Lowered
<1>2. r.indegree[k] = Cardinality(A) + Cardinality(B) BY DEF LayerInv, Count
<1>3. \A x \in S : x \notin r.outputs BY DEF LayerInv
<1>4. a \subseteq A /\ b \subseteq B BY <1>3 DEF Before
<1>5. A \ a = Before(r.edges, r.outputs \cup S, k) /\ B \ b = Before(r.twice, r.outputs \cup S, k)
  BY DEF Before
<1>6. IsFiniteSet(A) /\ IsFiniteSet(B) /\ Cardinality(A) \in Nat /\ Cardinality(B) \in Nat BY CountType
<1>7. Count(q, k) = Cardinality(A \ a) + Cardinality(B \ b) BY <1>5 DEF Count
<1> HIDE DEF A, B, a, b
<1>8. A \cap a = a /\ B \cap b = b BY <1>4
<1>9. Cardinality(A \ a) = Cardinality(A) - Cardinality(a) /\ Cardinality(B \ b) = Cardinality(B) - Cardinality(b)
  <2>1. Cardinality(A \ a) = Cardinality(A) - Cardinality(A \cap a) BY ONLY <1>6, FS_Difference
  <2>2. Cardinality(B \ b) = Cardinality(B) - Cardinality(B \cap b) BY ONLY <1>6, FS_Difference
  <2> QED BY ONLY <1>8, <2>1, <2>2
<1>10. Cardinality(A \ a) \in Nat /\ Cardinality(B \ b) \in Nat
  <2>1. IsFiniteSet(A \ a) /\ IsFiniteSet(B \ b) BY <1>6, FS_Difference
  <2> QED BY <2>1, FS_CardinalityType
<1>11. Cardinality(a) \in Nat /\ Cardinality(b) \in Nat
  <2>1. IsFiniteSet(a) /\ IsFiniteSet(b) BY <1>4, <1>6, FS_Subset
  <2> QED BY <2>1, FS_CardinalityType
<1>12. \A x, y, u, v, i, j \in Nat : i = x - u /\ j = y - v => x + y >= u + v /\ (x + y) - (u + v) = i + j
  OBVIOUS
<1>13. /\ Cardinality(A) + Cardinality(B) >= n
       /\ (Cardinality(A) + Cardinality(B)) - n = Cardinality(A \ a) + Cardinality(B \ b)
  BY <1>6, <1>9, <1>10, <1>11, <1>12
<1> HIDE DEF n
<1> QED BY <1>1, <1>2, <1>7, <1>13

LEMMA WorkflowApplyLayer ==
    ASSUME IsFiniteSet(Keys), ExecutionInv, ApplyLayer
    PROVE  ExecutionInv'
<1>1. PICK S \in SUBSET run.done :
        /\ run.pc = "running" /\ run.layer = run.done \cup run.failed
        /\ run.failed = {} => S = run.done
        /\ run' = [run EXCEPT !.pc = IF run.failed = {} THEN "layer" ELSE "error",
                              !.outputs = @ \cup S, !.remaining = @ \ S,
                              !.indegree = Lowered(run, S),
                              !.layer = {}, !.done = {}, !.failed = {}]
  BY DEF ApplyLayer
<1>2. DOMAIN run = RunFields /\ LayerInv(run) /\ Ready(run) BY <1>1 DEF ExecutionInv
<1> DEFINE G == Lowered(run, S)
           p == IF run.failed = {} THEN "layer" ELSE "error"
<1>3. G = [k \in run.keys |-> G[k]] BY DEF Lowered
<1> HIDE DEF G, p
<1>4. /\ DOMAIN run' = RunFields /\ run'.pc = p
      /\ run'.outputs = run.outputs \cup S /\ run'.remaining = run.remaining \ S
      /\ run'.indegree = G /\ run'.done = {} /\ run'.failed = {}
      /\ run'.keys = run.keys /\ run'.edges = run.edges /\ run'.twice = run.twice
  BY <1>1, <1>2 DEF RunFields, G, p
<1>5. CASE run.failed # {}
  <2>1. run'.pc = "error" BY <1>4, <1>5 DEF p
  <2> QED BY <1>4, <2>1 DEF ExecutionInv, Ends
<1>6. CASE run.failed = {}
  <2>1. run'.pc = "layer" BY <1>4, <1>6 DEF p
  <2>2. S = run.layer /\ S \subseteq run.remaining BY <1>1, <1>2, <1>6 DEF Ready
  <2>3. S \subseteq run.keys /\ run.remaining = run.keys \ run.outputs BY <1>2, <2>2 DEF LayerInv
  <2>4. \A k \in run.keys : G[k] = Count(run', k) BY <1>2, <1>4, <2>2, CountFalls DEF G
  <2>5. G = [k \in run.keys |-> Count(run', k)] BY <1>3, <2>4
  <2>6. \A e \in run.edges : e[2] \in run.outputs \cup S => e[1] \in run.outputs \cup S
    BY <1>2, <2>2 DEF LayerInv, Ready
  <2>7. run.outputs \cup S \subseteq run.keys /\ run.remaining \ S = run.keys \ (run.outputs \cup S)
    BY <1>2, <2>3 DEF LayerInv
  <2>8. LayerInv(run') BY <1>2, <1>4, <2>5, <2>6, <2>7 DEF LayerInv
  <2>9. LayerInv(run)' BY <2>8 DEF LayerInv, Count
  <2> QED BY <1>4, <2>1, <2>9 DEF ExecutionInv, Waits
<1> QED BY <1>5, <1>6

LEMMA WorkflowEnds ==
    ASSUME ExecutionInv, Timeout \/ Answer
    PROVE  ExecutionInv'
<1>1. CASE Timeout
  <2>1. DOMAIN run = RunFields BY DEF ExecutionInv
  <2>2. DOMAIN run' = RunFields /\ run'.pc = "timeout" BY <1>1, <2>1 DEF Timeout, RunFields
  <2> QED BY <2>2 DEF ExecutionInv, Ends
<1>2. CASE Answer
  <2>1. run' = NoRun BY <1>2 DEF Answer
  <2>2. DOMAIN run' = RunFields /\ run'.pc = "idle" BY <2>1 DEF NoRun, RunFields
  <2> QED BY <2>2 DEF ExecutionInv, Waits
<1> QED BY <1>1, <1>2

LEMMA WorkflowNextInv ==
    ASSUME RowsInv, ExecutionInv, [WorkflowNext]_workflowVars
    PROVE  RowsInv' /\ ExecutionInv'
<1>0. IsFiniteSet(Keys) BY WorkflowAssumption DEF WorkflowConstants
<1>1. CASE PutCheck BY <1>1, WorkflowPutCheck
<1>2. CASE PutCommit BY <1>2, WorkflowPutCommit
<1>3. CASE Delete BY <1>3, WorkflowDelete
<1>4. CASE LoadWorkflow
  <2>1. wf' = wf /\ edit' = edit BY <1>4 DEF LoadWorkflow
  <2> QED BY <1>4, <2>1, WorkflowLoadWorkflow, RowsSame
<1>5. CASE LoadNodes
  <2>1. wf' = wf /\ edit' = edit BY <1>5 DEF LoadNodes
  <2> QED BY <1>5, <2>1, WorkflowLoadNodes, RowsSame
<1>6. CASE LoadEdges
  <2>1. wf' = wf /\ edit' = edit BY <1>6 DEF LoadEdges
  <2> QED BY <1>6, <2>1, WorkflowLoadEdges, RowsSame
<1>7. CASE PickLayer
  <2>1. wf' = wf /\ edit' = edit BY <1>7 DEF PickLayer
  <2> QED BY <1>0, <1>7, <2>1, WorkflowPickLayer, RowsSame
<1>8. CASE NodeEnds
  <2>1. wf' = wf /\ edit' = edit BY <1>8 DEF NodeEnds
  <2> QED BY <1>8, <2>1, WorkflowNodeEnds, RowsSame
<1>9. CASE ApplyLayer
  <2>1. wf' = wf /\ edit' = edit BY <1>9 DEF ApplyLayer
  <2> QED BY <1>0, <1>9, <2>1, WorkflowApplyLayer, RowsSame
<1>10. CASE Timeout \/ Answer
  <2>1. wf' = wf /\ edit' = edit BY <1>10 DEF Timeout, Answer
  <2> QED BY <1>10, <2>1, WorkflowEnds, RowsSame
<1>11. CASE UNCHANGED workflowVars
  <2>1. wf' = wf /\ edit' = edit /\ run' = run BY <1>11 DEF workflowVars
  <2> QED BY <2>1, RowsSame, RowsReplaced DEF RowsInv
<1> QED BY <1>1, <1>2, <1>3, <1>4, <1>5, <1>6, <1>7, <1>8, <1>9, <1>10, <1>11 DEF WorkflowNext

\* What has its output contains every node before a member of the layer, however far.
LEMMA AncestorsDone ==
    ASSUME LayerInv(run), Ready(run), NEW k \in run.layer
    PROVE  Ancestors(run.edges, k) \subseteq run.outputs
<1>1. run.outputs \in SUBSET Keys BY DEF LayerInv
<1>2. \A e \in run.edges : e[2] \in run.outputs \cup {k} => e[1] \in run.outputs
  BY DEF LayerInv, Ready
<1> QED BY <1>1, <1>2 DEF Ancestors

LEMMA ExecutionInvImplies == ExecutionInv => InputsReady /\ NeverStuck
<1> SUFFICES ASSUME ExecutionInv PROVE InputsReady /\ NeverStuck
  OBVIOUS
<1>1. ASSUME run.pc \in {"running", "mapping"}, NEW k \in run.layer
      PROVE  Ancestors(run.edges, k) \subseteq run.outputs
  BY <1>1, AncestorsDone DEF ExecutionInv
<1>2. NeverStuck BY DEF ExecutionInv, Waits, Ends, NeverStuck
<1> QED BY <1>1, <1>2 DEF InputsReady

-----------------------------------------------------------------------------
(* Theorems about the workflow executor *)

\* The input of a node is built only when every node before it, however far, has its
\* output, for any graphs, edits and deletions while the workflow runs (run_layers).
THEOREM WorkflowInputsReady == WorkflowSpec => []InputsReady
<1> QED BY WorkflowInitInv, WorkflowNextInv, ExecutionInvImplies, PTL DEF WorkflowSpec

\* run_layers never finds nodes left and none to schedule: detect_cycle finds every
\* cycle of the graphs it is given, of any size, and a graph replaced between the two
\* reads of a run leaves nothing waiting.
THEOREM WorkflowNeverStuck == WorkflowSpec => []NeverStuck
<1> QED BY WorkflowInitInv, WorkflowNextInv, ExecutionInvImplies, PTL DEF WorkflowSpec
=============================================================================
