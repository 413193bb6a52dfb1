------------------------ MODULE AssistantChatProofs ------------------------
(***************************************************************************)
(* Safety of AssistantChat for any requests, catalog of agents, hooks,     *)
(* daily limit, cap, number of hops, expiries, new sessions and failures.  *)
(***************************************************************************)
EXTENDS AssistantChat, FiniteSetTheorems, TLAPS

----------------------------------------------------------------------------
(* Types, and what a request may have at each of its stages                *)
(***************************************************************************)
Admitted == {"expire", "slot", "session", "create", "append", "drain"}
Stages == Admitted \cup {"idle", "refund", "ended"}
Outcomes == {"none", "refused", "limited", "busy", "failed", "gone", "ok"}
ReqType == [pc : Stages, out : Outcomes, paid : Int, sess : Nat, slot : BOOLEAN, conn : BOOLEAN]

ChatType ==
    /\ quota \in [n : Int, ttl : BOOLEAN]
    /\ window \in Nat /\ window > 0
    /\ slots \in Nat /\ dropped \in Nat /\ drift \in Nat
    /\ live \subseteq Nat /\ nSess \in Nat
    /\ req \in [Requests -> ReqType]
    /\ DOMAIN orch = Requests

\* A request is charged once, at its start, and holds a guard from its slot to its
\* end; what it paid is positive until it is refunded or Redis fails on it.
Fits(pc, out, paid, slot, conn) ==
    /\ pc = "idle" => paid = 0 /\ out = "none" /\ ~slot /\ conn
    /\ pc \in Admitted => paid > 0 /\ out = "none" /\ conn
    /\ pc = "refund" => paid > 0 /\ out \in {"limited", "busy", "failed"} /\ conn
    /\ pc \in {"session", "create", "append", "drain"} => slot
    /\ pc \in {"expire", "slot", "ended"} => ~slot
    /\ pc = "ended" /\ conn /\ out # "ok" => paid <= 0
    /\ pc = "ended" => out # "none"
    /\ out = "ok" => pc = "ended"
    /\ paid <= window /\ -paid <= window
StageInv == \A r \in Requests :
    Fits(req[r].pc, req[r].out, req[r].paid, req[r].slot, req[r].conn)

\* A task whose client is there is drained by it; an answer is sent after the task
\* is over, and only if it reported no error.
TaskInv == \A r \in Requests :
    /\ req[r].conn /\ ~Quiet(orch[r]) => req[r].pc = "drain"
    /\ req[r].out = "ok" => Quiet(orch[r]) /\ ~orch[r].error

\* One handler moves: the record of r becomes the one given, the others stay.
Moves(r, pc, out, paid, slot, conn) ==
    /\ req' \in [Requests -> ReqType]
    /\ \A q \in Requests \ {r} : req'[q] = req[q]
    /\ req'[r].pc = pc /\ req'[r].out = out /\ req'[r].paid = paid
    /\ req'[r].slot = slot /\ req'[r].conn = conn

LEMMA LeavesMoves ==
    ASSUME ChatType, NEW r \in Requests, NEW rec \in ReqType, Leaves(r, rec)
    PROVE  /\ Moves(r, "ended", rec.out, rec.paid, FALSE, rec.conn)
           /\ dropped' = IF req[r].slot THEN dropped + 1 ELSE dropped
           /\ slots' = slots
BY DEF ChatType, Leaves, Moves, ReqType, Stages

LEMMA EndsMoves ==
    ASSUME ChatType, NEW r \in Requests, NEW out \in Outcomes, Ends(r, out)
    PROVE  /\ Moves(r, "ended", out, req[r].paid, FALSE, req[r].conn)
           /\ dropped' = IF req[r].slot THEN dropped + 1 ELSE dropped
           /\ slots' = slots
<1> DEFINE rec == [req[r] EXCEPT !.out = out]
<1>1. req[r] \in ReqType BY DEF ChatType
<1>2. rec \in ReqType BY <1>1 DEF ReqType
<1>3. rec.out = out /\ rec.paid = req[r].paid /\ rec.conn = req[r].conn BY <1>1 DEF ReqType
<1>4. Leaves(r, rec) BY DEF Ends
<1> HIDE DEF rec
<1> QED BY <1>2, <1>3, <1>4, LeavesMoves

LEMMA ToMoves ==
    ASSUME ChatType, NEW r \in Requests, NEW pc \in Stages, NEW out \in Outcomes, To(r, pc, out)
    PROVE  Moves(r, pc, out, req[r].paid, req[r].slot, req[r].conn)
BY DEF ChatType, To, Moves, ReqType

LEMMA RefundsMoves ==
    ASSUME ChatType, NEW r \in Requests, NEW out \in Outcomes, Refunds(r, out)
    PROVE  /\ Moves(r, "refund", out, req[r].paid, req[r].slot, req[r].conn)
           /\ dropped' = dropped /\ slots' = slots
BY ToMoves DEF Refunds, Stages, slotVars

\* The other fields of the state that the counters are about
Calm == UNCHANGED <<quota, window, drift, slots, dropped>>

LEMMA RefuseEffect ==
    ASSUME ChatType, StageInv, NEW r \in Requests, Refuse(r)
    PROVE  /\ req[r].pc = "idle" /\ Calm /\ UNCHANGED <<store, orch>>
           /\ Moves(r, "ended", "refused", 0, FALSE, TRUE)
<1>1. Ends(r, "refused") /\ req[r].pc = "idle" BY DEF Refuse, AtPc
<1>2. req[r].paid = 0 /\ ~req[r].slot /\ req[r].conn BY <1>1 DEF StageInv, Fits
<1>3. req[r].conn = TRUE BY <1>2 DEF ChatType, ReqType
<1> QED BY <1>1, <1>2, <1>3, EndsMoves DEF Refuse, Outcomes, Calm, redis

LEMMA ChargeEffect ==
    ASSUME ChatType, StageInv, NEW r \in Requests, Charge(r)
    PROVE  /\ req[r].pc = "idle" /\ UNCHANGED <<window, drift, store, slots, dropped, orch>>
           /\ quota' \in [n : Int, ttl : BOOLEAN]
           /\ \/ /\ quota.n' = quota.n + 1 /\ quota.n + 1 <= MaxTimes
                 /\ \E pc \in {"expire", "slot"} : Moves(r, pc, "none", window, FALSE, TRUE)
              \/ quota.n' = quota.n + 1 /\ Moves(r, "refund", "limited", window, FALSE, TRUE)
              \/ quota.n' = quota.n + 1 /\ Moves(r, "ended", "failed", -window, FALSE, TRUE)
              \/ quota' = quota /\ Moves(r, "ended", "failed", 0, FALSE, TRUE)
<1> DEFINE n == quota.n + 1
<1>1. req[r].pc = "idle" /\ UNCHANGED <<window, drift, store, orch>> BY DEF Charge, AtPc
<1>2. req[r] \in ReqType BY DEF ChatType
<1>3. req[r].paid = 0 /\ req[r].slot = FALSE /\ req[r].conn = TRUE /\ req[r].out = "none"
  BY <1>1, <1>2 DEF StageInv, Fits, ReqType
<1>4. n \in Int BY DEF ChatType
<1>5. ASSUME quota' = [quota EXCEPT !.n = n] PROVE quota' \in [n : Int, ttl : BOOLEAN] /\ quota.n' = n
  BY <1>4, <1>5 DEF ChatType
<1>6. CASE /\ quota' = [quota EXCEPT !.n = n]
           /\ req' = [req EXCEPT ![r].paid = window,
                        ![r].pc = CASE Creates(n) -> "expire" [] OverLimit(n) -> "refund" [] OTHER -> "slot",
                        ![r].out = IF OverLimit(n) THEN "limited" ELSE @]
           /\ UNCHANGED <<slotVars, faults>>
  <2> DEFINE pc == CASE Creates(n) -> "expire" [] OverLimit(n) -> "refund" [] OTHER -> "slot"
             out == IF OverLimit(n) THEN "limited" ELSE "none"
  <2>1. /\ OverLimit(n) => pc = "refund" /\ out = "limited"
        /\ ~OverLimit(n) => pc \in {"expire", "slot"} /\ out = "none" /\ n <= MaxTimes
    BY <1>4, ChatAssumption DEF Creates, OverLimit
  <2>2. req' = [req EXCEPT ![r].paid = window, ![r].pc = pc, ![r].out = out] BY <1>6, <1>3
  <2>3. pc \in Stages /\ out \in Outcomes BY <2>1 DEF Stages, Admitted, Outcomes
  <2>4. window \in Int BY DEF ChatType
  <2> HIDE DEF pc, out, n
  <2>5. Moves(r, pc, out, window, FALSE, TRUE)
    BY <1>3, <2>2, <2>3, <2>4 DEF ChatType, Moves, ReqType
  <2> QED BY <1>1, <1>5, <1>6, <2>1, <2>5 DEF slotVars, n
<1>7. CASE /\ quota' = [quota EXCEPT !.n = n]
           /\ Leaves(r, [req[r] EXCEPT !.out = "failed", !.paid = -window])
  <2> DEFINE rec == [req[r] EXCEPT !.out = "failed", !.paid = -window]
  <2>1. -window \in Int BY DEF ChatType
  <2>2. rec \in ReqType BY <1>2, <2>1 DEF ReqType, Outcomes
  <2>3. rec.out = "failed" /\ rec.paid = -window /\ rec.conn = req[r].conn BY <1>2 DEF ReqType
  <2>4. Leaves(r, rec) BY <1>7
  <2> HIDE DEF rec, n
  <2> QED BY <1>1, <1>3, <1>5, <1>7, <2>2, <2>3, <2>4, LeavesMoves DEF n
<1>8. CASE Ends(r, "failed") /\ UNCHANGED quota
  BY <1>1, <1>3, <1>8, EndsMoves DEF Outcomes, ChatType
<1> QED BY <1>6, <1>7, <1>8 DEF Charge

\* Sets of outcomes of the handler's other steps
LEMMA SetExpiryEffect ==
    ASSUME ChatType, StageInv, NEW r \in Requests, SetExpiry(r)
    PROVE  /\ req[r].pc = "expire" /\ UNCHANGED <<window, drift, store, slots, dropped, orch>>
           /\ quota' \in [n : Int, ttl : BOOLEAN] /\ quota.n' = quota.n
           /\ Moves(r, "slot", "none", req[r].paid, FALSE, TRUE)
<1>1. To(r, "slot", "none") /\ req[r].pc = "expire" BY DEF SetExpiry, AtPc
<1>2. req[r].slot = FALSE /\ req[r].conn = TRUE
  BY <1>1 DEF StageInv, Fits, ChatType, ReqType, Admitted
<1>3. quota' \in [n : Int, ttl : BOOLEAN] /\ quota.n' = quota.n
  <2>1. CASE quota' = [quota EXCEPT !.ttl = TRUE] BY <2>1 DEF ChatType
  <2>2. CASE quota' = quota BY <2>2 DEF ChatType
  <2> QED BY <2>1, <2>2 DEF SetExpiry
<1>4. Moves(r, "slot", "none", req[r].paid, req[r].slot, req[r].conn)
  BY <1>1, ToMoves DEF Stages, Admitted, Outcomes
<1> QED BY <1>1, <1>2, <1>3, <1>4 DEF SetExpiry, slotVars, store

LEMMA RefundEffect ==
    ASSUME ChatType, StageInv, NEW r \in Requests, Refund(r)
    PROVE  /\ req[r].pc = "refund" /\ UNCHANGED <<window, store, slots, orch>>
           /\ dropped' = IF req[r].slot THEN dropped + 1 ELSE dropped
           /\ \/ /\ quota' \in [n : Int, ttl : BOOLEAN] /\ quota.n' = quota.n - 1
                 /\ drift' = IF req[r].paid = window THEN drift ELSE drift + 1
                 /\ Moves(r, "ended", req[r].out, 0, FALSE, TRUE)
              \/ /\ UNCHANGED <<quota, drift>>
                 /\ Moves(r, "ended", req[r].out, -req[r].paid, FALSE, TRUE)
<1>1. req[r].pc = "refund" /\ req[r] \in ReqType /\ UNCHANGED <<window, store, orch>>
  BY DEF Refund, AtPc, ChatType
<1>2. req[r].conn = TRUE BY <1>1 DEF StageInv, Fits, ReqType
<1>3. CASE /\ quota' = [quota EXCEPT !.n = @ - 1]
           /\ drift' = IF req[r].paid = window THEN drift ELSE drift + 1
           /\ Leaves(r, [req[r] EXCEPT !.paid = 0])
  <2> DEFINE rec == [req[r] EXCEPT !.paid = 0]
             n == quota.n - 1
  <2>1. rec \in ReqType BY <1>1 DEF ReqType
  <2>2. rec.out = req[r].out /\ rec.paid = 0 /\ rec.conn = req[r].conn BY <1>1 DEF ReqType
  <2>3. n \in Int /\ quota' = [quota EXCEPT !.n = n] BY <1>3 DEF ChatType
  <2>4. quota' \in [n : Int, ttl : BOOLEAN] /\ quota.n' = n
    <3> HIDE DEF n
    <3> QED BY <2>3 DEF ChatType
  <2>5. Leaves(r, rec) BY <1>3
  <2> HIDE DEF rec
  <2> QED BY <1>1, <1>2, <1>3, <2>1, <2>2, <2>4, <2>5, LeavesMoves
<1>4. CASE Leaves(r, [req[r] EXCEPT !.paid = -@]) /\ UNCHANGED <<quota, drift>>
  <2> DEFINE m == -req[r].paid
             rec == [req[r] EXCEPT !.paid = m]
  <2>1. m \in Int BY <1>1 DEF ReqType
  <2>2. Leaves(r, rec) BY <1>4
  <2>3. rec \in ReqType /\ rec.out = req[r].out /\ rec.paid = m /\ rec.conn = req[r].conn
    <3> HIDE DEF m
    <3> QED BY <1>1, <2>1 DEF ReqType
  <2> HIDE DEF rec
  <2> QED BY <1>1, <1>2, <1>4, <2>2, <2>3, LeavesMoves
<1> QED BY <1>3, <1>4 DEF Refund

LEMMA TakeSlotEffect ==
    ASSUME ChatType, StageInv, NEW r \in Requests, TakeSlot(r)
    PROVE  /\ req[r].pc = "slot" /\ UNCHANGED <<quota, window, drift, store, dropped, orch>>
           /\ \/ /\ slots < Cap /\ slots' = slots + 1
                 /\ Moves(r, "session", "none", req[r].paid, TRUE, TRUE)
              \/ /\ UNCHANGED slots
                 /\ Moves(r, "refund", "busy", req[r].paid, FALSE, TRUE)
<1>1. req[r].pc = "slot" /\ UNCHANGED <<quota, window, drift, store, orch>>
  BY DEF TakeSlot, AtPc, redis
<1>2. req[r].slot = FALSE /\ req[r].conn = TRUE /\ req[r].out = "none"
  BY <1>1 DEF StageInv, Fits, ChatType, ReqType, Admitted
<1>3. CASE /\ SlotFree /\ slots' = slots + 1 /\ UNCHANGED dropped
           /\ req' = [req EXCEPT ![r].pc = "session", ![r].slot = TRUE]
  <2>1. Moves(r, "session", "none", req[r].paid, TRUE, TRUE)
    BY <1>2, <1>3 DEF ChatType, Moves, ReqType, Stages, Admitted
  <2> QED BY <1>1, <1>3, <2>1 DEF SlotFree
<1>4. CASE Refunds(r, "busy")
  BY <1>1, <1>2, <1>4, RefundsMoves DEF Outcomes
<1> QED BY <1>3, <1>4 DEF TakeSlot

\* FindSession and CreateSession
LEMMA SessionEffect ==
    ASSUME ChatType, StageInv, NEW r \in Requests, FindSession(r) \/ CreateSession(r)
    PROVE  /\ req[r].pc \in {"session", "create"} /\ Calm /\ UNCHANGED orch
           /\ live' \subseteq Nat /\ nSess' \in Nat
           /\ \E pc \in {"create", "append"} : Moves(r, pc, "none", req[r].paid, TRUE, TRUE)
<1>1. req[r].pc \in {"session", "create"} /\ Calm /\ UNCHANGED orch
  BY DEF FindSession, CreateSession, AtPc, redis, slotVars, Calm
<1>2. req[r].slot = TRUE /\ req[r].conn = TRUE /\ req[r].out = "none"
  BY <1>1 DEF StageInv, Fits, ChatType, ReqType, Admitted
<1>3. live' \subseteq Nat /\ nSess' \in Nat BY DEF ChatType, FindSession, CreateSession, store
<1>4. ASSUME NEW s \in Nat, req' = [req EXCEPT ![r].pc = "append", ![r].sess = s]
      PROVE  Moves(r, "append", "none", req[r].paid, TRUE, TRUE)
  BY <1>2, <1>4 DEF ChatType, Moves, ReqType, Stages, Admitted
<1>5. CASE To(r, "create", "none")
  BY <1>1, <1>2, <1>3, <1>5, ToMoves DEF Outcomes, Stages, Admitted
<1>6. CASE \E s \in Nat : req' = [req EXCEPT ![r].pc = "append", ![r].sess = s]
  BY <1>1, <1>3, <1>4, <1>6
<1>7. ASSUME FindSession(r) PROVE To(r, "create", "none") \/ \E s \in Nat : req' = [req EXCEPT ![r].pc = "append", ![r].sess = s]
  BY <1>7 DEF FindSession, ChatType
<1>8. ASSUME CreateSession(r) PROVE \E s \in Nat : req' = [req EXCEPT ![r].pc = "append", ![r].sess = s]
  BY <1>3, <1>8 DEF CreateSession
<1> QED BY <1>5, <1>6, <1>7, <1>8

LEMMA AskEffect ==
    ASSUME ChatType, StageInv, NEW r \in Requests, Ask(r)
    PROVE  /\ req[r].pc = "append" /\ Calm /\ UNCHANGED store
           /\ DOMAIN orch' = Requests /\ \A q \in Requests \ {r} : orch'[q] = orch[q]
           /\ \/ Moves(r, "drain", "none", req[r].paid, TRUE, TRUE)
              \/ UNCHANGED orch /\ Moves(r, "refund", "failed", req[r].paid, TRUE, TRUE)
<1>1. req[r].pc = "append" /\ UNCHANGED <<quota, window, drift, store>> BY DEF Ask, AtPc, redis
<1>2. req[r].slot = TRUE /\ req[r].conn = TRUE /\ req[r].out = "none"
  BY <1>1 DEF StageInv, Fits, ChatType, ReqType, Admitted
<1>3. CASE /\ orch' = [orch EXCEPT ![r] = [NoTask EXCEPT !.pc = "hop", !.visited = {Main}]]
           /\ To(r, "drain", "none") /\ UNCHANGED slotVars
  <2>1. DOMAIN orch' = Requests /\ \A q \in Requests \ {r} : orch'[q] = orch[q]
    <3> DEFINE task == [NoTask EXCEPT !.pc = "hop", !.visited = {Main}]
    <3>1. orch' = [orch EXCEPT ![r] = task] BY <1>3
    <3> HIDE DEF task
    <3> QED BY <3>1 DEF ChatType
  <2>2. Moves(r, "drain", "none", req[r].paid, TRUE, TRUE)
    BY <1>2, <1>3, ToMoves DEF Stages, Admitted, Outcomes
  <2> QED BY <1>1, <1>3, <2>1, <2>2 DEF slotVars, Calm
<1>4. CASE Refunds(r, "failed") /\ UNCHANGED orch
  BY <1>1, <1>2, <1>4, RefundsMoves DEF Outcomes, Calm, ChatType
<1> QED BY <1>3, <1>4 DEF Ask

LEMMA StoreFailsEffect ==
    ASSUME ChatType, StageInv, NEW r \in Requests, StoreFails(r)
    PROVE  /\ req[r].pc \in {"session", "create", "append"} /\ Calm /\ UNCHANGED <<store, orch>>
           /\ Moves(r, "refund", "failed", req[r].paid, TRUE, TRUE)
<1>1. /\ req[r].pc \in {"session", "create", "append"} /\ UNCHANGED <<quota, window, drift, store, orch>>
      /\ Refunds(r, "failed")
  BY DEF StoreFails, redis
<1>2. req[r].slot = TRUE /\ req[r].conn = TRUE
  BY <1>1 DEF StageInv, Fits, ChatType, ReqType, Admitted
<1> QED BY <1>1, <1>2, RefundsMoves DEF Outcomes, Calm

LEMMA CollectEffect ==
    ASSUME ChatType, StageInv, NEW r \in Requests, Collect(r)
    PROVE  /\ req[r].pc = "drain" /\ UNCHANGED <<quota, window, drift, slots, store, orch>>
           /\ Quiet(orch[r])
           /\ \/ dropped' = dropped /\ Moves(r, "refund", "failed", req[r].paid, TRUE, TRUE)
              \/ /\ ~orch[r].error
                 /\ dropped' = dropped + 1 /\ Moves(r, "ended", "ok", req[r].paid, FALSE, TRUE)
<1>1. req[r].pc = "drain" /\ Quiet(orch[r]) /\ UNCHANGED <<quota, window, drift, store, orch>>
  BY DEF Collect, AtPc, redis
<1>2. req[r].slot = TRUE /\ req[r].conn = TRUE
  BY <1>1 DEF StageInv, Fits, ChatType, ReqType, Admitted
<1>3. CASE Refunds(r, "failed") BY <1>1, <1>2, <1>3, RefundsMoves DEF Outcomes
<1>4. CASE ~Failed(orch[r]) /\ Ends(r, "ok")
  <2>1. ~orch[r].error BY <1>4 DEF Failed
  <2> QED BY <1>1, <1>2, <1>4, <2>1, EndsMoves DEF Outcomes
<1> QED BY <1>3, <1>4 DEF Collect

LEMMA DisconnectEffect ==
    ASSUME ChatType, StageInv, NEW r \in Requests, Disconnect(r)
    PROVE  /\ req[r].pc \notin {"idle", "ended"}
           /\ UNCHANGED <<quota, window, drift, slots, store, orch>>
           /\ dropped' = IF req[r].slot THEN dropped + 1 ELSE dropped
           /\ Moves(r, "ended", "gone", req[r].paid, FALSE, FALSE)
<1> DEFINE rec == [req[r] EXCEPT !.conn = FALSE, !.out = "gone"]
<1>1. req[r] \in ReqType BY DEF ChatType
<1>2. rec \in ReqType /\ rec.out = "gone" /\ rec.conn = FALSE /\ rec.paid = req[r].paid
  BY <1>1 DEF ReqType, Outcomes
<1>3. Leaves(r, rec) BY DEF Disconnect
<1> HIDE DEF rec
<1> QED BY <1>2, <1>3, LeavesMoves DEF Disconnect

\* Hop, Finalize and Panic touch the task of one request, which was not over
LEMMA TaskEffect ==
    ASSUME ChatType, NEW r \in Requests, Hop(r) \/ Finalize(r) \/ Panic(r)
    PROVE  /\ Calm /\ UNCHANGED <<store, req>> /\ ~Quiet(orch[r])
           /\ DOMAIN orch' = Requests /\ \A q \in Requests \ {r} : orch'[q] = orch[q]
<1>1. Calm /\ UNCHANGED <<store, req>>
  BY DEF Hop, Finalize, Panic, HandlerVars, redis, slotVars, Calm
<1>2. ~Quiet(orch[r]) BY DEF Hop, Finalize, Panic, Quiet
<1>3. \E q : orch' = [orch EXCEPT ![r] = q]
  <2>1. CASE Hop(r) BY <2>1 DEF Hop
  <2>2. CASE Finalize(r) BY <2>2 DEF Finalize
  <2>3. CASE Panic(r) BY <2>3 DEF Panic
  <2> QED BY <2>1, <2>2, <2>3
<1> QED BY <1>1, <1>2, <1>3 DEF ChatType

----------------------------------------------------------------------------
(* The stages and the tasks                                                *)
(***************************************************************************)
Inv == ChatType /\ StageInv /\ TaskInv

\* A handler's step that leaves its record in order, and an answer only after the end
\* of its task, keeps the invariant.
LEMMA MoveKeeps ==
    ASSUME Inv, NEW r \in Requests, NEW pc, NEW out, NEW paid, NEW slot, NEW conn,
           Moves(r, pc, out, paid, slot, conn), Fits(pc, out, paid, slot, conn),
           window' = window, DOMAIN orch' = Requests,
           \A q \in Requests \ {r} : orch'[q] = orch[q],
           conn /\ ~Quiet(orch'[r]) => pc = "drain",
           out = "ok" => Quiet(orch'[r]) /\ ~orch'[r].error
    PROVE  StageInv' /\ TaskInv'
<1>1. StageInv' BY DEF Inv, StageInv, Fits, Moves
<1>2. TaskInv' BY DEF Inv, TaskInv, Moves, Quiet
<1> QED BY <1>1, <1>2

LEMMA InitInv == Init => Inv
<1> SUFFICES ASSUME Init PROVE Inv
  OBVIOUS
<1>1. \A r \in Requests : /\ req[r] = NewReq /\ orch[r] = NoTask BY DEF Init
<1>2. NewReq \in ReqType BY DEF NewReq, ReqType, Stages, Outcomes
<1>3. ChatType BY <1>2 DEF Init, ChatType
<1>4. StageInv BY <1>1 DEF Init, StageInv, Fits, NewReq, Admitted
<1>5. Quiet(NoTask) BY DEF Quiet, NoTask
<1>6. TaskInv BY <1>1, <1>5 DEF TaskInv, NewReq
<1> QED BY <1>3, <1>4, <1>6 DEF Inv

LEMMA NextInv == Inv /\ [Next]_vars => Inv'
<1> SUFFICES ASSUME Inv, [Next]_vars PROVE Inv'
  OBVIOUS
<1> USE DEF Inv
<1>0. ChatType /\ StageInv /\ TaskInv /\ \A r \in Requests : req[r] \in ReqType BY DEF ChatType
<1>1. ASSUME NEW r \in Requests, Refuse(r) PROVE Inv'
  <2>1. ChatType' BY <1>0, <1>1, RefuseEffect DEF ChatType, Moves, Calm, store
  <2>2. Fits("ended", "refused", 0, FALSE, TRUE) BY DEF Fits, ChatType, Admitted
  <2>3. ~Quiet(orch[r]) => req[r].pc = "drain" BY <1>1, RefuseEffect DEF TaskInv, StageInv, Fits
  <2> QED BY <1>1, <2>1, <2>2, <2>3, RefuseEffect, MoveKeeps DEF Calm, ChatType
<1>2. ASSUME NEW r \in Requests, Charge(r) PROVE Inv'
  <2>1. ChatType' BY <1>0, <1>2, ChargeEffect DEF ChatType, Moves, store
  <2>2. /\ Fits("expire", "none", window, FALSE, TRUE) /\ Fits("slot", "none", window, FALSE, TRUE)
        /\ Fits("refund", "limited", window, FALSE, TRUE) /\ Fits("ended", "failed", -window, FALSE, TRUE)
        /\ Fits("ended", "failed", 0, FALSE, TRUE)
    BY DEF Fits, ChatType, Admitted
  <2>3. Quiet(orch[r]) BY <1>2, ChargeEffect DEF TaskInv, StageInv, Fits
  <2> QED BY <1>2, <2>1, <2>2, <2>3, ChargeEffect, MoveKeeps DEF ChatType
<1>3. ASSUME NEW r \in Requests, SetExpiry(r) PROVE Inv'
  <2>1. ChatType' BY <1>0, <1>3, SetExpiryEffect DEF ChatType, Moves, store
  <2>2. Fits("slot", "none", req[r].paid, FALSE, TRUE)
    BY <1>0, <1>3, SetExpiryEffect DEF StageInv, Fits, Admitted
  <2>3. Quiet(orch[r]) BY <1>3, SetExpiryEffect DEF TaskInv, StageInv, Fits, Admitted
  <2> QED BY <1>3, <2>1, <2>2, <2>3, SetExpiryEffect, MoveKeeps DEF ChatType
<1>4. ASSUME NEW r \in Requests, Refund(r) PROVE Inv'
  <2>4. slots' \in Nat /\ dropped' \in Nat /\ drift' \in Nat
    <3>1. /\ slots' = slots \/ slots' = slots + 1
          /\ dropped' = dropped \/ dropped' = dropped + 1
          /\ drift' = drift \/ drift' = drift + 1
      BY <1>0, <1>4, RefundEffect
    <3> QED BY <1>0, <3>1 DEF ChatType
  <2>5. req' \in [Requests -> ReqType] BY <1>0, <1>4, RefundEffect DEF Moves
  <2>1. ChatType' BY <1>0, <1>4, <2>4, <2>5, RefundEffect DEF ChatType, store
  <2>2. Fits("ended", req[r].out, 0, FALSE, TRUE) /\ Fits("ended", req[r].out, -req[r].paid, FALSE, TRUE)
    <3>1. req[r].paid \in Int BY <1>0 DEF ReqType
    <3>2. /\ req[r].paid > 0 /\ req[r].paid <= window /\ window \in Nat
          /\ req[r].out \in {"limited", "busy", "failed"}
      BY <1>0, <1>4, RefundEffect DEF StageInv, Fits, ChatType
    <3> QED BY <3>1, <3>2 DEF Fits, Admitted
  <2>3. Quiet(orch[r]) /\ req[r].out # "ok" BY <1>4, RefundEffect DEF TaskInv, StageInv, Fits
  <2> QED BY <1>4, <2>1, <2>2, <2>3, RefundEffect, MoveKeeps DEF ChatType
<1>5. ASSUME NEW r \in Requests, TakeSlot(r) PROVE Inv'
  <2>4. slots' \in Nat /\ dropped' \in Nat /\ drift' \in Nat
    <3>1. /\ slots' = slots \/ slots' = slots + 1
          /\ dropped' = dropped \/ dropped' = dropped + 1
          /\ drift' = drift \/ drift' = drift + 1
      BY <1>0, <1>5, TakeSlotEffect
    <3> QED BY <1>0, <3>1 DEF ChatType
  <2>5. req' \in [Requests -> ReqType] BY <1>0, <1>5, TakeSlotEffect DEF Moves
  <2>1. ChatType' BY <1>0, <1>5, <2>4, <2>5, TakeSlotEffect DEF ChatType, store
  <2>2. Fits("session", "none", req[r].paid, TRUE, TRUE) /\ Fits("refund", "busy", req[r].paid, FALSE, TRUE)
    BY <1>0, <1>5, TakeSlotEffect DEF StageInv, Fits, Admitted
  <2>3. Quiet(orch[r]) BY <1>5, TakeSlotEffect DEF TaskInv, StageInv, Fits, Admitted
  <2> QED BY <1>5, <2>1, <2>2, <2>3, TakeSlotEffect, MoveKeeps DEF ChatType
<1>6. ASSUME NEW r \in Requests, FindSession(r) \/ CreateSession(r) PROVE Inv'
  <2>1. ChatType' BY <1>0, <1>6, SessionEffect DEF ChatType, Moves, Calm
  <2>2. Fits("create", "none", req[r].paid, TRUE, TRUE) /\ Fits("append", "none", req[r].paid, TRUE, TRUE)
    BY <1>0, <1>6, SessionEffect DEF StageInv, Fits, Admitted
  <2>3. Quiet(orch[r]) BY <1>6, SessionEffect DEF TaskInv, StageInv, Fits, Admitted
  <2>4. PICK pc \in {"create", "append"} : Moves(r, pc, "none", req[r].paid, TRUE, TRUE)
    BY <1>0, <1>6, SessionEffect
  <2>5. Fits(pc, "none", req[r].paid, TRUE, TRUE) BY <2>2, <2>4
  <2>6. window' = window /\ orch' = orch BY <1>0, <1>6, SessionEffect DEF Calm
  <2>7. DOMAIN orch' = Requests BY <2>6 DEF ChatType
  <2> QED BY <2>1, <2>3, <2>4, <2>5, <2>6, <2>7, MoveKeeps
<1>7. ASSUME NEW r \in Requests, Ask(r) PROVE Inv'
  <2>1. ChatType' BY <1>0, <1>7, AskEffect DEF ChatType, Moves, Calm, store
  <2>2. Fits("drain", "none", req[r].paid, TRUE, TRUE) /\ Fits("refund", "failed", req[r].paid, TRUE, TRUE)
    BY <1>0, <1>7, AskEffect DEF StageInv, Fits, Admitted
  <2>3. Quiet(orch[r]) BY <1>7, AskEffect DEF TaskInv, StageInv, Fits, Admitted
  <2> QED BY <1>7, <2>1, <2>2, <2>3, AskEffect, MoveKeeps DEF ChatType, Calm
<1>8. ASSUME NEW r \in Requests, StoreFails(r) PROVE Inv'
  <2>1. ChatType' BY <1>0, <1>8, StoreFailsEffect DEF ChatType, Moves, Calm, store
  <2>2. Fits("refund", "failed", req[r].paid, TRUE, TRUE)
    BY <1>0, <1>8, StoreFailsEffect DEF StageInv, Fits, Admitted
  <2>3. Quiet(orch[r]) BY <1>8, StoreFailsEffect DEF TaskInv, StageInv, Fits, Admitted
  <2> QED BY <1>8, <2>1, <2>2, <2>3, StoreFailsEffect, MoveKeeps DEF ChatType, Calm
<1>9. ASSUME NEW r \in Requests, Collect(r) PROVE Inv'
  <2>4. slots' \in Nat /\ dropped' \in Nat /\ drift' \in Nat
    <3>1. /\ slots' = slots \/ slots' = slots + 1
          /\ dropped' = dropped \/ dropped' = dropped + 1
          /\ drift' = drift \/ drift' = drift + 1
      BY <1>0, <1>9, CollectEffect
    <3> QED BY <1>0, <3>1 DEF ChatType
  <2>5. req' \in [Requests -> ReqType] BY <1>0, <1>9, CollectEffect DEF Moves
  <2>1. ChatType' BY <1>0, <1>9, <2>4, <2>5, CollectEffect DEF ChatType, store
  <2>2. Fits("refund", "failed", req[r].paid, TRUE, TRUE) /\ Fits("ended", "ok", req[r].paid, FALSE, TRUE)
    BY <1>0, <1>9, CollectEffect DEF StageInv, Fits, Admitted
  <2> QED BY <1>9, <2>1, <2>2, CollectEffect, MoveKeeps DEF ChatType
<1>10. ASSUME NEW r \in Requests, Disconnect(r) PROVE Inv'
  <2>4. slots' \in Nat /\ dropped' \in Nat /\ drift' \in Nat
    <3>1. /\ slots' = slots \/ slots' = slots + 1
          /\ dropped' = dropped \/ dropped' = dropped + 1
          /\ drift' = drift \/ drift' = drift + 1
      BY <1>0, <1>10, DisconnectEffect
    <3> QED BY <1>0, <3>1 DEF ChatType
  <2>5. req' \in [Requests -> ReqType] BY <1>0, <1>10, DisconnectEffect DEF Moves
  <2>1. ChatType' BY <1>0, <1>10, <2>4, <2>5, DisconnectEffect DEF ChatType, store
  <2>2. Fits("ended", "gone", req[r].paid, FALSE, FALSE)
    BY <1>0, <1>10, DisconnectEffect DEF StageInv, Fits, Admitted
  <2> QED BY <1>10, <2>1, <2>2, DisconnectEffect, MoveKeeps DEF ChatType
<1>11. ASSUME NEW r \in Requests, Hop(r) \/ Finalize(r) \/ Panic(r) PROVE Inv'
  <2>1. ChatType' BY <1>11, TaskEffect DEF ChatType, Calm, store
  <2>2. StageInv' BY <1>11, TaskEffect DEF StageInv, Fits, Calm
  <2>3. TaskInv' BY <1>11, TaskEffect DEF TaskInv, StageInv, Fits, Quiet
  <2> QED BY <2>1, <2>2, <2>3
<1>12. CASE ReleaseSlot
  <2>1. ChatType' BY <1>12 DEF ChatType, ReleaseSlot, store, redis
  <2>2. StageInv' /\ TaskInv' BY <1>12 DEF StageInv, Fits, TaskInv, Quiet, ReleaseSlot, redis
  <2> QED BY <2>1, <2>2
<1>13. CASE Expire
  <2>1. ChatType' BY <1>13 DEF ChatType, Expire, store, slotVars
  <2>2. StageInv' BY <1>0, <1>13 DEF StageInv, Fits, Expire, ChatType, ReqType
  <2>3. TaskInv' BY <1>13 DEF TaskInv, Quiet, Expire
  <2> QED BY <2>1, <2>2, <2>3
<1>14. CASE NewSession
  <2>1. ChatType' BY <1>14 DEF ChatType, NewSession, redis, slotVars
  <2>2. StageInv' /\ TaskInv' BY <1>14 DEF StageInv, Fits, TaskInv, Quiet, NewSession, redis
  <2> QED BY <2>1, <2>2
<1>15. CASE UNCHANGED vars
  BY <1>15 DEF vars, ChatType, StageInv, Fits, TaskInv, Quiet
<1> QED BY <1>1, <1>2, <1>3, <1>4, <1>5, <1>6, <1>7, <1>8, <1>9, <1>10, <1>11, <1>12, <1>13, <1>14, <1>15
        DEF Next, HandlerStep, TaskStep

----------------------------------------------------------------------------
(* The counters: finite sets of requests that change by one at a time      *)
(***************************************************************************)
One(b) == IF b THEN 1 ELSE 0

LEMMA CardStep ==
    ASSUME NEW X, NEW Y, NEW r, IsFiniteSet(X), Y \ {r} = X \ {r}
    PROVE  /\ IsFiniteSet(Y) /\ Cardinality(X) \in Nat /\ Cardinality(Y) \in Nat
           /\ Cardinality(Y) = Cardinality(X) + One(r \in Y) - One(r \in X)
<1> DEFINE Z == X \ {r}
<1>1. IsFiniteSet(Z) /\ Cardinality(Z) \in Nat /\ Cardinality(X) \in Nat
      /\ Cardinality(Z) = Cardinality(X) - One(r \in X)
  <2>1. CASE r \in X BY <2>1, FS_RemoveElement, FS_CardinalityType DEF One
  <2>2. CASE r \notin X
    <3>1. Z = X BY <2>2
    <3>2. Cardinality(X) \in Nat BY FS_CardinalityType
    <3> HIDE DEF Z
    <3> QED BY <2>2, <3>1, <3>2 DEF One
  <2> QED BY <2>1, <2>2
<1>2. CASE r \in Y
  <2>1. Y = Z \cup {r} /\ r \notin Z BY <1>2
  <2>2. IsFiniteSet(Y) /\ Cardinality(Y) = Cardinality(Z) + 1
    <3> HIDE DEF Z
    <3> QED BY <1>1, <2>1, FS_AddElement
  <2> HIDE DEF Z
  <2> QED BY <1>1, <1>2, <2>2 DEF One
<1>3. CASE r \notin Y
  <2>1. Y = Z BY <1>3
  <2> HIDE DEF Z
  <2>2. IsFiniteSet(Y) /\ Cardinality(Y) = Cardinality(Z) BY <1>1, <2>1
  <2> QED BY <1>1, <1>3, <2>2 DEF One
<1> QED BY <1>2, <1>3

Active == {r \in Requests : req[r].pc # "idle"}
Guarded == {r \in Requests : req[r].slot}
\* requests let in by the quota of this window and not given up
Taken == {r \in Requests : req[r].paid = window /\ req[r].out \in {"none", "ok"}}

\* The quota counts the requests that have paid; the slots count the guards and the
\* releases still to run.
CountInv ==
    /\ IsFiniteSet(Active)
    /\ quota.n = Cardinality(Owing) - drift
    /\ Cardinality(Taken) <= MaxTimes + drift
    /\ slots = Cardinality(Guarded) + dropped
    /\ slots <= Cap

LEMMA CountsFinite ==
    ASSUME Inv, IsFiniteSet(Active)
    PROVE  /\ IsFiniteSet(Owing) /\ IsFiniteSet(Guarded) /\ IsFiniteSet(Taken)
           /\ Cardinality(Owing) \in Nat /\ Cardinality(Guarded) \in Nat /\ Cardinality(Taken) \in Nat
           /\ Cardinality(Taken) <= Cardinality(Owing)
<1>1. Owing \subseteq Active /\ Taken \subseteq Owing
  BY DEF Inv, ChatType, StageInv, Fits, Owing, Active, Taken
<1>2. Guarded \subseteq Active BY DEF Inv, StageInv, Fits, Guarded, Active
<1> HIDE DEF Inv
<1> QED BY <1>1, <1>2, FS_Subset, FS_CardinalityType

\* What a step of one handler does to the four sets
LEMMA MoveCounts ==
    ASSUME Inv, CountInv, NEW r \in Requests, NEW pc \in Stages \ {"idle"},
           NEW out, NEW paid, NEW slot, NEW conn,
           Moves(r, pc, out, paid, slot, conn), window' = window
    PROVE  /\ IsFiniteSet(Active')
           /\ Cardinality(Owing') = Cardinality(Owing) + One(paid \in {window, -window})
                                                      - One(req[r].paid \in {window, -window})
           /\ Cardinality(Taken') = Cardinality(Taken) + One(paid = window /\ out \in {"none", "ok"})
                                      - One(req[r].paid = window /\ req[r].out \in {"none", "ok"})
           /\ Cardinality(Guarded') = Cardinality(Guarded) + One(slot) - One(req[r].slot)
<1>1. IsFiniteSet(Active) /\ IsFiniteSet(Owing) /\ IsFiniteSet(Guarded) /\ IsFiniteSet(Taken)
  BY CountsFinite DEF CountInv
<1>2. /\ Active' \ {r} = Active \ {r} /\ Guarded' \ {r} = Guarded \ {r}
      /\ Owing' \ {r} = Owing \ {r} /\ Taken' \ {r} = Taken \ {r}
  BY DEF Moves, Active, Guarded, Owing, Taken
<1>3. /\ r \in Owing' <=> paid \in {window, -window}
      /\ r \in Owing <=> req[r].paid \in {window, -window}
  BY DEF Moves, Owing
<1>4. /\ r \in Taken' <=> paid = window /\ out \in {"none", "ok"}
      /\ r \in Taken <=> req[r].paid = window /\ req[r].out \in {"none", "ok"}
  BY DEF Moves, Taken
<1>5. (r \in Guarded' <=> slot) /\ (r \in Guarded <=> req[r].slot) BY DEF Moves, Guarded
<1>6. IsFiniteSet(Active') BY <1>1, <1>2, CardStep
<1>7. Cardinality(Owing') = Cardinality(Owing) + One(r \in Owing') - One(r \in Owing)
  BY <1>1, <1>2, CardStep
<1>8. Cardinality(Taken') = Cardinality(Taken) + One(r \in Taken') - One(r \in Taken)
  BY <1>1, <1>2, CardStep
<1>9. Cardinality(Guarded') = Cardinality(Guarded) + One(r \in Guarded') - One(r \in Guarded)
  BY <1>1, <1>2, CardStep
<1> QED BY <1>3, <1>4, <1>5, <1>6, <1>7, <1>8, <1>9 DEF One

LEMMA InitCounts == Init => CountInv
<1> SUFFICES ASSUME Init PROVE CountInv
  OBVIOUS
<1>1. \A r \in Requests : req[r] = NewReq BY DEF Init
<1>2. Active = {} /\ Owing = {} /\ Taken = {} /\ Guarded = {}
  BY <1>1 DEF Init, NewReq, Active, Owing, Taken, Guarded
<1>3. IsFiniteSet({}) /\ Cardinality({}) = 0 BY FS_EmptySet
<1>4. quota.n = 0 /\ drift = 0 /\ slots = 0 /\ dropped = 0 BY DEF Init
<1> QED BY <1>2, <1>3, <1>4, ChatAssumption DEF CountInv

\* A step that leaves the quota alone, and with it who has paid; a request may give
\* up its claim to an answer, its guard, or get one while there is room.
LEMMA CalmCounts ==
    ASSUME Inv, CountInv, NEW r \in Requests, NEW pc \in Stages \ {"idle"},
           NEW out, NEW slot \in BOOLEAN, NEW conn,
           Moves(r, pc, out, req[r].paid, slot, conn), UNCHANGED <<window, drift>>, quota.n' = quota.n,
           out \in {"none", "ok"} => req[r].out = "none",
           \/ slot = req[r].slot /\ dropped' = dropped /\ slots' = slots
           \/ slot = FALSE /\ dropped' = (IF req[r].slot THEN dropped + 1 ELSE dropped) /\ slots' = slots
           \/ slot = TRUE /\ req[r].slot = FALSE /\ dropped' = dropped /\ slots' = slots + 1 /\ slots < Cap
    PROVE  CountInv'
<1> DEFINE o == Cardinality(Owing)  t == Cardinality(Taken)  g == Cardinality(Guarded)
<1>1. o \in Nat /\ t \in Nat /\ g \in Nat BY CountsFinite DEF CountInv
<1>2. req[r].slot \in BOOLEAN /\ dropped \in Nat /\ slots \in Nat /\ drift \in Nat
  BY DEF Inv, ChatType, ReqType
<1>3. /\ IsFiniteSet(Active')
      /\ Cardinality(Owing') = o + One(req[r].paid \in {window, -window})
                                 - One(req[r].paid \in {window, -window})
      /\ Cardinality(Taken') = t + One(req[r].paid = window /\ out \in {"none", "ok"})
                                 - One(req[r].paid = window /\ req[r].out \in {"none", "ok"})
      /\ Cardinality(Guarded') = g + One(slot) - One(req[r].slot)
  BY MoveCounts
<1>4. quota.n = o - drift /\ t <= MaxTimes + drift /\ slots = g + dropped /\ slots <= Cap
  BY DEF CountInv
<1>5. MaxTimes \in Nat /\ Cap \in Nat BY ChatAssumption
<1> HIDE DEF o, t, g
<1>6. Cardinality(Owing') = o BY <1>1, <1>3 DEF One
<1>7. Cardinality(Taken') <= t BY <1>1, <1>3 DEF One
<1>8. Cardinality(Taken') \in Int BY <1>1, <1>3 DEF One
<1>9. slots' = Cardinality(Guarded') + dropped' /\ slots' <= Cap
  BY <1>1, <1>2, <1>3, <1>4, <1>5 DEF One
<1> QED BY <1>1, <1>2, <1>3, <1>4, <1>5, <1>6, <1>7, <1>8, <1>9 DEF CountInv

LEMMA NextCounts == Inv /\ CountInv /\ [Next]_vars => CountInv'
<1> SUFFICES ASSUME Inv, CountInv, [Next]_vars PROVE CountInv'
  OBVIOUS
<1> DEFINE o == Cardinality(Owing)  t == Cardinality(Taken)  g == Cardinality(Guarded)
<1>0. ChatType /\ StageInv /\ \A r \in Requests : req[r] \in ReqType BY DEF Inv, ChatType
<1>a. /\ o \in Nat /\ t \in Nat /\ g \in Nat /\ t <= o
      /\ dropped \in Nat /\ slots \in Nat /\ drift \in Nat /\ window \in Nat /\ window > 0
      /\ quota.n \in Int /\ MaxTimes \in Nat /\ Cap \in Nat
  BY <1>0, CountsFinite, ChatAssumption DEF CountInv, ChatType
<1>b. quota.n = o - drift /\ t <= MaxTimes + drift /\ slots = g + dropped /\ slots <= Cap
  BY DEF CountInv
<1>c. {"expire", "slot", "session", "create", "append", "drain", "refund", "ended"} \subseteq Stages \ {"idle"}
  BY DEF Stages, Admitted
<1>1. ASSUME NEW r \in Requests, Refuse(r) PROVE CountInv'
  <2>1. req[r].paid = 0 /\ req[r].out = "none" /\ req[r].slot = FALSE
    BY <1>0, <1>1, RefuseEffect DEF StageInv, Fits, ReqType
  <2> QED BY <1>0, <1>1, <1>c, <2>1, RefuseEffect, CalmCounts DEF Calm
<1>2. ASSUME NEW r \in Requests, Charge(r) PROVE CountInv'
  <2>1. req[r].paid = 0 /\ req[r].out = "none" /\ req[r].slot = FALSE
    BY <1>0, <1>2, ChargeEffect DEF StageInv, Fits, ReqType
  <2>2. UNCHANGED <<window, drift, slots, dropped>> BY <1>0, <1>2, ChargeEffect
  <2>3. ASSUME NEW pc \in Stages \ {"idle"}, NEW out, NEW paid \in {window, -window},
               Moves(r, pc, out, paid, FALSE, TRUE), quota.n' = quota.n + 1,
               out \in {"none", "ok"} => quota.n + 1 <= MaxTimes
        PROVE  CountInv'
    <3>0. PICK slot \in BOOLEAN, conn \in BOOLEAN : slot = FALSE /\ conn = TRUE
      OBVIOUS
    <3>a. Moves(r, pc, out, paid, slot, conn) BY <2>3, <3>0
    <3>1. /\ IsFiniteSet(Active')
          /\ Cardinality(Owing') = o + One(paid \in {window, -window})
                                     - One(req[r].paid \in {window, -window})
          /\ Cardinality(Taken') = t + One(paid = window /\ out \in {"none", "ok"})
                                     - One(req[r].paid = window /\ req[r].out \in {"none", "ok"})
          /\ Cardinality(Guarded') = g + One(slot) - One(req[r].slot)
      BY <1>c, <2>2, <2>3, <3>a, MoveCounts
    <3> HIDE DEF o, t, g
    <3>2. Cardinality(Owing') = o + 1 /\ Cardinality(Guarded') = g BY <1>a, <2>1, <3>0, <3>1 DEF One
    <3>3. Cardinality(Taken') = t + One(paid = window /\ out \in {"none", "ok"}) BY <1>a, <2>1, <3>1 DEF One
    <3>4. Cardinality(Taken') <= MaxTimes + drift BY <1>a, <1>b, <2>3, <3>3 DEF One
    <3>5. quota.n' = Cardinality(Owing') - drift' /\ slots' = Cardinality(Guarded') + dropped' /\ slots' <= Cap
      BY <1>a, <1>b, <2>2, <2>3, <3>2
    <3> QED BY <2>2, <3>1, <3>4, <3>5 DEF CountInv
  <2>4. CASE quota' = quota /\ Moves(r, "ended", "failed", 0, FALSE, TRUE)
    BY <1>c, <2>1, <2>2, <2>4, CalmCounts
  <2> QED BY <1>0, <1>2, <1>c, <2>3, <2>4, ChargeEffect
<1>3. ASSUME NEW r \in Requests, SetExpiry(r) PROVE CountInv'
  <2>1. req[r].out = "none" /\ req[r].slot = FALSE
    BY <1>0, <1>3, SetExpiryEffect DEF StageInv, Fits, ReqType, Admitted
  <2> QED BY <1>0, <1>3, <1>c, <2>1, SetExpiryEffect, CalmCounts
<1>4. ASSUME NEW r \in Requests, Refund(r) PROVE CountInv'
  <2>1. /\ req[r].paid \in Int /\ req[r].paid > 0 /\ req[r].out \notin {"none", "ok"}
        /\ req[r].slot \in BOOLEAN
    BY <1>0, <1>4, RefundEffect DEF StageInv, Fits, ReqType
  <2>2. /\ UNCHANGED <<window, slots>>
        /\ dropped' = IF req[r].slot THEN dropped + 1 ELSE dropped
    BY <1>0, <1>4, RefundEffect
  <2>3. ASSUME NEW paid, Moves(r, "ended", req[r].out, paid, FALSE, TRUE)
        PROVE  /\ IsFiniteSet(Active')
               /\ Cardinality(Owing') = o + One(paid \in {window, -window})
                                          - One(req[r].paid \in {window, -window})
               /\ Cardinality(Taken') = t
               /\ Cardinality(Guarded') = g - One(req[r].slot)
    <3>0. PICK slot \in BOOLEAN, conn \in BOOLEAN : slot = FALSE /\ conn = TRUE
      OBVIOUS
    <3>a. Moves(r, "ended", req[r].out, paid, slot, conn) BY <2>3, <3>0
    <3>1. /\ IsFiniteSet(Active')
          /\ Cardinality(Owing') = o + One(paid \in {window, -window})
                                     - One(req[r].paid \in {window, -window})
          /\ Cardinality(Taken') = t + One(paid = window /\ req[r].out \in {"none", "ok"})
                                     - One(req[r].paid = window /\ req[r].out \in {"none", "ok"})
          /\ Cardinality(Guarded') = g + One(slot) - One(req[r].slot)
      BY <1>c, <2>2, <2>3, <3>a, MoveCounts
    <3> HIDE DEF o, t, g
    <3> QED BY <1>a, <2>1, <3>0, <3>1 DEF One
  <2>4. CASE /\ quota.n' = quota.n - 1
             /\ drift' = IF req[r].paid = window THEN drift ELSE drift + 1
             /\ Moves(r, "ended", req[r].out, 0, FALSE, TRUE)
    <3>1. /\ IsFiniteSet(Active')
          /\ Cardinality(Owing') = o + One(0 \in {window, -window})
                                     - One(req[r].paid \in {window, -window})
          /\ Cardinality(Taken') = t
          /\ Cardinality(Guarded') = g - One(req[r].slot)
      BY <2>3, <2>4
    <3> HIDE DEF o, t, g
    <3>2. Cardinality(Owing') = o - One(req[r].paid = window) BY <1>a, <2>1, <3>1 DEF One
    <3>3. quota.n' = Cardinality(Owing') - drift' BY <1>a, <1>b, <2>4, <3>2 DEF One
    <3>4. slots' = Cardinality(Guarded') + dropped' BY <1>a, <1>b, <2>1, <2>2, <3>1 DEF One
    <3>5. Cardinality(Taken') <= MaxTimes + drift' BY <1>a, <1>b, <2>4, <3>1
    <3> QED BY <1>b, <2>2, <3>1, <3>3, <3>4, <3>5 DEF CountInv
  <2>5. CASE UNCHANGED <<quota, drift>> /\ Moves(r, "ended", req[r].out, -req[r].paid, FALSE, TRUE)
    <3>1. /\ IsFiniteSet(Active')
          /\ Cardinality(Owing') = o + One(-req[r].paid \in {window, -window})
                                     - One(req[r].paid \in {window, -window})
          /\ Cardinality(Taken') = t
          /\ Cardinality(Guarded') = g - One(req[r].slot)
      BY <2>3, <2>5
    <3> HIDE DEF o, t, g
    <3>2. Cardinality(Owing') = o BY <1>a, <2>1, <3>1 DEF One
    <3>3. slots' = Cardinality(Guarded') + dropped' BY <1>a, <1>b, <2>1, <2>2, <3>1 DEF One
    <3> QED BY <1>b, <2>2, <2>5, <3>1, <3>2, <3>3 DEF CountInv
  <2> QED BY <1>0, <1>4, <2>4, <2>5, RefundEffect
<1>5. ASSUME NEW r \in Requests, TakeSlot(r) PROVE CountInv'
  <2>1. req[r].out = "none" /\ req[r].slot = FALSE
    BY <1>0, <1>5, TakeSlotEffect DEF StageInv, Fits, ReqType, Admitted
  <2> QED BY <1>0, <1>5, <1>c, <2>1, TakeSlotEffect, CalmCounts
<1>6. ASSUME NEW r \in Requests, FindSession(r) \/ CreateSession(r) PROVE CountInv'
  <2>1. req[r].out = "none" /\ req[r].slot = TRUE
    BY <1>0, <1>6, SessionEffect DEF StageInv, Fits, ReqType, Admitted
  <2>2. Calm BY <1>0, <1>6, SessionEffect
  <2>3. PICK pc \in {"create", "append"} : Moves(r, pc, "none", req[r].paid, TRUE, TRUE)
    BY <1>0, <1>6, SessionEffect
  <2> QED BY <1>c, <2>1, <2>2, <2>3, CalmCounts DEF Calm
<1>7. ASSUME NEW r \in Requests, Ask(r) PROVE CountInv'
  <2>1. req[r].out = "none" /\ req[r].slot = TRUE
    BY <1>0, <1>7, AskEffect DEF StageInv, Fits, ReqType, Admitted
  <2> QED BY <1>0, <1>7, <1>c, <2>1, AskEffect, CalmCounts DEF Calm
<1>8. ASSUME NEW r \in Requests, StoreFails(r) PROVE CountInv'
  <2>1. req[r].slot = TRUE BY <1>0, <1>8, StoreFailsEffect DEF StageInv, Fits, ReqType
  <2> QED BY <1>0, <1>8, <1>c, <2>1, StoreFailsEffect, CalmCounts DEF Calm
<1>9. ASSUME NEW r \in Requests, Collect(r) PROVE CountInv'
  <2>1. req[r].out = "none" /\ req[r].slot = TRUE
    BY <1>0, <1>9, CollectEffect DEF StageInv, Fits, ReqType, Admitted
  <2> QED BY <1>0, <1>9, <1>c, <2>1, CollectEffect, CalmCounts
<1>10. ASSUME NEW r \in Requests, Disconnect(r) PROVE CountInv'
  BY <1>0, <1>10, <1>c, DisconnectEffect, CalmCounts
<1>11. ASSUME UNCHANGED <<req, quota, window, drift, slots, dropped>> PROVE CountInv'
  BY <1>11 DEF CountInv, Active, Owing, Taken, Guarded
<1>12. ASSUME NEW r \in Requests, Hop(r) \/ Finalize(r) \/ Panic(r) PROVE CountInv'
  BY <1>0, <1>11, <1>12, TaskEffect DEF Calm
<1>13. CASE ReleaseSlot
  <2>1. UNCHANGED <<Active, Owing, Taken, Guarded>> /\ UNCHANGED <<quota, drift>>
    BY <1>13 DEF ReleaseSlot, redis, Active, Owing, Taken, Guarded
  <2>2. dropped > 0 /\ dropped' = dropped - 1 /\ slots' = IF slots = 0 THEN 0 ELSE slots - 1
    BY <1>13 DEF ReleaseSlot
  <2>3. Cardinality(Guarded') = g BY <2>1
  <2>4. slots' = Cardinality(Guarded') + dropped' /\ slots' <= Cap
    <3> HIDE DEF g
    <3> QED BY <1>a, <1>b, <2>2, <2>3
  <2> QED BY <2>1, <2>4 DEF CountInv
<1>14. CASE Expire
  <2>1. \A r \in Requests : req[r].paid \in Int /\ req[r].paid <= window /\ -req[r].paid <= window
    BY <1>0 DEF StageInv, Fits, ReqType
  <2>2. window' = window + 1 /\ UNCHANGED req /\ quota.n' = 0 /\ drift' = 0 /\ UNCHANGED <<slots, dropped>>
    BY <1>14 DEF Expire, slotVars
  <2>3. Owing' = {} /\ Taken' = {} BY <1>a, <2>1, <2>2 DEF Owing, Taken
  <2>4. UNCHANGED <<Active, Guarded>> BY <2>2 DEF Active, Guarded
  <2>5. Cardinality({}) = 0 BY FS_EmptySet
  <2> QED BY <1>a, <2>2, <2>3, <2>4, <2>5 DEF CountInv
<1>15. CASE NewSession BY <1>11, <1>15 DEF NewSession, redis, slotVars
<1>16. CASE UNCHANGED vars BY <1>11, <1>16 DEF vars
<1> QED BY <1>1, <1>2, <1>3, <1>4, <1>5, <1>6, <1>7, <1>8, <1>9, <1>10, <1>12, <1>13, <1>14, <1>15, <1>16
        DEF Next, HandlerStep, TaskStep

----------------------------------------------------------------------------
(* The theorems                                                            *)
(***************************************************************************)
\* Every request is charged at most once, holds its guard from the slot to its end,
\* and its task runs only while the handler drains it or after the client has left
\* (assistant_chat and the orchestrator task it spawns).
THEOREM StagesHold == Spec => []Inv
<1>1. Init => Inv BY InitInv
<1>2. Inv /\ [Next]_vars => Inv' BY NextInv
<1> QED BY <1>1, <1>2, PTL DEF Spec

\* The counters of the quota and of the slots count what they stand for, at any number
\* of requests, interleaved with expiries, lost answers of Redis and clients that leave.
THEOREM CountsHold == Spec => []CountInv
<1>1. Init => CountInv BY InitCounts
<1>2. Inv /\ CountInv /\ [Next]_vars => CountInv' BY NextCounts
<1> QED BY <1>1, <1>2, StagesHold, PTL DEF Spec

\* The daily counter in Redis is what the requests of its window have paid and not got
\* back, less the refunds of an earlier window: check_and_incr_daily_limit and
\* decr_daily_limit are balanced on every return of assistant_chat.
THEOREM QuotaExactHolds == Spec => []QuotaExact
<1>1. CountInv => QuotaExact BY DEF CountInv, QuotaExact
<1> QED BY <1>1, CountsHold, PTL

\* No window gives more answers than the daily limit, plus the refunds booked on it
\* for an earlier one (check_and_incr_daily_limit compares after the INCR).
THEOREM WithinLimitHolds == Spec => []WithinLimit
<1>1. Inv /\ CountInv => WithinLimit
  <2> SUFFICES ASSUME Inv, CountInv PROVE WithinLimit
    OBVIOUS
  <2> DEFINE S == {r \in Requests : req[r].paid = window /\ req[r].out = "ok"}
  <2>1. S \subseteq Taken BY DEF Taken
  <2>2. IsFiniteSet(Taken) /\ Cardinality(Taken) \in Nat BY CountsFinite DEF CountInv
  <2> HIDE DEF S
  <2>3. Cardinality(S) <= Cardinality(Taken) /\ Cardinality(S) \in Nat
    BY <2>1, <2>2, FS_Subset, FS_CardinalityType
  <2>4. Cardinality(Taken) <= MaxTimes + drift /\ drift \in Nat /\ MaxTimes \in Nat
    BY ChatAssumption DEF CountInv, Inv, ChatType
  <2> QED BY <2>2, <2>3, <2>4 DEF WithinLimit, S
<1> QED BY <1>1, StagesHold, CountsHold, PTL

\* A client that is told of an error has not paid, unless Redis failed on the charge
\* or on the refund: every error return of assistant_chat after the charge refunds it.
THEOREM FailureIsFreeHolds == Spec => []FailureIsFree
<1>1. Inv => FailureIsFree
  <2> SUFFICES ASSUME Inv, NEW r \in Requests, AtPc(r, "ended"), req[r].conn,
                      req[r].out # "ok" \/ orch[r].error
               PROVE  req[r].paid <= 0
    BY DEF FailureIsFree
  <2>1. req[r].out # "ok"
    <3>1. req[r].out = "ok" => ~orch[r].error BY DEF Inv, TaskInv
    <3> QED BY <3>1
  <2> QED BY <2>1 DEF Inv, StageInv, Fits, AtPc
<1> QED BY <1>1, StagesHold, PTL

\* The tasks of one user whose clients are connected never outnumber
\* CHAT_SSE_MAX_CONCURRENT_PER_USER, although guards are released by tasks of their own
\* (try_acquire_slot and SseConcurrencyGuard).
THEOREM TurnsApartHolds == Spec => []TurnsApart
<1>1. Inv /\ CountInv => TurnsApart
  <2> SUFFICES ASSUME Inv, CountInv PROVE TurnsApart
    OBVIOUS
  <2> DEFINE S == {r \in Requests : req[r].conn /\ ~Quiet(orch[r])}
  <2>1. S \subseteq Guarded BY DEF Guarded, Inv, TaskInv, StageInv, Fits
  <2>2. IsFiniteSet(Guarded) /\ Cardinality(Guarded) \in Nat BY CountsFinite DEF CountInv
  <2> HIDE DEF S
  <2>3. Cardinality(S) <= Cardinality(Guarded) /\ Cardinality(S) \in Nat
    BY <2>1, <2>2, FS_Subset, FS_CardinalityType
  <2>4. slots = Cardinality(Guarded) + dropped /\ slots <= Cap /\ dropped \in Nat /\ Cap \in Nat
    BY ChatAssumption DEF CountInv, Inv, ChatType
  <2> QED BY <2>2, <2>3, <2>4 DEF TurnsApart, S
<1> QED BY <1>1, StagesHold, CountsHold, PTL

----------------------------------------------------------------------------
(* Routing: what one hop may leave                                         *)
(***************************************************************************)
Contents == {"none", "text", "empty"}
Task == [pc : {"none", "hop", "final", "over"}, hop : Nat, agent : Agents,
         visited : SUBSET Agents, left : SUBSET Agents, back : BOOLEAN, routed : Agents \cup {None},
         known : BOOLEAN, extra : BOOLEAN, brk : BOOLEAN,
         error : BOOLEAN, content : Contents, saved : BOOLEAN]

\* The agents a task has left are among the visited ones, and neither the current
\* agent nor the one chosen to be next has been left.
Settled(o) ==
    /\ ~o.back
    /\ o.pc = "hop" => /\ o.left \subseteq o.visited
                       /\ o.agent \in o.visited /\ o.agent \notin o.left
Forward(o) ==
    /\ Settled(o)
    /\ o.pc = "hop" /\ o.routed # None =>
         o.routed \in o.visited /\ o.routed \notin o.left /\ o.routed # o.agent
Onward == {o \in Task : Forward(o)}

LEMMA WritesOnward == ASSUME NEW o \in Onward PROVE Writes(o) \subseteq Onward
<1> DEFINE W(e, b) == [o EXCEPT !.extra = @ \/ e, !.brk = @ \/ b]
<1>1. ASSUME NEW e \in BOOLEAN, NEW b \in BOOLEAN PROVE W(e, b) \in Onward
  <2> DEFINE x == o.extra \/ e
             y == o.brk \/ b
             q == [o EXCEPT !.extra = x, !.brk = y]
  <2>1. x \in BOOLEAN /\ y \in BOOLEAN /\ o \in Task /\ Forward(o) BY DEF Onward, Task
  <2> HIDE DEF x, y
  <2>2. q \in Task BY <2>1 DEF Task
  <2>3. /\ q.back = o.back /\ q.pc = o.pc /\ q.left = o.left /\ q.visited = o.visited
        /\ q.agent = o.agent /\ q.routed = o.routed
    BY <2>1 DEF Task
  <2> HIDE DEF q
  <2>4. q \in Onward BY <2>1, <2>2, <2>3 DEF Onward, Forward, Settled
  <2> QED BY <2>4 DEF q, x, y
<1>2. Writes(o) = {W(e, b) : e, b \in BOOLEAN} BY DEF Writes
<1> HIDE DEF W
<1> QED BY <1>1, <1>2

LEMMA HooksOnward ==
    ASSUME NEW o \in Onward, NEW p
    PROVE  Passed(o, p) \subseteq Onward /\ Blocked(o, p) \subseteq Onward /\ Observed(o, p) \subseteq Onward
<1>1. ASSUME NEW ok PROVE HookStates(o, p, ok) \subseteq Onward
  <2> SUFFICES ASSUME NEW q \in HookStates(o, p, ok) PROVE q \in Onward
    OBVIOUS
  <2>1. q = o \/ q \in Writes(o) BY DEF HookStates
  <2> QED BY <2>1, WritesOnward
<1> QED BY <1>1 DEF Passed, Blocked, Observed

LEMMA BreakOnward ==
    ASSUME NEW o \in Task, ~o.back, NEW err \in BOOLEAN, NEW content \in Contents
    PROVE  Break(o, err, content) \in Onward
<1> DEFINE q == Break(o, err, content)
           e == o.error \/ err
<1>1. o \in Task /\ ~o.back /\ e \in BOOLEAN BY DEF Task
<1>2. q = [o EXCEPT !.pc = "final", !.error = e, !.content = content, !.visited = {}, !.left = {},
                    !.routed = None, !.brk = FALSE, !.hop = 0, !.agent = Main]
  BY DEF Break
<1>3. Main \in Agents /\ 0 \in Nat BY ChatAssumption
<1> HIDE DEF e
<1>4. q \in Task BY <1>1, <1>2, <1>3 DEF Task
<1>5. q.pc = "final" /\ q.back = o.back BY <1>1, <1>2 DEF Task
<1> HIDE DEF q
<1> QED BY <1>1, <1>4, <1>5 DEF Onward, Forward, Settled, q

LEMMA NextHopOnward == ASSUME NEW o \in Task, Settled(o) PROVE NextHop(o) \in Onward
<1> DEFINE h == o.hop + 1
           q == [o EXCEPT !.hop = h, !.routed = None]
<1>1. o \in Task /\ Settled(o) /\ h \in Nat /\ o.content \in Contents BY DEF Task
<1>2. Break(o, FALSE, o.content) \in Onward BY <1>1, BreakOnward DEF Settled
<1>3. q \in Onward
  <2> HIDE DEF h
  <2>1. q \in Task BY <1>1 DEF Task
  <2>2. /\ q.back = o.back /\ q.pc = o.pc /\ q.left = o.left /\ q.visited = o.visited
        /\ q.agent = o.agent /\ q.routed = None
    BY <1>1 DEF Task
  <2> HIDE DEF q
  <2> QED BY <1>1, <2>1, <2>2 DEF Onward, Forward, Settled
<1>4. NextHop(o) = Break(o, FALSE, o.content) \/ NextHop(o) = q BY DEF NextHop
<1> QED BY <1>2, <1>3, <1>4

LEMMA RouteOnward == ASSUME NEW o \in Onward, NEW a \in Agents PROVE Route(o, a) \in Onward
<1> DEFINE v == o.visited \cup {a}
           q == [o EXCEPT !.visited = v, !.routed = a]
<1>1. o \in Task /\ Forward(o) /\ v \in SUBSET Agents BY DEF Onward, Task
<1>2. ASSUME a \notin o.visited PROVE q \in Onward
  <2> HIDE DEF v
  <2>1. q \in Task BY <1>1 DEF Task
  <2>2. /\ q.back = o.back /\ q.pc = o.pc /\ q.left = o.left /\ q.visited = v
        /\ q.agent = o.agent /\ q.routed = a
    BY <1>1 DEF Task
  <2> HIDE DEF q
  <2> QED BY <1>1, <1>2, <2>1, <2>2 DEF Onward, Forward, Settled, v
<1>3. Route(o, a) = o \/ (a \notin o.visited /\ Route(o, a) = q) BY DEF Route
<1> QED BY <1>2, <1>3

LEMMA CallToolOnward ==
    ASSUME NEW o \in Onward, NEW c PROVE CallTool(o, c) \subseteq Onward
<1> SUFFICES ASSUME NEW z \in CallTool(o, c), o.pc = "hop" PROVE z \in Onward
  BY DEF CallTool
<1>1. CASE \E q \in Blocked(o, "before_tool_call") : z = Break(q, TRUE, "text")
  BY <1>1, HooksOnward, BreakOnward DEF Contents, Onward, Forward, Settled
<1>2. CASE \E q \in Passed(o, "before_tool_call") :
             \E w \in (IF c \in Agents THEN {Route(q, c)} ELSE Writes(q)) : z \in Observed(w, "after_tool_call")
  <2>1. PICK q \in Passed(o, "before_tool_call") :
             \E w \in (IF c \in Agents THEN {Route(q, c)} ELSE Writes(q)) : z \in Observed(w, "after_tool_call")
    BY <1>2
  <2>2. q \in Onward BY HooksOnward
  <2>3. (IF c \in Agents THEN {Route(q, c)} ELSE Writes(q)) \subseteq Onward
    BY <2>2, RouteOnward, WritesOnward
  <2> QED BY <2>1, <2>3, HooksOnward
<1> DEFINE A == {Break(q, TRUE, "text") : q \in Blocked(o, "before_tool_call")}
           W(q) == IF c \in Agents THEN {Route(q, c)} ELSE Writes(q)
           B(q) == UNION {Observed(w, "after_tool_call") : w \in W(q)}
<1>3. z \in A \cup UNION {B(q) : q \in Passed(o, "before_tool_call")} BY DEF CallTool
<1>4. \A q : z \in B(q) => \E w \in W(q) : z \in Observed(w, "after_tool_call")
  <2> HIDE DEF W
  <2> QED OBVIOUS
<1>5. z \in A => \E q \in Blocked(o, "before_tool_call") : z = Break(q, TRUE, "text")
  OBVIOUS
<1> HIDE DEF A, B
<1>6. z \in A \/ \E q \in Passed(o, "before_tool_call") : z \in B(q) BY <1>3
<1> QED BY <1>1, <1>2, <1>4, <1>5, <1>6

LEMMA EndRoundOnward ==
    ASSUME NEW o \in Onward, NEW text \in {"text", "empty"} PROVE EndRound(o, text) \subseteq Onward
<1> DEFINE l == o.left \cup {o.agent}
           q == [o EXCEPT !.agent = o.routed, !.left = @ \cup {o.agent}]
<1>1. o \in Task /\ Forward(o) /\ l \in SUBSET Agents /\ text \in Contents
  BY DEF Onward, Task, Contents
<1>2. ASSUME o.pc = "hop", o.routed # None PROVE q \in Task /\ Settled(q)
  <2>1. o.routed \in Agents BY <1>1, <1>2 DEF Task
  <2>2. q = [o EXCEPT !.agent = o.routed, !.left = l]
    OBVIOUS
  <2>3. l \subseteq o.visited /\ o.routed \notin l /\ o.routed \in o.visited
    BY <1>1, <1>2 DEF Forward, Settled
  <2> HIDE DEF l
  <2>4. q \in Task BY <1>1, <2>1, <2>2 DEF Task
  <2>5. /\ q.back = o.back /\ q.pc = o.pc /\ q.left = l /\ q.visited = o.visited
        /\ q.agent = o.routed
    BY <1>1, <2>2 DEF Task
  <2> HIDE DEF q
  <2> QED BY <1>1, <2>3, <2>4, <2>5 DEF Forward, Settled
<1>3. \A e \in BOOLEAN, c \in Contents : Break(o, e, c) \in Onward
  BY <1>1, BreakOnward DEF Forward, Settled
<1>4. NextHop(o) \in Onward BY <1>1, NextHopOnward DEF Forward
<1>5. ASSUME o.pc = "hop", o.routed # None PROVE NextHop(q) \in Onward
  <2> HIDE DEF q
  <2> QED BY <1>2, <1>5, NextHopOnward
<1>6. /\ o.pc # "hop" => EndRound(o, text) = {o}
      /\ o.pc = "hop" /\ o.brk => EndRound(o, text) = {Break(o, FALSE, c) : c \in {"text", "empty"}}
      /\ o.pc = "hop" /\ ~o.brk /\ o.routed # None => EndRound(o, text) = {NextHop(q)}
      /\ o.pc = "hop" /\ ~o.brk /\ o.routed = None =>
           EndRound(o, text) = {IF o.hop + 1 = MaxHops THEN Break(o, TRUE, text) ELSE NextHop(o)}
  BY Zenon DEF EndRound
<1> HIDE DEF q
<1> QED BY <1>1, <1>3, <1>4, <1>5, <1>6 DEF Contents

\* Induction over the natural numbers, in the form the provers can use: a set of
\* exceptions that is not empty has a least one.
LEMMA NatLeast ==
    ASSUME NEW T \in SUBSET Nat, T # {}
    PROVE  \E m \in T : \A n \in T : m <= n
<1> DEFINE R == {ss \in Nat \X Nat : ss[1] < ss[2]}
<1>1. IsWellFoundedOn(R, Nat) BY NatLessThanWellFounded DEF OpToRel
<1>2. PICK m \in T : \A n \in T : ~(<<n, m>> \in R)
  <2> HIDE DEF R
  <2> QED BY <1>1, WFMin
<1>3. ASSUME NEW n \in T PROVE m <= n
  <2>1. <<n, m>> \in Nat \X Nat OBVIOUS
  <2>2. ~(n < m) BY <1>2, <2>1
  <2> QED BY <2>2
<1> QED BY <1>3

\* The recursive function of AfterCalls exists, and its values are onward.
LEMMA AfterCallsOnward ==
    ASSUME NEW o \in Onward, NEW cs, Len(cs) \in Nat
    PROVE  AfterCalls(o, cs) \subseteq Onward
<1> DEFINE n == Len(cs)
           Round(X, k) == UNION {CallTool(q, cs[k]) : q \in X}
           Rec(f, m) == f = [k \in 0 .. m |-> IF k = 0 THEN {o} ELSE Round(f[k - 1], k)]
<1>1. ASSUME NEW X \in SUBSET Onward, NEW k PROVE Round(X, k) \subseteq Onward
  BY CallToolOnward
<1>2. AfterCalls(o, cs) = (CHOOSE f : Rec(f, n))[n] BY DEF AfterCalls
<1> HIDE DEF Round, n
<1>3. n \in Nat BY DEF n
<1>4. \A m \in Nat : \E f : Rec(f, m)
  <2> DEFINE T == {m \in Nat : ~\E f : Rec(f, m)}
  <2> SUFFICES ASSUME T # {} PROVE FALSE
    OBVIOUS
  <2>1. PICK m \in T : \A i \in T : m <= i
    <3>1. T \in SUBSET Nat OBVIOUS
    <3> HIDE DEF T
    <3> QED BY <3>1, NatLeast
  <2>2. m # 0
    <3> DEFINE g == [k \in 0 .. 0 |-> {o}]
    <3>1. Rec(g, 0) OBVIOUS
    <3> QED BY <3>1
  <2>3. m - 1 \in Nat /\ m - 1 \notin T
    <3>1. m - 1 \in Nat /\ ~(m <= m - 1) BY <2>2
    <3> HIDE DEF T
    <3> QED BY <2>1, <3>1
  <2>4. PICK f : Rec(f, m - 1) BY <2>3
  <2> DEFINE g == [k \in 0 .. m |-> IF k = m THEN Round(f[m - 1], m) ELSE f[k]]
             h == [k \in 0 .. m |-> IF k = 0 THEN {o} ELSE Round(g[k - 1], k)]
  <2>5. \A k \in 0 .. m : g[k] = h[k]
    <3> SUFFICES ASSUME NEW k \in 0 .. m PROVE g[k] = h[k]
      OBVIOUS
    <3>1. CASE k = m
      <4>1. m - 1 \in 0 .. m /\ m - 1 # m BY <2>3
      <4>2. g[m - 1] = f[m - 1] BY <4>1
      <4> QED BY <2>2, <3>1, <4>2
    <3>2. CASE k # m
      <4>1. k \in 0 .. (m - 1) BY <2>3, <3>2
      <4>2. f[k] = IF k = 0 THEN {o} ELSE Round(f[k - 1], k) BY <2>4, <4>1
      <4>3. CASE k = 0 BY <3>2, <4>2, <4>3
      <4>4. CASE k # 0
        <5>1. k - 1 \in 0 .. m /\ k - 1 # m BY <2>3, <3>2, <4>4
        <5>2. g[k - 1] = f[k - 1] BY <5>1
        <5> QED BY <3>2, <4>2, <4>4, <5>2
      <4> QED BY <4>3, <4>4
    <3> QED BY <3>1, <3>2
  <2>6. g = h BY <2>5
  <2>7. Rec(g, m) BY <2>6
  <2> QED BY <2>1, <2>7
<1> DEFINE f == CHOOSE g : Rec(g, n)
<1>5. Rec(f, n) BY <1>3, <1>4
<1> HIDE DEF f
<1>6. \A k \in 0 .. n : f[k] \subseteq Onward
  <2> DEFINE T == {k \in 0 .. n : ~(f[k] \subseteq Onward)}
  <2> SUFFICES ASSUME T # {} PROVE FALSE
    OBVIOUS
  <2>1. PICK m \in T : \A i \in T : m <= i
    <3>1. T \in SUBSET Nat BY <1>3
    <3> HIDE DEF T
    <3> QED BY <3>1, NatLeast
  <2>2. f[m] = IF m = 0 THEN {o} ELSE Round(f[m - 1], m) BY <1>5
  <2>3. m # 0 BY <2>2
  <2>4. m - 1 \in 0 .. n /\ m - 1 \notin T
    <3>1. m \in 0 .. n OBVIOUS
    <3>2. m - 1 \in 0 .. n /\ ~(m <= m - 1) BY <1>3, <2>3, <3>1
    <3> HIDE DEF T
    <3> QED BY <2>1, <3>2
  <2>5. f[m - 1] \subseteq Onward BY <2>4
  <2> QED BY <1>1, <2>2, <2>3, <2>5
<1> QED BY <1>2, <1>3, <1>6 DEF f

LEMMA ToolRoundOnward ==
    ASSUME NEW o \in Onward, NEW cs \in CallSeqs(o) PROVE ToolRound(o, cs) \subseteq Onward
<1>1. Len(cs) \in Nat
  <2>1. PICK n \in 1 .. MaxCalls : cs \in [1 .. n -> Children[o.agent] \cup {Work}] BY DEF CallSeqs
  <2>2. n \in Nat BY ChatAssumption
  <2> QED BY <2>1, <2>2
<1>2. AfterCalls(o, cs) \subseteq Onward BY <1>1, AfterCallsOnward
<1> QED BY <1>2, EndRoundOnward DEF ToolRound

LEMMA AnsweredOnward == ASSUME NEW o \in Onward PROVE Answered(o) \subseteq Onward
<1>1. ASSUME NEW q \in Onward, NEW e \in BOOLEAN, NEW c \in Contents PROVE Break(q, e, c) \in Onward
  BY BreakOnward DEF Onward, Forward, Settled
<1>2. ASSUME NEW q \in Observed(o, "on_agent_error") PROVE Break(q, TRUE, "none") \in Onward
  BY <1>1, HooksOnward DEF Contents
<1>3. ASSUME NEW q \in Observed(o, "after_llm_call")
      PROVE  /\ {Break(q, FALSE, c) : c \in {"text", "empty"}} \subseteq Onward
             /\ UNION {ToolRound(q, cs) : cs \in CallSeqs(q)} \subseteq Onward
  <2>1. q \in Onward BY HooksOnward
  <2> QED BY <1>1, <2>1, ToolRoundOnward DEF Contents
<1> QED BY <1>2, <1>3 DEF Answered

LEMMA HopOnward == ASSUME NEW o \in Onward, o.pc = "hop" PROVE HopStates(o) \subseteq Onward
<1> DEFINE b == o.back \/ o.agent \in o.left
           loaded == [o EXCEPT !.known = TRUE, !.back = @ \/ o.agent \in o.left]
           started == Passed(loaded, "before_agent_start")
<1>1. ASSUME NEW q \in Onward PROVE Break(q, TRUE, "none") \in Onward
  BY BreakOnward DEF Onward, Forward, Settled, Contents
<1>2. loaded \in Onward
  <2>1. o \in Task /\ Forward(o) BY DEF Onward
  <2>2. b = FALSE BY <2>1 DEF Forward, Settled, Task
  <2>3. loaded = [o EXCEPT !.known = TRUE, !.back = b] OBVIOUS
  <2> HIDE DEF b
  <2>4. loaded \in Task BY <2>1, <2>2, <2>3 DEF Task
  <2>5. /\ loaded.back = b /\ loaded.pc = o.pc /\ loaded.left = o.left /\ loaded.visited = o.visited
        /\ loaded.agent = o.agent /\ loaded.routed = o.routed
    BY <2>1, <2>3 DEF Task
  <2> HIDE DEF loaded
  <2> QED BY <2>1, <2>2, <2>4, <2>5 DEF Onward, Forward, Settled
<1>3. started \subseteq Onward /\ Blocked(loaded, "before_agent_start") \subseteq Onward
  <2> HIDE DEF loaded
  <2> QED BY <1>2, HooksOnward DEF started
<1>4. HopStates(o) =
        {Break(o, TRUE, "none")}
        \cup {Break(q, TRUE, "none") : q \in Blocked(loaded, "before_agent_start")}
        \cup {Break(q, TRUE, "none") : q \in started}
        \cup {Break(q, TRUE, "none") : q \in UNION {Blocked(s, "before_llm_call") : s \in started}}
        \cup UNION {Answered(q) : q \in UNION {Passed(s, "before_llm_call") : s \in started}}
  BY DEF HopStates
<1> HIDE DEF loaded, started
<1>5. /\ UNION {Blocked(s, "before_llm_call") : s \in started} \subseteq Onward
      /\ UNION {Passed(s, "before_llm_call") : s \in started} \subseteq Onward
  BY <1>3, HooksOnward
<1>6. ASSUME NEW S \in SUBSET Onward
      PROVE  {Break(q, TRUE, "none") : q \in S} \subseteq Onward /\ UNION {Answered(q) : q \in S} \subseteq Onward
  BY <1>1, AnsweredOnward
<1> QED BY <1>1, <1>3, <1>4, <1>5, <1>6

LEMMA OverOnward == ASSUME NEW o \in Onward PROVE Over(o) \in Onward
<1>1. o \in Task /\ ~o.back BY DEF Onward, Forward, Settled
<1>2. /\ o.error \in BOOLEAN /\ o.saved \in BOOLEAN /\ o.back \in BOOLEAN BY <1>1 DEF Task
<1>3. NoTask \in Task BY ChatAssumption DEF NoTask, Task, Contents
<1>4. Over(o) \in Task BY <1>2, <1>3 DEF Over, Task
<1>5. Over(o).back = o.back /\ Over(o).pc = "over" BY <1>3 DEF Over, Task
<1> QED BY <1>1, <1>4, <1>5 DEF Onward, Forward, Settled

RouteInv == orch \in [Requests -> Onward]

LEMMA InitRoute == Init => RouteInv
<1> SUFFICES ASSUME Init PROVE RouteInv
  OBVIOUS
<1>1. NoTask \in Task BY ChatAssumption DEF NoTask, Task, Contents
<1>2. NoTask \in Onward BY <1>1 DEF Onward, Forward, Settled, NoTask
<1> QED BY <1>2 DEF Init, RouteInv

LEMMA NextRoute == RouteInv /\ [Next]_vars => RouteInv'
<1> SUFFICES ASSUME RouteInv, [Next]_vars PROVE RouteInv'
  OBVIOUS
<1>1. ASSUME NEW r \in Requests, NEW q \in Onward, orch' = [orch EXCEPT ![r] = q] PROVE RouteInv'
  BY <1>1 DEF RouteInv
<1>2. ASSUME orch' = orch PROVE RouteInv'
  BY <1>2 DEF RouteInv
<1>3. \A r \in Requests : orch[r] \in Onward BY DEF RouteInv
<1>4. ASSUME NEW r \in Requests, Ask(r) PROVE RouteInv'
  <2> DEFINE task == [NoTask EXCEPT !.pc = "hop", !.visited = {Main}]
  <2>1. NoTask \in Task /\ Main \in Agents BY ChatAssumption DEF NoTask, Task, Contents
  <2>2. task \in Task BY <2>1 DEF Task
  <2>3. /\ task.pc = "hop" /\ task.visited = {Main} /\ task.left = {} /\ task.agent = Main
        /\ task.routed = None /\ task.back = FALSE
    BY <2>1 DEF Task, NoTask
  <2>4. orch' = orch \/ orch' = [orch EXCEPT ![r] = task] BY <1>4 DEF Ask
  <2> HIDE DEF task
  <2>5. task \in Onward BY <2>2, <2>3 DEF Onward, Forward, Settled
  <2> QED BY <1>1, <1>2, <2>4, <2>5
<1>5. ASSUME NEW r \in Requests, Hop(r) PROVE RouteInv'
  <2>1. Over(orch[r]) \in Onward /\ HopStates(orch[r]) \subseteq Onward
    BY <1>3, <1>5, OverOnward, HopOnward DEF Hop
  <2>2. \/ orch' = [orch EXCEPT ![r] = Over(orch[r])]
        \/ \E q \in HopStates(orch[r]) : orch' = [orch EXCEPT ![r] = q]
    BY <1>5 DEF Hop
  <2> QED BY <1>1, <2>1, <2>2
<1>6. ASSUME NEW r \in Requests, Finalize(r) PROVE RouteInv'
  <2>1. PICK q \in (IF orch[r].known THEN Observed(orch[r], "after_agent_end") ELSE {orch[r]}) :
          \/ orch' = [orch EXCEPT ![r] = Over([q EXCEPT !.saved = TRUE])]
          \/ orch' = [orch EXCEPT ![r] = Over(q)]
    BY <1>6 DEF Finalize
  <2>2. q \in Onward BY <1>3, <2>1, HooksOnward
  <2> DEFINE w == [q EXCEPT !.saved = TRUE]
  <2>3. q \in Task /\ Forward(q) BY <2>2 DEF Onward
  <2>4. w \in Task BY <2>3 DEF Task
  <2>5. /\ w.back = q.back /\ w.pc = q.pc /\ w.left = q.left /\ w.visited = q.visited
        /\ w.agent = q.agent /\ w.routed = q.routed
    BY <2>3 DEF Task
  <2>6. orch' = [orch EXCEPT ![r] = Over(w)] \/ orch' = [orch EXCEPT ![r] = Over(q)] BY <2>1
  <2> HIDE DEF w
  <2>7. w \in Onward BY <2>3, <2>4, <2>5 DEF Onward, Forward, Settled
  <2> QED BY <1>1, <2>2, <2>6, <2>7, OverOnward
<1>7. ASSUME NEW r \in Requests, Panic(r) PROVE RouteInv'
  <2>1. Over(orch[r]) \in Onward BY <1>3, OverOnward
  <2> QED BY <1>1, <1>7, <2>1 DEF Panic
<1>8. ASSUME NEW r \in Requests,
             \/ Refuse(r) \/ Charge(r) \/ SetExpiry(r) \/ Refund(r) \/ TakeSlot(r) \/ FindSession(r)
             \/ CreateSession(r) \/ Collect(r) \/ StoreFails(r) \/ Disconnect(r)
      PROVE  orch' = orch
  BY <1>8 DEF Refuse, Charge, SetExpiry, Refund, TakeSlot, FindSession, CreateSession, Collect, StoreFails, Disconnect
<1>9. ASSUME ReleaseSlot \/ Expire \/ NewSession \/ UNCHANGED vars PROVE orch' = orch
  BY <1>9 DEF ReleaseSlot, Expire, NewSession, vars
<1> QED BY <1>2, <1>4, <1>5, <1>6, <1>7, <1>8, <1>9 DEF Next, HandlerStep, TaskStep

\* Routing never returns to an agent it has left, for any catalog (cyclic ones too), any
\* hooks and any number of calls in a response: the visited set of handle_route_tool is
\* enough although a round of calls may route several times.
THEOREM NoReturnHolds == Spec => []NoReturn
<1>1. Init => RouteInv BY InitRoute
<1>2. RouteInv /\ [Next]_vars => RouteInv' BY NextRoute
<1>3. RouteInv => NoReturn BY DEF RouteInv, NoReturn, Onward, Forward, Settled
<1> QED BY <1>1, <1>2, <1>3, PTL DEF Spec
=============================================================================
