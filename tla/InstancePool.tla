---------------------------- MODULE InstancePool ----------------------------
(***************************************************************************)
(* The pool of WASM plugin instances of the web runtime                    *)
(* (crates/hiveweb/src/runtime/pool.rs) and the invoker that drives it     *)
(* (runtime/invoker.rs): acquire an idle instance or build one, call it on *)
(* a blocking thread, reset it, release it.  The future of an invocation   *)
(* may be dropped (the client of a chat disconnects) while the blocking    *)
(* call goes on.                                                           *)
(*                                                                         *)
(* An instance is an id and the plugin it was compiled from; a step is one *)
(* critical section of `inner`, within which the metrics are updated too.  *)
(* A future dropped while it waits for the metrics' mutex inside that      *)
(* section is not modelled.                                                *)
(***************************************************************************)
EXTENDS Naturals, Sequences, SequencesExt, FiniteSets, FiniteSetsExt

CONSTANTS
    Plugins,
    Calls,          \* concurrent invocations
    Instances,      \* bound: instances alive at a time
    MaxPerPlugin,   \* PLUGIN_POOL_MAX_PER_PLUGIN
    MaxLeaks,       \* bound: invocations that never release
    NoPlugin, NoInstance

ASSUME PoolAssumption ==
    /\ IsFiniteSet(Plugins) /\ IsFiniteSet(Calls) /\ IsFiniteSet(Instances)
    /\ MaxPerPlugin \in Nat /\ MaxLeaks \in Nat
    /\ NoPlugin \notin Plugins /\ NoInstance \notin Instances

VARIABLES
    pc,         \* "new" | "cold" | "running" | "returned" | "orphan" (its future is gone)
    plugin,     \* the plugin a call invokes
    inst,       \* the instance a call holds
    clean,      \* reset() of a call's instance succeeded
    idle,       \* per plugin: the idle queue
    inUse,      \* per plugin: PluginPool.in_use
    metrics,    \* PoolMetrics: in_use, idle
    dirty,      \* instances used since their last successful reset
    leaked      \* per plugin: invocations that ended without release

vars == <<pc, plugin, inst, clean, idle, inUse, metrics, dirty, leaked>>

Init ==
    /\ pc = [c \in Calls |-> "new"]
    /\ plugin = [c \in Calls |-> NoPlugin]
    /\ inst = [c \in Calls |-> NoInstance]
    /\ clean = [c \in Calls |-> FALSE]
    /\ idle = [p \in Plugins |-> <<>>]
    /\ inUse = [p \in Plugins |-> 0]
    /\ metrics = [in_use |-> 0, idle |-> 0]
    /\ dirty = {}
    /\ leaked = [p \in Plugins |-> 0]

Minus1(n) == IF n > 0 THEN n - 1 ELSE 0     \* saturating_sub(1)

Leaks == FoldFunction(LAMBDA a, b : a + b, 0, leaked)

Alive == Range(inst) \cup UNION {Range(idle[p]) : p \in Plugins}

\* The call is over; its slot is free for the next invocation.
Finish(c) ==
    /\ pc' = [pc EXCEPT ![c] = "new"]
    /\ plugin' = [plugin EXCEPT ![c] = NoPlugin]
    /\ inst' = [inst EXCEPT ![c] = NoInstance]
    /\ clean' = [clean EXCEPT ![c] = FALSE]

\* acquire, an idle instance is found
AcquireIdle(c, p) ==
    /\ pc[c] = "new" /\ idle[p] # <<>>
    /\ pc' = [pc EXCEPT ![c] = "running"]
    /\ plugin' = [plugin EXCEPT ![c] = p]
    /\ inst' = [inst EXCEPT ![c] = Head(idle[p])]
    /\ idle' = [idle EXCEPT ![p] = Tail(@)]
    /\ inUse' = [inUse EXCEPT ![p] = @ + 1]
    /\ metrics' = [in_use |-> metrics.in_use + 1, idle |-> Minus1(metrics.idle)]
    /\ UNCHANGED <<clean, dirty, leaked>>

\* acquire, no idle instance: fetch, verify and compile without any lock
AcquireMiss(c, p) ==
    /\ pc[c] = "new" /\ idle[p] = <<>>
    /\ pc' = [pc EXCEPT ![c] = "cold"]
    /\ plugin' = [plugin EXCEPT ![c] = p]
    /\ UNCHANGED <<inst, clean, idle, inUse, metrics, dirty, leaked>>

\* S3, digest or compile error, or the future is dropped
ColdFails(c) ==
    /\ pc[c] = "cold"
    /\ Finish(c)
    /\ UNCHANGED <<idle, inUse, metrics, dirty, leaked>>

\* the new instance is counted and handed out, whatever MaxPerPlugin says
ColdStarts(c, i) ==
    /\ pc[c] = "cold" /\ i \notin Alive
    /\ pc' = [pc EXCEPT ![c] = "running"]
    /\ inst' = [inst EXCEPT ![c] = i]
    /\ inUse' = [inUse EXCEPT ![plugin[c]] = @ + 1]
    /\ metrics' = [in_use |-> metrics.in_use + 1, idle |-> metrics.idle]
    /\ dirty' = dirty \ {i}
    /\ UNCHANGED <<plugin, clean, idle, leaked>>

\* The call returns, with a result, an error or a timeout; reset() is tried in every
\* case, and its answer alone decides what release does.
CallReturns(c, resetOk) ==
    /\ pc[c] = "running"
    /\ pc' = [pc EXCEPT ![c] = "returned"]
    /\ clean' = [clean EXCEPT ![c] = resetOk]
    /\ dirty' = IF resetOk THEN dirty \ {inst[c]} ELSE dirty \cup {inst[c]}
    /\ UNCHANGED <<plugin, inst, idle, inUse, metrics, leaked>>

\* Broken variant: the instance goes back whether or not its reset succeeded.
KeepsAny(c) == Len(idle[plugin[c]]) < MaxPerPlugin

\* release keeps an instance that was reset while there is room.
Keeps(c) == clean[c] /\ Len(idle[plugin[c]]) < MaxPerPlugin

\* release
Release(c) ==
    /\ pc[c] = "returned"
    /\ inUse' = [inUse EXCEPT ![plugin[c]] = Minus1(@)]
    /\ idle' = IF Keeps(c) THEN [idle EXCEPT ![plugin[c]] = Append(@, inst[c])] ELSE idle
    /\ metrics' = [in_use |-> Minus1(metrics.in_use),
                   idle |-> metrics.idle + (IF Keeps(c) THEN 1 ELSE 0)]
    /\ Finish(c)
    /\ UNCHANGED <<dirty, leaked>>

\* spawn_blocking's join fails (the call panicked): invoke returns early and
\* nothing is released.
JoinFails(c) ==
    /\ pc[c] = "running" /\ Leaks < MaxLeaks
    /\ leaked' = [leaked EXCEPT ![plugin[c]] = @ + 1]
    /\ Finish(c)
    /\ UNCHANGED <<idle, inUse, metrics, dirty>>

\* Broken variant: dropping the future gives the place back while the call runs.
DropFutureReleases(c) ==
    /\ pc[c] \in {"running", "returned"} /\ Leaks < MaxLeaks
    /\ pc' = [pc EXCEPT ![c] = "orphan"]
    /\ inUse' = [inUse EXCEPT ![plugin[c]] = Minus1(@)]
    /\ metrics' = [metrics EXCEPT !.in_use = Minus1(@)]
    /\ leaked' = [leaked EXCEPT ![plugin[c]] = @ + 1]
    /\ UNCHANGED <<plugin, inst, clean, idle, dirty>>

\* The future of invoke is dropped while the blocking thread still runs, or between
\* its end and release.
DropFuture(c) ==
    /\ pc[c] \in {"running", "returned"} /\ Leaks < MaxLeaks
    /\ pc' = [pc EXCEPT ![c] = "orphan"]
    /\ leaked' = [leaked EXCEPT ![plugin[c]] = @ + 1]
    /\ UNCHANGED <<plugin, inst, clean, idle, inUse, metrics, dirty>>

\* The blocking thread ends; instance and result are dropped with it.
OrphanEnds(c) ==
    /\ pc[c] = "orphan"
    /\ Finish(c)
    /\ UNCHANGED <<idle, inUse, metrics, dirty, leaked>>

Next ==
    \E c \in Calls :
        \/ \E p \in Plugins : AcquireIdle(c, p) \/ AcquireMiss(c, p)
        \/ ColdFails(c) \/ \E i \in Instances : ColdStarts(c, i)
        \/ \E resetOk \in BOOLEAN : CallReturns(c, resetOk)
        \/ Release(c) \/ JoinFails(c) \/ DropFuture(c) \/ OrphanEnds(c)

Spec == Init /\ [][Next]_vars

-----------------------------------------------------------------------------
(* Properties *)

TypeOK ==
    /\ pc \in [Calls -> {"new", "cold", "running", "returned", "orphan"}]
    /\ plugin \in [Calls -> Plugins \cup {NoPlugin}]
    /\ inst \in [Calls -> Instances \cup {NoInstance}]
    /\ clean \in [Calls -> BOOLEAN]
    /\ idle \in [Plugins -> Seq(Instances)]
    /\ \A p \in Plugins : Len(idle[p]) <= MaxPerPlugin
    /\ inUse \in [Plugins -> Nat]
    /\ metrics \in [in_use : Nat, idle : Nat]
    /\ dirty \subseteq Instances
    /\ leaked \in [Plugins -> 0..MaxLeaks]

Queued == [p \in Plugins |-> Range(idle[p])]

\* An instance may serve another session only after its memory was reset: nothing
\* that is idle was used since its last successful reset (invoke, release).
IdleIsReset == \A p \in Plugins : Queued[p] \cap dirty = {}

Holders(p) == {c \in Calls : plugin[c] = p /\ pc[c] \in {"running", "returned"}}

\* in_use counts the invocations under way and those that ended without release,
\* and the saturating subtraction never hides an underflow: a panicked or dropped
\* invocation leaves the gauge too high for good, never too low.
InUseAccounted ==
    \A p \in Plugins : inUse[p] = Cardinality(Holders(p)) + leaked[p]

=============================================================================
