-------------------------- MODULE FallbackBreaker --------------------------
(***************************************************************************)
(* The failover wrapper around the model providers                         *)
(* (crates/providers/src/fallback_provider.rs).  Concurrent requests share *)
(* a failure counter (an atomic) and the time the circuit was opened (an   *)
(* async mutex); the two are never updated together.  Each request tries   *)
(* the primary provider unless the circuit is open, then the fallbacks in  *)
(* order, and stops at the first provider that has streamed content.       *)
(*                                                                         *)
(* Provider 0 is the primary, 1..Fallbacks are the presets.  What a        *)
(* provider does is nondeterministic: it streams or not, then succeeds or  *)
(* fails with an error should_fallback accepts or refuses.                 *)
(***************************************************************************)
EXTENDS Naturals

CONSTANTS
    Requests,
    Fallbacks,  \* number of fallback presets (a wrapper without any is a call)
    Threshold,  \* PRIMARY_FAILURE_THRESHOLD
    Cooldown,   \* PRIMARY_COOLDOWN_S
    MaxTime,    \* bound: the clock
    Never       \* primary_tripped_at: None

BreakerConstants ==
    /\ Fallbacks \in Nat \ {0} /\ Threshold \in Nat \ {0}
    /\ Cooldown \in Nat /\ MaxTime \in Nat
    /\ Never \notin Nat
ASSUME BreakerAssumption == BreakerConstants

VARIABLES
    now,        \* the clock
    failures,   \* primary_failures
    trippedAt,  \* primary_tripped_at
    pc,         \* where each request is
    idx,        \* the provider a request is calling
    voices,     \* providers whose content the caller of a request has seen
    verdict,    \* "none", "ok", "refused", "error"
    tried,      \* providers a request has called
    overlapped  \* history: two requests have been under way at a time

shared == <<now, failures, trippedAt, overlapped>>
breakerVars == <<now, failures, trippedAt, pc, idx, voices, verdict, tried, overlapped>>

BreakerInit ==
    /\ now = 0 /\ failures = 0 /\ trippedAt = Never
    /\ pc = [r \in Requests |-> "idle"]
    /\ idx = [r \in Requests |-> 0]
    /\ voices = [r \in Requests |-> {}]
    /\ verdict = [r \in Requests |-> "none"]
    /\ tried = [r \in Requests |-> {}]
    /\ overlapped = FALSE

\* Broken variant: only the primary's deltas are tracked.
HasStreamedPrimary(r) == 0 \in voices[r]

\* has_streamed, set by the tracking callbacks given to every provider
HasStreamed(r) == voices[r] # {}

PrimaryAvailable == trippedAt = Never \/ now - trippedAt >= Cooldown

\* chat or chat_stream is called: look at the circuit.
Begin(r) ==
    /\ pc[r] = "idle"
    /\ pc' = [pc EXCEPT ![r] = IF PrimaryAvailable THEN "call" ELSE "next"]
    /\ tried' = [tried EXCEPT ![r] = IF PrimaryAvailable THEN {0} ELSE {}]
    /\ overlapped' = (overlapped \/ \E q \in Requests \ {r} : pc[q] \notin {"idle", "done"})
    /\ UNCHANGED <<now, failures, trippedAt, idx, voices, verdict>>

\* The provider being called streams content (tracking_delta).
Stream(r) ==
    /\ pc[r] = "call"
    /\ voices' = [voices EXCEPT ![r] = @ \cup {idx[r]}]
    /\ UNCHANGED <<shared, pc, idx, verdict, tried>>

Return(r, how) ==
    /\ pc' = [pc EXCEPT ![r] = "done"]
    /\ verdict' = [verdict EXCEPT ![r] = how]

\* The primary succeeds: the counter is reset...
PrimaryOk(r) ==
    /\ pc[r] = "call" /\ idx[r] = 0
    /\ failures' = 0
    /\ pc' = [pc EXCEPT ![r] = "close"]
    /\ UNCHANGED <<now, overlapped, trippedAt, idx, voices, verdict, tried>>

\* ... and then, behind its mutex, the circuit closed.
CloseCircuit(r) ==
    /\ pc[r] = "close"
    /\ trippedAt' = Never
    /\ Return(r, "ok")
    /\ UNCHANGED <<now, overlapped, failures, idx, voices, tried>>

\* The primary fails: no failover once content was streamed, nor for an error
\* that should_fallback refuses.
PrimaryError(r, accepted) ==
    /\ pc[r] = "call" /\ idx[r] = 0
    /\ IF HasStreamed(r) \/ ~accepted
       THEN Return(r, "refused")
       ELSE pc' = [pc EXCEPT ![r] = "count"] /\ UNCHANGED verdict
    /\ UNCHANGED <<shared, idx, voices, tried>>

\* Broken variant: the counter starts again when the threshold is reached.
CountFailureRestarts(r) ==
    /\ pc[r] = "count"
    /\ failures' = (failures + 1) % Threshold
    /\ pc' = [pc EXCEPT ![r] = IF failures + 1 >= Threshold THEN "trip" ELSE "next"]
    /\ UNCHANGED <<now, overlapped, trippedAt, idx, voices, verdict, tried>>

\* fetch_add on the failure counter
CountFailure(r) ==
    /\ pc[r] = "count"
    /\ failures' = failures + 1
    /\ pc' = [pc EXCEPT ![r] = IF failures' >= Threshold THEN "trip" ELSE "next"]
    /\ UNCHANGED <<now, overlapped, trippedAt, idx, voices, verdict, tried>>

\* The threshold is reached: open, or open again, the circuit.
Trip(r) ==
    /\ pc[r] = "trip"
    /\ trippedAt' = now
    /\ pc' = [pc EXCEPT ![r] = "next"]
    /\ UNCHANGED <<now, overlapped, failures, idx, voices, verdict, tried>>

\* Broken variant: the last fallback is never called.
NextFallbackShort(r) ==
    /\ pc[r] = "next"
    /\ IF HasStreamed(r) \/ idx[r] + 1 >= Fallbacks
       THEN Return(r, "error") /\ UNCHANGED <<idx, tried>>
       ELSE /\ pc' = [pc EXCEPT ![r] = "call"]
            /\ idx' = [idx EXCEPT ![r] = @ + 1]
            /\ tried' = [tried EXCEPT ![r] = @ \cup {idx'[r]}]
            /\ UNCHANGED verdict
    /\ UNCHANGED <<shared, voices>>

\* The loop over the fallbacks: leave it when content was streamed or none is left.
NextFallback(r) ==
    /\ pc[r] = "next"
    /\ IF HasStreamed(r) \/ idx[r] >= Fallbacks
       THEN Return(r, "error") /\ UNCHANGED <<idx, tried>>
       ELSE /\ pc' = [pc EXCEPT ![r] = "call"]
            /\ idx' = [idx EXCEPT ![r] = @ + 1]
            /\ tried' = [tried EXCEPT ![r] = @ \cup {idx'[r]}]
            /\ UNCHANGED verdict
    /\ UNCHANGED <<shared, voices>>

\* A fallback succeeds; it leaves the breaker alone.
FallbackOk(r) ==
    /\ pc[r] = "call" /\ idx[r] > 0
    /\ Return(r, "ok")
    /\ UNCHANGED <<shared, idx, voices, tried>>

\* A fallback fails, with whatever error.
FallbackError(r) ==
    /\ pc[r] = "call" /\ idx[r] > 0
    /\ pc' = [pc EXCEPT ![r] = "next"]
    /\ UNCHANGED <<shared, idx, voices, verdict, tried>>

\* The caller sends its next request.
Again(r) ==
    /\ pc[r] = "done"
    /\ pc' = [pc EXCEPT ![r] = "idle"]
    /\ idx' = [idx EXCEPT ![r] = 0]
    /\ voices' = [voices EXCEPT ![r] = {}]
    /\ verdict' = [verdict EXCEPT ![r] = "none"]
    /\ tried' = [tried EXCEPT ![r] = {}]
    /\ UNCHANGED shared

Tick ==
    /\ now < MaxTime
    /\ now' = now + 1
    /\ UNCHANGED <<failures, trippedAt, pc, idx, voices, verdict, tried, overlapped>>

RequestStep(r) ==
    \/ Begin(r) \/ PrimaryOk(r) \/ CloseCircuit(r)
    \/ \E accepted \in BOOLEAN : PrimaryError(r, accepted)
    \/ CountFailure(r) \/ Trip(r) \/ NextFallback(r) \/ FallbackOk(r) \/ FallbackError(r)

BreakerNext == Tick \/ \E r \in Requests : RequestStep(r) \/ Stream(r) \/ Again(r)

BreakerSpec == BreakerInit /\ [][BreakerNext]_breakerVars

-----------------------------------------------------------------------------
(* Properties *)

Stages == {"idle", "call", "close", "count", "trip", "next", "done"}

TypeOK ==
    /\ now \in 0..MaxTime
    /\ failures \in Nat
    /\ trippedAt \in (0..MaxTime) \cup {Never}
    /\ pc \in [Requests -> Stages]
    /\ idx \in [Requests -> 0..Fallbacks]
    /\ voices \in [Requests -> SUBSET (0..Fallbacks)]
    /\ verdict \in [Requests -> {"none", "ok", "refused", "error"}]
    /\ tried \in [Requests -> SUBSET (0..Fallbacks)]
    /\ overlapped \in BOOLEAN

\* "no content has been streamed yet": the caller of a request never sees the
\* beginning of one provider's answer followed by another provider's, however the
\* providers fail (has_streamed in both halves of try_with_fallback_stream).
OneVoice == \A r \in Requests : \A p, q \in voices[r] : p = q

\* A request ends in an error only when every fallback preset was asked, or content
\* had been streamed already: an open circuit, a trip by another request or the
\* order of failures never cuts the chain short (the loop of try_with_fallback_*).
ErrorsAreExhaustive ==
    \A r \in Requests :
        verdict[r] = "error" => HasStreamed(r) \/ 1..Fallbacks \subseteq tried[r]

\* As long as requests have come one after the other, and from whichever task, the
\* circuit has been opened exactly when the counter has reached the threshold since
\* the last success: opening does not reset the counter, so after the cooldown one
\* more failure opens it again.  Once requests overlap, the two steps of a success
\* and the two of a failure interleave and either half may be lost.
BreakerConsistent ==
    ~overlapped /\ (\A r \in Requests : pc[r] \in {"idle", "done"}) =>
        (trippedAt # Never <=> failures >= Threshold)

=============================================================================
