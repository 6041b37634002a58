---------------------------- MODULE SessionCounters ----------------------------
(***************************************************************************)
(* SessionCounters::record_ai_call of token/tracker.rs: several server     *)
(* tasks record the tokens of an AI call at once, without a lock.  Every   *)
(* atomic operation is a step; the largest and the smallest call are kept  *)
(* by compare-and-swap loops.  All accesses are relaxed: the properties    *)
(* here are about one counter at a time, or about a state in which no call *)
(* is in progress, and need no ordering between different counters.        *)
(***************************************************************************)
EXTENDS Integers, FiniteSets

CONSTANTS
  Threads,
  MaxU64,        \* u64::MAX, also the "not yet set" of ai_tokens_min
  MaxRecorded    \* bound: calls recorded

ASSUME CountersAssumption ==
  /\ MaxU64 \in Nat \ {0} /\ MaxRecorded \in Nat

VARIABLES
  ai_calls, ai_tokens_consumed, ai_tokens_last, ai_tokens_max, ai_tokens_min,
  call_pc, call_tokens, call_current,   \* of each thread
  recorded_calls                        \* history: the tokens of all calls

sums == <<ai_calls, ai_tokens_consumed, ai_tokens_last>>
counterVars == <<sums, ai_tokens_max, ai_tokens_min, call_pc, call_tokens, call_current, recorded_calls>>

U64 == 0..MaxU64

CountersInit ==
  /\ ai_calls = 0 /\ ai_tokens_consumed = 0 /\ ai_tokens_last = 0
  /\ ai_tokens_max = 0 /\ ai_tokens_min = MaxU64
  /\ call_pc = [t \in Threads |-> "idle"]
  /\ call_tokens = [t \in Threads |-> 0]
  /\ call_current = [t \in Threads |-> 0]
  /\ recorded_calls = {}

GotoStep(t, l) == call_pc' = [call_pc EXCEPT ![t] = l]
Current(t, v) == call_current' = [call_current EXCEPT ![t] = v]

\* fetch_add(1): a call with any number of tokens begins.
CountCall(t) ==
  /\ call_pc[t] = "idle" /\ ai_calls < MaxRecorded
  /\ \E n \in U64 : call_tokens' = [call_tokens EXCEPT ![t] = n] /\ recorded_calls' = recorded_calls \cup {n}
  /\ ai_calls' = ai_calls + 1
  /\ GotoStep(t, "add")
  /\ UNCHANGED <<ai_tokens_consumed, ai_tokens_last, ai_tokens_max,
                 ai_tokens_min, call_current>>

\* fetch_add wraps around.
fetch_add(a, b) == (a + b) % (MaxU64 + 1)

AddTokens(t) ==
  /\ call_pc[t] = "add"
  /\ ai_tokens_consumed' = fetch_add(ai_tokens_consumed, call_tokens[t])
  /\ GotoStep(t, "last")
  /\ UNCHANGED <<ai_calls, ai_tokens_last, ai_tokens_max, ai_tokens_min, call_tokens,
                 call_current, recorded_calls>>

StoreLast(t) ==
  /\ call_pc[t] = "last"
  /\ ai_tokens_last' = call_tokens[t]
  /\ GotoStep(t, "load_max")
  /\ UNCHANGED <<ai_calls, ai_tokens_consumed, ai_tokens_max, ai_tokens_min,
                 call_tokens, call_current, recorded_calls>>

LoadMax(t) ==
  /\ call_pc[t] = "load_max"
  /\ Current(t, ai_tokens_max)
  /\ GotoStep(t, "cas_max")
  /\ UNCHANGED <<sums, ai_tokens_max, ai_tokens_min, call_tokens, recorded_calls>>

\* Fault-seeded: a plain store in place of the compare-and-swap.
blind_swap(counter, t) == TRUE
swaps(counter, t) == counter = call_current[t]

\* One turn of the loop; compare_exchange_weak may fail without a reason.
SwapMax(t) ==
  /\ call_pc[t] = "cas_max"
  /\ \/ /\ call_tokens[t] <= call_current[t]
        /\ GotoStep(t, "load_min") /\ UNCHANGED <<ai_tokens_max, call_current>>
     \/ /\ call_tokens[t] > call_current[t] /\ swaps(ai_tokens_max, t)
        /\ ai_tokens_max' = call_tokens[t]
        /\ GotoStep(t, "load_min") /\ UNCHANGED call_current
     \/ /\ call_tokens[t] > call_current[t]
        /\ Current(t, ai_tokens_max) /\ UNCHANGED <<ai_tokens_max, call_pc>>
  /\ UNCHANGED <<sums, ai_tokens_min, call_tokens, recorded_calls>>

LoadMin(t) ==
  /\ call_pc[t] = "load_min"
  /\ Current(t, ai_tokens_min)
  /\ GotoStep(t, "cas_min")
  /\ UNCHANGED <<sums, ai_tokens_max, ai_tokens_min, call_tokens, recorded_calls>>

\* The sentinel is not taken for a number.
keeps_min(t) == call_current[t] # MaxU64 /\ call_tokens[t] >= call_current[t]

SwapMin(t) ==
  /\ call_pc[t] = "cas_min"
  /\ \/ /\ keeps_min(t)
        /\ GotoStep(t, "idle") /\ UNCHANGED <<ai_tokens_min, call_current>>
     \/ /\ ~keeps_min(t) /\ swaps(ai_tokens_min, t)
        /\ ai_tokens_min' = call_tokens[t]
        /\ GotoStep(t, "idle") /\ UNCHANGED call_current
     \/ /\ ~keeps_min(t)
        /\ Current(t, ai_tokens_min) /\ UNCHANGED <<ai_tokens_min, call_pc>>
  /\ UNCHANGED <<sums, ai_tokens_max, call_tokens, recorded_calls>>

CountersNext == \E t \in Threads :
  \/ CountCall(t) \/ AddTokens(t) \/ StoreLast(t)
  \/ LoadMax(t) \/ SwapMax(t) \/ LoadMin(t) \/ SwapMin(t)

-----------------------------------------------------------------------------
CallSteps == {"idle", "add", "last", "load_max", "cas_max", "load_min", "cas_min"}

\* The counters of SessionCounters stay within u64, fetch_add included.
CountersTypeOK ==
  /\ ai_calls \in Nat
  /\ ai_tokens_consumed \in U64 /\ ai_tokens_last \in U64
  /\ ai_tokens_max \in U64 /\ ai_tokens_min \in U64
  /\ call_pc \in [Threads -> CallSteps]
  /\ call_tokens \in [Threads -> U64] /\ call_current \in [Threads -> U64]
  /\ recorded_calls \in SUBSET U64

\* The calls that have not yet come out of the loop of the maximum, or of the
\* minimum.
BeforeMax == {t \in Threads : call_pc[t] \in {"add", "last", "load_max", "cas_max"}}
BeforeMin == {t \in Threads : call_pc[t] # "idle"}

\* Once no call of record_ai_call is before its loop, ai_tokens_max is the
\* largest call there was, however the compare-and-swap loops interleaved.
MaxExact ==
  BeforeMax = {} => /\ \A n \in recorded_calls : n <= ai_tokens_max
                    /\ ai_tokens_max \in recorded_calls \cup {0}

\* Likewise the smallest, u64::MAX if there was none.
MinExact ==
  BeforeMin = {} => /\ \A n \in recorded_calls : n >= ai_tokens_min
                    /\ ai_tokens_min \in recorded_calls \cup {MaxU64}

\* At rest, record_ai_call has lost no call: both extremes are those of all the
\* calls there were, although every call raced with the others' loops.
ExtremesExact == MaxExact /\ MinExact

\* No call takes back what an overlapping one stored in the counters of
\* record_ai_call: the maximum only grows, the minimum only shrinks.
Monotone ==
  [][ai_tokens_max' >= ai_tokens_max /\ ai_tokens_min' <= ai_tokens_min]_counterVars
=============================================================================
