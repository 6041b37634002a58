----------------------------- MODULE TokenLifetime -----------------------------
(***************************************************************************)
(* The lifetime token totals of one workspace (token/tracker.rs and        *)
(* token/manager.rs): the counters of the session live in memory and are   *)
(* flushed every 300 s (main.rs) into a total that is written to           *)
(* <data_dir>/<project>_token_lifetime.json.  A new daemon starts the      *)
(* tracker empty; the task that should load the totals waits for a         *)
(* notification that came before it (Startup), and would read another      *)
(* file.  So nothing reads the file the flush writes.                      *)
(*                                                                         *)
(* The counters that are flushed alike are represented by one, the tokens  *)
(* of AI calls; ai_calls says whether there is anything to flush.          *)
(***************************************************************************)
EXTENDS Naturals

CONSTANTS
  MaxTokens,   \* bound: tokens of one call
  MaxCalls,    \* bound: calls recorded
  MaxFlushes,  \* bound: flushes
  MaxRestarts  \* bound: daemons started again

ASSUME ConstantsAssumption ==
  /\ MaxTokens \in Nat /\ MaxCalls \in Nat
  /\ MaxFlushes \in Nat /\ MaxRestarts \in Nat

VARIABLES
  session,           \* ai_tokens_consumed and ai_calls of this process
  lifetime,          \* LifetimeTotals in memory
  session_recorded,
  snapshot,          \* of the flush in progress
  pc,                \* of the flush
  file,              \* the totals on disk
  past,              \* history: tokens of the sessions before
  calls, flushes, restarts

bounds == <<calls, flushes, restarts>>
vars == <<session, lifetime, session_recorded, snapshot, pc, file, past, bounds>>

NoSession == [tokens |-> 0, calls |-> 0]
NoTotals == [tokens |-> 0, sessions |-> 0]

Init ==
  /\ session = NoSession /\ lifetime = NoTotals /\ session_recorded = FALSE
  /\ snapshot = NoSession /\ pc = "idle" /\ file = NoTotals
  /\ past = 0 /\ calls = 0 /\ flushes = 0 /\ restarts = 0

\* record_ai_call; SessionCounters has its steps.
Record ==
  /\ calls < MaxCalls /\ calls' = calls + 1
  /\ \E n \in 0..MaxTokens :
       session' = [tokens |-> session.tokens + n, calls |-> session.calls + 1]
  /\ UNCHANGED <<lifetime, session_recorded, snapshot, pc, file, past, flushes,
                 restarts>>

\* A session without a call is not flushed.
Snapshot ==
  /\ pc = "idle" /\ flushes < MaxFlushes /\ session.calls > 0
  /\ flushes' = flushes + 1
  /\ snapshot' = session /\ pc' = "absorb"
  /\ UNCHANGED <<session, lifetime, session_recorded, file, past, calls, restarts>>

absorb_session(total, s) == total + s.tokens

\* Fault-seeded: the flag is read and never set.
read_only(flag) == flag
swap(flag) == TRUE

Absorb ==
  /\ pc = "absorb"
  /\ lifetime' = [tokens |-> absorb_session(lifetime.tokens, snapshot),
                  sessions |-> lifetime.sessions + (IF session_recorded THEN 0 ELSE 1)]
  /\ session_recorded' = swap(session_recorded)
  /\ pc' = "write"
  /\ UNCHANGED <<session, snapshot, file, past, bounds>>

written == lifetime

WriteFile ==
  /\ pc = "write"
  /\ file' = written /\ pc' = "idle"
  /\ UNCHANGED <<session, lifetime, session_recorded, snapshot, past, bounds>>

\* The daemon ends at any point and starts with an empty tracker.
Restart ==
  /\ restarts < MaxRestarts /\ restarts' = restarts + 1
  /\ past' = past + session.tokens
  /\ session' = NoSession /\ lifetime' = NoTotals /\ session_recorded' = FALSE
  /\ snapshot' = NoSession /\ pc' = "idle"
  /\ UNCHANGED <<file, calls, flushes>>

Next == Record \/ Snapshot \/ Absorb \/ WriteFile \/ Restart

Spec == Init /\ [][Next]_vars

-----------------------------------------------------------------------------
\* However often flush_session_to_lifetime runs, a process counts as one
\* session, and never more sessions are counted than daemons were started.
SessionsCountedOnce ==
  /\ lifetime.sessions <= 1 /\ (lifetime.sessions = 1 <=> session_recorded)
  /\ file.sessions <= restarts + 1

\* The lifetime totals cover the session: after each flush they are at least
\* what the session had when the flush took its snapshot.
CoversSession ==
  pc \in {"write", "idle"} => lifetime.tokens >= snapshot.tokens

\* However often a session is flushed, flush_session_to_lifetime counts it as
\* one and leaves totals that are at least what the session had.
TotalsCoverSession == SessionsCountedOnce /\ CoversSession

\* "each new session's totals are added to the existing record" by
\* absorb_session: at most what was consumed is on file as consumed.
CountsEachSessionOnce == file.tokens <= past + session.tokens

\* "Lifetime totals persisted to disk across daemon restarts": what the file
\* says was consumed (flush_session_to_lifetime) is never taken back.
NeverTakenBack == [][file'.tokens >= file.tokens]_vars
=============================================================================
