-------------------------------- MODULE Licensing --------------------------------
(***************************************************************************)
(* The answer to "is this license active?" (license.rs): a signed key, the *)
(* license server when it can be reached, and the file in which its last   *)
(* confirmation is kept for the days it cannot.  Requests of the API run   *)
(* side by side; each reads the file before it calls the server, and the   *)
(* server (external) may fail, or change its mind, at any time.            *)
(* The clock counts days.  A file that is lost, too long, or not the one   *)
(* written for this key is no cache.                                       *)
(***************************************************************************)
EXTENDS Integers

CONSTANTS
  Keys,           \* license keys whose signature holds
  ExpiresAt,      \* Keys -> day
  Requests,       \* requests that may be open together
  CacheFresh,     \* 1 day in the code
  GracePeriod,    \* 7 days in the code
  MaxDays,        \* bound: the clock
  MaxRequests     \* bound: requests made

ASSUME LicensingAssumption ==
  /\ "none" \notin Keys /\ ExpiresAt \in [Keys -> Int]
  /\ CacheFresh \in Nat /\ GracePeriod \in Nat

VARIABLES
  day,
  cache,       \* the file: a key and the day of its confirmation, or NoCache
  request,     \* of each open request: kind, key, what it read of the cache, and when; history: kept
  answer,      \* the answer just given
  asked,
  confirmed    \* history: per key, the day of its last confirmation, Never once the file is not its own

licenseVars == <<day, cache, request, answer, asked, confirmed>>

NoCache == [key |-> "none", checked_at |-> 0]
Idle == [kind |-> "idle"]
Never == 0 - GracePeriod - 1

LicenseInit ==
  /\ day = 0 /\ cache = NoCache
  /\ request = [r \in Requests |-> Idle] /\ answer = Idle
  /\ asked = 0 /\ confirmed = [key \in Keys |-> Never]

\* Time passes; the file is lost or spoilt.
NextDay == day < MaxDays /\ day' = day + 1 /\ answer' = Idle /\ UNCHANGED <<cache, request, asked, confirmed>>
LoseCache ==
  /\ cache # NoCache /\ cache' = NoCache /\ answer' = Idle
  /\ confirmed' = [key \in Keys |-> Never]
  /\ UNCHANGED <<day, request, asked>>

verify_signature(key) == day <= ExpiresAt[key]
load_and_verify_cache(key) == IF cache.key = key THEN cache ELSE NoCache
fresh(entry, now) == entry # NoCache /\ now - entry.checked_at <= CacheFresh

\* Fault-seeded: the grace period is over with the freshness.
fresh_only(entry, now) == fresh(entry, now)
in_grace(entry, now) == entry # NoCache /\ now <= entry.checked_at + GracePeriod

answers(req, active, mode) == answer' = [req |-> req, active |-> active, mode |-> mode]

\* activate and status_for_key up to their call of the server: a key that has expired, or a
\* confirmation that is fresh enough, makes it unnecessary.
Ask(r, kind, key) ==
  LET entry == load_and_verify_cache(key)
      req == [kind |-> kind, key |-> key, entry |-> entry, now |-> day, kept |-> confirmed[key]]
  IN  /\ request[r] = Idle /\ asked < MaxRequests /\ asked' = asked + 1
      /\ IF ~verify_signature(key) THEN answers(req, FALSE, "expired") /\ UNCHANGED request
         ELSE IF kind = "status" /\ fresh(entry, day) THEN answers(req, TRUE, "cached") /\ UNCHANGED request
         ELSE request' = [request EXCEPT ![r] = req] /\ answer' = Idle
      /\ UNCHANGED <<day, cache, confirmed>>

write_cache(key) ==
  /\ cache' = [key |-> key, checked_at |-> day]
  /\ confirmed' = [k \in Keys |-> IF k = key THEN day ELSE Never]

\* The server finds the key inactive or active; with no server configured every key is active.  A confirmation that
\* cannot be written fails an activation and is ignored by a status.
ServerAnswers(r) ==
  LET req == request[r] IN
  /\ req # Idle /\ request' = [request EXCEPT ![r] = Idle]
  /\ \/ answers(req, FALSE, "server_revoked") /\ UNCHANGED <<cache, confirmed>>
     \/ answers(req, TRUE, "server_verified") /\ write_cache(req.key)
     \/ answers(req, req.kind = "status", "server_verified") /\ UNCHANGED <<cache, confirmed>>
  /\ UNCHANGED <<day, asked>>

\* The server cannot be reached: an activation is let through whatever the cache says.
ServerFails(r) ==
  LET req == request[r] IN
  /\ req # Idle /\ request' = [request EXCEPT ![r] = Idle]
  /\ IF req.kind = "activate" \/ in_grace(req.entry, req.now)
     THEN answers(req, TRUE, "grace_period")
     ELSE answers(req, FALSE, "verification_failed")
  /\ UNCHANGED <<day, cache, asked, confirmed>>

LicenseNext ==
  \/ NextDay
  \/ LoseCache
  \/ \E r \in Requests :
       \/ \E kind \in {"activate", "status"}, key \in Keys : Ask(r, kind, key)
       \/ ServerAnswers(r)
       \/ ServerFails(r)

\* A key the server confirmed stays active through an outage of the grace period, and no longer:
\* where a status comes without the server, it is active only if the key was confirmed within
\* the grace period (within a day, if the server was not asked), and inactive only if its last
\* confirmation is older, or no longer on file, or if it has expired; the requests beside it,
\* for this key or another, do not matter but for the file they write.
GraceKept ==
  LET req == answer.req
      age == req.now - req.kept
  IN  answer # Idle /\ req.kind = "status" =>
        /\ answer.mode = "cached" => age <= CacheFresh
        /\ answer.mode = "grace_period" => age > CacheFresh /\ age <= GracePeriod
        /\ answer.mode = "verification_failed" => age > GracePeriod
        /\ answer.mode = "expired" => req.now > ExpiresAt[req.key]
=============================================================================
