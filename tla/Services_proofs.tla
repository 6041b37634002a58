----------------------------- MODULE Services_proofs -----------------------------
(***************************************************************************)
(* Proofs about Services.  Each service has an inductive invariant of its  *)
(* own, kept by its own steps and, because they leave its variables alone, *)
(* by those of the others.                                                 *)
(***************************************************************************)
EXTENDS Services, FiniteSetTheorems, SequenceTheorems, TLAPS

LEMMA CountTo == ASSUME NEW n \in Nat PROVE IsFiniteSet(1..n) /\ Cardinality(1..n) = n
BY FS_Interval

-----------------------------------------------------------------------------
(* The license (Licensing). *)

\* The file agrees with what was last confirmed.
CacheInv ==
  /\ day \in Nat
  /\ \A key \in Keys :
       confirmed[key] = IF cache.key = key THEN cache.checked_at ELSE Never
  /\ cache = NoCache \/ cache \in [key : Keys, checked_at : 0..day]
  /\ confirmed \in [Keys -> Int]

\* A request at the server holds what the file said of its key when it read it; a status would
\* not be there with a fresh confirmation.
Asked ==
  [kind : {"activate", "status"}, key : Keys, entry : {NoCache} \cup [key : Keys, checked_at : Int],
   now : Int, kept : Int]

ReadInv(req) ==
  /\ req \in Asked /\ req.now \in Nat
  /\ \/ req.entry = NoCache /\ req.kept = Never
     \/ req.kept \in 0..req.now /\ req.entry = [key |-> req.key, checked_at |-> req.kept]
  /\ req.kind = "status" => ~fresh(req.entry, req.now)

RequestsInv ==
  /\ request \in [Requests -> {Idle} \cup Asked]
  /\ \A r \in Requests : request[r] # Idle => ReadInv(request[r]) /\ request[r].now <= day

LicenseInv == CacheInv /\ RequestsInv /\ GraceKept

LEMMA LicenseInvInit == LicenseInit => LicenseInv
BY LicensingAssumption DEF LicenseInit, LicenseInv, CacheInv, RequestsInv, GraceKept, NoCache, Never

LEMMA RequestsStay ==
  ASSUME RequestsInv, day \in Nat, day' \in Nat, day' >= day, UNCHANGED request PROVE RequestsInv'
BY DEF RequestsInv, ReadInv

LEMMA LicenseInvStep == LicenseInv /\ LicenseNext => LicenseInv'
<1> SUFFICES ASSUME LicenseInv, LicenseNext PROVE LicenseInv'
  OBVIOUS
<1> USE LicensingAssumption
<1>0. CacheInv /\ RequestsInv /\ GraceKept /\ day \in Nat
  BY DEF LicenseInv, CacheInv
<1>1. CASE NextDay
  <2>1. CacheInv' /\ GraceKept'
    BY <1>0, <1>1 DEF NextDay, CacheInv, GraceKept, Never, NoCache
  <2>2. RequestsInv'
    BY <1>0, <1>1, RequestsStay DEF NextDay
  <2> QED BY <2>1, <2>2 DEF LicenseInv
<1>2. CASE LoseCache
  <2>1. CacheInv' /\ GraceKept'
    BY <1>0, <1>2 DEF LoseCache, CacheInv, GraceKept, Never, NoCache
  <2>2. RequestsInv'
    BY <1>0, <1>2, RequestsStay DEF LoseCache
  <2> QED BY <2>1, <2>2 DEF LicenseInv
<1>3. ASSUME NEW r \in Requests, NEW kind \in {"activate", "status"}, NEW key \in Keys, Ask(r, kind, key)
      PROVE  LicenseInv'
  <2> DEFINE entry == load_and_verify_cache(key)
             req == [kind |-> kind, key |-> key, entry |-> entry, now |-> day, kept |-> confirmed[key]]
  <2>1. CacheInv' /\ UNCHANGED <<day, cache, confirmed>>
    BY <1>0, <1>3 DEF Ask, CacheInv
  <2>2. \/ entry = NoCache /\ confirmed[key] = Never
        \/ confirmed[key] \in 0..day /\ entry = [key |-> key, checked_at |-> confirmed[key]]
    BY <1>0 DEF CacheInv, load_and_verify_cache, NoCache
  <2>3. req \in Asked
    BY <1>0, <2>2 DEF Asked, CacheInv
  <2>4. CASE ~verify_signature(key)
    <3>1. answer' = [req |-> req, active |-> FALSE, mode |-> "expired"] /\ UNCHANGED request
      BY <1>3, <2>4 DEF Ask, answers
    <3>2. GraceKept'
      BY <3>1, <2>4, <1>0 DEF GraceKept, verify_signature
    <3> QED BY <3>1, <3>2, <2>1, <1>0, RequestsStay DEF LicenseInv
  <2>5. CASE verify_signature(key) /\ kind = "status" /\ fresh(entry, day)
    <3>1. answer' = [req |-> req, active |-> TRUE, mode |-> "cached"] /\ UNCHANGED request
      BY <1>3, <2>5 DEF Ask, answers
    <3>2. GraceKept'
      BY <3>1, <2>2, <2>5, <1>0 DEF GraceKept, fresh, NoCache
    <3> QED BY <3>1, <3>2, <2>1, <1>0, RequestsStay DEF LicenseInv
  <2>6. CASE verify_signature(key) /\ ~(kind = "status" /\ fresh(entry, day))
    <3> HIDE DEF entry
    <3>1. request' = [request EXCEPT ![r] = req] /\ answer' = Idle
      BY <1>3, <2>6 DEF Ask, answers, entry
    <3>2. ReadInv(req)
      <4>1. req.kind = "status" => ~fresh(req.entry, req.now)
        BY <2>6
      <4> QED BY <2>2, <2>3, <4>1, <1>0 DEF ReadInv
    <3>3. req.now <= day
      BY <1>0
    <3> HIDE DEF req
    <3>4. RequestsInv'
      BY <3>1, <3>2, <3>3, <2>1, <2>3, <1>0 DEF RequestsInv
    <3> QED BY <3>1, <3>4, <2>1 DEF LicenseInv, GraceKept
  <2> QED BY <2>4, <2>5, <2>6
<1>4. ASSUME NEW r \in Requests, request[r] # Idle, request' = [request EXCEPT ![r] = Idle], day' = day
      PROVE  RequestsInv' /\ ReadInv(request[r])
  BY <1>0, <1>4 DEF RequestsInv
<1>5. ASSUME NEW r \in Requests, ServerAnswers(r) PROVE LicenseInv'
  <2>1. RequestsInv' /\ ReadInv(request[r]) /\ day' = day
    BY <1>4, <1>5 DEF ServerAnswers
  <2>2. request[r].key \in Keys
    BY <2>1 DEF ReadInv, Asked
  <2>3. CacheInv'
    <3>1. CASE UNCHANGED <<cache, confirmed>>
      BY <1>0, <2>1, <3>1 DEF CacheInv
    <3>2. CASE write_cache(request[r].key)
      BY <1>0, <2>1, <2>2, <3>2 DEF write_cache, CacheInv, Never
    <3> QED BY <1>5, <3>1, <3>2 DEF ServerAnswers
  <2>4. GraceKept'
    BY <1>5 DEF ServerAnswers, answers, GraceKept
  <2> QED BY <2>1, <2>3, <2>4 DEF LicenseInv
<1>6. ASSUME NEW r \in Requests, ServerFails(r) PROVE LicenseInv'
  <2>1. RequestsInv' /\ ReadInv(request[r]) /\ UNCHANGED <<day, cache, confirmed>>
    BY <1>4, <1>6 DEF ServerFails
  <2>2. CacheInv'
    BY <1>0, <2>1 DEF CacheInv
  <2>3. GraceKept'
    BY <1>0, <1>6, <2>1 DEF ServerFails, answers, GraceKept, ReadInv, Asked, in_grace, fresh, NoCache, Never
  <2> QED BY <2>1, <2>2, <2>3 DEF LicenseInv
<1> QED BY <1>1, <1>2, <1>3, <1>5, <1>6 DEF LicenseNext

LEMMA LicenseInvKept == LicenseInv /\ UNCHANGED licenseVars => LicenseInv'
BY RequestsStay DEF LicenseInv, CacheInv, GraceKept, licenseVars

\* For any number of keys and requests: through an outage of the license server a status says
\* active exactly as long as the last confirmation on file allows.
THEOREM GraceAlwaysKept == ServicesSpec => []GraceKept
<1>1. ServicesInit => LicenseInv
  BY LicenseInvInit DEF ServicesInit
<1>2. LicenseInv /\ [ServicesNext]_servicesVars => LicenseInv'
  BY LicenseInvStep, LicenseInvKept DEF ServicesNext, servicesVars
<1>3. LicenseInv => GraceKept
  BY DEF LicenseInv
<1> QED BY <1>1, <1>2, <1>3, PTL DEF ServicesSpec

-----------------------------------------------------------------------------
(* The token totals (TokenLifetime). *)

TokensType ==
  /\ session \in [tokens : Nat, calls : Nat] /\ snapshot \in [tokens : Nat, calls : Nat]
  /\ lifetime \in [tokens : Nat, sessions : Nat] /\ file \in [tokens : Nat, sessions : Nat]
  /\ pc \in {"idle", "absorb", "write"} /\ restarts \in Nat

TokensInv == TokensType /\ SessionsCountedOnce /\ CoversSession

LEMMA TokensInvInit == Init => TokensInv
<1> SUFFICES ASSUME Init PROVE TokensInv
  OBVIOUS
<1>1. TokensType /\ CoversSession
  BY DEF Init, TokensType, CoversSession, NoSession, NoTotals
<1>2. lifetime.sessions = 0 /\ file.sessions = 0 /\ restarts = 0
  BY DEF Init, NoTotals
<1>3. ~session_recorded
  BY DEF Init
<1> QED BY <1>1, <1>2, <1>3 DEF TokensInv, SessionsCountedOnce

LEMMA TokensInvStep == TokensInv /\ Next => TokensInv'
<1> SUFFICES ASSUME TokensInv, Next PROVE TokensInv'
  OBVIOUS
<1> USE DEF TokensInv, TokensType, SessionsCountedOnce, CoversSession
<1>1. CASE Record
  BY <1>1, ConstantsAssumption DEF Record
<1>2. CASE Snapshot
  BY <1>2 DEF Snapshot
<1>3. CASE Absorb
  BY <1>3 DEF Absorb, absorb_session, swap, bounds
<1>4. CASE WriteFile
  BY <1>4 DEF WriteFile, written, bounds
<1>5. CASE Restart
  <2>1. TokensType' /\ CoversSession' /\ lifetime'.sessions = 0 /\ file' = file /\ restarts' = restarts + 1
    BY <1>5 DEF Restart, NoSession, NoTotals
  <2>2. ~session_recorded'
    BY <1>5 DEF Restart
  <2> QED BY <2>1, <2>2
<1> QED BY <1>1, <1>2, <1>3, <1>4, <1>5 DEF Next

LEMMA TokensInvKept == TokensInv /\ UNCHANGED vars => TokensInv'
BY DEF TokensInv, TokensType, SessionsCountedOnce, CoversSession, vars, bounds

\* For any number of calls, flushes and restarts: a process is one session of the lifetime
\* totals, and they never fall behind what a flush has read of the session.
THEOREM TotalsAlwaysCover == ServicesSpec => []TotalsCoverSession
<1>1. ServicesInit => TokensInv
  BY TokensInvInit DEF ServicesInit
<1>2. TokensInv /\ [ServicesNext]_servicesVars => TokensInv'
  BY TokensInvStep, TokensInvKept DEF ServicesNext, servicesVars, tokenVars
<1>3. TokensInv => TotalsCoverSession
  BY DEF TokensInv, TotalsCoverSession
<1> QED BY <1>1, <1>2, <1>3, PTL DEF ServicesSpec

-----------------------------------------------------------------------------
(* The databases (SqlitePools). *)

\* A database an operation, a pool or a row of project p may be about: that of its workspace,
\* under a root p has had, or the one in the data directory if it was ever opened early.
Held(p, db) ==
  \/ db = DefaultDir(p) /\ p \in early
  \/ \E root \in known[p] : db = InWorkspace(root)

Unshared(p) == \A q \in Projects \ {p} : known[p] \cap known[q] = {}
OneRoot(p) == \A r1, r2 \in known[p] : r1 = r2

PoolsType ==
  /\ known \in [Projects -> SUBSET Roots] /\ \A p \in Projects : IsFiniteSet(known[p])
  /\ unpurged \subseteq Projects
  /\ DOMAIN workspace_roots \subseteq Projects
  /\ \A p \in DOMAIN workspace_roots : workspace_roots[p] \in known[p]

OperationInv(op) ==
  \/ op = NotStarted
  \/ \E p \in Projects : op = [at |-> "missed", project |-> p]
  \/ \E p \in Projects, at_step \in {"opening", "connected"}, db \in {op.db} :
       op = [at |-> at_step, project |-> p, db |-> db] /\ Held(p, db)

KeptInv ==
  /\ DOMAIN pools \subseteq Projects /\ \A p \in DOMAIN pools : Held(p, pools[p])
  /\ operation = [o \in Operations |-> operation[o]]
  /\ \A o \in Operations : OperationInv(operation[o])

RowsInv ==
  /\ \A row \in stored : row[2] \in Projects /\ Held(row[2], row[1])
  /\ \A p \in Projects : Unshared(p) =>
       /\ p \in unpurged => \E row \in stored : row[2] = p
       /\ p \notin early /\ OneRoot(p) /\ p \notin unpurged => \A row \in stored : row[2] # p

PoolsInv == PoolsType /\ KeptInv /\ RowsInv

\* Databases of projects that share no root are different, and so are a project's under its roots.
LEMMA HeldApart ==
  ASSUME NEW p \in Projects, NEW q \in Projects, p # q, Unshared(p), NEW db, Held(p, db)
  PROVE  ~Held(q, db)
BY DEF Held, Unshared, DefaultDir, InWorkspace

\* Nothing that is held is given up when a root becomes known or a project is opened early.
LEMMA HeldStays ==
  ASSUME PoolsType, NEW p \in Projects, NEW db, Held(p, db),
         known[p] \subseteq known[p]', early \subseteq early'
  PROVE  Held(p, db)'
BY DEF Held

LEMMA PoolsInvInit == PoolsInit => PoolsInv
<1> SUFFICES ASSUME PoolsInit PROVE PoolsInv
  OBVIOUS
<1>1. \A p \in Projects : known[p] = {}
  BY DEF PoolsInit
<1>2. PoolsType
  BY <1>1, FS_EmptySet DEF PoolsInit, PoolsType
<1> QED BY <1>2 DEF PoolsInit, PoolsInv, KeptInv, RowsInv, OperationInv

LEMMA PoolsInvKept == PoolsInv /\ UNCHANGED poolVars => PoolsInv'
BY DEF PoolsInv, PoolsType, KeptInv, RowsInv, OperationInv, Held, Unshared, OneRoot, poolVars

\* What is to be shown of the rows after a step that leaves the roots alone.
LEMMA RowsInvNext ==
  ASSUME UNCHANGED <<known, early>>,
         \A row \in stored' : row[2] \in Projects /\ Held(row[2], row[1]),
         \A p \in Projects : Unshared(p) =>
           /\ p \in unpurged' => \E row \in stored' : row[2] = p
           /\ p \notin early /\ OneRoot(p) /\ p \notin unpurged' => \A row \in stored' : row[2] # p
  PROVE  RowsInv'
BY DEF RowsInv, Held, Unshared, OneRoot

LEMMA PoolsInvRoot ==
  ASSUME PoolsInv, NEW p \in Projects, NEW root \in Roots, SetWorkspaceRoot(p, root) PROVE PoolsInv'
<1> USE DEF PoolsInv
<1>1. /\ workspace_roots' = with(workspace_roots, p, root)
      /\ known' = [known EXCEPT ![p] = @ \cup {root}]
      /\ UNCHANGED <<pools, operation, stored, unpurged, early>>
  BY DEF SetWorkspaceRoot
<1>2. \A q \in Projects : known[q] \subseteq known[q]'
  BY <1>1 DEF PoolsType
<1>3. \A q \in Projects : \A db : Held(q, db) => Held(q, db)'
  BY <1>1, <1>2, HeldStays
<1>4. \A q \in Projects : known[q]' \in SUBSET Roots /\ IsFiniteSet(known[q]')
  BY <1>1, FS_AddElement DEF PoolsType
<1> PoolsType'
  <2>1. known' \in [Projects -> SUBSET Roots]
    BY <1>1, <1>4 DEF PoolsType
  <2>2. \A q \in DOMAIN workspace_roots' : q \in Projects /\ workspace_roots'[q] \in known'[q]
    BY <1>1 DEF PoolsType, with
  <2> QED BY <1>1, <1>4, <2>1, <2>2 DEF PoolsType
<1>5. KeptInv'
  BY <1>1, <1>3 DEF KeptInv, OperationInv
<1>6. \A q \in Projects : (Unshared(q)' => Unshared(q)) /\ (OneRoot(q)' => OneRoot(q))
  BY <1>2, <1>1 DEF Unshared, OneRoot
<1>7. RowsInv'
  BY <1>1, <1>3, <1>6 DEF RowsInv
<1> QED BY <1>4, <1>5, <1>7

LEMMA PoolsInvStep == PoolsInv /\ PoolsNext => PoolsInv'
<1> SUFFICES ASSUME PoolsInv, PoolsNext PROVE PoolsInv'
  OBVIOUS
<1> USE DEF PoolsInv
<1>1. ASSUME NEW p \in Projects, NEW root \in Roots, SetWorkspaceRoot(p, root) PROVE PoolsInv'
  BY <1>1, PoolsInvRoot
<1>2. ASSUME NEW o \in Operations, NEW p \in Projects, LookUp(o, p) PROVE PoolsInv'
  <2>1. PoolsType' /\ RowsInv'
    BY <1>2 DEF LookUp, PoolsType, RowsInv, Held, Unshared, OneRoot
  <2>2. \A q, db : Held(q, db)' <=> Held(q, db)
    BY <1>2 DEF LookUp, Held
  <2>3. KeptInv'
    BY <1>2, <2>2 DEF LookUp, KeptInv, OperationInv
  <2> QED BY <2>1, <2>3
<1>3. ASSUME NEW o \in Operations, FindPath(o) PROVE PoolsInv'
  <2>1. PICK p \in Projects : operation[o] = [at |-> "missed", project |-> p]
    BY <1>3 DEF FindPath, KeptInv, OperationInv, NotStarted
  <2>2. early \subseteq early' /\ UNCHANGED <<workspace_roots, pools, stored, unpurged, known>>
    BY <1>3 DEF FindPath
  <2>3. \A q \in Projects : \A db : Held(q, db) => Held(q, db)'
    BY <2>2, HeldStays
  <2>4. Held(p, get_db_path(p))'
    BY <1>3, <2>1, <2>2 DEF FindPath, get_db_path, Held, PoolsType
  <2>5. PoolsType'
    BY <2>2 DEF PoolsType
  <2>6. RowsInv'
    BY <2>2, <2>3 DEF RowsInv, Unshared, OneRoot
  <2>7. get_db_path(p)' = get_db_path(p)
    BY <2>2 DEF get_db_path
  <2>8. KeptInv'
    BY <1>3, <2>1, <2>2, <2>3, <2>4, <2>7 DEF FindPath, KeptInv, OperationInv
  <2> QED BY <2>5, <2>6, <2>8
<1>4. ASSUME NEW o \in Operations, OpenPool(o) PROVE PoolsInv'
  <2>1. PoolsType' /\ RowsInv'
    BY <1>4 DEF OpenPool, PoolsType, RowsInv, Held, Unshared, OneRoot
  <2>2. \A q, db : Held(q, db)' <=> Held(q, db)
    BY <1>4 DEF OpenPool, Held
  <2>3. KeptInv'
    BY <1>4, <2>2 DEF OpenPool, KeptInv, OperationInv, NotStarted, with
  <2> QED BY <2>1, <2>3
<1>5. ASSUME NEW o \in Operations, Execute(o) PROVE PoolsInv'
  <2>1. PICK op : op = operation[o] /\ op.project \in Projects /\ Held(op.project, op.db)
    BY <1>5 DEF Execute, KeptInv, OperationInv, NotStarted
  <2>2. UNCHANGED <<workspace_roots, pools, early, known>> /\ operation' = [operation EXCEPT ![o] = NotStarted]
    BY <1>5 DEF Execute
  <2>3. \A q, db : Held(q, db)' <=> Held(q, db)
    BY <2>2 DEF Held
  <2>5. KeptInv'
    BY <2>2, <2>3 DEF KeptInv, OperationInv
  <2>6. unpurged' \subseteq Projects
    BY <1>5, <2>1 DEF Execute, upsert_entry, purge_project, PoolsType
  <2>7. PoolsType'
    BY <2>2, <2>6 DEF PoolsType
  <2>8. CASE upsert_entry(op.project, op.db)
    <3>1. stored' = stored \cup {<<op.db, op.project>>} /\ unpurged' = unpurged \cup {op.project}
      BY <2>8 DEF upsert_entry
    <3>2. \A row \in stored' : row[2] \in Projects /\ Held(row[2], row[1])
      BY <2>1, <3>1 DEF RowsInv
    <3>3. \A p \in Projects : Unshared(p) =>
            /\ p \in unpurged' => \E row \in stored' : row[2] = p
            /\ p \notin early /\ OneRoot(p) /\ p \notin unpurged' => \A row \in stored' : row[2] # p
      <4>1. <<op.db, op.project>>[2] = op.project
        OBVIOUS
      <4> QED BY <3>1, <4>1 DEF RowsInv
    <3> QED BY <2>2, <2>5, <2>7, <3>2, <3>3, RowsInvNext
  <2>9. CASE purge_project(op.project, op.db)
    <3>1. stored' = {row \in stored : row[1] # op.db} /\ unpurged' = unpurged \ {op.project}
      BY <2>9 DEF purge_project
    <3>2. ASSUME NEW p \in Projects, Unshared(p), p \in unpurged'
          PROVE  \E row \in stored' : row[2] = p
      <4>1. PICK row \in stored : row[2] = p
        BY <3>1, <3>2 DEF RowsInv
      <4>2. Held(p, row[1]) /\ p # op.project
        BY <3>1, <3>2, <4>1 DEF RowsInv
      <4>3. row[1] # op.db
        BY <2>1, <3>2, <4>2, HeldApart
      <4> QED BY <3>1, <4>1, <4>3
    <3>3. ASSUME NEW p \in Projects, Unshared(p), p \notin early, OneRoot(p), p \notin unpurged',
                 NEW row \in stored', row[2] = p
          PROVE  FALSE
      <4>1. row \in stored /\ row[1] # op.db
        BY <3>1, <3>3
      <4>2. CASE p # op.project
        BY <3>1, <3>3, <4>1, <4>2 DEF RowsInv
      <4>3. CASE p = op.project
        BY <2>1, <3>3, <4>1, <4>3 DEF RowsInv, Held, OneRoot
      <4> QED BY <4>2, <4>3
    <3>4. \A row \in stored' : row[2] \in Projects /\ Held(row[2], row[1])
      BY <3>1 DEF RowsInv
    <3> QED BY <2>2, <2>5, <2>7, <3>2, <3>3, <3>4, RowsInvNext
  <2>10. CASE UNCHANGED <<stored, unpurged>>
    BY <2>2, <2>5, <2>7, <2>10, RowsInvNext DEF RowsInv
  <2> QED BY <1>5, <2>1, <2>8, <2>9, <2>10 DEF Execute
<1>6. CASE RestartDaemon
  <2>1. \A q, db : Held(q, db)' <=> Held(q, db)
    BY <1>6 DEF RestartDaemon, Held
  <2> QED BY <1>6, <2>1 DEF RestartDaemon, PoolsType, KeptInv, RowsInv, OperationInv, Unshared, OneRoot
<1> QED BY <1>1, <1>2, <1>3, <1>4, <1>5, <1>6 DEF PoolsNext

LEMMA PoolsInvSuffices == PoolsInv => OneDatabase
<1> SUFFICES ASSUME PoolsInv, NEW p \in Projects, Unshared(p)
             PROVE  LET holding == {row[1] : row \in {row \in stored : row[2] = p}}
                    IN  /\ p \in unpurged => holding # {}
                        /\ p \notin early /\ Cardinality(known[p]) = 1 =>
                             holding = {InWorkspace(root) : root \in IF p \in unpurged THEN known[p] ELSE {}}
  BY DEF OneDatabase, Unshared
<1> USE DEF PoolsInv
<1> DEFINE holding == {row[1] : row \in {row \in stored : row[2] = p}}
<1>1. p \in unpurged => holding # {}
  BY DEF RowsInv
<1>2. ASSUME p \notin early, Cardinality(known[p]) = 1
      PROVE  holding = {InWorkspace(root) : root \in IF p \in unpurged THEN known[p] ELSE {}}
  <2>1. PICK root : known[p] = {root}
    BY <1>2, FS_Singleton DEF PoolsType
  <2>2. OneRoot(p)
    BY <2>1 DEF OneRoot
  <2>3. \A db \in holding : db = InWorkspace(root)
    BY <1>2, <2>1 DEF RowsInv, Held
  <2>4. p \notin unpurged => holding = {}
    BY <1>2, <2>2 DEF RowsInv
  <2> QED BY <1>1, <2>1, <2>3, <2>4
<1> QED BY <1>1, <1>2

\* For any number of projects, roots and operations under way together: what a project stored is
\* in one place, that of its workspace, as long as its root was known in time and is its own, and
\* only its own purge removes it.
THEOREM AlwaysOneDatabase == ServicesSpec => []OneDatabase
<1>1. ServicesInit => PoolsInv
  BY PoolsInvInit DEF ServicesInit
<1>2. PoolsInv /\ [ServicesNext]_servicesVars => PoolsInv'
  BY PoolsInvStep, PoolsInvKept DEF ServicesNext, servicesVars
<1> QED BY <1>1, <1>2, PoolsInvSuffices, PTL DEF ServicesSpec

-----------------------------------------------------------------------------
(* The vectors (EmbeddingStore). *)

\* The rows are those of the texts given: index and ids are inverse to each other, and the row
\* of an entry is its text's.
Aligned(index, matrix, ids, hashes, texts) ==
  /\ texts \in [DOMAIN texts -> Texts] /\ DOMAIN texts \subseteq Entries
  /\ ids \in Seq(Entries) /\ matrix \in Seq(Texts) /\ Len(matrix) = Len(ids)
  /\ index \in [DOMAIN texts -> 1..Len(ids)] /\ hashes \in [DOMAIN texts -> Int]
  /\ \A e \in DOMAIN texts : hashes[e] \in {texts[e], 0 - texts[e]}
  /\ \A pos \in 1..Len(ids) : ids[pos] \in DOMAIN texts /\ index[ids[pos]] = pos
  /\ \A e \in DOMAIN texts : ids[index[e]] = e /\ matrix[index[e]] = texts[e]

RowsOf(s, texts) ==
  \E index, matrix, ids, hashes :
    /\ s = [index |-> index, matrix |-> matrix, ids |-> ids, hashes |-> hashes]
    /\ Aligned(index, matrix, ids, hashes, texts)

LEMMA TextsAreInts == Texts \subseteq Int
BY EmbeddingStoreAssumption DEF Texts

LEMMA PutKeeps ==
  ASSUME NEW s, NEW texts, RowsOf(s, texts), NEW e \in Entries, NEW text \in Texts, NEW hash \in {text, 0 - text}
  PROVE  RowsOf(put(s, e, text, hash), with(texts, e, text))
<1>1. PICK index, matrix, ids, hashes :
        /\ s = [index |-> index, matrix |-> matrix, ids |-> ids, hashes |-> hashes]
        /\ Aligned(index, matrix, ids, hashes, texts)
  BY DEF RowsOf
<1>2. PICK g : g = with(texts, e, text)
  OBVIOUS
<1>3. /\ DOMAIN g = DOMAIN texts \cup {e} /\ \A k \in DOMAIN g : g[k] = IF k = e THEN text ELSE texts[k]
      /\ g \in [DOMAIN g -> Texts] /\ DOMAIN g \subseteq Entries
  BY <1>1, <1>2 DEF with, Aligned
<1>4. hash \in Int
  BY TextsAreInts
<1>5. CASE e \in DOMAIN texts
  <2>1. PICK m, h : m = [matrix EXCEPT ![index[e]] = text] /\ h = [hashes EXCEPT ![e] = hash]
    OBVIOUS
  <2>2. put(s, e, text, hash) = [index |-> index, matrix |-> m, ids |-> ids, hashes |-> h]
    BY <1>1, <1>5, <2>1 DEF put, Aligned
  <2>3. /\ m \in Seq(Texts) /\ Len(m) = Len(ids)
        /\ \A i \in 1..Len(ids) : m[i] = IF i = index[e] THEN text ELSE matrix[i]
    BY <1>1, <1>5, <2>1, ExceptSeq DEF Aligned
  <2>4. h \in [DOMAIN g -> Int] /\ \A k \in DOMAIN g : h[k] \in {g[k], 0 - g[k]}
    BY <1>1, <1>3, <1>4, <1>5, <2>1 DEF Aligned
  <2>5. \A k \in DOMAIN g : m[index[k]] = g[k]
    BY <1>1, <1>3, <1>5, <2>3 DEF Aligned
  <2>6. Aligned(index, m, ids, h, g)
    BY <1>1, <1>3, <1>5, <2>3, <2>4, <2>5 DEF Aligned
  <2> QED BY <1>2, <2>2, <2>6 DEF RowsOf
<1>6. CASE e \notin DOMAIN texts
  <2>1. PICK last : last = Len(ids) + 1
    OBVIOUS
  <2>2. PICK x, m, d, h : /\ x = with(index, e, last) /\ m = Append(matrix, text)
                          /\ d = Append(ids, e) /\ h = with(hashes, e, hash)
    OBVIOUS
  <2>3. put(s, e, text, hash) = [index |-> x, matrix |-> m, ids |-> d, hashes |-> h]
    BY <1>1, <1>6, <2>1, <2>2 DEF put, Aligned
  <2>4. /\ d \in Seq(Entries) /\ Len(d) = last /\ last \in Nat \ {0}
        /\ \A pos \in 1..last : d[pos] = IF pos = last THEN e ELSE ids[pos]
    BY <1>1, <2>1, <2>2, AppendProperties DEF Aligned
  <2>5. /\ m \in Seq(Texts) /\ Len(m) = last
        /\ \A pos \in 1..last : m[pos] = IF pos = last THEN text ELSE matrix[pos]
    BY <1>1, <2>1, <2>2, AppendProperties DEF Aligned
  <2>6. x \in [DOMAIN g -> 1..last] /\ \A k \in DOMAIN g : x[k] = IF k = e THEN last ELSE index[k]
    BY <1>1, <1>3, <2>1, <2>2 DEF Aligned, with
  <2>7. h \in [DOMAIN g -> Int] /\ \A k \in DOMAIN g : h[k] = IF k = e THEN hash ELSE hashes[k]
    BY <1>1, <1>3, <1>4, <2>2 DEF Aligned, with
  <2>8. \A k \in DOMAIN g : h[k] \in {g[k], 0 - g[k]}
    BY <1>1, <1>3, <2>7 DEF Aligned
  <2>9. ASSUME NEW k \in DOMAIN g PROVE d[x[k]] = k /\ m[x[k]] = g[k]
    <3>1. CASE k = e
      BY <1>3, <2>4, <2>5, <2>6, <3>1
    <3>2. CASE k # e
      <4>1. index[k] \in 1..last /\ index[k] # last /\ ids[index[k]] = k /\ matrix[index[k]] = g[k]
        BY <1>1, <1>3, <2>1, <3>2 DEF Aligned
      <4> QED BY <2>4, <2>5, <2>6, <3>2, <4>1
    <3> QED BY <3>1, <3>2
  <2>10. \A pos \in 1..last : d[pos] \in DOMAIN g /\ x[d[pos]] = pos
    <3> SUFFICES ASSUME NEW pos \in 1..last PROVE d[pos] \in DOMAIN g /\ x[d[pos]] = pos
      OBVIOUS
    <3>1. CASE pos = last
      BY <1>3, <2>4, <2>6, <3>1
    <3>2. CASE pos # last
      BY <1>1, <1>3, <1>6, <2>1, <2>4, <2>6, <3>2 DEF Aligned
    <3> QED BY <3>1, <3>2
  <2>11. Aligned(x, m, d, h, g)
    BY <1>3, <2>4, <2>5, <2>6, <2>7, <2>8, <2>9, <2>10 DEF Aligned
  <2> QED BY <1>2, <2>3, <2>11 DEF RowsOf
<1> QED BY <1>5, <1>6

\* What fills the place of a removed row.
Filled(seq, pos) == Front([seq EXCEPT ![pos] = seq[Len(seq)]])

LEMMA FilledFront ==
  ASSUME NEW S, NEW seq \in Seq(S), NEW pos \in 1..Len(seq)
  PROVE  /\ Filled(seq, pos) \in Seq(S) /\ Len(Filled(seq, pos)) = Len(seq) - 1
         /\ \A i \in 1..Len(seq) - 1 : Filled(seq, pos)[i] = IF i = pos THEN seq[Len(seq)] ELSE seq[i]
<1>1. PICK x : x = [seq EXCEPT ![pos] = seq[Len(seq)]]
  OBVIOUS
<1>2. Len(seq) \in Nat /\ Len(seq) >= 1 /\ seq \in [1..Len(seq) -> S]
  OBVIOUS
<1>3. x \in Seq(S) /\ Len(x) = Len(seq)
  BY <1>1, <1>2, ExceptSeq
<1>4. \A i \in 1..Len(seq) - 1 : x[i] \in S /\ x[i] = IF i = pos THEN seq[Len(seq)] ELSE seq[i]
  BY <1>1, <1>2
<1>5. PICK n : n = Len(seq) - 1 /\ n \in Nat
  BY <1>2
<1>6. /\ SubSeq(x, 1, n) \in Seq(S) /\ Len(SubSeq(x, 1, n)) = n
      /\ \A i \in 1..n : SubSeq(x, 1, n)[i] = x[i]
  BY <1>3, <1>5
<1>7. Filled(seq, pos) = SubSeq(x, 1, n)
  BY <1>1, <1>3, <1>5 DEF Filled, Front
<1> QED BY <1>4, <1>5, <1>6, <1>7

LEMMA RemoveKeeps ==
  ASSUME NEW s, NEW texts, RowsOf(s, texts), NEW e \in Entries
  PROVE  RowsOf(swap_remove(s, e), without(texts, {e}))
<1>1. PICK index, matrix, ids, hashes :
        /\ s = [index |-> index, matrix |-> matrix, ids |-> ids, hashes |-> hashes]
        /\ Aligned(index, matrix, ids, hashes, texts)
  BY DEF RowsOf
<1>2. PICK g : g = without(texts, {e})
  OBVIOUS
<1>3. /\ DOMAIN g = DOMAIN texts \ {e} /\ \A k \in DOMAIN g : g[k] = texts[k]
      /\ g \in [DOMAIN g -> Texts] /\ DOMAIN g \subseteq Entries
  BY <1>1, <1>2 DEF without, Aligned
<1>4. CASE e \notin DOMAIN texts
  <2>1. swap_remove(s, e) = s
    BY <1>1, <1>4 DEF swap_remove, Aligned
  <2>2. g = texts
    <3>1. texts = [k \in DOMAIN texts |-> texts[k]] /\ DOMAIN texts \ {e} = DOMAIN texts
      BY <1>1, <1>4 DEF Aligned
    <3> QED BY <1>2, <3>1 DEF without
  <2> QED BY <1>2, <2>1, <2>2
<1>5. CASE e \in DOMAIN texts
  <2>1. PICK n, pos : n = Len(ids) /\ pos = index[e]
    OBVIOUS
  <2>2. PICK last : last = ids[n]
    OBVIOUS
  <2>3. /\ n \in Nat /\ pos \in 1..n /\ n \in 1..n /\ ids \in [1..n -> Entries] /\ matrix \in [1..n -> Texts]
        /\ last \in DOMAIN texts /\ index[last] = n /\ ids[pos] = e
    BY <1>1, <1>5, <2>1, <2>2 DEF Aligned
  <2>4. PICK x, m, d, h :
          /\ x = IF pos < n THEN moved(without(index, {e}), [ids EXCEPT ![pos] = ids[n]], pos)
                            ELSE without(index, {e})
          /\ m = Front([matrix EXCEPT ![pos] = matrix[n]]) /\ d = Front([ids EXCEPT ![pos] = ids[n]])
          /\ h = without(hashes, {e})
    OBVIOUS
  <2>5. swap_remove(s, e) = [index |-> x, matrix |-> m, ids |-> d, hashes |-> h]
    BY <1>1, <1>5, <2>1, <2>4 DEF swap_remove, Aligned
  <2>6. /\ d \in Seq(Entries) /\ Len(d) = n - 1
        /\ \A i \in 1..n - 1 : d[i] = IF i = pos THEN last ELSE ids[i]
    <3>1. ids \in Seq(Entries) /\ pos \in 1..Len(ids) /\ d = Filled(ids, pos)
      BY <1>1, <2>1, <2>3, <2>4 DEF Filled, Aligned
    <3>2. /\ d \in Seq(Entries) /\ Len(d) = Len(ids) - 1
          /\ \A i \in 1..Len(ids) - 1 : d[i] = IF i = pos THEN ids[Len(ids)] ELSE ids[i]
      BY <3>1, FilledFront
    <3> QED BY <2>1, <2>2, <3>2
  <2>7. /\ m \in Seq(Texts) /\ Len(m) = n - 1
        /\ \A i \in 1..n - 1 : m[i] = IF i = pos THEN matrix[n] ELSE matrix[i]
    <3>1. /\ matrix \in Seq(Texts) /\ Len(matrix) = n /\ pos \in 1..Len(matrix)
          /\ m = Filled(matrix, pos)
      BY <1>1, <2>1, <2>3, <2>4 DEF Filled, Aligned
    <3>2. /\ m \in Seq(Texts) /\ Len(m) = Len(matrix) - 1
          /\ \A i \in 1..Len(matrix) - 1 : m[i] = IF i = pos THEN matrix[Len(matrix)] ELSE matrix[i]
      BY <3>1, FilledFront
    <3> QED BY <3>1, <3>2
  <2>8. DOMAIN x = DOMAIN g /\ x = [k \in DOMAIN g |-> x[k]]
        /\ \A k \in DOMAIN g : x[k] = IF k = last THEN pos ELSE index[k]
    <3>1. CASE pos < n
      <4>1. x = with(without(index, {e}), last, pos) /\ last # e
        BY <2>1, <2>2, <2>3, <2>4, <3>1 DEF moved
      <4> QED BY <1>1, <1>3, <2>3, <4>1 DEF with, without, Aligned
    <3>2. CASE pos = n
      <4>1. x = without(index, {e}) /\ last = e
        BY <2>2, <2>3, <2>4, <3>2
      <4> QED BY <1>1, <1>3, <4>1 DEF without, Aligned
    <3> QED BY <2>3, <3>1, <3>2
  <2>9. ASSUME NEW k \in DOMAIN g
        PROVE  x[k] \in 1..n - 1 /\ d[x[k]] = k /\ m[x[k]] = g[k]
    <3>1. CASE k = last
      <4>1. pos \in 1..n - 1
        BY <1>3, <2>2, <2>3, <3>1
      <4> QED BY <1>1, <1>3, <2>3, <2>6, <2>7, <2>8, <3>1, <4>1 DEF Aligned
    <3>2. CASE k # last
      <4>1. index[k] \in 1..n /\ index[k] # n /\ index[k] # pos /\ ids[index[k]] = k /\ matrix[index[k]] = g[k]
        BY <1>1, <1>3, <2>1, <2>2, <2>3, <3>2 DEF Aligned
      <4> QED BY <2>3, <2>6, <2>7, <2>8, <3>2, <4>1
    <3> QED BY <3>1, <3>2
  <2>10. ASSUME NEW i \in 1..n - 1 PROVE d[i] \in DOMAIN g /\ x[d[i]] = i
    <3>1. CASE i = pos
      <4>1. last # e
        BY <2>1, <2>3, <3>1
      <4> QED BY <1>3, <2>3, <2>6, <2>8, <3>1, <4>1
    <3>2. CASE i # pos
      <4>1. ids[i] \in DOMAIN texts /\ index[ids[i]] = i /\ ids[i] # e /\ ids[i] # last
        BY <1>1, <2>1, <2>3, <3>2 DEF Aligned
      <4> QED BY <1>3, <2>6, <2>8, <3>2, <4>1
    <3> QED BY <3>1, <3>2
  <2>11. h \in [DOMAIN g -> Int] /\ \A k \in DOMAIN g : h[k] \in {g[k], 0 - g[k]}
    BY <1>1, <1>3, <2>4 DEF without, Aligned
  <2>12. x \in [DOMAIN g -> 1..n - 1]
    BY <2>8, <2>9
  <2>13. Aligned(x, m, d, h, g)
    BY <1>3, <2>6, <2>7, <2>9, <2>10, <2>11, <2>12 DEF Aligned
  <2> QED BY <1>2, <2>5, <2>13 DEF RowsOf
<1> QED BY <1>4, <1>5

\* What a put and a removal leave of the hashes.
LEMMA HashesKept ==
  ASSUME NEW s, NEW texts, RowsOf(s, texts), NEW e \in Entries, NEW text, NEW hash
  PROVE  /\ DOMAIN s.index = DOMAIN texts /\ DOMAIN s.hashes = DOMAIN texts
         /\ \A k \in DOMAIN texts \cup {e} :
              put(s, e, text, hash).hashes[k] = IF k = e THEN hash ELSE s.hashes[k]
         /\ \A k \in DOMAIN texts \ {e} : swap_remove(s, e).hashes[k] = s.hashes[k]
<1>1. PICK index, matrix, ids, hashes :
        /\ s = [index |-> index, matrix |-> matrix, ids |-> ids, hashes |-> hashes]
        /\ index \in [DOMAIN texts -> 1..Len(ids)] /\ hashes \in [DOMAIN texts -> Int]
  BY DEF RowsOf, Aligned
<1>2. s.index = index /\ s.hashes = hashes
  BY <1>1
<1>3. e \in DOMAIN texts => put(s, e, text, hash).hashes = [hashes EXCEPT ![e] = hash]
  BY <1>1 DEF put
<1>4. e \notin DOMAIN texts => put(s, e, text, hash).hashes = with(hashes, e, hash)
  BY <1>1 DEF put
<1>5. swap_remove(s, e).hashes = IF e \in DOMAIN texts THEN without(hashes, {e}) ELSE hashes
  BY <1>1 DEF swap_remove
<1> QED BY <1>1, <1>2, <1>3, <1>4, <1>5 DEF with, without

TextsOf(s) == [e \in DOMAIN s.index |-> s.matrix[s.index[e]]]

TableInv ==
  /\ table \in [DOMAIN table -> {[vector |-> text, hash |-> text] : text \in Texts}]
  /\ DOMAIN table \subseteq Entries /\ IsFiniteSet(DOMAIN table)

\* The table holds what the rows s hold of the entry, and its absence.
Same(s, texts, e) ==
  /\ e \in DOMAIN texts <=> e \in DOMAIN table
  /\ e \in DOMAIN texts => table[e] = [vector |-> texts[e], hash |-> s.hashes[e]]

LoadedInv == loaded # NotLoaded => /\ RowsOf(loaded, TextsOf(loaded))
                                   /\ \A e \in Entries \ since : Same(loaded, TextsOf(loaded), e)

\* Until the deferred load is done the table may hold entries that memory does not.
AgreedInv ==
  \A e \in Entries \ (ahead \cup {deleting}) :
    /\ e \in DOMAIN given => e \in DOMAIN table /\ table[e] = [vector |-> given[e], hash |-> rows.hashes[e]]
    /\ complete /\ e \in DOMAIN table => e \in DOMAIN given

VectorsInv ==
  TableInv /\ RowsOf(rows, given) /\ LoadedInv /\ AgreedInv /\ deleting \in Entries \cup {NoEntry}

LEMMA EmptyRows == RowsOf(Empty, <<>>)
<1>1. /\ <<>> \in Seq(Entries) /\ <<>> \in Seq(Texts) /\ Len(<<>>) = 0 /\ DOMAIN <<>> = {}
      /\ <<>> \in [{} -> 1..0] /\ <<>> \in [{} -> Int] /\ <<>> \in [{} -> Texts]
  OBVIOUS
<1>2. Aligned(<<>>, <<>>, <<>>, <<>>, <<>>)
  BY <1>1 DEF Aligned
<1> QED BY <1>2 DEF RowsOf, Empty

LEMMA VectorsInvInit == StoreInit => VectorsInv
<1> SUFFICES ASSUME StoreInit PROVE VectorsInv
  OBVIOUS
<1>1. TableInv
  BY FS_EmptySet DEF StoreInit, TableInv
<1>2. RowsOf(rows, given)
  BY EmptyRows DEF StoreInit
<1>3. LoadedInv /\ AgreedInv
  BY DEF StoreInit, LoadedInv, AgreedInv
<1> QED BY <1>1, <1>2, <1>3 DEF VectorsInv, StoreInit

LEMMA VectorsInvKept == VectorsInv /\ UNCHANGED storeVars => VectorsInv'
BY DEF VectorsInv, TableInv, LoadedInv, AgreedInv, Same, storeVars

\* The rows read from the table are those of its vectors.
LEMMA LoadReads ==
  ASSUME TableInv, NEW order \in SetToSeqs(DOMAIN table), NEW s, s = rows_of(order)
  PROVE  RowsOf(s, TextsOf(s)) /\ \A e \in Entries : Same(s, TextsOf(s), e)
<1>1. PICK n : n = Cardinality(DOMAIN table) /\ n \in Nat
  BY FS_CardinalityType DEF TableInv
<1>2. order \in [1..n -> DOMAIN table] /\ \A i, j \in 1..n : i # j => order[i] # order[j]
  BY <1>1 DEF SetToSeqs
<1>3. \A e \in DOMAIN table : \E pos \in 1..n : order[pos] = e
  <2>1. order \in Injection(1..n, DOMAIN table)
    BY <1>2 DEF Injection, IsInjective
  <2>2. IsFiniteSet(1..n) /\ Cardinality(1..n) = n
    BY <1>1, FS_Interval
  <2>3. order \in Surjection(1..n, DOMAIN table)
    BY <1>1, <2>1, <2>2, FS_Injection DEF TableInv
  <2> QED BY <2>3 DEF Surjection
<1>4. order \in Seq(Entries) /\ Len(order) = n /\ DOMAIN order = 1..n
  BY <1>1, <1>2 DEF TableInv
<1>5. PICK index, matrix, hashes, texts :
        /\ index = [e \in DOMAIN table |-> CHOOSE pos \in DOMAIN order : order[pos] = e]
        /\ matrix = [pos \in DOMAIN order |-> table[order[pos]].vector]
        /\ hashes = [e \in DOMAIN table |-> table[e].hash]
        /\ texts = TextsOf(s)
  OBVIOUS
<1>6. s = [index |-> index, matrix |-> matrix, ids |-> order, hashes |-> hashes]
  BY <1>5 DEF rows_of
<1>7. \A e \in DOMAIN table : index[e] \in 1..n /\ order[index[e]] = e
  BY <1>3, <1>4, <1>5
<1>8. \A e \in DOMAIN table : /\ table[e].vector \in Texts /\ table[e].hash = table[e].vector
                              /\ table[e] = [vector |-> table[e].vector, hash |-> table[e].hash]
  BY DEF TableInv
<1>9. matrix \in Seq(Texts) /\ Len(matrix) = n
  <2>1. matrix \in [1..n -> Texts]
    BY <1>2, <1>4, <1>5, <1>8
  <2> QED BY <1>1, <2>1
<1>10. /\ texts = [e \in DOMAIN table |-> matrix[index[e]]]
       /\ \A e \in DOMAIN table : texts[e] = table[e].vector
  BY <1>4, <1>5, <1>6, <1>7 DEF TextsOf
<1>11. Aligned(index, matrix, order, hashes, texts)
  <2>1. texts \in [DOMAIN texts -> Texts] /\ DOMAIN texts = DOMAIN table /\ DOMAIN table \subseteq Entries
    BY <1>8, <1>10 DEF TableInv
  <2>2. index \in [DOMAIN texts -> 1..Len(order)]
    BY <1>4, <1>5, <1>7, <2>1
  <2>3. hashes \in [DOMAIN texts -> Int] /\ \A e \in DOMAIN texts : hashes[e] = texts[e]
    BY <1>5, <1>8, <1>10, <2>1, TextsAreInts
  <2>4. \A pos \in 1..n : order[pos] \in DOMAIN texts /\ index[order[pos]] = pos
    BY <1>2, <1>7, <2>1
  <2>5. \A e \in DOMAIN texts : order[index[e]] = e /\ matrix[index[e]] = texts[e]
    BY <1>7, <1>10, <2>1
  <2> QED BY <1>4, <1>9, <2>1, <2>2, <2>3, <2>4, <2>5 DEF Aligned
<1>12. \A e \in Entries : Same(s, texts, e)
  <2>1. DOMAIN texts = DOMAIN table /\ s.hashes = hashes
    BY <1>6, <1>10
  <2>2. \A e \in DOMAIN table : texts[e] = table[e].vector /\ hashes[e] = table[e].hash
    BY <1>5, <1>10
  <2> QED BY <1>8, <2>1, <2>2 DEF Same
<1> QED BY <1>5, <1>6, <1>11, <1>12 DEF RowsOf

\* A row put or removed: memory follows, and the other entries agree as before.
LEMMA VectorsInvPut ==
  ASSUME VectorsInv, NEW e \in Entries, NEW text \in Texts, NEW hash \in {text, 0 - text},
         rows' = put(rows, e, text, hash), given' = with(given, e, text), since' = since \cup {e},
         UNCHANGED <<deleting, loaded, complete>>,
         \/ table' = with(table, e, [vector |-> text, hash |-> text]) /\ ahead' = ahead \ {e} /\ hash = text
         \/ table' = table /\ ahead' = ahead \cup {e}
  PROVE  VectorsInv'
<1> USE DEF VectorsInv
<1>1. RowsOf(rows', given')
  BY PutKeeps
<1>2. /\ DOMAIN given' = DOMAIN given \cup {e}
      /\ \A k \in DOMAIN given' : given'[k] = IF k = e THEN text ELSE given[k]
  BY DEF with
<1>3. \A k \in DOMAIN given' : rows'.hashes[k] = IF k = e THEN hash ELSE rows.hashes[k]
  BY <1>2, HashesKept
<1>4. TableInv'
  <2>1. [vector |-> text, hash |-> text] \in {[vector |-> t, hash |-> t] : t \in Texts}
    OBVIOUS
  <2>2. CASE table' = with(table, e, [vector |-> text, hash |-> text])
    <3>1. DOMAIN table' = DOMAIN table \cup {e} /\ IsFiniteSet(DOMAIN table')
      BY <2>2, FS_AddElement DEF with, TableInv
    <3> QED BY <2>1, <2>2, <3>1 DEF with, TableInv
  <2>3. CASE table' = table
    BY <2>3 DEF TableInv
  <2> QED BY <2>2, <2>3
<1>5. \A k \in Entries \ {e} : (k \in DOMAIN table' <=> k \in DOMAIN table) /\ (k \in DOMAIN table => table'[k] = table[k])
  BY DEF with
<1>6. LoadedInv'
  BY <1>5 DEF LoadedInv, Same
<1>7. AgreedInv'
  <2> SUFFICES ASSUME NEW k \in Entries \ (ahead' \cup {deleting})
               PROVE  /\ k \in DOMAIN given' => k \in DOMAIN table' /\ table'[k] = [vector |-> given'[k], hash |-> rows'.hashes[k]]
                      /\ complete /\ k \in DOMAIN table' => k \in DOMAIN given'
    BY DEF AgreedInv
  <2>1. CASE k = e
    <3>1. hash = text /\ table' = with(table, e, [vector |-> text, hash |-> text])
      BY <2>1
    <3> QED BY <1>2, <1>3, <2>1, <3>1 DEF with
  <2>2. CASE k # e
    <3>1. k \notin ahead
      BY <2>2
    <3> QED BY <1>2, <1>3, <1>5, <2>2, <3>1 DEF AgreedInv
  <2> QED BY <2>1, <2>2
<1> QED BY <1>1, <1>4, <1>6, <1>7

LEMMA VectorsInvRemove == ASSUME VectorsInv, NEW e \in Entries, RemoveRow(e) PROVE VectorsInv'
<1> USE DEF VectorsInv
<1>1. /\ deleting' = e /\ rows' = swap_remove(rows, e) /\ given' = without(given, {e})
      /\ since' = since \cup {e} /\ UNCHANGED <<table, loaded, complete, ahead>> /\ deleting = NoEntry
  BY DEF RemoveRow, written_entry
<1>2. RowsOf(rows', given')
  BY <1>1, RemoveKeeps
<1>3. DOMAIN given' = DOMAIN given \ {e} /\ \A k \in DOMAIN given' : given'[k] = given[k]
  BY <1>1 DEF without
<1>4. \A k \in DOMAIN given' : rows'.hashes[k] = rows.hashes[k]
  BY <1>1, <1>3, HashesKept
<1>5. TableInv' /\ LoadedInv'
  BY <1>1 DEF TableInv, LoadedInv, Same
<1>6. ASSUME NEW k \in Entries \ (ahead' \cup {deleting'})
      PROVE  /\ k \in DOMAIN given' => k \in DOMAIN table' /\ table'[k] = [vector |-> given'[k], hash |-> rows'.hashes[k]]
             /\ complete' /\ k \in DOMAIN table' => k \in DOMAIN given'
  <2>1. k # e /\ k \notin ahead /\ k # deleting
    BY <1>1, EmbeddingStoreAssumption DEF NoEntry
  <2> QED BY <1>1, <1>3, <1>4, <2>1 DEF AgreedInv
<1> QED BY <1>1, <1>2, <1>5, <1>6 DEF AgreedInv

LEMMA VectorsInvDelete == ASSUME VectorsInv, NEW ok \in BOOLEAN, DeleteRow(ok) PROVE VectorsInv'
<1> USE DEF VectorsInv
<1>1. /\ deleting # NoEntry /\ deleting' = NoEntry /\ UNCHANGED <<rows, loaded, complete, given>>
      /\ table' = IF ok THEN without(table, {deleting}) ELSE table
      /\ since' = since \cup {deleting}
  BY DEF DeleteRow
<1>2. deleting \in Entries /\ DOMAIN rows.index = DOMAIN given
  BY <1>1, HashesKept
<1>3. ahead' = IF ok /\ deleting \notin DOMAIN given THEN ahead \ {deleting} ELSE ahead \cup {deleting}
  BY <1>2 DEF DeleteRow
<1>4. TableInv'
  <2>1. DOMAIN table' \subseteq DOMAIN table /\ \A k \in DOMAIN table' : table'[k] = table[k]
    BY <1>1 DEF without
  <2>2. IsFiniteSet(DOMAIN table')
    BY <2>1, FS_Subset DEF TableInv
  <2>3. table' = [k \in DOMAIN table' |-> table'[k]]
    BY <1>1 DEF without, TableInv
  <2> QED BY <2>1, <2>2, <2>3 DEF TableInv
<1>5. \A k \in Entries \ {deleting} :
        (k \in DOMAIN table' <=> k \in DOMAIN table) /\ (k \in DOMAIN table => table'[k] = table[k])
  BY <1>1 DEF without
<1>6. LoadedInv'
  BY <1>1, <1>5 DEF LoadedInv, Same
<1>7. ASSUME NEW k \in Entries \ (ahead' \cup {deleting'})
      PROVE  /\ k \in DOMAIN given => k \in DOMAIN table' /\ table'[k] = [vector |-> given[k], hash |-> rows.hashes[k]]
             /\ complete /\ k \in DOMAIN table' => k \in DOMAIN given
  <2>1. CASE k = deleting
    <3>1. ok /\ deleting \notin DOMAIN given
      BY <1>3, <2>1
    <3>2. k \notin DOMAIN table'
      BY <1>1, <2>1, <3>1 DEF without
    <3> QED BY <2>1, <3>1, <3>2
  <2>2. CASE k # deleting
    BY <1>3, <1>5, <2>2 DEF AgreedInv
  <2> QED BY <2>1, <2>2
<1> QED BY <1>1, <1>4, <1>6, <1>7 DEF AgreedInv

LEMMA VectorsInvStep == VectorsInv /\ StoreNext => VectorsInv'
<1> SUFFICES ASSUME VectorsInv, StoreNext PROVE VectorsInv'
  OBVIOUS
<1>1. ASSUME NEW e \in Entries, NEW text \in Texts, NEW stored_row \in BOOLEAN, Upsert(e, text, stored_row)
      PROVE  VectorsInv'
  <2>1. /\ rows' = put(rows, e, text, text) /\ given' = with(given, e, text) /\ since' = since \cup {e}
        /\ UNCHANGED <<deleting, loaded, complete>>
        /\ \/ table' = with(table, e, [vector |-> text, hash |-> text]) /\ ahead' = ahead \ {e}
           \/ table' = table /\ ahead' = ahead \cup {e}
    BY <1>1 DEF Upsert, written_entry
  <2> QED BY <2>1, VectorsInvPut
<1>2. ASSUME NEW e \in Entries, NEW text \in Texts, upsert_legacy(e, text) PROVE VectorsInv'
  <2>1. /\ rows' = put(rows, e, text, 0 - text) /\ given' = with(given, e, text) /\ since' = since \cup {e}
        /\ UNCHANGED <<deleting, loaded, complete>> /\ table' = table /\ ahead' = ahead \cup {e}
    BY <1>2 DEF upsert_legacy, written_entry
  <2> QED BY <2>1, VectorsInvPut
<1>3. ASSUME NEW e \in Entries, RemoveRow(e) PROVE VectorsInv'
  BY <1>3, VectorsInvRemove
<1>4. ASSUME NEW ok \in BOOLEAN, DeleteRow(ok) PROVE VectorsInv'
  BY <1>4, VectorsInvDelete
<1>5. CASE Load
  <2>1. PICK order \in SetToSeqs(DOMAIN table) : loaded' = rows_of(order)
    BY <1>5 DEF Load
  <2>2. since' = {} /\ UNCHANGED <<rows, table, deleting, complete, given, ahead>>
    BY <1>5 DEF Load
  <2>3. RowsOf(loaded', TextsOf(loaded')) /\ \A e \in Entries : Same(loaded', TextsOf(loaded'), e)
    BY <2>1, LoadReads DEF VectorsInv
  <2>4. LoadedInv'
    BY <2>2, <2>3 DEF LoadedInv, Same
  <2> QED BY <2>2, <2>4 DEF VectorsInv, TableInv, AgreedInv
<1>6. CASE CopyFrom
  <2>1. /\ loaded # NotLoaded /\ loaded' = NotLoaded /\ rows' = loaded /\ given' = TextsOf(loaded)
        /\ ahead' = since /\ UNCHANGED <<table, deleting, since>>
    BY <1>6 DEF CopyFrom, TextsOf
  <2>2. RowsOf(loaded, TextsOf(loaded)) /\ \A e \in Entries \ since : Same(loaded, TextsOf(loaded), e)
    BY <2>1 DEF VectorsInv, LoadedInv
  <2>3. TableInv' /\ LoadedInv'
    BY <2>1 DEF VectorsInv, TableInv, LoadedInv
  <2>4. AgreedInv'
    BY <2>1, <2>2 DEF AgreedInv, Same
  <2> QED BY <2>1, <2>2, <2>3, <2>4 DEF VectorsInv
<1>7. CASE StoreRestart
  <2>1. /\ rows' = Empty /\ given' = <<>> /\ deleting' = NoEntry /\ loaded' = NotLoaded /\ ~complete'
        /\ table' = table
    BY <1>7 DEF StoreRestart
  <2>2. RowsOf(rows', given')
    BY <2>1, EmptyRows
  <2>3. TableInv' /\ LoadedInv' /\ AgreedInv'
    BY <2>1 DEF VectorsInv, TableInv, LoadedInv, AgreedInv
  <2> QED BY <2>1, <2>2, <2>3 DEF VectorsInv
<1> QED BY <1>1, <1>2, <1>3, <1>4, <1>5, <1>6, <1>7 DEF StoreNext

LEMMA VectorsInvSuffices == VectorsInv => RowsFollow
<1> SUFFICES ASSUME VectorsInv PROVE RowsFollow
  OBVIOUS
<1>1. PICK index, matrix, ids, hashes :
        /\ rows = [index |-> index, matrix |-> matrix, ids |-> ids, hashes |-> hashes]
        /\ Aligned(index, matrix, ids, hashes, given)
  BY DEF VectorsInv, RowsOf
<1>2. rows.index = index /\ rows.matrix = matrix /\ rows.ids = ids /\ rows.hashes = hashes
  BY <1>1
<1>3. PICK n : n = Len(ids) /\ n \in Nat
  BY <1>1 DEF Aligned
<1>4. /\ DOMAIN index = DOMAIN given /\ DOMAIN hashes = DOMAIN given /\ DOMAIN ids = 1..n /\ DOMAIN matrix = 1..n
      /\ Len(matrix) = n /\ DOMAIN given \subseteq Entries
  BY <1>1, <1>3 DEF Aligned
<1>5. Cardinality(DOMAIN given) = n
  <2>1. ids \in [1..n -> DOMAIN given] /\ \A i, j \in 1..n : ids[i] = ids[j] => i = j
    BY <1>1, <1>3 DEF Aligned
  <2>2. \A e \in DOMAIN given : \E pos \in 1..n : ids[pos] = e
    BY <1>1, <1>3 DEF Aligned
  <2>3. ids \in Bijection(1..n, DOMAIN given)
    BY <2>1, <2>2 DEF Bijection, Injection, Surjection, IsInjective
  <2>4. ExistsBijection(1..n, DOMAIN given)
    BY <2>3 DEF ExistsBijection
  <2>5. IsFiniteSet(1..n) /\ Cardinality(1..n) = n
    BY <1>3, CountTo
  <2>6. Cardinality(DOMAIN given) = Cardinality(1..n)
    BY <2>4, <2>5, FS_Bijection
  <2> QED BY <2>5, <2>6
<1>6. \A e \in DOMAIN given : /\ index[e] \in 1..n /\ ids[index[e]] = e /\ matrix[index[e]] = given[e]
                              /\ hashes[e] \in {given[e], 0 - given[e]}
  BY <1>1, <1>3 DEF Aligned
<1>7. ASSUME NEW text PROVE search(rows, text) = {e \in DOMAIN given : given[e] = text}
  <2>1. search(rows, text) = {ids[p] : p \in {q \in 1..n : matrix[q] = text}}
    BY <1>2, <1>4 DEF search
  <2>2. \A p \in 1..n : ids[p] \in DOMAIN given /\ given[ids[p]] = matrix[p]
    BY <1>1, <1>3 DEF Aligned
  <2> QED BY <1>6, <2>1, <2>2
<1>8. \A e \in DOMAIN given : e \notin ahead /\ e # deleting =>
        e \in DOMAIN table /\ table[e] = [vector |-> given[e], hash |-> hashes[e]]
  BY <1>2, <1>4 DEF VectorsInv, AgreedInv
<1>9. complete => DOMAIN table \ (ahead \cup {deleting}) \subseteq DOMAIN given
  BY DEF VectorsInv, AgreedInv, TableInv
<1> QED BY <1>2, <1>3, <1>4, <1>5, <1>6, <1>7, <1>8, <1>9 DEF RowsFollow

\* For any number of entries and texts: through every put, swapping removal, failed statement,
\* deferred load and restart, the row of an entry is its own.
THEOREM RowsAlwaysFollow == ServicesSpec => []RowsFollow
<1>1. ServicesInit => VectorsInv
  BY VectorsInvInit DEF ServicesInit
<1>2. VectorsInv /\ [ServicesNext]_servicesVars => VectorsInv'
  BY VectorsInvStep, VectorsInvKept DEF ServicesNext, servicesVars
<1> QED BY <1>1, <1>2, VectorsInvSuffices, PTL DEF ServicesSpec

-----------------------------------------------------------------------------
(* The recorder and the predictor (SaveEffects). *)

Kinds == {"mutations", "intents"}
Names == {ctx.file : ctx \in Contexts} \cup {ctx.intent : ctx \in Contexts}
Events == Kinds \X Names

Late == IF step \in {"saved", "deleted", "detected"} THEN 1 ELSE 0
CountedAs(log, kind, key) == Cardinality({i \in DOMAIN log : log[i] = <<kind, key>>})

\* The event that is counted and not yet pushed is that of the save.
LogInv ==
  /\ recorded \in Seq(Events) /\ Len(recorded) - Late \in Nat
  /\ step \in {"saved", "deleted", "mutated", "active", "detected", "graph", "preloaded"} => save \in Contexts
  /\ step \in {"saved", "deleted"} => recorded[Len(recorded)] = <<"mutations", save.file>>
  /\ step = "detected" => recorded[Len(recorded)] = <<"intents", save.intent>>

\* The ring s is the end of the first n events of the log.
EndOf(s, log, n) ==
  LET shown == IF n > MaxCapacity THEN MaxCapacity ELSE n
  IN  s \in Seq(Events) /\ Len(s) = shown /\ \A i \in 1..shown : s[i] = log[n - shown + i]

RingInv == EndOf(timeline, recorded, Len(recorded) - Late)

CountersOf(c, log) ==
  /\ c = [mutations |-> c.mutations, intents |-> c.intents]
  /\ \A kind \in Kinds : \A key \in DOMAIN c[kind] : c[kind][key] = CountedAs(log, kind, key)
  /\ \A i \in DOMAIN log : log[i][2] \in DOMAIN c[log[i][1]]

\* Between the context and the current intent, the file of the save is ahead of the current one.
PredictorInv ==
  /\ \A f \in DOMAIN hot :
       IF step = "preloaded" /\ f = save.file THEN hot[f] = save.intent
       ELSE current.file = f => current.intent = hot[f]
  /\ step = "preloaded" => save.file \in DOMAIN hot
  /\ DOMAIN hot \subseteq DOMAIN counters.mutations
  /\ step \in {"saved", "mutated", "active", "detected", "graph", "preloaded"} =>
       save.file \in DOMAIN counters.mutations
  /\ activity \in Seq(Names) /\ Len(activity) <= MaxActivity

RecorderInv == LogInv /\ RingInv /\ CountersOf(counters, recorded) /\ PredictorInv

\* One more event in the counters, and in the log.
LEMMA CountAdds ==
  ASSUME NEW c, NEW log \in Seq(Events), CountersOf(c, log), NEW kind \in Kinds, NEW key \in Names
  PROVE  CountersOf([c EXCEPT ![kind] = counted(@, key)], Append(log, <<kind, key>>))
<1>1. PICK n, after, d : /\ n = Len(log) /\ after = Append(log, <<kind, key>>)
                         /\ d = [c EXCEPT ![kind] = counted(@, key)]
  OBVIOUS
<1>2. /\ n \in Nat /\ DOMAIN log = 1..n /\ DOMAIN after = 1..n + 1 /\ after[n + 1] = <<kind, key>>
      /\ \A i \in 1..n : after[i] = log[i] /\ log[i] \in Events
  BY <1>1, AppendProperties DEF Events
<1>3. d = [mutations |-> d.mutations, intents |-> d.intents]
  BY <1>1 DEF CountersOf, Kinds
<1>4. /\ \A k \in Kinds \ {kind} : d[k] = c[k]
      /\ d[kind] = with(c[kind], key, (IF key \in DOMAIN c[kind] THEN c[kind][key] ELSE 0) + 1)
  BY <1>1 DEF CountersOf, Kinds, counted
<1>5. ASSUME NEW k \in Kinds, NEW x PROVE CountedAs(log, k, x) \in Nat
                                          /\ CountedAs(after, k, x) = CountedAs(log, k, x)
                                                                      + IF k = kind /\ x = key THEN 1 ELSE 0
  <2>1. PICK places, more : places = {i \in 1..n : log[i] = <<k, x>>} /\ more = {i \in 1..n + 1 : after[i] = <<k, x>>}
    OBVIOUS
  <2>2. IsFiniteSet(places) /\ Cardinality(places) \in Nat /\ n + 1 \notin places
    BY <1>2, <2>1, CountTo, FS_Subset, FS_CardinalityType
  <2>3. CountedAs(log, k, x) = Cardinality(places) /\ CountedAs(after, k, x) = Cardinality(more)
    BY <1>2, <2>1 DEF CountedAs
  <2>4. CASE k = kind /\ x = key
    <3>1. more = places \cup {n + 1}
      BY <1>2, <2>1, <2>4
    <3>2. Cardinality(more) = Cardinality(places) + 1
      BY <2>2, <3>1, FS_AddElement
    <3> QED BY <2>2, <2>3, <2>4, <3>2
  <2>5. CASE ~(k = kind /\ x = key)
    <3>1. more = places
      BY <1>2, <2>1, <2>5
    <3> QED BY <2>2, <2>3, <2>5, <3>1
  <2> QED BY <2>4, <2>5
<1>6. key \notin DOMAIN c[kind] => CountedAs(log, kind, key) = 0
  <2> SUFFICES ASSUME key \notin DOMAIN c[kind] PROVE CountedAs(log, kind, key) = 0
    OBVIOUS
  <2>1. {i \in DOMAIN log : log[i] = <<kind, key>>} = {}
    BY DEF CountersOf
  <2> QED BY <2>1, FS_EmptySet DEF CountedAs
<1>7. \A k \in Kinds : \A x \in DOMAIN d[k] : d[k][x] = CountedAs(after, k, x)
  <2> SUFFICES ASSUME NEW k \in Kinds, NEW x \in DOMAIN d[k] PROVE d[k][x] = CountedAs(after, k, x)
    OBVIOUS
  <2>1. CASE k = kind /\ x = key
    BY <1>4, <1>5, <1>6, <2>1 DEF CountersOf, with
  <2>2. CASE ~(k = kind /\ x = key)
    BY <1>4, <1>5, <2>2 DEF CountersOf, with
  <2> QED BY <2>1, <2>2
<1>8. \A i \in DOMAIN after : after[i][2] \in DOMAIN d[after[i][1]]
  <2> SUFFICES ASSUME NEW i \in 1..n + 1 PROVE after[i][2] \in DOMAIN d[after[i][1]]
    BY <1>2
  <2>1. CASE i = n + 1
    BY <1>2, <1>4, <2>1 DEF with
  <2>2. CASE i # n + 1
    <3>1. after[i] = log[i] /\ log[i][1] \in Kinds /\ log[i][2] \in DOMAIN c[log[i][1]]
      BY <1>2, <2>2 DEF CountersOf, Events
    <3> QED BY <1>4, <3>1 DEF with
  <2> QED BY <2>1, <2>2
<1>9. CountersOf(d, after)
  BY <1>3, <1>7, <1>8 DEF CountersOf
<1> QED BY <1>1, <1>9

\* The ring after the event that comes next in the log.
LEMMA RingAdvances ==
  ASSUME NEW s, NEW log \in Seq(Events), NEW n \in Nat, n < Len(log), EndOf(s, log, n)
  PROVE  EndOf(ring(s, log[n + 1], MaxCapacity), log, n + 1)
<1> USE SaveEffectsAssumption
<1>1. s \in Seq(Events) /\ log[n + 1] \in Events
  BY DEF EndOf
<1>2. CASE n < MaxCapacity
  <2>1. Len(s) = n /\ \A i \in 1..n : s[i] = log[i]
    BY <1>2 DEF EndOf
  <2>2. ring(s, log[n + 1], MaxCapacity) = Append(s, log[n + 1])
    BY <1>2, <2>1 DEF ring
  <2> QED BY <1>1, <1>2, <2>1, <2>2, AppendProperties DEF EndOf
<1>3. CASE n >= MaxCapacity
  <2>1. Len(s) = MaxCapacity /\ \A i \in 1..MaxCapacity : s[i] = log[n - MaxCapacity + i]
    BY <1>3 DEF EndOf
  <2>2. PICK t : t = Tail(s)
    OBVIOUS
  <2>3. t \in Seq(Events) /\ Len(t) = MaxCapacity - 1 /\ \A i \in 1..MaxCapacity - 1 : t[i] = s[i + 1]
    BY <1>1, <2>1, <2>2
  <2>4. ring(s, log[n + 1], MaxCapacity) = Append(t, log[n + 1])
    BY <2>1, <2>2 DEF ring
  <2>5. \A i \in 1..MaxCapacity - 1 : t[i] = log[n - MaxCapacity + i + 1]
    BY <2>1, <2>3
  <2>6. PICK r : r = Append(t, log[n + 1])
    OBVIOUS
  <2>7. /\ r \in Seq(Events) /\ Len(r) = MaxCapacity /\ r[MaxCapacity] = log[n + 1]
        /\ \A i \in 1..MaxCapacity - 1 : r[i] = t[i]
    BY <1>1, <2>3, <2>6, AppendProperties
  <2>8. \A i \in 1..MaxCapacity : r[i] = log[n + 1 - MaxCapacity + i]
    <3> SUFFICES ASSUME NEW i \in 1..MaxCapacity PROVE r[i] = log[n + 1 - MaxCapacity + i]
      OBVIOUS
    <3>1. CASE i = MaxCapacity
      BY <2>7, <3>1
    <3>2. CASE i # MaxCapacity
      <4>1. n - MaxCapacity + i + 1 = n + 1 - MaxCapacity + i
        OBVIOUS
      <4> QED BY <2>5, <2>7, <3>2, <4>1
    <3> QED BY <3>1, <3>2
  <2>9. EndOf(r, log, n + 1)
    BY <1>3, <2>7, <2>8 DEF EndOf
  <2> QED BY <2>4, <2>6, <2>9
<1> QED BY <1>2, <1>3

\* What comes after does not matter to it.
LEMMA RingStays ==
  ASSUME NEW s, NEW log, NEW longer, NEW n \in Nat, \A i \in 1..n : longer[i] = log[i], EndOf(s, log, n)
  PROVE  EndOf(s, longer, n)
<1>1. PICK shown : shown = IF n > MaxCapacity THEN MaxCapacity ELSE n
  OBVIOUS
<1>2. shown \in 0..n
  BY <1>1, SaveEffectsAssumption
<1>3. s \in Seq(Events) /\ Len(s) = shown /\ \A i \in 1..shown : s[i] = log[n - shown + i]
  BY <1>1 DEF EndOf
<1>4. \A i \in 1..shown : n - shown + i \in 1..n
  BY <1>2
<1>5. \A i \in 1..shown : s[i] = longer[n - shown + i]
  BY <1>3, <1>4
<1> QED BY <1>1, <1>3, <1>5 DEF EndOf

LEMMA RecorderInvInit == SavesInit => RecorderInv
<1> SUFFICES ASSUME SavesInit PROVE RecorderInv
  OBVIOUS
<1>1. /\ recorded = <<>> /\ timeline = <<>> /\ activity = <<>> /\ hot = <<>> /\ step = "starting"
      /\ counters = [mutations |-> <<>>, intents |-> <<>>]
  BY DEF SavesInit
<1>2. LogInv
  BY <1>1 DEF LogInv, Late
<1>3. RingInv
  BY <1>1, SaveEffectsAssumption DEF RingInv, EndOf, Late
<1>4. CountersOf(counters, recorded)
  <2>1. DOMAIN counters.mutations = {} /\ DOMAIN counters.intents = {}
    BY <1>1
  <2> QED BY <1>1, <2>1 DEF CountersOf, Kinds
<1>5. PredictorInv
  BY <1>1, SaveEffectsAssumption DEF PredictorInv
<1> QED BY <1>2, <1>3, <1>4, <1>5 DEF RecorderInv

\* What a step that leaves recorder, predictor and save alone may do to the event loop.
LEMMA RecorderInvElsewhere ==
  ASSUME RecorderInv, UNCHANGED <<recorderVars, predictorVars, save>>,
         \/ step' = step
         \/ step' \in {"idle", "agents", "reports"} /\ step \notin {"saved", "deleted", "detected", "preloaded"}
  PROVE  RecorderInv'
<1>1. Late' = Late
  BY DEF Late
<1>2. UNCHANGED <<recorded, timeline, counters, activity, hot, current>>
  BY DEF recorderVars, predictorVars
<1>3. LogInv' /\ RingInv'
  BY <1>1, <1>2 DEF RecorderInv, LogInv, RingInv, EndOf
<1>4. CountersOf(counters', recorded')
  BY <1>2 DEF RecorderInv
<1>5. PredictorInv'
  BY <1>2 DEF RecorderInv, PredictorInv
<1> QED BY <1>3, <1>4, <1>5 DEF RecorderInv

\* An event is counted: the ring is one event behind.
LEMMA CountStep ==
  ASSUME RecorderInv, NEW kind \in Kinds, NEW key \in Names, NEW to \in {"saved", "deleted", "detected"}, Late = 0,
         Count(kind, key, to), save' \in Contexts,
         <<kind, key>> = IF to = "detected" THEN <<"intents", save'.intent>> ELSE <<"mutations", save'.file>>
  PROVE  LogInv' /\ RingInv' /\ CountersOf(counters', recorded')
<1>1. /\ counters' = [counters EXCEPT ![kind] = counted(@, key)] /\ recorded' = Append(recorded, <<kind, key>>)
      /\ step' = to /\ timeline' = timeline
  BY DEF Count
<1>2. recorded \in Seq(Events) /\ Len(recorded) \in Nat /\ <<kind, key>> \in Events
  BY DEF RecorderInv, LogInv, Events
<1>3. Late' = 1
  BY <1>1 DEF Late
<1>4. /\ recorded' \in Seq(Events) /\ Len(recorded') = Len(recorded) + 1
      /\ recorded'[Len(recorded) + 1] = <<kind, key>> /\ \A i \in 1..Len(recorded) : recorded'[i] = recorded[i]
  BY <1>1, <1>2, AppendProperties
<1>5. LogInv'
  BY <1>1, <1>2, <1>3, <1>4 DEF LogInv
<1>6. RingInv'
  <2>1. EndOf(timeline, recorded, Len(recorded)) /\ Len(recorded') - Late' = Len(recorded)
    BY <1>2, <1>3, <1>4 DEF RecorderInv, RingInv
  <2>2. EndOf(timeline, recorded', Len(recorded))
    BY <1>2, <1>4, <2>1, RingStays
  <2> QED BY <1>1, <2>1, <2>2 DEF RingInv
<1>7. CountersOf(counters', recorded')
  BY <1>1, <1>2, CountAdds DEF RecorderInv
<1> QED BY <1>5, <1>6, <1>7

\* The event counted last is pushed: the ring has caught up.
LEMMA PushStep ==
  ASSUME RecorderInv, NEW kind, NEW key, NEW to \in {"idle", "mutated", "graph"}, Late = 1, Push(kind, key, to),
         recorded[Len(recorded)] = <<kind, key>>, save \in Contexts
  PROVE  LogInv' /\ RingInv' /\ CountersOf(counters', recorded')
<1>1. /\ timeline' = ring(timeline, <<kind, key>>, MaxCapacity) /\ step' = to
      /\ UNCHANGED <<counters, recorded, save>>
  BY DEF Push
<1>2. PICK n : n = Len(recorded) - 1 /\ n \in Nat /\ Len(recorded) = n + 1 /\ recorded \in Seq(Events)
  BY DEF RecorderInv, LogInv
<1>3. Late' = 0
  BY <1>1 DEF Late
<1>4. EndOf(timeline, recorded, n)
  BY <1>2 DEF RecorderInv, RingInv
<1>5. EndOf(timeline', recorded, n + 1)
  BY <1>1, <1>2, <1>4, RingAdvances
<1>6. Len(recorded') - Late' = n + 1
  BY <1>1, <1>2, <1>3
<1>7. LogInv'
  BY <1>1, <1>2, <1>3 DEF LogInv
<1>8. RingInv'
  BY <1>1, <1>5, <1>6 DEF RingInv
<1>9. CountersOf(counters', recorded')
  BY <1>1 DEF RecorderInv
<1> QED BY <1>7, <1>8, <1>9

LEMMA MutationsGrow ==
  ASSUME RecorderInv, NEW kind \in Kinds, NEW key, counters' = [counters EXCEPT ![kind] = counted(@, key)]
  PROVE  /\ DOMAIN counters.mutations \subseteq DOMAIN counters'.mutations
         /\ kind = "mutations" => key \in DOMAIN counters'.mutations
BY DEF RecorderInv, CountersOf, Kinds, counted, with

LEMMA RecorderInvStep == RecorderInv /\ SavesNext => RecorderInv'
<1> SUFFICES ASSUME RecorderInv, SavesNext PROVE RecorderInv'
  OBVIOUS
<1>1. CASE AgentRuntimeNew
  BY <1>1, RecorderInvElsewhere DEF AgentRuntimeNew
<1>2. CASE Tick
  BY <1>2, RecorderInvElsewhere DEF Tick
<1>3. ASSUME NEW next \in {"saved", "deleted"}, FileEvent(next) PROVE RecorderInv'
  <2>1. PICK ctx \in Contexts : save' = ctx /\ Count("mutations", ctx.file, next)
    BY <1>3 DEF FileEvent
  <2>2. step = "idle" /\ step' = next /\ counters' = [counters EXCEPT !["mutations"] = counted(@, ctx.file)]
        /\ UNCHANGED predictorVars
    BY <1>3, <2>1 DEF FileEvent, Count
  <2>3. Late = 0 /\ ctx.file \in Names /\ "mutations" \in Kinds
    BY <2>2 DEF Late, Names, Kinds
  <2>4. LogInv' /\ RingInv' /\ CountersOf(counters', recorded')
    BY <2>1, <2>3, CountStep
  <2>5. PredictorInv'
    BY <2>1, <2>2, <2>3, MutationsGrow DEF RecorderInv, PredictorInv, predictorVars
  <2> QED BY <2>4, <2>5 DEF RecorderInv
<1>4. CASE PushMutation
  <2>1. step = "saved" /\ Push("mutations", save.file, "mutated")
    BY <1>4 DEF PushMutation
  <2>2. LogInv' /\ RingInv' /\ CountersOf(counters', recorded')
    BY <2>1, PushStep DEF RecorderInv, LogInv, Late
  <2>3. PredictorInv'
    BY <2>1 DEF Push, RecorderInv, PredictorInv, predictorVars
  <2> QED BY <2>2, <2>3 DEF RecorderInv
<1>5. CASE PushDeletion
  <2>1. step = "deleted" /\ Push("mutations", save.file, "idle")
    BY <1>5 DEF PushDeletion
  <2>2. LogInv' /\ RingInv' /\ CountersOf(counters', recorded')
    BY <2>1, PushStep DEF RecorderInv, LogInv, Late
  <2>3. PredictorInv'
    BY <2>1 DEF Push, RecorderInv, PredictorInv, predictorVars
  <2> QED BY <2>2, <2>3 DEF RecorderInv
<1>6. CASE RecordActivity
  <2>1. /\ step = "mutated" /\ step' = "active" /\ activity' = ring(activity, save.file, MaxActivity)
        /\ UNCHANGED <<hot, current, recorderVars, save>>
    BY <1>6 DEF RecordActivity, Predict
  <2>2. save.file \in Names
    BY <2>1 DEF RecorderInv, LogInv, Names
  <2>3. activity' \in Seq(Names) /\ Len(activity') <= MaxActivity
    <3>1. activity \in Seq(Names) /\ Len(activity) \in Nat /\ Len(activity) <= MaxActivity
      BY DEF RecorderInv, PredictorInv
    <3>2. CASE Len(activity) >= MaxActivity
      <4>1. Tail(activity) \in Seq(Names) /\ Len(Tail(activity)) = Len(activity) - 1
        BY <3>1, <3>2, SaveEffectsAssumption
      <4> QED BY <2>1, <2>2, <3>1, <3>2, <4>1, AppendProperties DEF ring
    <3>3. CASE ~(Len(activity) >= MaxActivity)
      BY <2>1, <2>2, <3>1, <3>3, AppendProperties, SaveEffectsAssumption DEF ring
    <3> QED BY <3>2, <3>3
  <2>4. LogInv' /\ RingInv' /\ CountersOf(counters', recorded')
    BY <2>1 DEF RecorderInv, LogInv, RingInv, EndOf, Late, recorderVars
  <2>5. PredictorInv'
    BY <2>1, <2>3 DEF RecorderInv, PredictorInv, recorderVars
  <2> QED BY <2>4, <2>5 DEF RecorderInv
<1>7. CASE DetectIntent
  <2>1. step = "active" /\ Count("intents", save.intent, "detected") /\ UNCHANGED save
    BY <1>7 DEF DetectIntent
  <2>2. Late = 0 /\ save \in Contexts /\ save.intent \in Names /\ "intents" \in Kinds
    BY <2>1 DEF RecorderInv, LogInv, Late, Names, Kinds
  <2>3. LogInv' /\ RingInv' /\ CountersOf(counters', recorded')
    BY <2>1, <2>2, CountStep
  <2>4. counters' = [counters EXCEPT !["intents"] = counted(@, save.intent)] /\ step' = "detected" /\ UNCHANGED predictorVars
    BY <2>1 DEF Count
  <2>5. PredictorInv'
    BY <2>1, <2>2, <2>4, MutationsGrow DEF RecorderInv, PredictorInv, predictorVars
  <2> QED BY <2>3, <2>5 DEF RecorderInv
<1>8. CASE PushIntent
  <2>1. step = "detected" /\ Push("intents", save.intent, "graph")
    BY <1>8 DEF PushIntent
  <2>2. LogInv' /\ RingInv' /\ CountersOf(counters', recorded')
    BY <2>1, PushStep DEF RecorderInv, LogInv, Late
  <2>3. PredictorInv'
    BY <2>1 DEF Push, RecorderInv, PredictorInv, predictorVars
  <2> QED BY <2>2, <2>3 DEF RecorderInv
<1>9. CASE PreloadContext
  <2>1. /\ step = "graph" /\ step' = "preloaded" /\ hot' = with(hot, save.file, save.intent)
        /\ UNCHANGED <<activity, current, recorderVars, save>>
    BY <1>9 DEF PreloadContext, Predict
  <2>2. LogInv' /\ RingInv' /\ CountersOf(counters', recorded')
    BY <2>1 DEF RecorderInv, LogInv, RingInv, EndOf, Late, recorderVars
  <2>3. PredictorInv'
    BY <2>1 DEF RecorderInv, PredictorInv, recorderVars, with
  <2> QED BY <2>2, <2>3 DEF RecorderInv
<1>10. CASE SetCurrent
  <2>1. /\ step = "preloaded" /\ step' = "agents" /\ current' = [file |-> save.file, intent |-> save.intent]
        /\ UNCHANGED <<activity, hot, recorderVars, save>>
    BY <1>10 DEF SetCurrent, Predict
  <2>2. LogInv' /\ RingInv' /\ CountersOf(counters', recorded')
    BY <2>1 DEF RecorderInv, LogInv, RingInv, EndOf, Late, recorderVars
  <2>3. PredictorInv'
    BY <2>1 DEF RecorderInv, PredictorInv, recorderVars
  <2> QED BY <2>2, <2>3 DEF RecorderInv
<1>11. CASE StartFileSave \/ RunAgent \/ ProcessFileSave
  BY <1>11, RecorderInvElsewhere DEF StartFileSave, RunAgent, ProcessFileSave
<1>12. CASE StoreReport
  <2>1. step = "reports" /\ step' \in {"idle", "reports"} /\ UNCHANGED <<recorderVars, predictorVars>>
    BY <1>12 DEF StoreReport
  <2>2. UNCHANGED <<recorded, timeline, counters, activity, hot, current>>
    BY <2>1 DEF recorderVars, predictorVars
  <2>3. LogInv' /\ RingInv' /\ CountersOf(counters', recorded')
    BY <2>1, <2>2 DEF RecorderInv, LogInv, RingInv, EndOf, Late
  <2>4. PredictorInv'
    BY <2>1, <2>2 DEF RecorderInv, PredictorInv
  <2> QED BY <2>3, <2>4 DEF RecorderInv
<1>13. CASE StartSession \/ ProcessSessionStart
  BY <1>13, RecorderInvElsewhere DEF StartSession, ProcessSessionStart
<1> QED BY <1>1, <1>2, <1>3, <1>4, <1>5, <1>6, <1>7, <1>8, <1>9, <1>10, <1>11, <1>12, <1>13 DEF SavesNext

LEMMA RecorderInvKept == RecorderInv /\ UNCHANGED saveVars => RecorderInv'
BY RecorderInvElsewhere DEF saveVars, recorderVars, predictorVars

LEMMA RecorderInvSuffices == RecorderInv => RecorderAgrees
<1> SUFFICES ASSUME RecorderInv PROVE RecorderAgrees
  OBVIOUS
<1>1. PICK n : n = Len(recorded) - Late /\ n \in Nat /\ n <= Len(recorded) /\ recorded \in Seq(Events)
  BY DEF RecorderInv, LogInv, Late
<1>2. PICK shown : shown = IF n > MaxCapacity THEN MaxCapacity ELSE n
  OBVIOUS
<1>3. timeline \in Seq(Events) /\ Len(timeline) = shown /\ \A i \in 1..shown : timeline[i] = recorded[n - shown + i]
  BY <1>1, <1>2 DEF RecorderInv, RingInv, EndOf
<1>4. PICK pushed, dropped :
        pushed = SubSeq(recorded, 1, n) /\ dropped = IF Len(pushed) > MaxCapacity THEN Len(pushed) - MaxCapacity ELSE 0
  OBVIOUS
<1>5. pushed \in Seq(Events) /\ Len(pushed) = n /\ \A i \in 1..n : pushed[i] = recorded[i]
  BY <1>1, <1>4
<1>6. shown \in Nat /\ dropped = n - shown /\ dropped \in Nat
  BY <1>1, <1>2, <1>4, <1>5, SaveEffectsAssumption
<1>7. timeline = SubSeq(pushed, dropped + 1, Len(pushed))
  <2>1. PICK rest : rest = SubSeq(pushed, dropped + 1, n)
    OBVIOUS
  <2>2. rest \in Seq(Events) /\ Len(rest) = shown /\ \A i \in 1..shown : rest[i] = pushed[dropped + i]
    BY <1>1, <1>5, <1>6, <2>1
  <2>3. \A i \in 1..shown : rest[i] = timeline[i]
    <3> SUFFICES ASSUME NEW i \in 1..shown PROVE rest[i] = timeline[i]
      OBVIOUS
    <3>1. dropped + i \in 1..n /\ n - shown + i = dropped + i
      BY <1>1, <1>2, <1>6, SaveEffectsAssumption
    <3> QED BY <1>3, <1>5, <2>2, <3>1
  <2> QED BY <1>3, <1>5, <1>6, <2>1, <2>2, <2>3, SeqEqual
<1>8. DOMAIN counters = Kinds
  BY DEF RecorderInv, CountersOf, Kinds
<1>9. \A f \in DOMAIN hot : step # "preloaded" => get_cached_context(f) = {hot[f]}
  BY DEF RecorderInv, PredictorInv, get_cached_context
<1>10. Late = IF step \in {"saved", "deleted", "detected"} THEN 1 ELSE 0
  BY DEF Late
<1>11. /\ \A kind \in DOMAIN counters : \A key \in DOMAIN counters[kind] :
            counters[kind][key] = Cardinality({i \in DOMAIN recorded : recorded[i] = <<kind, key>>})
       /\ \A i \in DOMAIN recorded : recorded[i][2] \in DOMAIN counters[recorded[i][1]]
  BY <1>8 DEF RecorderInv, CountersOf, CountedAs
<1>12. Len(activity) <= MaxActivity /\ DOMAIN hot \subseteq DOMAIN counters.mutations
  BY DEF RecorderInv, PredictorInv
<1> QED BY <1>1, <1>4, <1>7, <1>9, <1>10, <1>11, <1>12 DEF RecorderAgrees

\* For any ring, any agents and any saves: what the API reads between two steps of the event loop
\* is one event behind the counters at most, and nothing is lost or out of order.
THEOREM RecorderAlwaysAgrees == ServicesSpec => []RecorderAgrees
<1>1. ServicesInit => RecorderInv
  BY RecorderInvInit DEF ServicesInit
<1>2. RecorderInv /\ [ServicesNext]_servicesVars => RecorderInv'
  BY RecorderInvStep, RecorderInvKept DEF ServicesNext, servicesVars
<1> QED BY <1>1, <1>2, RecorderInvSuffices, PTL DEF ServicesSpec

-----------------------------------------------------------------------------
(* The agents (SaveEffects). *)

AgentRun == [config : AgentConfig, at : Nat, ran : BOOLEAN]

\* The last run of a name is that of a run there was, and none of that name came after it.
LastRuns ==
  /\ \A i \in DOMAIN runs : runs[i].at <= clock
  /\ \A i \in DOMAIN runs : runs[i].ran =>
       runs[i].config.name \in DOMAIN last_run /\ runs[i].at <= last_run[runs[i].config.name]
  /\ \A name \in DOMAIN last_run :
       \E i \in DOMAIN runs : runs[i].ran /\ runs[i].config.name = name /\ runs[i].at = last_run[name]

AgentsInv ==
  /\ clock \in Nat /\ configs \in Seq(AgentConfig) /\ runs \in Seq(AgentRun)
  /\ LastRuns /\ AgentsTimely

LEMMA AgentsInvInit == SavesInit => AgentsInv
BY DEF SavesInit, AgentsInv, LastRuns, AgentsTimely

LEMMA RunTypes ==
  /\ \A r \in AgentRun : r.at \in Nat /\ r.ran \in BOOLEAN /\ r.config.cooldown \in Nat
  /\ AgentsInv => \A i \in DOMAIN runs : runs[i] \in AgentRun
<1>1. ASSUME NEW r \in AgentRun PROVE r.at \in Nat /\ r.ran \in BOOLEAN /\ r.config.cooldown \in Nat
  <2>1. r.at \in Nat /\ r.ran \in BOOLEAN /\ r.config \in AgentConfig
    BY DEF AgentRun
  <2> QED BY <2>1 DEF AgentConfig
<1>2. ASSUME AgentsInv, NEW i \in DOMAIN runs PROVE runs[i] \in AgentRun
  <2>1. runs \in Seq(AgentRun)
    BY <1>2 DEF AgentsInv
  <2> QED BY <2>1
<1> QED BY <1>1, <1>2

LEMMA AgentsInvRuns ==
  ASSUME AgentsInv, UNCHANGED <<runs, last_run, configs>>, clock' = clock \/ clock' = clock + 1
  PROVE  AgentsInv'
<1>1. clock' \in Nat /\ clock <= clock'
  BY DEF AgentsInv
<1>2. \A i \in DOMAIN runs : runs[i].at \in Nat
  BY RunTypes
<1>3. LastRuns'
  BY <1>1, <1>2 DEF AgentsInv, LastRuns
<1>4. AgentsTimely'
  BY DEF AgentsInv, AgentsTimely
<1> QED BY <1>1, <1>3, <1>4 DEF AgentsInv

\* An agent runs exactly if the last run of its name lies long enough back, and with it all others.
LEMMA AgentsInvRun == ASSUME AgentsInv, RunAgent PROVE AgentsInv'
<1>0. clock \in Nat /\ configs \in Seq(AgentConfig) /\ runs \in Seq(AgentRun) /\ LastRuns /\ AgentsTimely
  BY DEF AgentsInv
<1>1. PICK i \in waiting :
        /\ runs' = Append(runs, [config |-> configs[i], at |-> clock, ran |-> cooldown_elapsed(configs[i])])
        /\ last_run' = IF cooldown_elapsed(configs[i]) THEN with(last_run, configs[i].name, clock) ELSE last_run
  BY DEF RunAgent, marked
<1>2. PICK config, elapsed : config = configs[i] /\ elapsed = cooldown_elapsed(config)
  OBVIOUS
<1>3. config \in AgentConfig /\ config.cooldown \in Nat /\ elapsed \in BOOLEAN /\ UNCHANGED <<configs, clock>>
  <2>1. i \in DOMAIN configs
    BY DEF waiting
  <2>2. config \in AgentConfig
    BY <1>0, <1>2, <2>1
  <2> QED BY <1>2, <2>2 DEF AgentConfig, cooldown_elapsed, RunAgent
<1>4. PICK run : run = [config |-> config, at |-> clock, ran |-> elapsed]
  OBVIOUS
<1>5. run \in AgentRun /\ run.config = config /\ run.at = clock /\ run.ran = elapsed
  BY <1>0, <1>3, <1>4 DEF AgentRun
<1>6. PICK n : n = Len(runs)
  OBVIOUS
<1>7. /\ n \in Nat /\ DOMAIN runs = 1..n /\ DOMAIN runs' = 1..(n + 1) /\ runs' \in Seq(AgentRun)
      /\ runs'[n + 1] = run /\ \A j \in 1..n : runs'[j] = runs[j]
  BY <1>0, <1>1, <1>2, <1>4, <1>5, <1>6, AppendProperties
<1>8. \A j \in 1..n : runs[j].at \in Nat /\ runs[j].config.cooldown \in Nat /\ runs[j].ran \in BOOLEAN
  BY <1>7, RunTypes
<1>9. elapsed <=> \A j \in 1..n : runs[j].ran /\ runs[j].config.name = config.name
                                  => 1000 * (clock - runs[j].at) >= config.cooldown
  <2>1. CASE config.name \notin DOMAIN last_run
    BY <1>0, <1>2, <1>7, <2>1 DEF LastRuns, cooldown_elapsed
  <2>2. CASE config.name \in DOMAIN last_run
    <3>1. PICK k \in 1..n : runs[k].ran /\ runs[k].config.name = config.name /\ runs[k].at = last_run[config.name]
      BY <1>0, <1>7, <2>2 DEF LastRuns
    <3>2. elapsed <=> 1000 * (clock - runs[k].at) >= config.cooldown
      <4>1. cooldown_elapsed(config) <=> 1000 * (clock - last_run[config.name]) >= config.cooldown
        BY <2>2 DEF cooldown_elapsed
      <4> QED BY <1>2, <3>1, <4>1
    <3>3. ASSUME NEW j \in 1..n, runs[j].ran, runs[j].config.name = config.name PROVE runs[j].at <= runs[k].at
      <4>1. j \in DOMAIN runs /\ runs[j].at <= last_run[runs[j].config.name]
        BY <1>0, <1>7, <3>3 DEF LastRuns
      <4> QED BY <3>1, <3>3, <4>1
    <3>4. clock \in Int /\ config.cooldown \in Int /\ \A j \in 1..n : runs[j].at \in Int
      BY <1>0, <1>3, <1>8
    <3>5. \A j \in 1..n : runs[j].at <= runs[k].at => 1000 * (clock - runs[k].at) <= 1000 * (clock - runs[j].at)
      BY <3>4
    <3>6. ASSUME elapsed, NEW j \in 1..n, runs[j].ran, runs[j].config.name = config.name
          PROVE  1000 * (clock - runs[j].at) >= config.cooldown
      BY <3>2, <3>3, <3>4, <3>5, <3>6
    <3> QED BY <3>1, <3>2, <3>6
  <2> QED BY <2>1, <2>2
<1>10. AgentsTimely'
  <2> SUFFICES ASSUME NEW k \in 1..(n + 1)
               PROVE  runs'[k].ran <=> \A j \in 1..(k - 1) :
                        runs'[j].ran /\ runs'[j].config.name = runs'[k].config.name
                          => 1000 * (runs'[k].at - runs'[j].at) >= runs'[k].config.cooldown
    BY <1>7 DEF AgentsTimely
  <2>1. CASE k = n + 1
    <3>1. k - 1 = n
      BY <1>7, <2>1
    <3> QED BY <1>5, <1>7, <1>9, <2>1, <3>1
  <2>2. CASE k \in 1..n
    <3>1. \A j \in 1..(k - 1) : j \in 1..n
      BY <1>7, <2>2
    <3>2. runs[k].ran <=> \A j \in 1..(k - 1) :
             runs[j].ran /\ runs[j].config.name = runs[k].config.name
               => 1000 * (runs[k].at - runs[j].at) >= runs[k].config.cooldown
      <4>1. k \in DOMAIN runs
        BY <1>7, <2>2
      <4> QED BY <1>0, <4>1 DEF AgentsTimely
    <3> QED BY <1>7, <2>2, <3>1, <3>2
  <2> QED BY <1>7, <2>1, <2>2
<1>11. LastRuns'
  <2>1. last_run' = IF elapsed THEN with(last_run, config.name, clock) ELSE last_run
    BY <1>1, <1>2
  <2>2. \A name \in DOMAIN last_run : last_run[name] <= clock
    BY <1>0 DEF LastRuns
  <2>3. \A name \in DOMAIN last_run : name \in DOMAIN last_run' /\ last_run[name] <= last_run'[name]
    BY <1>0, <2>1, <2>2, <1>8, <1>7 DEF with, LastRuns
  <2>4. ASSUME NEW k \in 1..(n + 1) PROVE runs'[k].at <= clock'
    <3>1. CASE k = n + 1
      BY <1>0, <1>3, <1>5, <1>7, <3>1
    <3>2. CASE k \in 1..n
      <4>1. k \in DOMAIN runs /\ runs[k].at <= clock
        BY <1>0, <1>7, <3>2 DEF LastRuns
      <4> QED BY <1>3, <1>7, <3>2, <4>1
    <3> QED BY <1>7, <3>1, <3>2
  <2>5. ASSUME NEW k \in 1..(n + 1), runs'[k].ran
        PROVE  runs'[k].config.name \in DOMAIN last_run' /\ runs'[k].at <= last_run'[runs'[k].config.name]
    <3>1. CASE k = n + 1
      BY <1>0, <1>5, <1>7, <2>1, <2>5, <3>1 DEF with
    <3>2. CASE k \in 1..n
      <4>1. PICK name : name = runs[k].config.name
        OBVIOUS
      <4>2. name \in DOMAIN last_run /\ runs[k].at <= last_run[name] /\ runs[k].at \in Nat
        BY <1>0, <1>7, <1>8, <2>5, <3>2, <4>1 DEF LastRuns
      <4>3. \E j \in 1..n : runs[j].at = last_run[name]
        BY <1>0, <1>7, <4>2 DEF LastRuns
      <4>4. last_run[name] \in Nat /\ (last_run'[name] = last_run[name] \/ last_run'[name] = clock)
        BY <1>8, <2>1, <4>2, <4>3 DEF with
      <4> QED BY <1>0, <1>7, <2>3, <3>2, <4>1, <4>2, <4>4
    <3> QED BY <1>7, <3>1, <3>2
  <2>6. ASSUME NEW name \in DOMAIN last_run'
        PROVE  \E k \in 1..(n + 1) : runs'[k].ran /\ runs'[k].config.name = name /\ runs'[k].at = last_run'[name]
    <3>1. CASE elapsed /\ name = config.name
      <4>1. n + 1 \in 1..(n + 1) /\ last_run'[name] = clock
        BY <1>7, <2>1, <3>1 DEF with
      <4> QED BY <1>5, <1>7, <3>1, <4>1
    <3>2. CASE ~(elapsed /\ name = config.name)
      <4>1. name \in DOMAIN last_run /\ last_run'[name] = last_run[name]
        BY <2>1, <2>6, <3>2 DEF with
      <4>2. PICK k \in 1..n : runs[k].ran /\ runs[k].config.name = name /\ runs[k].at = last_run[name]
        BY <1>0, <1>7, <4>1 DEF LastRuns
      <4> QED BY <1>7, <4>1, <4>2
    <3> QED BY <3>1, <3>2
  <2> QED BY <1>7, <2>4, <2>5, <2>6 DEF LastRuns
<1> QED BY <1>0, <1>3, <1>7, <1>10, <1>11 DEF AgentsInv

LEMMA AgentsInvStep == AgentsInv /\ SavesNext => AgentsInv'
<1> SUFFICES ASSUME AgentsInv, SavesNext PROVE AgentsInv'
  OBVIOUS
<1>1. CASE AgentRuntimeNew
  <2>1. configs' \in Seq(AgentConfig) /\ UNCHANGED <<last_run, runs, clock>>
    BY <1>1, SaveEffectsAssumption DEF AgentRuntimeNew
  <2> QED BY <2>1 DEF AgentsInv, LastRuns, AgentsTimely
<1>2. CASE Tick
  BY <1>2, AgentsInvRuns DEF Tick, agentVars
<1>3. CASE \/ FileEvent("saved") \/ FileEvent("deleted") \/ PushMutation \/ PushDeletion \/ RecordActivity
           \/ DetectIntent \/ PushIntent \/ PreloadContext \/ SetCurrent
  BY <1>3, AgentsInvRuns DEF FileEvent, PushMutation, PushDeletion, RecordActivity, DetectIntent, PushIntent,
                            PreloadContext, SetCurrent, Count, Push, Predict, agentVars
<1>4. CASE RunAgent
  BY <1>4, AgentsInvRun
<1>5. CASE StartFileSave \/ ProcessFileSave \/ StoreReport \/ StartSession \/ ProcessSessionStart
  BY <1>5, AgentsInvRuns DEF StartFileSave, ProcessFileSave, StoreReport, StartSession, ProcessSessionStart
<1> QED BY <1>1, <1>2, <1>3, <1>4, <1>5 DEF SavesNext

LEMMA AgentsInvKept == AgentsInv /\ UNCHANGED saveVars => AgentsInv'
BY AgentsInvRuns DEF saveVars

\* For any agents, also of the same name, and any saves: each runs when it is triggered and its
\* name has not run within its cooldown, and never otherwise.
THEOREM AgentsAlwaysTimely == ServicesSpec => []AgentsTimely
<1>1. ServicesInit => AgentsInv
  BY AgentsInvInit DEF ServicesInit
<1>2. AgentsInv /\ [ServicesNext]_servicesVars => AgentsInv'
  BY AgentsInvStep, AgentsInvKept DEF ServicesNext, servicesVars
<1>3. AgentsInv => AgentsTimely
  BY DEF AgentsInv
<1> QED BY <1>1, <1>2, <1>3, PTL DEF ServicesSpec

-----------------------------------------------------------------------------
(* The links and the migration (EntryUpdates). *)

EntryTexts == {"old", "new"}
Linkable == [text : EntryTexts, superseded_by : Linked \cup {"none"}, contradicts : Seq(Linked)]
Expectable == [text : EntryTexts, superseded_by : Linked \cup {"none"}, contradicts : SUBSET Linked]
LinkAsked == [op : {"supersede", "contradict", "resolve"}, id : Linked, other : Linked, entry : Linkable, version : Nat]

\* The entry e is as expected in x.
AsExpected(e, x) ==
  /\ e.text = x.text /\ e.superseded_by = x.superseded_by
  /\ Range(e.contradicts) = x.contradicts /\ IsInjective(e.contradicts)

\* What was read of id at version v is no newer than what is stored, and the same if nothing was
\* stored since.
ReadOf(id, e, v) == v <= version[id] /\ (v = version[id] => e = brain[id])

LinksType ==
  /\ brain \in [Linked -> Linkable] /\ expected \in [Linked -> Expectable]
  /\ version \in [Linked -> Nat] /\ read_at \in [Linked -> Nat]
  /\ link \in [LinkRequests -> {NoLink} \cup LinkAsked]
  /\ DOMAIN migration \subseteq Linked /\ \A id \in DOMAIN migration : migration[id] \in Linkable

LinkReads == \A r \in LinkRequests : link[r] # NoLink => ReadOf(link[r].id, link[r].entry, link[r].version)
MigrationReads == \A id \in DOMAIN migration : ReadOf(id, migration[id], read_at[id])
LinksAgree == \A id \in Linked \ clobbered : AsExpected(brain[id], expected[id])

LinksInv == LinksType /\ LinkReads /\ MigrationReads /\ LinksAgree

\* What is retained keeps its order, so it is as free of duplicates as before, and lacks only x.
LEMMA RetainedRest ==
  ASSUME NEW S, NEW s \in Seq(S), NEW x
  PROVE  /\ retained(s, x) \in Seq(S)
         /\ Range(retained(s, x)) = Range(s) \ {x}
         /\ IsInjective(s) => IsInjective(retained(s, x))
<1>1. PICK keep, n : keep = {i \in DOMAIN s : s[i] # x} /\ n = Cardinality(keep)
  OBVIOUS
<1>2. IsFiniteSet(keep) /\ n \in Nat /\ keep \subseteq 1..Len(s) /\ keep \subseteq Int
  BY <1>1, CountTo, FS_Subset, FS_CardinalityType
<1>3. PICK rank : rank = [i \in keep |-> Cardinality({j \in keep : j <= i})]
  OBVIOUS
<1>4. ASSUME NEW i \in keep PROVE rank[i] \in 1..n
  <2>1. PICK below : below = {j \in keep : j <= i}
    OBVIOUS
  <2>2. IsFiniteSet(below) /\ Cardinality(below) \in Nat /\ Cardinality(below) <= n /\ i \in below
    BY <1>1, <1>2, <2>1, FS_Subset, FS_CardinalityType
  <2>3. Cardinality(below) # 0
    BY <2>2, FS_EmptySet
  <2> QED BY <1>3, <2>1, <2>2, <2>3
<1>5. ASSUME NEW i \in keep, NEW k \in keep, i < k PROVE rank[i] # rank[k]
  <2>1. PICK lower, upper : lower = {j \in keep : j <= i} /\ upper = {j \in keep : j <= k}
    OBVIOUS
  <2>2. lower \subseteq upper /\ upper \in SUBSET keep /\ k \in upper /\ k \notin lower
    <3>1. i \in Int /\ k \in Int /\ \A j \in keep : j \in Int
      BY <1>2
    <3>2. \A j \in keep : j <= i => j <= k
      BY <1>5, <3>1
    <3>3. k <= k /\ ~(k <= i)
      BY <1>5, <3>1
    <3> QED BY <2>1, <3>2, <3>3, ZenonT(30)
  <2>3. IsFiniteSet(upper)
    BY <1>2, <2>2, FS_Subset
  <2>4. Cardinality(lower) # Cardinality(upper)
    BY <2>2, <2>3, FS_Subset
  <2> QED BY <1>3, <2>1, <2>4
<1>6. \A i, k \in keep : rank[i] = rank[k] => i = k
  BY <1>2, <1>5
<1>7. rank \in Injection(keep, 1..n)
  BY <1>3, <1>4, <1>6 DEF Injection, IsInjective
<1>8. rank \in Surjection(keep, 1..n)
  BY <1>1, <1>2, <1>7, CountTo, FS_Injection
<1>9. \A m \in 1..n : \E i \in keep : rank[i] = m
  BY <1>8 DEF Surjection
<1>10. PICK nth : nth = [m \in 1..n |-> CHOOSE i \in keep : Cardinality({j \in keep : j <= i}) = m]
  OBVIOUS
<1>11. \A m \in 1..n : nth[m] \in keep /\ rank[nth[m]] = m
  BY <1>3, <1>9, <1>10
<1>12. retained(s, x) = [m \in 1..n |-> s[nth[m]]]
  BY <1>1, <1>10 DEF retained
<1>13. PICK t : t = retained(s, x)
  OBVIOUS
<1>14. t \in Seq(S) /\ DOMAIN t = 1..n /\ \A m \in 1..n : t[m] = s[nth[m]]
  BY <1>1, <1>2, <1>11, <1>12, <1>13
<1>15. \A i \in keep : t[rank[i]] = s[i]
  BY <1>4, <1>6, <1>11, <1>14
<1>16. Range(t) = Range(s) \ {x}
  <2>1. ASSUME NEW m \in 1..n PROVE t[m] \in Range(s) \ {x}
    BY <1>1, <1>11, <1>14 DEF Range
  <2>2. ASSUME NEW i \in DOMAIN s, s[i] # x PROVE s[i] \in Range(t)
    BY <1>1, <1>4, <1>14, <1>15, <2>2 DEF Range
  <2>3. Range(t) = {t[m] : m \in 1..n} /\ Range(s) = {s[i] : i \in DOMAIN s}
    BY <1>14 DEF Range
  <2>4. Range(t) \subseteq Range(s) \ {x}
    BY <2>1, <2>3
  <2>5. Range(s) \ {x} \subseteq Range(t)
    BY <2>2, <2>3
  <2> QED BY <2>4, <2>5
<1>17. IsInjective(s) => IsInjective(t)
  BY <1>1, <1>11, <1>14 DEF IsInjective
<1> QED BY <1>13, <1>14, <1>16, <1>17

LEMMA ChangeExpected ==
  ASSUME NEW e \in Linkable, NEW x \in Expectable, NEW op \in {"supersede", "contradict", "resolve"}, NEW other \in Linked
  PROVE  /\ changed_entry(e, op, other) \in Linkable /\ meant(x, op, other) \in Expectable
         /\ AsExpected(e, x) => AsExpected(changed_entry(e, op, other), meant(x, op, other))
<1>1. CASE op = "supersede"
  BY <1>1 DEF changed_entry, meant, link_superseded, AsExpected, Linkable, Expectable
<1>2. CASE op = "contradict"
  <2>1. PICK c, d : c = e.contradicts /\ d = IF Contains(c, other) THEN c ELSE Append(c, other)
    OBVIOUS
  <2>2. c \in Seq(Linked) /\ d \in Seq(Linked) /\ Range(d) = Range(c) \cup {other} /\ (IsInjective(c) => IsInjective(d))
    <3>1. c \in Seq(Linked)
      BY <2>1 DEF Linkable
    <3>2. CASE Contains(c, other)
      BY <2>1, <3>1, <3>2 DEF Contains, Range
    <3>3. CASE ~Contains(c, other)
      <4>1. /\ d \in Seq(Linked) /\ Len(d) = Len(c) + 1 /\ d[Len(c) + 1] = other
            /\ \A i \in 1..Len(c) : d[i] = c[i] /\ c[i] # other
        BY <2>1, <3>1, <3>3 DEF Contains
      <4>2. DOMAIN c = 1..Len(c) /\ DOMAIN d = 1..Len(c) + 1 /\ Len(c) \in Nat
        BY <3>1, <4>1
      <4>3. Range(d) = Range(c) \cup {other}
        BY <4>1, <4>2 DEF Range
      <4>4. IsInjective(c) => IsInjective(d)
        BY <4>1, <4>2 DEF IsInjective
      <4> QED BY <3>1, <4>1, <4>3, <4>4
    <3> QED BY <3>2, <3>3
  <2>3. changed_entry(e, op, other) = [e EXCEPT !.contradicts = d]
    BY <1>2, <2>1 DEF changed_entry, add_contradiction, Linkable
  <2>4. meant(x, op, other) = [x EXCEPT !.contradicts = @ \cup {other}]
    BY <1>2 DEF meant
  <2>5. changed_entry(e, op, other) \in Linkable /\ meant(x, op, other) \in Expectable
    BY <2>2, <2>3, <2>4 DEF Linkable, Expectable
  <2>6. AsExpected(e, x) => AsExpected([e EXCEPT !.contradicts = d], [x EXCEPT !.contradicts = @ \cup {other}])
    BY <2>1, <2>2 DEF AsExpected, Linkable, Expectable
  <2> QED BY <2>3, <2>4, <2>5, <2>6
<1>3. CASE op = "resolve"
  <2>1. PICK c, d : c = e.contradicts /\ d = retained(c, other)
    OBVIOUS
  <2>2. c \in Seq(Linked) /\ d \in Seq(Linked) /\ Range(d) = Range(c) \ {other} /\ (IsInjective(c) => IsInjective(d))
    <3>1. c \in Seq(Linked)
      BY <2>1 DEF Linkable
    <3> QED BY <2>1, <3>1, RetainedRest
  <2>3. changed_entry(e, op, other) = [e EXCEPT !.contradicts = d]
    BY <1>3, <2>1 DEF changed_entry, resolve_contradiction, Linkable
  <2>4. meant(x, op, other) = [x EXCEPT !.contradicts = @ \ {other}]
    BY <1>3 DEF meant
  <2> QED BY <2>1, <2>2, <2>3, <2>4 DEF AsExpected, Linkable, Expectable
<1> QED BY <1>1, <1>2, <1>3

LEMMA LinksInvInit == UpdatesInit => LinksInv
<1> SUFFICES ASSUME UpdatesInit PROVE LinksInv
  OBVIOUS
<1>1. fresh_entry("old") \in Linkable /\ expectation("old") \in Expectable
  BY DEF fresh_entry, expectation, Linkable, Expectable, EntryTexts
<1>2. AsExpected(fresh_entry("old"), expectation("old"))
  BY DEF AsExpected, fresh_entry, expectation, Range, IsInjective
<1>3. LinksType
  BY <1>1 DEF UpdatesInit, LinksType
<1>4. LinkReads /\ MigrationReads /\ LinksAgree
  BY <1>1, <1>2 DEF UpdatesInit, LinkReads, MigrationReads, LinksAgree
<1> QED BY <1>3, <1>4 DEF LinksInv

LEMMA LinksInvKept == LinksInv /\ UNCHANGED linkVars => LinksInv'
BY DEF LinksInv, LinksType, LinkReads, MigrationReads, LinksAgree, ReadOf, linkVars

\* A write of an entry: what was read of it before is behind, whatever was read of the others
\* stays as it was.
LEMMA WriteReads ==
  ASSUME LinksType, NEW id \in Linked, NEW e \in Linkable, NEW v \in Nat, write_entry(id, e, v)
  PROVE  /\ brain' \in [Linked -> Linkable] /\ version' \in [Linked -> Nat]
         /\ \A i \in Linked : \A d, w : w \in Nat /\ ReadOf(i, d, w) => ReadOf(i, d, w)'
         /\ brain'[id] = e /\ (version[id] # v => id \in clobbered') /\ clobbered \subseteq clobbered'
         /\ \A i \in Linked \ {id} : brain'[i] = brain[i]
<1>1. brain' = [i \in Linked |-> IF i = id THEN e ELSE brain[i]]
  BY DEF write_entry, with, LinksType
<1>2. version' = [version EXCEPT ![id] = version[id] + 1] /\ version \in [Linked -> Nat]
  BY DEF write_entry, LinksType
<1>3. brain' \in [Linked -> Linkable] /\ version' \in [Linked -> Nat]
  BY <1>1, <1>2 DEF LinksType
<1>4. (version[id] # v => id \in clobbered') /\ clobbered \subseteq clobbered'
  BY DEF write_entry
<1>5. ASSUME NEW i \in Linked, NEW d, NEW w \in Nat, ReadOf(i, d, w) PROVE ReadOf(i, d, w)'
  <2>1. CASE i = id
    BY <1>2, <1>5, <2>1 DEF ReadOf
  <2>2. CASE i # id
    BY <1>1, <1>2, <1>5, <2>2 DEF ReadOf
  <2> QED BY <2>1, <2>2
<1> QED BY <1>1, <1>3, <1>4, <1>5

LEMMA LinksInvStep == LinksInv /\ LinksNext => LinksInv'
<1> SUFFICES ASSUME LinksInv, LinksNext PROVE LinksInv'
  OBVIOUS
<1>0. LinksType /\ LinkReads /\ MigrationReads /\ LinksAgree
  BY DEF LinksInv
<1>1. ASSUME NEW id \in Linked, NEW text \in {"old", "new"}, Put(id, text) PROVE LinksInv'
  <2>1. fresh_entry(text) \in Linkable /\ expectation(text) \in Expectable /\ version[id] \in Nat
    BY <1>0, <1>1 DEF fresh_entry, expectation, Linkable, Expectable, EntryTexts, LinksType
  <2>2. AsExpected(fresh_entry(text), expectation(text))
    BY DEF AsExpected, fresh_entry, expectation, Range, IsInjective
  <2>3. write_entry(id, fresh_entry(text), version[id]) /\ UNCHANGED <<link, migration, read_at>>
    BY <1>1 DEF Put
  <2>4. expected' = [i \in Linked |-> IF i = id THEN expectation(text) ELSE expected[i]]
    BY <1>0, <1>1 DEF Put, with, LinksType
  <2>5. LinksType'
    BY <1>0, <2>1, <2>3, <2>4, WriteReads DEF LinksType
  <2>6. LinkReads' /\ MigrationReads'
    BY <1>0, <2>1, <2>3, WriteReads DEF LinksType, LinkReads, MigrationReads, LinkAsked
  <2>7. LinksAgree'
    BY <1>0, <2>1, <2>2, <2>3, <2>4, WriteReads DEF LinksAgree
  <2> QED BY <2>5, <2>6, <2>7 DEF LinksInv
<1>2. ASSUME NEW id \in Linked, NEW r \in LinkRequests, NEW op \in {"supersede", "contradict", "resolve"},
             NEW other \in Linked \ {id}, ReadLink(r, id, op, other)
      PROVE LinksInv'
  <2>1. PICK req : req = [op |-> op, id |-> id, other |-> other, entry |-> brain[id], version |-> version[id]]
    OBVIOUS
  <2>2. /\ link' = [link EXCEPT ![r] = req] /\ req \in LinkAsked /\ ReadOf(req.id, req.entry, req.version)
        /\ UNCHANGED <<brain, migration, expected, read_at, version, clobbered>>
    BY <1>0, <1>2, <2>1 DEF ReadLink, ReadOf, LinksType, LinkAsked
  <2>3. LinksType'
    BY <1>0, <2>2 DEF LinksType
  <2>4. LinkReads' /\ MigrationReads' /\ LinksAgree'
    BY <1>0, <2>2 DEF LinksType, LinkReads, MigrationReads, LinksAgree, ReadOf
  <2> QED BY <2>3, <2>4 DEF LinksInv
<1>3. ASSUME NEW id \in Linked, Rewrite(id) PROVE LinksInv'
  <2>1. CASE migration' = <<>> /\ UNCHANGED <<brain, version, clobbered>>
    <3>1. UNCHANGED <<brain, version, clobbered, link, expected, read_at>> /\ DOMAIN migration' = {}
      BY <1>3, <2>1 DEF Rewrite
    <3> QED BY <1>0, <3>1 DEF LinksInv, LinksType, LinkReads, MigrationReads, LinksAgree, ReadOf
  <2>2. CASE migration' = without(migration, {id}) /\ write_entry(id, migration[id], read_at[id])
    <3>1. /\ id \in DOMAIN migration /\ migration[id] \in Linkable /\ read_at[id] \in Nat
          /\ UNCHANGED <<link, expected, read_at>> /\ migration' = [i \in DOMAIN migration \ {id} |-> migration[i]]
      BY <1>0, <1>3, <2>2 DEF Rewrite, LinksType, without
    <3>2. LinksType'
      BY <1>0, <2>2, <3>1, WriteReads DEF LinksType
    <3>3. LinkReads' /\ MigrationReads'
      BY <1>0, <2>2, <3>1, WriteReads DEF LinksType, LinkReads, MigrationReads, LinkAsked
    <3>4. version[id] = read_at[id] => migration[id] = brain[id]
      BY <1>0, <3>1 DEF MigrationReads, ReadOf
    <3>5. LinksAgree'
      BY <1>0, <2>2, <3>1, <3>4, WriteReads DEF LinksAgree
    <3> QED BY <3>2, <3>3, <3>5 DEF LinksInv
  <2> QED BY <1>3, <2>1, <2>2 DEF Rewrite
<1>4. CASE TogglePause
  <2> USE <1>4 DEF TogglePause
  <2>1. UNCHANGED <<brain, link, migration, expected, read_at, version, clobbered>>
    OBVIOUS
  <2> QED BY <1>0, <2>1 DEF LinksInv, LinksType, LinkReads, MigrationReads, LinksAgree, ReadOf
<1>5. ASSUME NEW r \in LinkRequests, WriteLink(r) PROVE LinksInv'
  <2>1. PICK req : req = link[r] /\ req \in LinkAsked /\ ReadOf(req.id, req.entry, req.version)
    BY <1>0, <1>5 DEF WriteLink, LinksType, LinkReads
  <2>2. UNCHANGED <<migration, read_at>> /\ link' = [link EXCEPT ![r] = NoLink]
    BY <1>5 DEF WriteLink
  <2>3. CASE UNCHANGED <<brain, expected, version, clobbered>>
    <3>1. LinksType'
      BY <1>0, <2>2, <2>3 DEF LinksType
    <3> QED BY <1>0, <2>2, <2>3, <3>1 DEF LinksInv, LinksType, LinkReads, MigrationReads, LinksAgree, ReadOf
  <2>4. CASE /\ write_entry(req.id, changed_entry(req.entry, req.op, req.other), req.version)
             /\ expected' = [expected EXCEPT ![req.id] = meant(@, req.op, req.other)]
    <3>1. PICK id, e, v, x : /\ id = req.id /\ e = changed_entry(req.entry, req.op, req.other) /\ v = req.version
                             /\ x = meant(expected[id], req.op, req.other)
      OBVIOUS
    <3>2. id \in Linked /\ v \in Nat /\ expected[id] \in Expectable /\ ReadOf(id, req.entry, v)
      BY <1>0, <2>1, <3>1 DEF LinksType, LinkAsked
    <3>3. e \in Linkable /\ x \in Expectable /\ (AsExpected(req.entry, expected[id]) => AsExpected(e, x))
      BY <2>1, <3>1, <3>2, ChangeExpected DEF LinkAsked
    <3>4. write_entry(id, e, v) /\ expected' = [expected EXCEPT ![id] = x]
      BY <2>4, <3>1
    <3>5. LinksType'
      BY <1>0, <2>2, <3>2, <3>3, <3>4, WriteReads DEF LinksType
    <3>6. LinkReads' /\ MigrationReads'
      BY <1>0, <2>2, <3>2, <3>3, <3>4, WriteReads DEF LinksType, LinkReads, MigrationReads, LinkAsked
    <3>7. v = version[id] => req.entry = brain[id]
      BY <3>2 DEF ReadOf
    <3>8. LinksAgree'
      BY <1>0, <3>2, <3>3, <3>4, <3>7, WriteReads DEF LinksAgree, LinksType
    <3> QED BY <3>5, <3>6, <3>8 DEF LinksInv
  <2> QED BY <1>5, <2>1, <2>3, <2>4 DEF WriteLink
<1>6. CASE StartMigration
  <2>1. migration' = brain /\ read_at' = version /\ UNCHANGED <<brain, link, expected, version, clobbered>>
    BY <1>6 DEF StartMigration
  <2> QED BY <1>0, <2>1 DEF LinksInv, LinksType, LinkReads, MigrationReads, LinksAgree, ReadOf
<1> QED BY <1>1, <1>2, <1>3, <1>4, <1>5, <1>6 DEF LinksNext

LEMMA LinksInvSuffices == LinksInv => LinksKept
BY DEF LinksInv, LinksType, LinksAgree, AsExpected, LinksKept

-----------------------------------------------------------------------------
(* The signals of the dependencies (EntryUpdates). *)

PackageFiles == Packages \cup {<<>>}
DepNames == UNION {UNION {DOMAIN p[s] : s \in DOMAIN p} : p \in Packages}
DepVersions == UNION {UNION {{p[s][name] : name \in DOMAIN p[s]} : s \in DOMAIN p} : p \in Packages}
Deps == DepNames \X DepVersions
Signals == DepNames \X DepVersions \X Nat

Lists(p, dep) == \E s \in DOMAIN p : dep[1] \in DOMAIN p[s] /\ p[s][dep[1]] = dep[2]
Remembers(previous, name, version_of) == name \in DOMAIN previous /\ previous[name] = version_of

\* What is remembered of a name is the version last signalled of it.
Remembered(previous, s) ==
  /\ \A i \in DOMAIN s : last_of_name(s, i, Len(s)) => Remembers(previous, s[i][1], s[i][2])
  /\ \A name \in DOMAIN previous : \E i \in DOMAIN s :
       s[i][1] = name /\ s[i][2] = previous[name] /\ last_of_name(s, i, Len(s))

SignalledOnce(s) ==
  \A j \in DOMAIN s : \A i \in 1..j - 1 :
    s[i][1] = s[j][1] /\ last_of_name(s, i, j - 1) => s[i][2] # s[j][2] \/ s[i][3] = s[j][3]

\* A dependency that awaits its signal is in the file, and was not last signalled with its version
\* but by the same scan.
Awaits(dep, s, scan) ==
  \A i \in DOMAIN s : s[i][1] = dep[1] /\ s[i][2] = dep[2] /\ last_of_name(s, i, Len(s)) => s[i][3] = scan
PendingNew == \A k \in DOMAIN pending : Lists(scanned, pending[k]) /\ Awaits(pending[k], signalled, scans)

\* A name with one version is remembered with it, or awaits the signal.
ScanCovered ==
  \A name, version_of : versions_of(scanned, name) = {version_of} =>
    \/ Remembers(previous_deps, name, version_of)
    \/ \E k \in DOMAIN pending : pending[k] = <<name, version_of>>

SignalsType ==
  /\ scans \in Nat /\ package \in PackageFiles /\ scanned \in PackageFiles
  /\ pending \in Seq(Deps) /\ signalled \in Seq(Signals)

SignalsInv ==
  /\ SignalsType /\ Remembered(previous_deps, signalled) /\ SignalledOnce(signalled) /\ PendingNew /\ ScanCovered

\* A set in some order.
LEMMA InSomeOrder ==
  ASSUME NEW S, IsFiniteSet(S)
  PROVE  /\ Cardinality(S) \in Nat /\ SetToSeq(S) \in [1..Cardinality(S) -> S]
         /\ \A x \in S : \E i \in 1..Cardinality(S) : SetToSeq(S)[i] = x
<1>1. PICK n : n = Cardinality(S)
  OBVIOUS
<1>2. n \in Nat /\ ExistsBijection(1..n, S)
  BY <1>1, FS_CardinalityType
<1>3. PICK g : g \in Bijection(1..n, S)
  BY <1>2 DEF ExistsBijection
<1>4. g \in [1..n -> S] /\ IsInjective(g)
  BY <1>3 DEF Bijection, Injection, IsInjective
<1>5. PICK f : f = SetToSeq(S)
  OBVIOUS
<1>6. f \in [1..n -> S] /\ IsInjective(f)
  BY <1>1, <1>4, <1>5 DEF SetToSeq
<1>7. f \in Injection(1..n, S)
  BY <1>6 DEF Injection, IsInjective
<1>8. f \in Surjection(1..n, S)
  BY <1>1, <1>2, <1>7, CountTo, FS_Injection
<1> QED BY <1>1, <1>2, <1>5, <1>6, <1>8 DEF Surjection

NewIn(deps, previous) == {name \in DOMAIN deps : ~Remembers(previous, name, deps[name])}
InOrder(deps, new) == [i \in 1..Cardinality(new) |-> <<SetToSeq(new)[i], deps[SetToSeq(new)[i]]>>]
SectionOf(p, s) == IF s \in DOMAIN p THEN p[s] ELSE <<>>

LEMMA DetectedParts ==
  ASSUME NEW p, NEW previous
  PROVE  LET listed(s) == InOrder(SectionOf(p, s), NewIn(SectionOf(p, s), previous))
         IN  detect_new_dependencies(p, previous) = listed(Sections[1]) \o listed(Sections[2])
BY DEF detect_new_dependencies, InOrder, NewIn, SectionOf, Remembers

LEMMA PartDetected ==
  ASSUME NEW p \in PackageFiles, NEW s \in Range(Sections), NEW previous,
         NEW deps, deps = SectionOf(p, s), NEW part, part = InOrder(deps, NewIn(deps, previous))
  PROVE  /\ part \in Seq(Deps)
         /\ \A i \in DOMAIN part : Lists(p, part[i]) /\ ~Remembers(previous, part[i][1], part[i][2])
         /\ s \in DOMAIN p => \A name \in DOMAIN p[s] :
              ~Remembers(previous, name, p[s][name]) => \E i \in DOMAIN part : part[i] = <<name, p[s][name]>>
<1> USE EntryUpdatesAssumption
<1>1. IsFiniteSet(DOMAIN deps)
  <2>1. CASE s \in DOMAIN p
    BY <2>1 DEF SectionOf, PackageFiles
  <2>2. CASE s \notin DOMAIN p
    BY <2>2, FS_EmptySet DEF SectionOf
  <2> QED BY <2>1, <2>2
<1>2. PICK new, n, f : new = NewIn(deps, previous) /\ n = Cardinality(new) /\ f = SetToSeq(new)
  OBVIOUS
<1>3. IsFiniteSet(new) /\ new \subseteq DOMAIN deps
  BY <1>1, <1>2, FS_Subset DEF NewIn
<1>4. n \in Nat /\ f \in [1..n -> new] /\ \A x \in new : \E i \in 1..n : f[i] = x
  BY <1>2, <1>3, InSomeOrder
<1>5. part = [i \in 1..n |-> <<f[i], deps[f[i]]>>]
  BY <1>2 DEF InOrder
<1>6. ASSUME NEW name \in DOMAIN deps PROVE s \in DOMAIN p /\ deps = p[s] /\ Lists(p, <<name, deps[name]>>)
                                            /\ <<name, deps[name]>> \in Deps
  <2>1. s \in DOMAIN p /\ deps = p[s] /\ p \in Packages
    BY DEF SectionOf, PackageFiles
  <2> QED BY <2>1 DEF Lists, Deps, DepNames, DepVersions
<1>7. ASSUME NEW i \in 1..n PROVE part[i] \in Deps /\ Lists(p, part[i]) /\ ~Remembers(previous, part[i][1], part[i][2])
  BY <1>2, <1>3, <1>4, <1>5, <1>6 DEF NewIn
<1>8. part \in Seq(Deps) /\ DOMAIN part = 1..n
  BY <1>4, <1>5, <1>7
<1>9. ASSUME s \in DOMAIN p, NEW name \in DOMAIN p[s], ~Remembers(previous, name, p[s][name])
      PROVE \E i \in DOMAIN part : part[i] = <<name, p[s][name]>>
  <2>1. deps = p[s] /\ name \in new
    BY <1>2, <1>9 DEF SectionOf, NewIn
  <2> QED BY <1>4, <1>5, <1>8, <2>1
<1> QED BY <1>7, <1>8, <1>9

\* What is detected is what the file lists and is not remembered.
LEMMA Detected ==
  ASSUME NEW p \in PackageFiles, NEW previous, NEW d, d = detect_new_dependencies(p, previous)
  PROVE  /\ d \in Seq(Deps)
         /\ \A i \in DOMAIN d : Lists(p, d[i]) /\ ~Remembers(previous, d[i][1], d[i][2])
         /\ \A s \in DOMAIN p : \A name \in DOMAIN p[s] :
              ~Remembers(previous, name, p[s][name]) => \E i \in DOMAIN d : d[i] = <<name, p[s][name]>>
<1> USE EntryUpdatesAssumption
<1>1. PICK a, b : /\ a = InOrder(SectionOf(p, Sections[1]), NewIn(SectionOf(p, Sections[1]), previous))
                  /\ b = InOrder(SectionOf(p, Sections[2]), NewIn(SectionOf(p, Sections[2]), previous))
  OBVIOUS
<1>2. d = a \o b
  BY <1>1, DetectedParts
<1>3. Sections[1] \in Range(Sections) /\ Sections[2] \in Range(Sections) /\ Range(Sections) = {Sections[1], Sections[2]}
  BY DEF Sections, Range
<1>4. DOMAIN p \subseteq Range(Sections)
  BY DEF PackageFiles
<1>5. /\ a \in Seq(Deps) /\ b \in Seq(Deps)
      /\ \A i \in DOMAIN a : Lists(p, a[i]) /\ ~Remembers(previous, a[i][1], a[i][2])
      /\ \A i \in DOMAIN b : Lists(p, b[i]) /\ ~Remembers(previous, b[i][1], b[i][2])
  BY <1>1, <1>3, PartDetected
<1>6. ASSUME NEW s \in DOMAIN p, NEW name \in DOMAIN p[s], ~Remembers(previous, name, p[s][name])
      PROVE \/ \E i \in DOMAIN a : a[i] = <<name, p[s][name]>>
            \/ \E i \in DOMAIN b : b[i] = <<name, p[s][name]>>
  <2>1. CASE s = Sections[1]
    BY <1>1, <1>3, <1>6, <2>1, PartDetected
  <2>2. CASE s = Sections[2]
    BY <1>1, <1>3, <1>6, <2>2, PartDetected
  <2> QED BY <1>3, <1>4, <2>1, <2>2
<1>7. /\ d \in Seq(Deps) /\ Len(d) = Len(a) + Len(b) /\ Len(a) \in Nat /\ Len(b) \in Nat
      /\ \A i \in 1..Len(a) + Len(b) : d[i] = IF i <= Len(a) THEN a[i] ELSE b[i - Len(a)]
  BY <1>2, <1>5, ConcatProperties
<1>8. DOMAIN a = 1..Len(a) /\ DOMAIN b = 1..Len(b) /\ DOMAIN d = 1..Len(a) + Len(b)
  BY <1>5, <1>7
<1>9. ASSUME NEW i \in DOMAIN d PROVE Lists(p, d[i]) /\ ~Remembers(previous, d[i][1], d[i][2])
  <2>1. CASE i <= Len(a)
    BY <1>5, <1>7, <1>8, <2>1
  <2>2. CASE ~(i <= Len(a))
    <3>1. i - Len(a) \in DOMAIN b /\ d[i] = b[i - Len(a)]
      BY <1>7, <1>8, <2>2
    <3> QED BY <1>5, <3>1
  <2> QED BY <2>1, <2>2
<1>10. \A i \in DOMAIN a : i \in DOMAIN d /\ d[i] = a[i]
  BY <1>7, <1>8
<1>11. \A i \in DOMAIN b : Len(a) + i \in DOMAIN d /\ d[Len(a) + i] = b[i]
  <2> SUFFICES ASSUME NEW i \in 1..Len(b) PROVE Len(a) + i \in DOMAIN d /\ d[Len(a) + i] = b[i]
    BY <1>8
  <2>1. Len(a) + i \in 1..Len(a) + Len(b) /\ ~(Len(a) + i <= Len(a)) /\ Len(a) + i - Len(a) = i
    BY <1>7
  <2> QED BY <1>7, <1>8, <2>1
<1> QED BY <1>6, <1>7, <1>9, <1>10, <1>11

\* t is s with one more signal: it is the last of its name, and of the others the last are who
\* they were.
OneMore(s, d, t, n) ==
  /\ t \in Seq(Signals) /\ DOMAIN t = 1..n + 1 /\ DOMAIN s = 1..n /\ t[n + 1] = d
  /\ n \in Nat /\ Len(t) = n + 1 /\ last_of_name(t, n + 1, n + 1)
  /\ \A i \in 1..n : t[i] = s[i]
  /\ \A i, m \in 1..n : last_of_name(t, i, m) <=> last_of_name(s, i, m)
  /\ \A i \in 1..n : last_of_name(t, i, n + 1) <=> last_of_name(s, i, n) /\ s[i][1] # d[1]

LEMMA SignalAppended ==
  ASSUME NEW s \in Seq(Signals), NEW d \in Signals, NEW t, t = Append(s, d), NEW n, n = Len(s)
  PROVE  OneMore(s, d, t, n)
<1>1. /\ t \in Seq(Signals) /\ DOMAIN t = 1..n + 1 /\ DOMAIN s = 1..n /\ t[n + 1] = d
      /\ \A i \in 1..n : t[i] = s[i]
      /\ Len(t) = n + 1 /\ n \in Nat
  OBVIOUS
<1>2. last_of_name(t, n + 1, n + 1)
  BY <1>1 DEF last_of_name
<1>3. \A i, m \in 1..n : last_of_name(t, i, m) <=> last_of_name(s, i, m)
  BY <1>1 DEF last_of_name
<1>4. ASSUME NEW i \in 1..n
      PROVE last_of_name(t, i, n + 1) <=> last_of_name(s, i, n) /\ s[i][1] # d[1]
  <2>1. last_of_name(t, i, n + 1) => last_of_name(s, i, n) /\ s[i][1] # d[1]
    BY <1>1 DEF last_of_name
  <2>2. last_of_name(s, i, n) /\ s[i][1] # d[1] => last_of_name(t, i, n + 1)
    BY <1>1 DEF last_of_name
  <2> QED BY <2>1, <2>2
<1> QED BY <1>1, <1>2, <1>3, <1>4 DEF OneMore

LEMMA SignalsInvInit == UpdatesInit => SignalsInv
BY DEF UpdatesInit, SignalsInv, SignalsType, Remembered, SignalledOnce, PendingNew, ScanCovered, versions_of,
       PackageFiles

LEMMA SignalsInvElsewhere ==
  ASSUME SignalsInv, UNCHANGED <<previous_deps, pending, signalled, scanned>>, scans' \in Nat,
         package' \in PackageFiles, scans' = scans \/ pending = <<>>
  PROVE  SignalsInv'
<1>1. SignalsType'
  BY DEF SignalsInv, SignalsType
<1>2. PendingNew'
  BY DEF SignalsInv, PendingNew
<1> QED BY <1>1, <1>2 DEF SignalsInv, Remembered, SignalledOnce, ScanCovered

LEMMA SignalsInvScan == ASSUME SignalsInv, Scan PROVE SignalsInv'
<1>1. /\ pending' = detect_new_dependencies(package, previous_deps) /\ scanned' = package /\ scans' \in Nat
      /\ package \in PackageFiles /\ UNCHANGED <<package, previous_deps, signalled>>
  BY DEF Scan, SignalsInv, SignalsType
<1>2. /\ pending' \in Seq(Deps)
      /\ \A k \in DOMAIN pending' : Lists(package, pending'[k]) /\ ~Remembers(previous_deps, pending'[k][1], pending'[k][2])
      /\ \A s \in DOMAIN package : \A name \in DOMAIN package[s] :
           ~Remembers(previous_deps, name, package[s][name]) => \E k \in DOMAIN pending' : pending'[k] = <<name, package[s][name]>>
  BY <1>1, Detected
<1>3. SignalsType'
  BY <1>1, <1>2 DEF SignalsInv, SignalsType
<1>4. PendingNew'
  <2> SUFFICES ASSUME NEW k \in DOMAIN pending' PROVE Lists(scanned', pending'[k]) /\ Awaits(pending'[k], signalled, scans')
    BY <1>1 DEF PendingNew
  <2>1. Awaits(pending'[k], signalled, scans')
    <3>1. ~Remembers(previous_deps, pending'[k][1], pending'[k][2])
      BY <1>2
    <3> QED BY <3>1 DEF Awaits, SignalsInv, Remembered
  <2> QED BY <1>1, <1>2, <2>1
<1>5. ScanCovered'
  <2> SUFFICES ASSUME NEW name, NEW version_of, versions_of(package, name) = {version_of}
               PROVE Remembers(previous_deps, name, version_of) \/ \E k \in DOMAIN pending' : pending'[k] = <<name, version_of>>
    BY <1>1 DEF ScanCovered
  <2>1. PICK s \in DOMAIN package : name \in DOMAIN package[s] /\ package[s][name] = version_of
    BY DEF versions_of
  <2> QED BY <1>2, <2>1
<1> QED BY <1>1, <1>3, <1>4, <1>5 DEF SignalsInv, Remembered, SignalledOnce

LEMMA SignalsInvSignal == ASSUME SignalsInv, Signal PROVE SignalsInv'
<1>1. PICK dep, d, rest : dep = Head(pending) /\ d = <<dep[1], dep[2], scans>> /\ rest = Tail(pending)
  OBVIOUS
<1>2. /\ pending # <<>> /\ pending' = rest /\ previous_deps' = with(previous_deps, dep[1], dep[2])
      /\ signalled' = Append(signalled, d) /\ UNCHANGED <<package, scanned, scans>>
  BY <1>1 DEF Signal
<1>3. SignalsType
  BY DEF SignalsInv
<1>4. /\ dep \in Deps /\ 1 \in DOMAIN pending /\ pending[1] = dep
      /\ rest \in Seq(Deps) /\ \A k \in DOMAIN rest : k + 1 \in DOMAIN pending /\ rest[k] = pending[k + 1]
      /\ \A k \in DOMAIN pending : k = 1 \/ (k - 1 \in DOMAIN rest /\ rest[k - 1] = pending[k])
  <2>1. pending \in Seq(Deps) /\ pending # <<>>
    BY <1>2, <1>3 DEF SignalsType
  <2>2. /\ dep = pending[1] /\ rest \in Seq(Deps) /\ Len(rest) = Len(pending) - 1 /\ Len(pending) \in Nat \ {0}
        /\ \A k \in 1..Len(pending) - 1 : rest[k] = pending[k + 1]
    BY <1>1, <2>1
  <2> QED BY <2>1, <2>2
<1>5. d \in Signals /\ d[1] = dep[1] /\ d[2] = dep[2] /\ d[3] = scans /\ dep = <<dep[1], dep[2]>>
  BY <1>1, <1>3, <1>4 DEF Signals, Deps, SignalsType
<1>6. PICK s, t, n : s = signalled /\ t = signalled' /\ n = Len(signalled)
  OBVIOUS
<1>7. /\ s \in Seq(Signals) /\ t \in Seq(Signals) /\ DOMAIN t = 1..n + 1 /\ DOMAIN s = 1..n /\ t[n + 1] = d
      /\ n \in Nat /\ Len(s) = n /\ Len(t) = n + 1 /\ last_of_name(t, n + 1, n + 1)
      /\ \A i \in 1..n : t[i] = s[i]
      /\ \A i, m \in 1..n : last_of_name(t, i, m) <=> last_of_name(s, i, m)
      /\ \A i \in 1..n : last_of_name(t, i, n + 1) <=> last_of_name(s, i, n) /\ s[i][1] # d[1]
  <2>1. s \in Seq(Signals) /\ t = Append(s, d) /\ n = Len(s)
    BY <1>2, <1>3, <1>6 DEF SignalsType
  <2>2. d \in Signals
    BY <1>5
  <2>3. OneMore(s, d, t, n)
    BY <2>1, <2>2, SignalAppended
  <2> QED BY <2>1, <2>3 DEF OneMore
<1>8. \A name, v : Remembers(previous_deps', name, v) <=> IF name = dep[1] THEN v = dep[2] ELSE Remembers(previous_deps, name, v)
  BY <1>2 DEF Remembers, with
<1>9. SignalsType'
  BY <1>2, <1>3, <1>4, <1>6, <1>7 DEF SignalsType
<1>10. Remembered(previous_deps', t)
  <2>1. Remembered(previous_deps, s)
    BY <1>6 DEF SignalsInv
  <2>2. ASSUME NEW i \in 1..n + 1, last_of_name(t, i, n + 1) PROVE Remembers(previous_deps', t[i][1], t[i][2])
    <3>1. CASE i = n + 1
      BY <1>5, <1>7, <1>8, <3>1
    <3>2. CASE i # n + 1
      <4>1. i \in 1..n /\ last_of_name(s, i, n) /\ s[i][1] # dep[1] /\ t[i] = s[i]
        BY <1>5, <1>7, <2>2, <3>2
      <4> QED BY <1>7, <1>8, <2>1, <4>1 DEF Remembered
    <3> QED BY <3>1, <3>2
  <2>3. ASSUME NEW name \in DOMAIN previous_deps'
        PROVE \E i \in 1..n + 1 : t[i][1] = name /\ t[i][2] = previous_deps'[name] /\ last_of_name(t, i, n + 1)
    <3>1. CASE name = dep[1]
      BY <1>2, <1>5, <1>7, <3>1 DEF with
    <3>2. CASE name # dep[1]
      <4>1. name \in DOMAIN previous_deps /\ previous_deps'[name] = previous_deps[name]
        BY <1>2, <2>3, <3>2 DEF with
      <4>2. PICK i \in 1..n : s[i][1] = name /\ s[i][2] = previous_deps[name] /\ last_of_name(s, i, n)
        BY <1>7, <2>1, <4>1 DEF Remembered
      <4> QED BY <1>5, <1>7, <3>2, <4>1, <4>2
    <3> QED BY <3>1, <3>2
  <2> QED BY <1>7, <2>2, <2>3 DEF Remembered
<1>11. SignalledOnce(t)
  <2> SUFFICES ASSUME NEW j \in 1..n + 1, NEW i \in 1..j - 1, t[i][1] = t[j][1], last_of_name(t, i, j - 1)
               PROVE t[i][2] # t[j][2] \/ t[i][3] = t[j][3]
    BY <1>7 DEF SignalledOnce
  <2>1. i \in 1..n /\ j - 1 \in 1..n /\ last_of_name(s, i, j - 1) /\ t[i] = s[i]
    BY <1>7
  <2>2. CASE j = n + 1
    <3>1. Awaits(dep, s, scans)
      BY <1>4, <1>6 DEF SignalsInv, PendingNew
    <3>2. last_of_name(s, i, Len(s)) /\ i \in DOMAIN s /\ t[j] = d
      BY <1>7, <2>1, <2>2
    <3> QED BY <1>5, <2>1, <3>1, <3>2 DEF Awaits
  <2>3. CASE j # n + 1
    <3>1. j \in 1..n /\ t[j] = s[j]
      BY <1>7, <2>3
    <3> QED BY <1>6, <1>7, <2>1, <3>1 DEF SignalsInv, SignalledOnce
  <2> QED BY <2>2, <2>3
<1>12. PendingNew'
  <2> SUFFICES ASSUME NEW k \in DOMAIN rest PROVE Lists(scanned, rest[k]) /\ Awaits(rest[k], t, scans)
    BY <1>2, <1>6 DEF PendingNew
  <2>1. Lists(scanned, rest[k]) /\ Awaits(rest[k], s, scans)
    BY <1>4, <1>6 DEF SignalsInv, PendingNew
  <2>2. ASSUME NEW i \in 1..n + 1, t[i][1] = rest[k][1], t[i][2] = rest[k][2], last_of_name(t, i, n + 1)
        PROVE t[i][3] = scans
    <3>1. CASE i = n + 1
      BY <1>5, <1>7, <3>1
    <3>2. CASE i # n + 1
      <4>1. i \in 1..n /\ last_of_name(s, i, n) /\ t[i] = s[i]
        BY <1>7, <2>2, <3>2
      <4> QED BY <1>7, <2>1, <2>2, <4>1 DEF Awaits
    <3> QED BY <3>1, <3>2
  <2> QED BY <1>7, <2>1, <2>2 DEF Awaits
<1>13. ScanCovered'
  <2> SUFFICES ASSUME NEW name, NEW v, versions_of(scanned, name) = {v}
               PROVE Remembers(previous_deps', name, v) \/ \E k \in DOMAIN rest : rest[k] = <<name, v>>
    BY <1>2 DEF ScanCovered
  <2>1. CASE name = dep[1]
    <3>1. Lists(scanned, dep)
      BY <1>4 DEF SignalsInv, PendingNew
    <3>2. dep[2] \in versions_of(scanned, name)
      BY <2>1, <3>1 DEF Lists, versions_of
    <3> QED BY <1>8, <2>1, <3>2
  <2>2. CASE name # dep[1]
    <3>1. Remembers(previous_deps, name, v) \/ \E k \in DOMAIN pending : pending[k] = <<name, v>>
      BY DEF SignalsInv, ScanCovered
    <3>2. ASSUME NEW k \in DOMAIN pending, pending[k] = <<name, v>> PROVE \E m \in DOMAIN rest : rest[m] = <<name, v>>
      BY <1>4, <2>2, <3>2
    <3> QED BY <1>8, <2>2, <3>1, <3>2
  <2> QED BY <2>1, <2>2
<1> QED BY <1>6, <1>9, <1>10, <1>11, <1>12, <1>13 DEF SignalsInv

LEMMA SignalsInvStep == SignalsInv /\ DecisionsNext => SignalsInv'
<1> SUFFICES ASSUME SignalsInv, DecisionsNext PROVE SignalsInv'
  OBVIOUS
<1>0. SignalsType
  BY DEF SignalsInv
<1>1. CASE StartProcessor
  <2>1. /\ previous_deps' = <<>> /\ pending' = <<>> /\ signalled' = <<>> /\ scanned' = <<>>
        /\ scans' \in Nat /\ package' \in PackageFiles
    BY <1>0, <1>1 DEF StartProcessor, SignalsType
  <2> QED BY <2>1 DEF SignalsInv, SignalsType, Remembered, SignalledOnce, PendingNew, ScanCovered, versions_of, PackageFiles
<1>2. CASE EditPackage
  BY <1>0, <1>2, SignalsInvElsewhere DEF EditPackage, SignalsType, PackageFiles
<1>3. CASE StoreDecision
  BY <1>0, <1>3, SignalsInvElsewhere DEF StoreDecision, SignalsType
<1>4. ASSUME NEW f \in Files, SaveFile(f) PROVE SignalsInv'
  BY <1>0, <1>4, SignalsInvElsewhere DEF SaveFile, SignalsType, idle
<1>5. CASE ClientWrites
  BY <1>0, <1>5, SignalsInvElsewhere DEF ClientWrites, SignalsType
<1> QED BY <1>1, <1>2, <1>3, <1>4, <1>5, SignalsInvScan, SignalsInvSignal DEF DecisionsNext

LEMMA SignalsInvKept == SignalsInv /\ UNCHANGED decisionVars => SignalsInv'
BY SignalsInvElsewhere DEF SignalsInv, SignalsType, decisionVars

LEMMA SignalsInvSuffices == SignalsInv => DependenciesSignalled
<1> SUFFICES ASSUME SignalsInv PROVE DependenciesSignalled
  OBVIOUS
<1>1. SignalledOnce(signalled)
  BY DEF SignalsInv
<1>2. ASSUME idle, NEW name, NEW v, versions_of(scanned, name) = {v}
      PROVE \E i \in DOMAIN signalled : /\ signalled[i][1] = name /\ signalled[i][2] = v
                                        /\ last_of_name(signalled, i, Len(signalled))
  <2>1. DOMAIN pending = {}
    BY <1>2 DEF idle
  <2>2. Remembers(previous_deps, name, v)
    BY <1>2, <2>1 DEF SignalsInv, ScanCovered
  <2> QED BY <2>2 DEF SignalsInv, Remembered, Remembers
<1> QED BY <1>1, <1>2 DEF DependenciesSignalled, SignalledOnce

-----------------------------------------------------------------------------
\* For any links, rewrites and packages, in any order: what the entries should hold they hold,
\* every new version of a dependency is signalled, and all operations reach one database.
THEOREM EntriesAlwaysKept == ServicesSpec => []EntriesKept
<1> DEFINE I == LinksInv /\ SignalsInv /\ PoolsInv
<1>1. ServicesInit => I
  BY LinksInvInit, SignalsInvInit, PoolsInvInit DEF ServicesInit
<1>2. I /\ [ServicesNext]_servicesVars => I'
  <2> SUFFICES ASSUME LinksInv, SignalsInv, PoolsInv, [ServicesNext]_servicesVars PROVE I'
    OBVIOUS
  <2>1. LinksInv'
    BY LinksInvStep, LinksInvKept DEF ServicesNext, servicesVars, updateVars, DecisionsNext, StartProcessor,
       EditPackage, Scan, Signal, StoreDecision, SaveFile, ClientWrites
  <2>2. SignalsInv'
    BY SignalsInvStep, SignalsInvKept DEF ServicesNext, servicesVars, updateVars, LinksNext, Put, ReadLink,
       Rewrite, TogglePause, WriteLink, StartMigration
  <2>3. PoolsInv'
    BY PoolsInvStep, PoolsInvKept DEF ServicesNext, servicesVars
  <2> QED BY <2>1, <2>2, <2>3
<1>3. I => EntriesKept
  BY LinksInvSuffices, SignalsInvSuffices, PoolsInvSuffices DEF EntriesKept
<1> QED BY <1>1, <1>2, <1>3, PTL DEF ServicesSpec

-----------------------------------------------------------------------------
(* The counters of a session (SessionCounters). *)

\* A call not yet counted in the maximum is still before its loop, and the
\* copy it compares with is a value the maximum had.
MaxInv ==
  /\ ai_tokens_max \in recorded_calls \cup {0}
  /\ \A n \in recorded_calls : n <= ai_tokens_max \/ \E t \in BeforeMax : call_tokens[t] = n
  /\ \A t \in Threads : call_pc[t] = "cas_max" => call_current[t] <= ai_tokens_max

\* The same of the minimum, which starts at the sentinel.
MinInv ==
  /\ ai_tokens_min \in recorded_calls \cup {MaxU64}
  /\ \A n \in recorded_calls : n >= ai_tokens_min \/ \E t \in BeforeMin : call_tokens[t] = n
  /\ \A t \in Threads : call_pc[t] = "cas_min" => call_current[t] >= ai_tokens_min

Recorded == \A t \in Threads : call_pc[t] # "idle" => call_tokens[t] \in recorded_calls

CountersInv == CountersTypeOK /\ Recorded /\ MaxInv /\ MinInv

LEMMA CountersTyped == CountersTypeOK /\ [CountersNext]_counterVars => CountersTypeOK'
<1> SUFFICES ASSUME CountersTypeOK, [CountersNext]_counterVars PROVE CountersTypeOK'
  OBVIOUS
<1> USE CountersAssumption DEF CountersTypeOK, CallSteps, U64, GotoStep, Current, sums
<1>1. ASSUME NEW t \in Threads, CountCall(t) PROVE CountersTypeOK'
  BY <1>1 DEF CountCall
<1>2. ASSUME NEW t \in Threads, AddTokens(t) PROVE CountersTypeOK'
  <2>1. fetch_add(ai_tokens_consumed, call_tokens[t]) \in 0..MaxU64
    BY DEF fetch_add
  <2> QED BY <1>2, <2>1 DEF AddTokens
<1>3. ASSUME NEW t \in Threads, StoreLast(t) PROVE CountersTypeOK'
  BY <1>3 DEF StoreLast
<1>4. ASSUME NEW t \in Threads, LoadMax(t) PROVE CountersTypeOK'
  BY <1>4 DEF LoadMax
<1>5. ASSUME NEW t \in Threads, SwapMax(t) PROVE CountersTypeOK'
  BY <1>5 DEF SwapMax
<1>6. ASSUME NEW t \in Threads, LoadMin(t) PROVE CountersTypeOK'
  BY <1>6 DEF LoadMin
<1>7. ASSUME NEW t \in Threads, SwapMin(t) PROVE CountersTypeOK'
  BY <1>7 DEF SwapMin
<1>8. CASE UNCHANGED counterVars
  BY <1>8 DEF counterVars
<1> QED BY <1>1, <1>2, <1>3, <1>4, <1>5, <1>6, <1>7, <1>8 DEF CountersNext

LEMMA CountersStep == CountersInv /\ CountersTypeOK' /\ [CountersNext]_counterVars => (Recorded /\ MaxInv /\ MinInv)'
<1> SUFFICES ASSUME CountersInv, CountersTypeOK', [CountersNext]_counterVars
             PROVE  (Recorded /\ MaxInv /\ MinInv)'
  OBVIOUS
<1> USE CountersAssumption
    DEF CountersInv, Recorded, MaxInv, MinInv, BeforeMax, BeforeMin, CountersTypeOK, CallSteps,
        U64, GotoStep, Current, sums
<1>1. ASSUME NEW t \in Threads, CountCall(t) PROVE (Recorded /\ MaxInv /\ MinInv)'
  <2>1. PICK n \in U64 : /\ call_tokens' = [call_tokens EXCEPT ![t] = n]
                         /\ recorded_calls' = recorded_calls \cup {n}
    BY <1>1 DEF CountCall
  <2>2. /\ call_pc[t] = "idle" /\ call_pc' = [call_pc EXCEPT ![t] = "add"]
        /\ UNCHANGED <<ai_tokens_max, ai_tokens_min, call_current>>
    BY <1>1 DEF CountCall
  <2>3. Recorded'
    BY <2>1, <2>2
  <2>4. MaxInv'
    BY <2>1, <2>2
  <2>5. MinInv'
    BY <2>1, <2>2
  <2> QED BY <2>3, <2>4, <2>5
<1>2. ASSUME NEW t \in Threads, AddTokens(t) PROVE (Recorded /\ MaxInv /\ MinInv)'
  BY <1>2 DEF AddTokens
<1>3. ASSUME NEW t \in Threads, StoreLast(t) PROVE (Recorded /\ MaxInv /\ MinInv)'
  BY <1>3 DEF StoreLast
<1>4. ASSUME NEW t \in Threads, LoadMax(t) PROVE (Recorded /\ MaxInv /\ MinInv)'
  BY <1>4 DEF LoadMax
<1>5. ASSUME NEW t \in Threads, SwapMax(t) PROVE (Recorded /\ MaxInv /\ MinInv)'
  <2>1. CASE call_tokens[t] <= call_current[t] /\ GotoStep(t, "load_min") /\ UNCHANGED <<ai_tokens_max, call_current>>
    BY <1>5, <2>1 DEF SwapMax
  <2>2. CASE /\ call_tokens[t] > call_current[t] /\ swaps(ai_tokens_max, t)
             /\ ai_tokens_max' = call_tokens[t] /\ GotoStep(t, "load_min") /\ UNCHANGED call_current
    <3>1. call_tokens[t] >= ai_tokens_max /\ call_tokens[t] \in recorded_calls /\ call_pc[t] = "cas_max"
      BY <1>5, <2>2 DEF SwapMax, swaps
    <3>2. Recorded'
      BY <1>5, <2>2 DEF SwapMax
    <3>3. MaxInv'
      BY <1>5, <2>2, <3>1 DEF SwapMax
    <3>4. MinInv'
      BY <1>5, <2>2 DEF SwapMax
    <3> QED BY <3>2, <3>3, <3>4
  <2>3. CASE call_tokens[t] > call_current[t] /\ Current(t, ai_tokens_max) /\ UNCHANGED <<ai_tokens_max, call_pc>>
    BY <1>5, <2>3 DEF SwapMax
  <2> QED BY <1>5, <2>1, <2>2, <2>3 DEF SwapMax
<1>6. ASSUME NEW t \in Threads, LoadMin(t) PROVE (Recorded /\ MaxInv /\ MinInv)'
  BY <1>6 DEF LoadMin
<1>7. ASSUME NEW t \in Threads, SwapMin(t) PROVE (Recorded /\ MaxInv /\ MinInv)'
  <2>1. CASE keeps_min(t) /\ GotoStep(t, "idle") /\ UNCHANGED <<ai_tokens_min, call_current>>
    BY <1>7, <2>1 DEF SwapMin, keeps_min
  <2>2. CASE /\ ~keeps_min(t) /\ swaps(ai_tokens_min, t)
             /\ ai_tokens_min' = call_tokens[t] /\ GotoStep(t, "idle") /\ UNCHANGED call_current
    <3>1. call_tokens[t] <= ai_tokens_min /\ call_tokens[t] \in recorded_calls /\ call_pc[t] = "cas_min"
      BY <1>7, <2>2 DEF SwapMin, swaps, keeps_min
    <3>2. Recorded'
      BY <1>7, <2>2 DEF SwapMin
    <3>3. MaxInv'
      BY <1>7, <2>2 DEF SwapMin
    <3>4. MinInv'
      BY <1>7, <2>2, <3>1 DEF SwapMin
    <3> QED BY <3>2, <3>3, <3>4
  <2>3. CASE ~keeps_min(t) /\ Current(t, ai_tokens_min) /\ UNCHANGED <<ai_tokens_min, call_pc>>
    BY <1>7, <2>3 DEF SwapMin
  <2> QED BY <1>7, <2>1, <2>2, <2>3 DEF SwapMin
<1>8. CASE UNCHANGED counterVars
  BY <1>8 DEF counterVars
<1> QED BY <1>1, <1>2, <1>3, <1>4, <1>5, <1>6, <1>7, <1>8 DEF CountersNext

LEMMA CountersMonotoneStep ==
  CountersInv /\ CountersNext => ai_tokens_max' >= ai_tokens_max /\ ai_tokens_min' <= ai_tokens_min
<1> SUFFICES ASSUME CountersInv, NEW t \in Threads,
                    \/ CountCall(t) \/ AddTokens(t) \/ StoreLast(t) \/ LoadMax(t)
                    \/ SwapMax(t) \/ LoadMin(t) \/ SwapMin(t)
             PROVE  ai_tokens_max' >= ai_tokens_max /\ ai_tokens_min' <= ai_tokens_min
  BY DEF CountersNext
<1> USE CountersAssumption DEF CountersInv, CountersTypeOK, U64
<1>1. CASE SwapMax(t)
  BY <1>1 DEF SwapMax, swaps, GotoStep, Current, sums
<1>2. CASE SwapMin(t)
  BY <1>2 DEF SwapMin, swaps, keeps_min, GotoStep, Current, sums
<1>3. CASE CountCall(t) \/ AddTokens(t) \/ StoreLast(t) \/ LoadMax(t) \/ LoadMin(t)
  BY <1>3 DEF CountCall, AddTokens, StoreLast, LoadMax, LoadMin, sums
<1> QED BY <1>1, <1>2, <1>3

LEMMA CountersInvInit == CountersInit => CountersInv
BY CountersAssumption
   DEF CountersInit, CountersInv, CountersTypeOK, CallSteps, U64, Recorded, MaxInv, MinInv

LEMMA CountersInvNext == CountersInv /\ [ServicesNext]_servicesVars => CountersInv' /\ [CountersNext]_counterVars
<1> SUFFICES ASSUME CountersInv, [ServicesNext]_servicesVars PROVE CountersInv' /\ [CountersNext]_counterVars
  OBVIOUS
<1>1. [CountersNext]_counterVars
  BY DEF ServicesNext, servicesVars, tokenVars
<1>2. CountersTypeOK'
  BY <1>1, CountersTyped DEF CountersInv
<1> QED BY <1>1, <1>2, CountersStep DEF CountersInv

\* For any number of threads and calls and any width of the counters, however the
\* compare-and-swap loops of record_ai_call interleave: with no call in progress, the extremes it
\* keeps are those of all the calls there were.
THEOREM ExtremesExactHolds == ServicesSpec => []ExtremesExact
<1>1. ServicesInit => CountersInv
  BY CountersInvInit DEF ServicesInit
<1>2. CountersInv /\ [ServicesNext]_servicesVars => CountersInv'
  BY CountersInvNext
<1>3. CountersInv => ExtremesExact
  BY DEF CountersInv, MaxInv, MinInv, ExtremesExact, MaxExact, MinExact
<1> QED BY <1>1, <1>2, <1>3, PTL DEF ServicesSpec

\* No step of an overlapping record_ai_call takes back a larger maximum or a smaller minimum.
THEOREM MonotoneHolds == ServicesSpec => Monotone
<1>1. ServicesInit => CountersInv
  BY CountersInvInit DEF ServicesInit
<1>2. CountersInv /\ [ServicesNext]_servicesVars => CountersInv'
  BY CountersInvNext
<1>3. CountersInv /\ [ServicesNext]_servicesVars
      => [ai_tokens_max' >= ai_tokens_max /\ ai_tokens_min' <= ai_tokens_min]_counterVars
  BY CountersInvNext, CountersMonotoneStep DEF counterVars
<1> QED BY <1>1, <1>2, <1>3, PTL DEF ServicesSpec, Monotone
=============================================================================
