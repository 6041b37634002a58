---------------------------- MODULE FileEvents_proofs ----------------------------
(***************************************************************************)
(* Proofs about FileEvents, for any set of files and symbols and any       *)
(* number of changes: the types, the stored skeletons (StoredInv), what is *)
(* indexed (SymbolsInv) and the graphs (GraphsInv).  Each of the three     *)
(* invariants says how far the step of the loop has come with the file it  *)
(* has in hand; the lemmas before the last one are about the operators of  *)
(* CodeGraphs.                                                             *)
(***************************************************************************)
EXTENDS FileEvents, FiniteSetTheorems, SequenceTheorems, TLAPS

Content == [syms : SUBSET Symbols, imports : SUBSET Files]
Deleting == [pc : {"delete_fsi", "delete_fusi"}, file : Files]
Reading == [pc : {"skeleton", "symbols", "graph", "snapshots"}, file : Files, content : Content]

TypeOK ==
  /\ disk \in [Files -> Content \cup {None}]
  /\ events \in Seq({"modify", "remove"} \X Files)
  /\ step \in {idle} \cup Deleting \cup Reading
  /\ DOMAIN cache \subseteq Files /\ cache \in [DOMAIN cache -> Content]
  /\ indexer \in [pc : {"start"}] \cup [pc : {"walk"}, todo : SUBSET Files]
                 \cup [pc : {"write"}, todo : SUBSET Files, file : Files, content : Content]

LEMMA ContentType ==
  /\ None \notin Content /\ \A c \in Content : c # None
  /\ \A f \in Files : Contents(f) \subseteq Content
  /\ [syms |-> Symbols, imports |-> {}] \in Content
<1>1. ASSUME NEW c \in Content PROVE c # None
  <2>1. "syms" \in DOMAIN c /\ "syms" \notin DOMAIN None
    BY DEF Content, None
  <2> QED BY <2>1
<1> QED BY <1>1 DEF Contents, Content

LEMMA TypeInit == Init => TypeOK
<1> SUFFICES ASSUME Init PROVE TypeOK
  OBVIOUS
<1>1. disk \in [Files -> Content \cup {None}]
  BY ContentType DEF Init
<1>2. DOMAIN cache = {}
  BY DEF Init
<1> QED BY <1>1, <1>2 DEF Init, TypeOK

\* The user's changes keep the files, and the events are about files.
LEMMA ChangeType ==
  ASSUME TypeOK, NEW files \in Seq(Files), NEW kind \in {"modify", "remove"}, Change(files, kind),
         disk' \in [Files -> Content \cup {None}]
  PROVE  TypeOK'
<1>1. [i \in DOMAIN files |-> <<kind, files[i]>>] \in Seq({"modify", "remove"} \X Files)
  OBVIOUS
<1>2. events' \in Seq({"modify", "remove"} \X Files)
  BY <1>1 DEF Change, TypeOK
<1> QED BY <1>2 DEF Change, TypeOK, loop

LEMMA TypeStep ==
  ASSUME TypeOK, [Next]_vars PROVE TypeOK'
<1> USE DEF TypeOK
<1>1. CASE Save
  <2>1. PICK f \in Files : \E c \in Contents(f) : disk' = [disk EXCEPT ![f] = c] /\ Change(<<f>>, "modify")
    BY <1>1 DEF Save
  <2>2. disk' \in [Files -> Content \cup {None}] /\ <<f>> \in Seq(Files)
    BY <2>1, ContentType
  <2> QED BY <2>1, <2>2, ChangeType
<1>2. CASE Delete
  <2>1. PICK f \in Files : disk' = [disk EXCEPT ![f] = None] /\ Change(<<f>>, "remove")
    BY <1>2 DEF Delete
  <2>2. disk' \in [Files -> Content \cup {None}] /\ <<f>> \in Seq(Files)
    BY <2>1
  <2> QED BY <2>1, <2>2, ChangeType
<1>3. CASE Rename
  <2>1. PICK f, g \in Files : disk' = [disk EXCEPT ![f] = None, ![g] = disk[f]] /\ Change(<<f, g>>, "modify")
    BY <1>3 DEF Rename
  <2>2. disk' \in [Files -> Content \cup {None}] /\ <<f, g>> \in Seq(Files)
    BY <2>1
  <2> QED BY <2>1, <2>2, ChangeType
<1>4. ASSUME next_event PROVE events' \in Seq({"modify", "remove"} \X Files) /\ Head(events)[2] \in Files /\ disk' = disk
  BY <1>4 DEF next_event
<1>5. CASE ProcessDeletion
  <2>1. PICK f : f = Head(events)[2]
    OBVIOUS
  <2>2. f \in Files /\ events' \in Seq({"modify", "remove"} \X Files) /\ UNCHANGED <<disk, indexer>>
    BY <1>4, <1>5, <2>1 DEF ProcessDeletion
  <2>3. CASE UNCHANGED loop
    BY <2>2, <2>3 DEF loop
  <2>4. CASE ~UNCHANGED loop
    <3>1. cache' = without(cache, {f}) /\ step' = [pc |-> "delete_fsi", file |-> f]
      BY <1>5, <2>1, <2>4 DEF ProcessDeletion
    <3>2. step' \in Deleting
      BY <2>2, <3>1 DEF Deleting
    <3> QED BY <2>2, <3>1, <3>2 DEF without
  <2> QED BY <2>3, <2>4
<1>6. CASE DeleteSkeleton
  <2>1. step' \in Deleting
    BY <1>6 DEF DeleteSkeleton, Deleting, Reading, idle
  <2> QED BY <1>6, <2>1 DEF DeleteSkeleton, user
<1>7. CASE DeleteSymbols
  BY <1>7 DEF DeleteSymbols, user
<1>8. CASE ReadModified
  <2>1. PICK f : f = Head(events)[2]
    OBVIOUS
  <2>2. f \in Files /\ events' \in Seq({"modify", "remove"} \X Files) /\ UNCHANGED <<disk, indexer>>
    BY <1>4, <1>8, <2>1 DEF ReadModified
  <2>3. CASE disk[f] = None
    BY <1>8, <2>1, <2>2, <2>3 DEF ReadModified, loop
  <2>4. CASE disk[f] # None
    <3>1. cache' = with(cache, f, disk[f]) /\ step' = [pc |-> "skeleton", file |-> f, content |-> disk[f]]
      BY <1>8, <2>1, <2>4 DEF ReadModified, insert
    <3>2. step' \in Reading /\ disk[f] \in Content
      BY <2>2, <2>4, <3>1 DEF Reading
    <3> QED BY <2>2, <3>1, <3>2 DEF with
  <2> QED BY <2>3, <2>4
<1>9. CASE PersistSkeleton
  <2>1. step' \in Reading
    BY <1>9 DEF PersistSkeleton, Deleting, Reading, idle
  <2> QED BY <1>9, <2>1 DEF PersistSkeleton, user
<1>10. CASE PersistSymbols
  <2>1. step' \in Reading
    BY <1>10 DEF PersistSymbols, Deleting, Reading, idle
  <2> QED BY <1>10, <2>1 DEF PersistSymbols, user
<1>11. CASE UpdateGraph
  <2>1. step' \in Reading
    BY <1>11 DEF UpdateGraph, Deleting, Reading, idle
  <2> QED BY <1>11, <2>1 DEF UpdateGraph, user
<1>12. CASE PersistSnapshots
  BY <1>12 DEF PersistSnapshots, user
<1>13. CASE CollectFiles
  BY <1>13 DEF CollectFiles, user, loop
<1>14. CASE indexer.pc = "walk" /\ IndexFile
  <2>1. indexer \in [pc : {"walk"}, todo : SUBSET Files]
    BY <1>14
  <2>2. PICK f \in indexer.todo :
          indexer' = IF disk[f] = None THEN [indexer EXCEPT !.todo = @ \ {f}]
                     ELSE [pc |-> "write", todo |-> indexer.todo \ {f}, file |-> f, content |-> disk[f]]
    BY <1>14 DEF IndexFile
  <2>3. indexer' \in [pc : {"walk"}, todo : SUBSET Files] \cup [pc : {"write"}, todo : SUBSET Files, file : Files, content : Content]
    BY <2>1, <2>2
  <2> QED BY <1>14, <2>3 DEF IndexFile, user, loop
<1>15. CASE WriteIndexed
  <2>1. indexer' \in [pc : {"walk"}, todo : SUBSET Files]
    BY <1>15 DEF WriteIndexed
  <2> QED BY <1>15, <2>1 DEF WriteIndexed, user, loop
<1>16. CASE UNCHANGED vars
  BY <1>16 DEF vars, user, loop
<1> QED BY <1>1, <1>2, <1>3, <1>5, <1>6, <1>7, <1>8, <1>9, <1>10, <1>11, <1>12, <1>13, <1>14, <1>15, <1>16
       DEF Next, Loop, Index

\* What the loop and the indexer have in hand are files and contents.
THEOREM TypeCorrect == Spec => []TypeOK
BY TypeInit, TypeStep, PTL DEF Spec

-----------------------------------------------------------------------------
(* What is stored.                                                          *)

At(pc, f) == step.pc = pc /\ step.file = f

\* No event about a file waits.
Quiet(f) == \A i \in DOMAIN events : events[i][2] # f

\* The event about a file that waits last tells whether it is there.
LastTells ==
  \A i \in DOMAIN events : LET f == events[i][2] IN
    (\A j \in DOMAIN events : j > i => events[j][2] # f)
    => IF disk[f] = None THEN f \in moved \/ events[i][1] = "remove" ELSE events[i][1] = "modify"

\* The indexer comes to a file only yet.
Ahead(f) == \/ indexer.pc = "start"
            \/ indexer.pc \in {"walk", "write"} /\ f \in indexer.todo
            \/ indexer.pc = "write" /\ indexer.file = f

Fresh(f) ==
  IF disk[f] = None THEN f \in moved \/ f \notin DOMAIN fsi
  ELSE Ahead(f) \/ (f \in DOMAIN fsi /\ fsi[f].content = disk[f])

StoredOf(f) ==
  IF At("delete_fsi", f) THEN disk[f] = None
  ELSE IF At("skeleton", f) THEN disk[f] # None /\ step.content = disk[f]
  ELSE f \in lagging \cup raced \/ Fresh(f)

SnapshotInv ==
  /\ step.pc \in {"delete_fsi", "delete_fusi"} => behind
  /\ step = idle /\ ~behind => snapshot = observed

StoredInv == TypeOK /\ LastTells /\ (\A f \in Files : Quiet(f) => StoredOf(f)) /\ SnapshotInv

LEMMA StoredInit == Init => StoredInv
<1> SUFFICES ASSUME Init PROVE StoredInv
  OBVIOUS
<1>1. step = idle /\ step.pc = "idle" /\ events = <<>> /\ fsi = <<>> /\ indexer.pc = "start" /\ behind
  BY DEF Init, idle
<1>2. LastTells /\ SnapshotInv
  BY <1>1 DEF LastTells, SnapshotInv
<1>3. ASSUME NEW f \in Files PROVE StoredOf(f)
  BY <1>1 DEF StoredOf, At, Fresh, Ahead
<1> QED BY <1>2, <1>3, TypeInit DEF StoredInv

\* After a change an event tells of each file that changed.
LEMMA ChangeStored ==
  ASSUME StoredInv, NEW files \in Seq(Files), NEW kind, Change(files, kind),
         \A k \in DOMAIN files : IF disk'[files[k]] = None THEN files[k] \in moved' \/ kind = "remove" ELSE kind = "modify",
         \A f \in Files : (\A k \in DOMAIN files : files[k] # f) => disk'[f] = disk[f] /\ (f \in moved' <=> f \in moved)
  PROVE  LastTells' /\ (\A f \in Files : Quiet(f)' => StoredOf(f)') /\ SnapshotInv'
<1> DEFINE n == Len(events)
<1>0. /\ events \in Seq({"modify", "remove"} \X Files) /\ n \in Nat /\ Len(files) \in Nat
      /\ UNCHANGED <<loop, fsi, indexer, raced>> /\ DOMAIN events = 1..n
  BY DEF StoredInv, TypeOK, Change
<1>1. /\ DOMAIN events' = 1..n + Len(files)
      /\ \A i \in 1..n : events'[i] = events[i]
      /\ \A k \in DOMAIN files : n + k \in DOMAIN events' /\ events'[n + k] = <<kind, files[k]>>
      /\ \A i \in DOMAIN events' : i > n => i - n \in DOMAIN files
  <2>1. PICK s : s = [i \in DOMAIN files |-> <<kind, files[i]>>]
    OBVIOUS
  <2>2. s \in Seq({kind} \X Files) /\ Len(s) = Len(files) /\ DOMAIN s = DOMAIN files /\ events' = events \o s
    BY <2>1 DEF Change
  <2>3. /\ \E S : events' \in Seq(S)
        /\ Len(events') = n + Len(files)
        /\ \A i \in 1..n + Len(files) : events'[i] = IF i <= n THEN events[i] ELSE s[i - n]
    <3>1. PICK S : S = ({"modify", "remove"} \X Files) \cup ({kind} \X Files)
      OBVIOUS
    <3>2. s \in Seq(S) /\ events \in Seq(S)
      BY <1>0, <2>2, <3>1
    <3>3. /\ events \o s \in Seq(S) /\ Len(events \o s) = Len(events) + Len(s)
          /\ \A i \in 1..Len(events) + Len(s) : (events \o s)[i] = IF i <= Len(events) THEN events[i] ELSE s[i - Len(events)]
      BY <3>2, ConcatProperties
    <3> QED BY <2>2, <3>3
  <2>4. DOMAIN events' = 1..n + Len(files) /\ DOMAIN files = 1..Len(files)
    BY <2>3
  <2>5. ASSUME NEW k \in DOMAIN files PROVE n + k \in DOMAIN events' /\ events'[n + k] = <<kind, files[k]>>
    <3>1. n + k \in 1..n + Len(files) /\ ~(n + k <= n) /\ (n + k) - n = k
      BY <1>0, <2>4
    <3> QED BY <2>1, <2>3, <2>4, <3>1
  <2>6. \A i \in 1..n : events'[i] = events[i]
    BY <1>0, <2>3
  <2>7. \A i \in DOMAIN events' : i > n => i - n \in DOMAIN files
    BY <1>0, <2>4
  <2> QED BY <2>4, <2>5, <2>6, <2>7
<1> HIDE DEF n
<1>2. ASSUME NEW f \in Files, Quiet(f)' PROVE StoredOf(f)'
  <2>1. \A k \in DOMAIN files : files[k] # f
    BY <1>1, <1>2 DEF Quiet
  <2>2. Quiet(f)
    BY <1>0, <1>1, <1>2 DEF Quiet
  <2>3. disk'[f] = disk[f] /\ (f \in moved' <=> f \in moved) /\ StoredOf(f)
    BY <2>1, <2>2 DEF StoredInv
  <2> QED BY <1>0, <2>3 DEF loop, StoredOf, At, Fresh, Ahead
<1>3. LastTells'
  <2> SUFFICES ASSUME NEW i \in DOMAIN events', NEW f, f = events'[i][2],
                      \A j \in DOMAIN events' : j > i => events'[j][2] # f
               PROVE  IF disk'[f] = None THEN f \in moved' \/ events'[i][1] = "remove" ELSE events'[i][1] = "modify"
    BY DEF LastTells
  <2>1. CASE i > n
    <3>1. PICK k \in DOMAIN files : i = n + k
      <4>1. i - n \in DOMAIN files /\ i \in Int /\ n \in Int
        BY <1>0, <1>1, <2>1
      <4>2. i = n + (i - n)
        BY <4>1
      <4> QED BY <4>1, <4>2
    <3>2. events'[i] = <<kind, files[k]>> /\ f = files[k]
      BY <1>1, <3>1
    <3> QED BY <3>2
  <2>2. CASE i \in 1..n
    <3>1. events'[i] = events[i] /\ f \in Files
      BY <1>0, <1>1, <2>2
    <3>2. \A k \in DOMAIN files : files[k] # f
      <4> SUFFICES ASSUME NEW k \in DOMAIN files PROVE files[k] # f
        OBVIOUS
      <4>1. n + k > i /\ n + k \in DOMAIN events' /\ events'[n + k][2] = files[k]
        BY <1>0, <1>1, <2>2
      <4> QED BY <4>1
    <3>3. \A j \in DOMAIN events : j > i => events[j][2] # f
      BY <1>0, <1>1, <2>2
    <3>4. i \in DOMAIN events
      BY <1>0, <2>2
    <3>5. IF disk[f] = None THEN f \in moved \/ events[i][1] = "remove" ELSE events[i][1] = "modify"
      BY <3>1, <3>3, <3>4 DEF StoredInv, LastTells
    <3> QED BY <3>1, <3>2, <3>5
  <2> QED BY <1>0, <1>1, <2>1, <2>2
<1>4. SnapshotInv'
  BY <1>0 DEF StoredInv, SnapshotInv, loop, observed, build_file_map
<1> QED BY <1>2, <1>3, <1>4

\* The event the loop takes may have been the last about its file, and then it tells of it.
LEMMA EventTaken ==
  ASSUME TypeOK, LastTells, next_event, NEW f, f = Head(events)[2]
  PROVE  /\ LastTells' /\ f \in Files
         /\ \A g \in Files \ {f} : Quiet(g)' => Quiet(g)
         /\ Quiet(f)' => IF disk[f] = None THEN f \in moved \/ Head(events)[1] = "remove"
                         ELSE Head(events)[1] = "modify"
<1>0. /\ events \in Seq({"modify", "remove"} \X Files) /\ events # <<>> /\ events' = Tail(events)
      /\ UNCHANGED <<disk, moved>> /\ Len(events) \in Nat /\ Len(events) # 0
  BY DEF TypeOK, next_event
<1>1. /\ DOMAIN events' = 1..Len(events) - 1 /\ \A i \in 1..Len(events) - 1 : events'[i] = events[i + 1]
      /\ Head(events) = events[1] /\ DOMAIN events = 1..Len(events)
  BY <1>0
<1>2. ASSUME NEW g \in Files \ {f}, Quiet(g)' PROVE Quiet(g)
  <2> SUFFICES ASSUME NEW i \in DOMAIN events PROVE events[i][2] # g
    BY DEF Quiet
  <2>1. CASE i = 1
    BY <1>1, <2>1
  <2>2. CASE i # 1
    <3>1. i - 1 \in DOMAIN events' /\ events'[i - 1] = events[i]
      BY <1>0, <1>1, <2>2
    <3> QED BY <1>2, <3>1 DEF Quiet
  <2> QED BY <2>1, <2>2
<1>3. ASSUME Quiet(f)'
      PROVE  IF disk[f] = None THEN f \in moved \/ Head(events)[1] = "remove" ELSE Head(events)[1] = "modify"
  <2>1. \A j \in DOMAIN events : j > 1 => events[j][2] # f
    <3> SUFFICES ASSUME NEW j \in DOMAIN events, j > 1 PROVE events[j][2] # f
      OBVIOUS
    <3>1. j - 1 \in DOMAIN events' /\ events'[j - 1] = events[j]
      BY <1>0, <1>1
    <3> QED BY <1>3, <3>1 DEF Quiet
  <2>2. 1 \in DOMAIN events /\ f = events[1][2]
    BY <1>0, <1>1
  <2> QED BY <1>1, <2>1, <2>2 DEF LastTells
<1>4. LastTells'
  <2> SUFFICES ASSUME NEW i \in DOMAIN events', NEW g, g = events'[i][2],
                      \A j \in DOMAIN events' : j > i => events'[j][2] # g
               PROVE  IF disk[g] = None THEN g \in moved \/ events'[i][1] = "remove" ELSE events'[i][1] = "modify"
    BY <1>0 DEF LastTells
  <2>1. i + 1 \in DOMAIN events /\ events[i + 1] = events'[i]
    BY <1>0, <1>1
  <2>2. ASSUME NEW j \in DOMAIN events, j > i + 1 PROVE events[j][2] # g
    <3>1. j - 1 \in DOMAIN events' /\ events'[j - 1] = events[j] /\ j - 1 > i
      BY <1>0, <1>1, <2>2
    <3> QED BY <3>1
  <2> QED BY <2>1, <2>2 DEF LastTells
<1>5. f \in Files
  BY <1>0, <1>1
<1> QED BY <1>2, <1>3, <1>4, <1>5

\* The user's changes.
LEMMA StoredChange ==
  ASSUME StoredInv, Save \/ Delete \/ Rename
  PROVE  LastTells' /\ (\A f \in Files : Quiet(f)' => StoredOf(f)') /\ SnapshotInv'
<1>0. disk \in [Files -> Content \cup {None}]
  BY DEF StoredInv, TypeOK
<1>1. CASE Save
  <2>1. PICK f \in Files : \E c \in Contents(f) : /\ disk' = [disk EXCEPT ![f] = c] /\ moved' = moved \ {f}
                                               /\ Change(<<f>>, "modify")
    BY <1>1 DEF Save
  <2>2. disk'[f] # None /\ \A g \in Files \ {f} : disk'[g] = disk[g]
    BY <1>0, <2>1, ContentType
  <2>3. PICK files : files = <<f>>
    OBVIOUS
  <2>4. files \in Seq(Files) /\ DOMAIN files = {1} /\ files[1] = f /\ Change(files, "modify")
    BY <2>1, <2>3
  <2> QED BY <2>1, <2>2, <2>4, ChangeStored
<1>2. CASE Delete
  <2>1. PICK f \in Files : disk' = [disk EXCEPT ![f] = None] /\ moved' = moved \ {f} /\ Change(<<f>>, "remove")
    BY <1>2 DEF Delete
  <2>2. disk'[f] = None /\ \A g \in Files \ {f} : disk'[g] = disk[g]
    BY <1>0, <2>1
  <2>3. PICK files : files = <<f>>
    OBVIOUS
  <2>4. files \in Seq(Files) /\ DOMAIN files = {1} /\ files[1] = f /\ Change(files, "remove")
    BY <2>1, <2>3
  <2> QED BY <2>1, <2>2, <2>4, ChangeStored
<1>3. CASE Rename
  <2>1. PICK f, g \in Files : /\ disk[f] # None /\ disk[g] = None /\ disk' = [disk EXCEPT ![f] = None, ![g] = disk[f]]
                             /\ moved' = (moved \ {g}) \cup {f} /\ Change(<<f, g>>, "modify")
    BY <1>3 DEF Rename
  <2>2. disk'[f] = None /\ disk'[g] # None /\ f # g /\ \A h \in Files \ {f, g} : disk'[h] = disk[h]
    BY <1>0, <2>1
  <2>3. PICK files : files = <<f, g>>
    OBVIOUS
  <2>4. files \in Seq(Files) /\ DOMAIN files = {1, 2} /\ files[1] = f /\ files[2] = g /\ Change(files, "modify")
    BY <2>1, <2>3
  <2> QED BY <2>1, <2>2, <2>4, ChangeStored
<1> QED BY <1>1, <1>2, <1>3

\* The loop takes an event.
LEMMA StoredTaken ==
  ASSUME StoredInv, ProcessDeletion \/ ReadModified
  PROVE  LastTells' /\ (\A f \in Files : Quiet(f)' => StoredOf(f)') /\ SnapshotInv'
<1>1. PICK d : d = Head(events)[2]
  OBVIOUS
<1>2. next_event
  BY DEF ProcessDeletion, ReadModified
<1>3. /\ LastTells' /\ d \in Files
      /\ \A g \in Files \ {d} : Quiet(g)' => Quiet(g)
      /\ Quiet(d)' => IF disk[d] = None THEN d \in moved \/ Head(events)[1] = "remove" ELSE Head(events)[1] = "modify"
  BY <1>1, <1>2, EventTaken DEF StoredInv
<1>4. step = idle /\ step.pc = "idle" /\ UNCHANGED <<disk, moved, fsi, indexer, raced>>
  BY <1>2 DEF next_event, idle, ProcessDeletion, ReadModified
<1>5. CASE ProcessDeletion
  <2>1. CASE disk[d] # None
    <3>1. UNCHANGED loop
      BY <1>1, <1>5, <2>1 DEF ProcessDeletion, ignored
    <3>2. SnapshotInv'
      BY <3>1 DEF StoredInv, SnapshotInv, loop, observed, build_file_map
    <3>3. ~Quiet(d)'
      BY <1>3, <1>5, <2>1 DEF ProcessDeletion
    <3>4. ASSUME NEW f \in Files, Quiet(f)' PROVE StoredOf(f)'
      <4>1. Quiet(f)
        BY <1>3, <3>3, <3>4
      <4> QED BY <1>4, <3>1, <4>1 DEF StoredInv, StoredOf, At, Fresh, Ahead, loop
    <3> QED BY <1>3, <3>2, <3>4
  <2>2. CASE disk[d] = None
    <3>1. step' = [pc |-> "delete_fsi", file |-> d] /\ lagging' = lagging \ {d} /\ behind' = TRUE
      BY <1>1, <1>5, <2>2 DEF ProcessDeletion, ignored
    <3>2. SnapshotInv'
      BY <3>1 DEF SnapshotInv, idle
    <3>3. ASSUME NEW f \in Files, Quiet(f)' PROVE StoredOf(f)'
      <4>1. CASE f = d
        BY <1>4, <2>2, <3>1, <4>1 DEF StoredOf, At
      <4>2. CASE f # d
        <5>1. StoredOf(f)
          BY <1>3, <3>3, <4>2 DEF StoredInv
        <5>2. f \in lagging \cup raced \/ Fresh(f)
          BY <1>4, <5>1 DEF StoredOf, At
        <5>3. f \in lagging' \cup raced' \/ Fresh(f)'
          BY <1>4, <3>1, <4>2, <5>2 DEF Fresh, Ahead
        <5> QED BY <3>1, <4>2, <5>3 DEF StoredOf, At
      <4> QED BY <4>1, <4>2
    <3> QED BY <1>3, <3>2, <3>3
  <2> QED BY <2>1, <2>2
<1>6. CASE ReadModified
  <2>1. CASE disk[d] = None
    <3>1. UNCHANGED loop
      BY <1>1, <1>6, <2>1 DEF ReadModified
    <3>2. SnapshotInv'
      BY <3>1 DEF StoredInv, SnapshotInv, loop, observed, build_file_map
    <3>3. Quiet(d)' => d \in moved
      BY <1>3, <1>6, <2>1 DEF ReadModified
    <3>4. ASSUME NEW f \in Files, Quiet(f)' PROVE StoredOf(f)'
      <4>1. CASE f = d
        BY <1>4, <2>1, <3>1, <3>3, <3>4, <4>1 DEF StoredOf, At, Fresh, loop
      <4>2. CASE f # d
        BY <1>3, <1>4, <3>1, <3>4, <4>2 DEF StoredInv, StoredOf, At, Fresh, Ahead, loop
      <4> QED BY <4>1, <4>2
    <3> QED BY <1>3, <3>2, <3>4
  <2>2. CASE disk[d] # None
    <3>1. step' = [pc |-> "skeleton", file |-> d, content |-> disk[d]] /\ UNCHANGED <<lagging, behind>>
      BY <1>1, <1>6, <2>2 DEF ReadModified
    <3>2. SnapshotInv'
      BY <3>1 DEF SnapshotInv, idle
    <3>3. ASSUME NEW f \in Files, Quiet(f)' PROVE StoredOf(f)'
      <4>1. CASE f = d
        BY <1>4, <2>2, <3>1, <4>1 DEF StoredOf, At
      <4>2. CASE f # d
        <5>1. f \in lagging \cup raced \/ Fresh(f)
          BY <1>3, <1>4, <3>3, <4>2 DEF StoredInv, StoredOf, At
        <5>2. f \in lagging' \cup raced' \/ Fresh(f)'
          BY <1>4, <3>1, <5>1 DEF Fresh, Ahead
        <5> QED BY <3>1, <4>2, <5>2 DEF StoredOf, At
      <4> QED BY <4>1, <4>2
    <3> QED BY <1>3, <3>2, <3>3
  <2> QED BY <2>1, <2>2
<1> QED BY <1>5, <1>6

\* The loop on its way through the storage calls.
LEMMA StoredLoop ==
  ASSUME StoredInv, DeleteSkeleton \/ DeleteSymbols \/ PersistSkeleton \/ PersistSymbols \/ UpdateGraph \/ PersistSnapshots
  PROVE  LastTells' /\ (\A f \in Files : Quiet(f)' => StoredOf(f)') /\ SnapshotInv'
<1> DEFINE d == step.file
<1>0. step \in {idle} \cup Deleting \cup Reading /\ DOMAIN fsi' = DOMAIN fsi'
  BY DEF StoredInv, TypeOK
<1>1. UNCHANGED <<disk, events, moved, indexer>>
  BY DEF DeleteSkeleton, DeleteSymbols, PersistSkeleton, PersistSymbols, UpdateGraph, PersistSnapshots, user
<1>2. LastTells'
  BY <1>1 DEF StoredInv, LastTells
<1> SUFFICES (\A f \in Files : Quiet(f)' => StoredOf(f)') /\ SnapshotInv'
  BY <1>2
<1>3. \A f \in Files : Quiet(f)' => StoredOf(f)
  BY <1>1 DEF StoredInv, Quiet
<1>4. CASE DeleteSkeleton
  <2>1. /\ step.pc = "delete_fsi" /\ step \in Deleting /\ step' = [pc |-> "delete_fusi", file |-> d]
        /\ fsi' = without(fsi, {d}) /\ raced' = raced \ {d} /\ UNCHANGED <<lagging, behind>>
    BY <1>0, <1>4 DEF DeleteSkeleton, Deleting, Reading, idle
  <2>2. SnapshotInv'
    BY <2>1 DEF StoredInv, SnapshotInv, idle
  <2>3. ASSUME NEW f \in Files, Quiet(f)' PROVE StoredOf(f)'
    <3>1. StoredOf(f)
      BY <1>3, <2>3
    <3>2. CASE f = d
      BY <1>1, <2>1, <3>1, <3>2 DEF StoredOf, At, Fresh, without
    <3>3. CASE f # d
      <4>1. f \in lagging \cup raced \/ Fresh(f)
        BY <2>1, <3>1, <3>3 DEF StoredOf, At
      <4>2. (f \in DOMAIN fsi' <=> f \in DOMAIN fsi) /\ (f \in DOMAIN fsi => fsi'[f] = fsi[f])
        BY <2>1, <3>3 DEF without
      <4>3. f \in lagging' \cup raced' \/ Fresh(f)'
        BY <1>1, <2>1, <3>3, <4>1, <4>2 DEF Fresh, Ahead
      <4> QED BY <2>1, <4>3 DEF StoredOf, At
    <3> QED BY <3>2, <3>3
  <2> QED BY <2>2, <2>3
<1>5. CASE DeleteSymbols
  <2>1. step.pc = "delete_fusi" /\ step' = idle /\ UNCHANGED <<fsi, raced, lagging, behind>>
    BY <1>5 DEF DeleteSymbols
  <2>2. SnapshotInv'
    BY <2>1 DEF StoredInv, SnapshotInv, idle
  <2>3. ASSUME NEW f \in Files, Quiet(f)' PROVE StoredOf(f)'
    <3>1. f \in lagging \cup raced \/ Fresh(f)
      BY <1>3, <2>1, <2>3 DEF StoredOf, At
    <3> QED BY <1>1, <2>1, <3>1 DEF StoredOf, At, Fresh, Ahead, idle
  <2> QED BY <2>2, <2>3
<1>6. CASE PersistSkeleton
  <2>1. step.pc = "skeleton" /\ step \in Reading /\ step' \in Reading /\ step'.pc \in {"symbols", "graph"} /\ step'.file = d
    BY <1>0, <1>6 DEF PersistSkeleton, Deleting, Reading, idle
  <2>2. SnapshotInv'
    BY <2>1 DEF SnapshotInv, idle
  <2>3. ASSUME NEW f \in Files, Quiet(f)' PROVE StoredOf(f)'
    <3>1. StoredOf(f) /\ UNCHANGED disk
      BY <1>1, <1>3, <2>3
    <3>2. CASE f = d
      <4>1. disk[f] # None /\ step.content = disk[f]
        BY <2>1, <3>1, <3>2 DEF StoredOf, At
      <4>2. f \in lagging' \/ (f \in DOMAIN fsi' /\ fsi'[f].content = disk[f])
        BY <1>6, <3>2, <4>1 DEF PersistSkeleton, insert, with, built
      <4> QED BY <2>1, <3>1, <4>1, <4>2 DEF StoredOf, At, Fresh
    <3>3. CASE f # d
      <4>1. f \in lagging \cup raced \/ Fresh(f)
        BY <2>1, <3>1, <3>3 DEF StoredOf, At
      <4>2. (f \in DOMAIN fsi' <=> f \in DOMAIN fsi) /\ (f \in DOMAIN fsi => fsi'[f] = fsi[f])
        BY <1>6, <3>3 DEF PersistSkeleton, insert, with
      <4>3. (f \in lagging' <=> f \in lagging) /\ (f \in raced' <=> f \in raced)
        BY <1>6, <3>3 DEF PersistSkeleton
      <4>4. f \in lagging' \cup raced' \/ Fresh(f)'
        BY <1>1, <4>1, <4>2, <4>3 DEF Fresh, Ahead
      <4> QED BY <2>1, <4>4 DEF StoredOf, At
    <3> QED BY <3>2, <3>3
  <2> QED BY <2>2, <2>3
<1>7. CASE PersistSymbols \/ UpdateGraph \/ PersistSnapshots
  <2>1. /\ step.pc \in {"symbols", "graph", "snapshots"} /\ UNCHANGED <<fsi, raced, lagging>>
        /\ step' = idle \/ step'.pc \in {"graph", "snapshots"}
    BY <1>0, <1>7 DEF PersistSymbols, UpdateGraph, PersistSnapshots, Reading, Deleting, idle
  <2>2. SnapshotInv'
    <3>1. CASE PersistSnapshots
      BY <3>1 DEF PersistSnapshots, SnapshotInv, idle, observed, build_file_map
    <3>2. CASE ~PersistSnapshots
      <4>1. step' # idle /\ step'.pc \in {"graph", "snapshots"}
        BY <1>0, <1>7, <3>2 DEF PersistSymbols, UpdateGraph, Reading, Deleting, idle
      <4> QED BY <4>1 DEF SnapshotInv
    <3> QED BY <3>1, <3>2
  <2>3. ASSUME NEW f \in Files, Quiet(f)' PROVE StoredOf(f)'
    <3>1. f \in lagging \cup raced \/ Fresh(f)
      BY <1>3, <2>1, <2>3 DEF StoredOf, At
    <3> QED BY <1>1, <2>1, <3>1 DEF StoredOf, At, Fresh, Ahead, idle
  <2> QED BY <2>2, <2>3
<1> QED BY <1>4, <1>5, <1>6, <1>7

\* The indexer, which does not wait for the loop.
LEMMA StoredIndex ==
  ASSUME StoredInv, Index
  PROVE  LastTells' /\ (\A f \in Files : Quiet(f)' => StoredOf(f)') /\ SnapshotInv'
<1>1. UNCHANGED <<disk, events, moved, step, behind, snapshot, graph, cache, deleted, lagging>>
  BY DEF Index, CollectFiles, IndexFile, WriteIndexed, user, loop
<1>2. LastTells' /\ SnapshotInv'
  BY <1>1 DEF StoredInv, LastTells, SnapshotInv, observed, build_file_map
<1>3. ASSUME NEW f \in Files, Quiet(f)',
             f \in raced => f \in raced' \/ Fresh(f)', Fresh(f) => Fresh(f)' \/ f \in raced'
      PROVE  StoredOf(f)'
  <2>1. Quiet(f) /\ StoredOf(f)
    BY <1>1, <1>3 DEF StoredInv, Quiet
  <2> QED BY <1>1, <1>3, <2>1 DEF StoredOf, At
<1>4. CASE CollectFiles
  <2>1. /\ UNCHANGED <<fsi, raced>> /\ indexer.pc = "start"
        /\ indexer' = [pc |-> "walk", todo |-> {f \in Files : disk[f] # None}]
    BY <1>4 DEF CollectFiles
  <2>2. \A f \in Files : Fresh(f) => Fresh(f)'
    BY <1>1, <2>1 DEF Fresh, Ahead
  <2> QED BY <1>2, <1>3, <2>1, <2>2
<1>5. CASE indexer.pc = "walk" /\ IndexFile
  <2>1. PICK g \in indexer.todo :
          indexer' = IF disk[g] = None THEN [indexer EXCEPT !.todo = @ \ {g}]
                     ELSE [pc |-> "write", todo |-> indexer.todo \ {g}, file |-> g, content |-> disk[g]]
    BY <1>5 DEF IndexFile
  <2>2. UNCHANGED <<fsi, raced>> /\ indexer.pc = "walk" /\ indexer \in [pc : {"walk"}, todo : SUBSET Files]
    BY <1>5 DEF IndexFile, StoredInv, TypeOK
  <2>3. ASSUME NEW f \in Files, Fresh(f) PROVE Fresh(f)'
    <3>1. CASE disk[g] = None
      <4>1. indexer'.pc = "walk" /\ indexer'.todo = indexer.todo \ {g}
        BY <2>1, <2>2, <3>1
      <4> QED BY <1>1, <2>2, <2>3, <3>1, <4>1 DEF Fresh, Ahead
    <3>2. CASE disk[g] # None
      <4>1. indexer'.pc = "write" /\ indexer'.todo = indexer.todo \ {g} /\ indexer'.file = g
        BY <2>1, <3>2
      <4> QED BY <1>1, <2>2, <2>3, <4>1 DEF Fresh, Ahead
    <3> QED BY <3>1, <3>2
  <2> QED BY <1>2, <1>3, <2>2, <2>3
<1>6. CASE WriteIndexed
  <2>1. PICK g : g = indexer.file
    OBVIOUS
  <2>2. /\ indexer.pc = "write" /\ fsi' = with(fsi, g, built(g, indexer.content, NoEdges))
        /\ raced' = IF disk[g] # indexer.content THEN raced \cup {g} ELSE raced \ {g}
        /\ indexer' = [pc |-> "walk", todo |-> indexer.todo] /\ indexer.content # None
    BY <1>6, <2>1, ContentType DEF WriteIndexed, insert, StoredInv, TypeOK
  <2>3. ASSUME NEW f \in Files, f # g
        PROVE  (f \in raced' <=> f \in raced) /\ (Fresh(f) => Fresh(f)')
    BY <1>1, <2>1, <2>2, <2>3 DEF Fresh, Ahead, with
  <2>4. g \in raced' \/ Fresh(g)'
    BY <1>1, <2>2 DEF Fresh, with, built
  <2> QED BY <1>2, <1>3, <2>3, <2>4
<1> QED BY <1>4, <1>5, <1>6 DEF Index

LEMMA StoredStep == StoredInv /\ [Next]_vars => StoredInv'
<1> SUFFICES ASSUME StoredInv, [Next]_vars PROVE StoredInv'
  OBVIOUS
<1>1. TypeOK'
  BY TypeStep DEF StoredInv
<1>2. CASE UNCHANGED vars
  <2>1. UNCHANGED <<disk, events, moved, step, behind, snapshot, graph, cache, deleted, lagging, raced, fsi, indexer>>
    BY <1>2 DEF vars, loop, user
  <2>2. LastTells' /\ SnapshotInv'
    BY <2>1 DEF StoredInv, LastTells, SnapshotInv, observed, build_file_map
  <2>3. \A f \in Files : Quiet(f)' => StoredOf(f)'
    BY <2>1 DEF StoredInv, Quiet, StoredOf, At, Fresh, Ahead
  <2> QED BY <1>1, <2>2, <2>3 DEF StoredInv
<1>3. CASE Next
  <2>1. LastTells' /\ (\A f \in Files : Quiet(f)' => StoredOf(f)') /\ SnapshotInv'
    BY <1>3, StoredChange, StoredTaken, StoredLoop, StoredIndex DEF Next, Loop
  <2> QED BY <1>1, <2>1 DEF StoredInv
<1> QED BY <1>2, <1>3

\* For any number of files, changes and renames, at every step of the loop and of the indexer:
\* once all is quiet the stored skeletons and the snapshot are those of the disk, but where the
\* throttle, the indexer or a rename left an older one.
THEOREM SkeletonStaysFresh == Spec => []SkeletonFresh
<1>1. StoredInv => SkeletonFresh
  <2> SUFFICES ASSUME StoredInv, Rest PROVE SkeletonFresh
    BY DEF SkeletonFresh
  <2>1. \A f \in Files : Quiet(f) /\ ~Ahead(f) /\ ~At("delete_fsi", f) /\ ~At("skeleton", f)
    BY DEF Rest, Quiet, Ahead, At, idle
  <2>2. \A f \in Files : f \in lagging \cup raced \/ Fresh(f)
    BY <2>1 DEF StoredInv, StoredOf
  <2>3. ~behind => snapshot = observed
    BY DEF StoredInv, SnapshotInv, Rest
  <2> QED BY <2>1, <2>2, <2>3 DEF SkeletonFresh, Fresh
<1> QED BY <1>1, StoredInit, StoredStep, PTL DEF Spec

-----------------------------------------------------------------------------
(* What is indexed.                                                         *)

\* A file that is being deleted has left the cache, one that is being read has its content there.
CachedStep ==
  /\ step \in Deleting => step.file \notin DOMAIN cache
  /\ step \in Reading => step.file \in DOMAIN cache /\ cache[step.file] = step.content

Indexed(f) == {f} \X cache[f].syms \subseteq fusi

SymbolsInv ==
  /\ TypeOK /\ CachedStep
  /\ \A f \in DOMAIN cache \ (lagging \cup swept) : At("skeleton", f) \/ At("symbols", f) \/ Indexed(f)

LEMMA StepKinds ==
  /\ \A s \in Deleting : s \notin Reading /\ s # idle /\ s.pc \in {"delete_fsi", "delete_fusi"} /\ s.file \in Files
  /\ \A s \in Reading : /\ s \notin Deleting /\ s # idle /\ s.pc \in {"skeleton", "symbols", "graph", "snapshots"}
                       /\ s.file \in Files /\ s.content \in Content
  /\ idle \notin Deleting /\ idle \notin Reading /\ idle.pc = "idle"
BY DEF Deleting, Reading, idle

\* Deleting and reading a file.
LEMMA TakenStep ==
  ASSUME TypeOK, ProcessDeletion \/ ReadModified
  PROVE  /\ step = idle /\ UNCHANGED <<fusi, swept, fsi, indexer, raced>>
         /\ \/ UNCHANGED loop
            \/ \E d \in Files :
                 /\ step' \in Deleting /\ step'.file = d
                 /\ cache' = without(cache, {d}) /\ graph' = remove_file(graph, d) /\ calls' = remove_calls(calls, d)
                 /\ lagging' = lagging \ {d}
            \/ \E d \in Files :
                 /\ disk[d] \in Content /\ step' \in Reading /\ step'.pc = "skeleton"
                 /\ step'.file = d /\ step'.content = disk[d]
                 /\ cache' = with(cache, d, disk[d]) /\ UNCHANGED <<graph, calls, lagging>>
<1>1. PICK d : d = Head(events)[2]
  OBVIOUS
<1>2. next_event
  BY DEF ProcessDeletion, ReadModified
<1>3. d \in Files
  <2>1. events \in Seq({"modify", "remove"} \X Files) /\ events # <<>>
    BY <1>2 DEF TypeOK, next_event
  <2>2. Head(events) \in {"modify", "remove"} \X Files
    BY <2>1
  <2> QED BY <1>1, <2>2
<1>4. CASE UNCHANGED loop
  BY <1>2, <1>4 DEF ProcessDeletion, ReadModified, next_event, loop
<1>5. CASE ProcessDeletion /\ ~UNCHANGED loop
  <2>1. /\ step' = [pc |-> "delete_fsi", file |-> d] /\ UNCHANGED <<fusi, swept, fsi, indexer, raced>>
        /\ cache' = without(cache, {d}) /\ graph' = remove_file(graph, d) /\ calls' = remove_calls(calls, d)
        /\ lagging' = lagging \ {d}
    BY <1>1, <1>5 DEF ProcessDeletion
  <2>2. step' \in Deleting /\ step'.file = d
    BY <1>3, <2>1 DEF Deleting
  <2> QED BY <1>2, <1>3, <2>1, <2>2 DEF next_event
<1>6. CASE ReadModified /\ ~UNCHANGED loop
  <2>1. /\ step' = [pc |-> "skeleton", file |-> d, content |-> disk[d]] /\ UNCHANGED <<fusi, swept, fsi, indexer, raced>>
        /\ cache' = with(cache, d, disk[d]) /\ UNCHANGED <<graph, calls, lagging>> /\ disk[d] # None
    BY <1>1, <1>6 DEF ReadModified, insert
  <2>2. disk[d] \in Content
    BY <1>3, <2>1 DEF TypeOK
  <2>3. step' \in Reading /\ step'.pc = "skeleton" /\ step'.file = d /\ step'.content = disk[d]
    BY <1>3, <2>1, <2>2 DEF Reading
  <2> QED BY <1>2, <1>3, <2>1, <2>2, <2>3 DEF next_event
<1> QED BY <1>4, <1>5, <1>6

\* The other steps of the loop.
LEMMA LoopStep ==
  ASSUME TypeOK, DeleteSkeleton \/ DeleteSymbols \/ PersistSkeleton \/ PersistSymbols \/ UpdateGraph \/ PersistSnapshots
  PROVE  /\ UNCHANGED cache
         /\ step' = idle \/ (step'.file = step.file /\ (step' \in Deleting <=> step \in Deleting)
                            /\ (step' \in Reading <=> step \in Reading) /\ (step \in Reading => step'.content = step.content))
<1>1. step \in Deleting \cup Reading
  BY StepKinds DEF TypeOK, DeleteSkeleton, DeleteSymbols, PersistSkeleton, PersistSymbols, UpdateGraph, PersistSnapshots
<1>2. CASE DeleteSkeleton
  BY <1>1, <1>2 DEF DeleteSkeleton, Deleting, Reading
<1>3. CASE DeleteSymbols \/ PersistSnapshots
  BY <1>3 DEF DeleteSymbols, PersistSnapshots
<1>4. CASE PersistSkeleton \/ PersistSymbols \/ UpdateGraph
  <2>1. step \in Reading
    BY <1>1, <1>4, StepKinds DEF PersistSkeleton, PersistSymbols, UpdateGraph
  <2>2. \E pc \in {"symbols", "graph", "snapshots"} : step' = [step EXCEPT !.pc = pc]
    BY <1>4 DEF PersistSkeleton, PersistSymbols, UpdateGraph
  <2>3. step' \in Reading /\ step'.file = step.file /\ step'.content = step.content
    BY <2>1, <2>2 DEF Reading
  <2> QED BY <1>4, <2>1, <2>3, StepKinds DEF PersistSkeleton, PersistSymbols, UpdateGraph
<1> QED BY <1>2, <1>3, <1>4

\* The user and the indexer leave the loop alone.
LEMMA LoopRests ==
  ASSUME Save \/ Delete \/ Rename \/ Index \/ UNCHANGED vars
  PROVE  UNCHANGED loop /\ UNCHANGED swept
BY DEF Save, Delete, Rename, Change, Index, CollectFiles, IndexFile, WriteIndexed, vars

LEMMA CachedKept ==
  ASSUME TypeOK, CachedStep, [Next]_vars PROVE CachedStep'
<1>1. CASE ProcessDeletion \/ ReadModified
  <2>1. CASE UNCHANGED loop
    BY <2>1 DEF CachedStep, loop
  <2>2. CASE ~UNCHANGED loop
    BY <1>1, <2>2, TakenStep, StepKinds DEF CachedStep, with, without
  <2> QED BY <2>1, <2>2
<1>2. CASE DeleteSkeleton \/ DeleteSymbols \/ PersistSkeleton \/ PersistSymbols \/ UpdateGraph \/ PersistSnapshots
  BY <1>2, LoopStep, StepKinds DEF CachedStep
<1>3. CASE Save \/ Delete \/ Rename \/ Index \/ UNCHANGED vars
  BY <1>3, LoopRests DEF CachedStep, loop
<1> QED BY <1>1, <1>2, <1>3 DEF Next, Loop

FilesFit == Cardinality(Files) <= MaxHot

\* As long as all files fit the limit, a file that is read is hot.
LEMMA AllHot ==
  ASSUME TypeOK, FilesFit, NEW f \in DOMAIN cache PROVE is_hot(f)
<1>1. IsFiniteSet(Files) /\ DOMAIN cache \subseteq Files
  BY FileEventsConstants DEF TypeOK
<1>2. Cardinality(DOMAIN cache) <= Cardinality(Files) /\ Cardinality(DOMAIN cache) \in Nat /\ Cardinality(Files) \in Nat
  BY <1>1, FS_Subset, FS_CardinalityType
<1>3. MaxHot \in Nat
  BY FileEventsConstants
<1>4. Cardinality(DOMAIN cache) <= MaxHot
  BY <1>2, <1>3 DEF FilesFit
<1> QED BY <1>4 DEF is_hot

LEMMA SymbolsStep ==
  ASSUME FilesFit PROVE SymbolsInv /\ [Next]_vars => SymbolsInv'
<1> SUFFICES ASSUME SymbolsInv, [Next]_vars PROVE SymbolsInv'
  OBVIOUS
<1>1. TypeOK' /\ CachedStep'
  BY TypeStep, CachedKept DEF SymbolsInv
<1> SUFFICES ASSUME NEW f \in DOMAIN cache', f \notin lagging', f \notin swept'
             PROVE  At("skeleton", f)' \/ At("symbols", f)' \/ Indexed(f)'
  BY <1>1 DEF SymbolsInv
<1>0. TypeOK /\ CachedStep /\ f \in Files
  BY <1>1 DEF SymbolsInv, TypeOK
<1>2. CASE ProcessDeletion \/ ReadModified
  <2>1. CASE UNCHANGED loop
    BY <1>0, <1>2, <2>1, TakenStep DEF SymbolsInv, At, Indexed, loop
  <2>2. CASE \E d \in Files : /\ step' \in Deleting /\ cache' = without(cache, {d}) /\ lagging' = lagging \ {d}
    <3>1. f \in DOMAIN cache /\ cache'[f] = cache[f] /\ f \notin lagging /\ f \notin swept
      BY <1>0, <1>2, <2>2, TakenStep DEF without
    <3>2. Indexed(f)
      BY <1>0, <1>2, <3>1, TakenStep DEF SymbolsInv, At, idle
    <3> QED BY <1>0, <1>2, <3>1, <3>2, TakenStep DEF Indexed
  <2>3. CASE \E d \in Files : /\ step' \in Reading /\ step'.pc = "skeleton" /\ step'.file = d
                            /\ cache' = with(cache, d, disk[d]) /\ UNCHANGED lagging
    <3>1. PICK d \in Files : step'.pc = "skeleton" /\ step'.file = d /\ cache' = with(cache, d, disk[d]) /\ UNCHANGED lagging
      BY <2>3
    <3>2. CASE f = d
      BY <3>1, <3>2 DEF At
    <3>3. CASE f # d
      <4>1. f \in DOMAIN cache /\ cache'[f] = cache[f] /\ f \notin lagging /\ f \notin swept
        BY <1>0, <1>2, <3>1, <3>3, TakenStep DEF with
      <4>2. Indexed(f)
        BY <1>0, <1>2, <4>1, TakenStep DEF SymbolsInv, At, idle
      <4> QED BY <1>0, <1>2, <4>1, <4>2, TakenStep DEF Indexed
    <3> QED BY <3>2, <3>3
  <2> QED BY <1>0, <1>2, <2>1, <2>2, <2>3, TakenStep
<1>3. CASE DeleteSkeleton \/ UpdateGraph \/ PersistSnapshots
  <2>1. UNCHANGED <<cache, lagging, swept, fusi>> /\ step.pc \in {"delete_fsi", "graph", "snapshots"}
    BY <1>3 DEF DeleteSkeleton, UpdateGraph, PersistSnapshots
  <2> QED BY <2>1 DEF SymbolsInv, At, Indexed
<1>4. CASE DeleteSymbols
  <2>1. step.pc = "delete_fusi" /\ UNCHANGED <<cache, lagging>> /\ step \in Deleting
    BY <1>0, <1>4, StepKinds DEF DeleteSymbols, TypeOK
  <2>2. step.file \notin DOMAIN cache /\ f # step.file
    BY <1>0, <2>1 DEF CachedStep
  <2>3. f \notin swept /\ ~has_prefix(f, step.file)
    BY <1>4, <2>2 DEF DeleteSymbols, has_prefix
  <2>4. Indexed(f)
    BY <2>1, <2>3 DEF SymbolsInv, At
  <2>5. \A e \in fusi : e[1] = f => e \in fusi'
    BY <1>4, <2>3 DEF DeleteSymbols
  <2> QED BY <2>1, <2>4, <2>5 DEF Indexed
<1>5. CASE PersistSkeleton
  <2>1. step.pc = "skeleton" /\ step \in Reading /\ UNCHANGED <<cache, fusi, swept>>
    BY <1>0, <1>5, StepKinds DEF PersistSkeleton, TypeOK
  <2>2. CASE f = step.file
    <3>1. is_hot(f) /\ f \notin lagging'
      BY <1>0, <2>1, AllHot
    <3>2. step' = [step EXCEPT !.pc = "symbols"]
      BY <1>5, <2>2, <3>1 DEF PersistSkeleton
    <3> QED BY <2>1, <2>2, <3>2 DEF At, Reading
  <2>3. CASE f # step.file
    <3>1. f \notin lagging
      BY <1>5, <2>3 DEF PersistSkeleton
    <3> QED BY <2>1, <2>3, <3>1 DEF SymbolsInv, At, Indexed
  <2> QED BY <2>2, <2>3
<1>6. CASE PersistSymbols
  <2>1. /\ step.pc = "symbols" /\ step \in Reading /\ UNCHANGED <<cache, lagging>>
        /\ fusi' = fusi \cup ({step.file} \X step.content.syms) /\ swept' = swept \ {step.file}
    BY <1>0, <1>6, StepKinds DEF PersistSymbols, TypeOK
  <2>2. CASE f = step.file
    BY <1>0, <2>1, <2>2 DEF CachedStep, Indexed
  <2>3. CASE f # step.file
    BY <2>1, <2>3 DEF SymbolsInv, At, Indexed
  <2> QED BY <2>2, <2>3
<1>7. CASE Save \/ Delete \/ Rename \/ Index \/ UNCHANGED vars
  BY <1>7, LoopRests DEF SymbolsInv, At, Indexed, loop
<1> QED BY <1>2, <1>3, <1>4, <1>5, <1>6, <1>7 DEF Next, Loop

\* While the files fit the limit of hot ones, for any number of them: once all is quiet the functions
\* of a file that was changed are indexed, but those the throttle or another file's deletion left out.
THEOREM SymbolsStayIndexed == ASSUME FilesFit PROVE Spec => []SymbolsIndexed
<1>1. Init => SymbolsInv
  <2> SUFFICES ASSUME Init PROVE SymbolsInv
    OBVIOUS
  <2>1. DOMAIN cache = {} /\ step = idle
    BY DEF Init
  <2> QED BY <2>1, TypeInit, StepKinds DEF SymbolsInv, CachedStep
<1>2. SymbolsInv => SymbolsIndexed
  BY DEF SymbolsInv, SymbolsIndexed, Rest, At, idle, Indexed
<1>3. SymbolsInv /\ [Next]_vars => SymbolsInv'
  BY SymbolsStep
<1> QED BY <1>1, <1>2, <1>3, PTL DEF Spec

-----------------------------------------------------------------------------
(* The dependency graph.                                                    *)

EdgesOK(g) ==
  /\ DOMAIN g.out \subseteq Files /\ DOMAIN g.in \subseteq Files
  /\ \A f \in DOMAIN g.out : g.out[f] \subseteq Files
  /\ \A f \in DOMAIN g.in : g.in[f] \subseteq Files
  /\ \A f, h \in Files : h \in at(g.out, f) <=> f \in at(g.in, h)

\* remove_file takes out the edges of a file, and no other.
LEMMA FileRemoved ==
  ASSUME NEW g, EdgesOK(g), NEW file \in Files
  PROVE  /\ EdgesOK(remove_file(g, file)) /\ at(remove_file(g, file).out, file) = {}
         /\ \A f \in Files : at(remove_file(g, file).out, f) \subseteq at(g.out, f)
<1> DEFINE out == [s \in DOMAIN g.out \ {file} |-> IF s \in at(g.in, file) THEN g.out[s] \ {file} ELSE g.out[s]]
           in == [t \in DOMAIN g.in \ {file} |-> IF t \in at(g.out, file) THEN g.in[t] \ {file} ELSE g.in[t]]
<1>1. remove_file(g, file) = [out |-> out, in |-> in]
  BY DEF remove_file
<1>2. DOMAIN out = DOMAIN g.out \ {file} /\ DOMAIN in = DOMAIN g.in \ {file}
  OBVIOUS
<1>3. ASSUME NEW f \in Files PROVE at(out, f) = IF f = file THEN {} ELSE at(g.out, f) \ {file}
  <2>1. file \in at(g.out, f) <=> f \in at(g.in, file)
    BY DEF EdgesOK
  <2>2. CASE f \in DOMAIN g.out \ {file}
    <3>1. at(out, f) = IF f \in at(g.in, file) THEN at(g.out, f) \ {file} ELSE at(g.out, f)
      BY <1>2, <2>2 DEF at
    <3> QED BY <2>1, <2>2, <3>1
  <2>3. CASE f \notin DOMAIN g.out \ {file}
    BY <1>2, <2>3 DEF at
  <2> QED BY <2>2, <2>3
<1>4. ASSUME NEW f \in Files PROVE at(in, f) = IF f = file THEN {} ELSE at(g.in, f) \ {file}
  <2>1. f \in at(g.out, file) <=> file \in at(g.in, f)
    BY DEF EdgesOK
  <2>2. CASE f \in DOMAIN g.in \ {file}
    <3>1. at(in, f) = IF f \in at(g.out, file) THEN at(g.in, f) \ {file} ELSE at(g.in, f)
      BY <1>2, <2>2 DEF at
    <3> QED BY <2>1, <2>2, <3>1
  <2>3. CASE f \notin DOMAIN g.in \ {file}
    BY <1>2, <2>3 DEF at
  <2> QED BY <2>2, <2>3
<1>5. (\A f \in DOMAIN out : out[f] \subseteq Files) /\ (\A f \in DOMAIN in : in[f] \subseteq Files)
  BY DEF EdgesOK
<1> HIDE DEF out, in
<1>6. ASSUME NEW f \in Files, NEW h \in Files PROVE h \in at(out, f) <=> f \in at(in, h)
  <2>1. h \in at(g.out, f) <=> f \in at(g.in, h)
    BY DEF EdgesOK
  <2> QED BY <1>3, <1>4, <2>1
<1> QED BY <1>1, <1>2, <1>3, <1>5, <1>6 DEF EdgesOK

\* set_dependencies gives a file the edges it is given, and leaves those of the others.
LEMMA DependenciesSet ==
  ASSUME NEW g, EdgesOK(g), NEW source \in Files, NEW targets \in SUBSET Files
  PROVE  /\ EdgesOK(set_dependencies(g, source, targets))
         /\ \A f \in Files : at(set_dependencies(g, source, targets).out, f) =
                              IF f = source THEN targets ELSE at(g.out, f)
<1> DEFINE old == at(g.out, source)
           emptied == {t \in old \cap DOMAIN g.in : g.in[t] \subseteq {source}}
           left(t) == IF t \in old THEN at(g.in, t) \ {source} ELSE at(g.in, t)
           out == IF targets = {} THEN without(g.out, {source}) ELSE with(g.out, source, targets)
           in == [t \in (DOMAIN g.in \ emptied) \cup targets |-> IF t \in targets THEN left(t) \cup {source} ELSE left(t)]
<1>1. set_dependencies(g, source, targets) = [out |-> out, in |-> in]
  BY DEF set_dependencies
<1>2. /\ DOMAIN out \subseteq Files /\ \A f \in DOMAIN out : out[f] \subseteq Files
      /\ \A f \in Files : at(out, f) = IF f = source THEN targets ELSE at(g.out, f)
  BY DEF with, without, at, EdgesOK
<1>3. ASSUME NEW t \in Files
      PROVE  /\ left(t) \subseteq Files /\ source \notin left(t)
             /\ \A f \in Files \ {source} : f \in left(t) <=> f \in at(g.in, t)
             /\ at(in, t) = IF t \in targets THEN left(t) \cup {source} ELSE left(t)
  <2>1. source \in at(g.in, t) <=> t \in old
    BY DEF EdgesOK
  <2>2. at(g.in, t) \subseteq Files
    BY DEF EdgesOK, at
  <2>3. t \notin DOMAIN in => left(t) = {} /\ t \notin targets
    BY DEF at
  <2>4. at(in, t) = IF t \in targets THEN left(t) \cup {source} ELSE left(t)
    BY <2>3 DEF at
  <2> QED BY <2>1, <2>2, <2>4
<1>4. DOMAIN in \subseteq Files /\ \A t \in DOMAIN in : in[t] \subseteq Files
  BY <1>3 DEF EdgesOK
<1> HIDE DEF out, in, left
<1>5. ASSUME NEW f \in Files, NEW h \in Files PROVE h \in at(out, f) <=> f \in at(in, h)
  <2>1. CASE f = source
    BY <1>2, <1>3, <2>1
  <2>2. CASE f # source
    BY <1>2, <1>3, <2>2 DEF EdgesOK
  <2> QED BY <2>1, <2>2
<1> QED BY <1>1, <1>2, <1>4, <1>5 DEF EdgesOK

-----------------------------------------------------------------------------
(* The call graph.                                                          *)

Sites == Files \X Symbols
Callees == (Files \cup {""}) \X Symbols

CallsOK(cg) ==
  /\ \A f \in DOMAIN cg.calls : /\ f \in Files /\ DOMAIN cg.calls[f] \subseteq Symbols
                               /\ \A s \in DOMAIN cg.calls[f] : cg.calls[f][s] \subseteq Callees
  /\ DOMAIN cg.exact \subseteq Sites /\ \A k \in DOMAIN cg.exact : cg.exact[k] \subseteq Sites
  /\ DOMAIN cg.symbol \subseteq Symbols /\ \A s \in DOMAIN cg.symbol : cg.symbol[s] \subseteq Sites
  /\ \A c \in Sites, e \in Callees : c \in at(cg.exact, e) <=> e[1] # "" /\ e \in calls_from(cg, c[1], c[2])
  /\ \A c \in Sites, s \in Symbols : c \in at(cg.symbol, s) <=> \E e \in calls_from(cg, c[1], c[2]) : e[2] = s

\* retain leaves the callers in other files.
LEMMA KeptCallers ==
  ASSUME NEW callers, NEW file
  PROVE  /\ DOMAIN kept(callers, file) \subseteq DOMAIN callers
         /\ \A k \in DOMAIN kept(callers, file) : kept(callers, file)[k] \subseteq callers[k]
         /\ \A k : at(kept(callers, file), k) = {c \in at(callers, k) : c[1] # file}
<1> DEFINE rest == [k \in DOMAIN callers |-> {c \in callers[k] : c[1] # file}]
           left == {k \in DOMAIN rest : rest[k] # {}}
<1>1. kept(callers, file) = [k \in left |-> rest[k]]
  BY DEF kept, Restrict
<1>2. ASSUME NEW k PROVE at([j \in left |-> rest[j]], k) = {c \in at(callers, k) : c[1] # file}
  <2>1. CASE k \in DOMAIN callers
    BY <2>1 DEF at
  <2>2. CASE k \notin DOMAIN callers
    BY <2>2 DEF at
  <2> QED BY <2>1, <2>2
<1> QED BY <1>1, <1>2

LEMMA Pair ==
  ASSUME NEW A, NEW B, NEW p \in A \X B PROVE p[1] \in A /\ p[2] \in B /\ p = <<p[1], p[2]>>
OBVIOUS

LEMMA InsertedCallers ==
  ASSUME NEW callers, NEW K, NEW V, NEW made \in SUBSET (K \X V), DOMAIN callers \subseteq K,
         \A k \in DOMAIN callers : callers[k] \subseteq V
  PROVE  LET new == insert_callers(callers, made)
         IN  /\ DOMAIN new \subseteq K /\ \A k \in DOMAIN new : new[k] \subseteq V
             /\ \A k, c : c \in at(new, k) <=> c \in at(callers, k) \/ <<k, c>> \in made
<1> DEFINE X == DOMAIN callers \cup {m[1] : m \in made}
           more(k) == {m[2] : m \in {n \in made : n[1] = k}}
<1>1. PICK new : new = insert_callers(callers, made)
  OBVIOUS
<1>2. new = [k \in X |-> at(callers, k) \cup more(k)]
  BY <1>1 DEF insert_callers
<1>3. ASSUME NEW k, NEW c PROVE c \in more(k) <=> <<k, c>> \in made
  <2>1. \A m \in made : m = <<m[1], m[2]>>
    OBVIOUS
  <2>2. c \in more(k) => <<k, c>> \in made
    BY <2>1
  <2>3. ASSUME <<k, c>> \in made PROVE c \in more(k)
    <3>1. <<k, c>> \in {n \in made : n[1] = k} /\ <<k, c>>[2] = c
      BY <2>3
    <3> QED BY <3>1
  <2> QED BY <2>2, <2>3
<1>4. ASSUME NEW k PROVE at(callers, k) \subseteq V /\ more(k) \subseteq V
  BY DEF at
<1>5. X \subseteq K /\ \A k : k \notin X => at(callers, k) = {} /\ more(k) = {}
  BY DEF at
<1> HIDE DEF X, more
<1>6. DOMAIN new \subseteq K /\ \A k \in DOMAIN new : new[k] \subseteq V
  BY <1>2, <1>4, <1>5
<1>7. ASSUME NEW k PROVE at(new, k) = at(callers, k) \cup more(k)
  BY <1>2, <1>5 DEF at
<1> QED BY <1>1, <1>3, <1>6, <1>7

LEMMA CallsRemoved ==
  ASSUME NEW cg, CallsOK(cg), NEW file \in Files
  PROVE  /\ CallsOK(remove_calls(cg, file)) /\ DOMAIN remove_calls(cg, file).calls = DOMAIN cg.calls \ {file}
         /\ \A f \in Files, s \in Symbols :
              calls_from(remove_calls(cg, file), f, s) = IF f = file THEN {} ELSE calls_from(cg, f, s)
<1>1. PICK new : new = remove_calls(cg, file)
  OBVIOUS
<1>2. /\ new.calls = without(cg.calls, {file}) /\ new.exact = kept(cg.exact, file) /\ new.symbol = kept(cg.symbol, file)
  BY <1>1 DEF remove_calls
<1>3. /\ DOMAIN new.calls = DOMAIN cg.calls \ {file} /\ \A f \in DOMAIN new.calls : new.calls[f] = cg.calls[f]
      /\ \A f \in Files, s \in Symbols : calls_from(new, f, s) = IF f = file THEN {} ELSE calls_from(cg, f, s)
  BY <1>2 DEF without, calls_from
<1>4. /\ DOMAIN new.exact \subseteq Sites /\ \A k \in DOMAIN new.exact : new.exact[k] \subseteq Sites
      /\ DOMAIN new.symbol \subseteq Symbols /\ \A s \in DOMAIN new.symbol : new.symbol[s] \subseteq Sites
  BY <1>2, KeptCallers DEF CallsOK
<1>5. ASSUME NEW c \in Sites, NEW e \in Callees
      PROVE  c \in at(new.exact, e) <=> e[1] # "" /\ e \in calls_from(new, c[1], c[2])
  <2>1. c \in at(new.exact, e) <=> c[1] # file /\ c \in at(cg.exact, e)
    BY <1>2, KeptCallers
  <2>2. c \in at(cg.exact, e) <=> e[1] # "" /\ e \in calls_from(cg, c[1], c[2])
    BY DEF CallsOK
  <2>3. calls_from(new, c[1], c[2]) = IF c[1] = file THEN {} ELSE calls_from(cg, c[1], c[2])
    BY <1>3 DEF Sites
  <2> QED BY <2>1, <2>2, <2>3
<1>6. ASSUME NEW c \in Sites, NEW s \in Symbols
      PROVE  c \in at(new.symbol, s) <=> \E e \in calls_from(new, c[1], c[2]) : e[2] = s
  <2>1. c \in at(new.symbol, s) <=> c[1] # file /\ c \in at(cg.symbol, s)
    BY <1>2, KeptCallers
  <2>2. c \in at(cg.symbol, s) <=> \E e \in calls_from(cg, c[1], c[2]) : e[2] = s
    BY DEF CallsOK
  <2>3. calls_from(new, c[1], c[2]) = IF c[1] = file THEN {} ELSE calls_from(cg, c[1], c[2])
    BY <1>3 DEF Sites
  <2> QED BY <2>1, <2>2, <2>3
<1> QED BY <1>1, <1>3, <1>4, <1>5, <1>6 DEF CallsOK

\* update_file: the calls of the file are the new ones, and both indexes follow.
LEMMA CallsUpdated ==
  ASSUME NEW cg, CallsOK(cg), NEW file \in Files, NEW X \in SUBSET Symbols, NEW calling \in [X -> SUBSET Callees]
  PROVE  LET new == update_calls(cg, file, calling)
         IN  CallsOK(new) /\ DOMAIN new.calls = DOMAIN cg.calls \cup {file}
<1> DEFINE own == {p \in (DOMAIN calling) \X UNION Range(calling) : p[2] \in calling[p[1]]}
           known == {p \in own : p[2][1] # ""}
           madeExact == {<<p[2], <<file, p[1]>>>> : p \in known}
           madeSymbol == {<<p[2][2], <<file, p[1]>>>> : p \in own}
<1>1. PICK base : base = remove_calls(cg, file)
  OBVIOUS
<1>2. PICK new : new = update_calls(cg, file, calling)
  OBVIOUS
<1>3. /\ new.calls = with(base.calls, file, calling)
      /\ new.exact = insert_callers(base.exact, madeExact) /\ new.symbol = insert_callers(base.symbol, madeSymbol)
  BY <1>1, <1>2 DEF update_calls
<1>4. /\ CallsOK(base) /\ DOMAIN base.calls = DOMAIN cg.calls \ {file}
      /\ \A f \in Files, s \in Symbols : calls_from(base, f, s) = IF f = file THEN {} ELSE calls_from(cg, f, s)
  BY <1>1, CallsRemoved
<1>5. own = {p \in X \X Callees : p[2] \in calling[p[1]]}
  BY DEF Range
<1>6. ASSUME NEW p \in own
      PROVE  /\ p[1] \in X /\ p[1] \in Symbols /\ p[2] \in calling[p[1]]
             /\ p[2][1] \in Files \cup {""} /\ p[2][2] \in Symbols /\ p[2] = <<p[2][1], p[2][2]>> /\ p = <<p[1], p[2]>>
  <2>1. p \in X \X Callees /\ p[2] \in calling[p[1]]
    BY <1>5
  <2>2. p[1] \in X /\ p[2] \in Callees /\ p = <<p[1], p[2]>>
    BY <2>1
  <2>3. \A e \in Callees : e[1] \in Files \cup {""} /\ e[2] \in Symbols /\ e = <<e[1], e[2]>>
    BY Pair DEF Callees
  <2> QED BY <2>1, <2>2, <2>3
<1>7. ASSUME NEW s \in X, NEW e \in calling[s] PROVE <<s, e>> \in own
  <2>1. <<s, e>> \in X \X Callees
    OBVIOUS
  <2> QED BY <1>5, <2>1
<1> HIDE DEF own
<1>8. madeExact \in SUBSET (Sites \X Sites) /\ madeSymbol \in SUBSET (Symbols \X Sites)
  <2>1. ASSUME NEW p \in known PROVE <<p[2], <<file, p[1]>>>> \in Sites \X Sites
    <3>1. p[2][1] \in Files /\ p[2][2] \in Symbols /\ p[2] = <<p[2][1], p[2][2]>> /\ p[1] \in Symbols
      BY <1>6
    <3>2. p[2] \in Sites /\ <<file, p[1]>> \in Sites
      BY <3>1 DEF Sites
    <3> QED BY <3>2
  <2>2. ASSUME NEW p \in own PROVE <<p[2][2], <<file, p[1]>>>> \in Symbols \X Sites
    BY <1>6 DEF Sites
  <2> QED BY <2>1, <2>2
<1>9. ASSUME NEW k, NEW c
      PROVE  /\ <<k, c>> \in madeExact <=> \E p \in known : k = p[2] /\ c = <<file, p[1]>>
             /\ <<k, c>> \in madeSymbol <=> \E p \in own : k = p[2][2] /\ c = <<file, p[1]>>
  OBVIOUS
<1> HIDE DEF madeExact, madeSymbol
<1>10. /\ DOMAIN new.exact \subseteq Sites /\ \A k \in DOMAIN new.exact : new.exact[k] \subseteq Sites
       /\ \A k, c : c \in at(new.exact, k) <=> c \in at(base.exact, k) \/ <<k, c>> \in madeExact
  <2>1. DOMAIN base.exact \subseteq Sites /\ \A k \in DOMAIN base.exact : base.exact[k] \subseteq Sites
    BY <1>4 DEF CallsOK
  <2> QED BY <1>3, <1>8, <2>1, InsertedCallers
<1>11. /\ DOMAIN new.symbol \subseteq Symbols /\ \A k \in DOMAIN new.symbol : new.symbol[k] \subseteq Sites
       /\ \A k, c : c \in at(new.symbol, k) <=> c \in at(base.symbol, k) \/ <<k, c>> \in madeSymbol
  <2>1. DOMAIN base.symbol \subseteq Symbols /\ \A s \in DOMAIN base.symbol : base.symbol[s] \subseteq Sites
    BY <1>4 DEF CallsOK
  <2> QED BY <1>3, <1>8, <2>1, InsertedCallers
<1>12. /\ DOMAIN new.calls = DOMAIN cg.calls \cup {file}
       /\ \A f \in DOMAIN new.calls : new.calls[f] = IF f = file THEN calling ELSE base.calls[f]
  BY <1>3, <1>4 DEF with
<1>13. ASSUME NEW f \in Files, NEW s \in Symbols
       PROVE  calls_from(new, f, s) = IF f = file THEN IF s \in X THEN calling[s] ELSE {} ELSE calls_from(base, f, s)
  BY <1>4, <1>12 DEF calls_from, at
<1>14. \A f \in DOMAIN new.calls : /\ f \in Files /\ DOMAIN new.calls[f] \subseteq Symbols
                                   /\ \A s \in DOMAIN new.calls[f] : new.calls[f][s] \subseteq Callees
  BY <1>4, <1>12 DEF CallsOK
<1>15. ASSUME NEW c \in Sites
       PROVE  c[1] \in Files /\ c[2] \in Symbols /\ \A s : c = <<file, s>> <=> c[1] = file /\ c[2] = s
  BY DEF Sites
<1>16. ASSUME NEW c \in Sites, NEW e \in Callees
       PROVE  c \in at(new.exact, e) <=> e[1] # "" /\ e \in calls_from(new, c[1], c[2])
  <2>1. c \in at(base.exact, e) <=> e[1] # "" /\ e \in calls_from(base, c[1], c[2])
    BY <1>4 DEF CallsOK
  <2>2. c[1] = file => calls_from(base, c[1], c[2]) = {}
    BY <1>4, <1>15
  <2>3. <<e, c>> \in madeExact <=> c[1] = file /\ c[2] \in X /\ e[1] # "" /\ e \in calling[c[2]]
    <3>1. ASSUME <<e, c>> \in madeExact PROVE c[1] = file /\ c[2] \in X /\ e[1] # "" /\ e \in calling[c[2]]
      <4>1. PICK p \in known : <<e, c>> = <<p[2], <<file, p[1]>>>>
        BY <3>1 DEF madeExact
      <4>2. p \in own /\ p[2][1] # "" /\ e = p[2]
        BY <4>1
      <4>3. c = <<file, p[1]>>
        BY <4>1
      <4>4. c[1] = file /\ c[2] = p[1]
        BY <4>3
      <4> QED BY <1>6, <4>2, <4>4
    <3>2. ASSUME c[1] = file, c[2] \in X, e[1] # "", e \in calling[c[2]] PROVE <<e, c>> \in madeExact
      <4>1. <<c[2], e>> \in known
        BY <1>7, <3>2
      <4>2. e = <<c[2], e>>[2] /\ c = <<file, <<c[2], e>>[1]>>
        BY <1>15, <3>2
      <4> QED BY <1>9, <4>1, <4>2
    <3> QED BY <3>1, <3>2
  <2>4. calls_from(new, c[1], c[2]) = IF c[1] = file THEN IF c[2] \in X THEN calling[c[2]] ELSE {}
                                      ELSE calls_from(base, c[1], c[2])
    <3>1. c[1] \in Files /\ c[2] \in Symbols
      BY <1>15
    <3> QED BY <1>13, <3>1
  <2>5. c \in at(new.exact, e) <=> c \in at(base.exact, e) \/ <<e, c>> \in madeExact
    BY <1>10
  <2> QED BY <2>1, <2>2, <2>3, <2>4, <2>5
<1>17. ASSUME NEW c \in Sites, NEW s \in Symbols
       PROVE  c \in at(new.symbol, s) <=> \E e \in calls_from(new, c[1], c[2]) : e[2] = s
  <2>1. c \in at(base.symbol, s) <=> \E e \in calls_from(base, c[1], c[2]) : e[2] = s
    BY <1>4 DEF CallsOK
  <2>2. c[1] = file => calls_from(base, c[1], c[2]) = {}
    BY <1>4, <1>15
  <2>3. <<s, c>> \in madeSymbol <=> c[1] = file /\ c[2] \in X /\ \E e \in calling[c[2]] : e[2] = s
    <3>1. ASSUME <<s, c>> \in madeSymbol PROVE c[1] = file /\ c[2] \in X /\ \E e \in calling[c[2]] : e[2] = s
      <4>1. PICK p \in own : <<s, c>> = <<p[2][2], <<file, p[1]>>>>
        BY <3>1 DEF madeSymbol
      <4>2. s = p[2][2] /\ c = <<file, p[1]>>
        BY <4>1
      <4>3. c[1] = file /\ c[2] = p[1]
        BY <4>2
      <4> QED BY <1>6, <4>2, <4>3
    <3>2. ASSUME c[1] = file, c[2] \in X, NEW e \in calling[c[2]], e[2] = s PROVE <<s, c>> \in madeSymbol
      <4>1. <<c[2], e>> \in own
        BY <1>7, <3>2
      <4>2. s = <<c[2], e>>[2][2] /\ c = <<file, <<c[2], e>>[1]>>
        BY <1>15, <3>2
      <4> QED BY <1>9, <4>1, <4>2
    <3> QED BY <3>1, <3>2
  <2>4. calls_from(new, c[1], c[2]) = IF c[1] = file THEN IF c[2] \in X THEN calling[c[2]] ELSE {}
                                      ELSE calls_from(base, c[1], c[2])
    <3>1. c[1] \in Files /\ c[2] \in Symbols
      BY <1>15
    <3> QED BY <1>13, <3>1
  <2>5. c \in at(new.symbol, s) <=> c \in at(base.symbol, s) \/ <<s, c>> \in madeSymbol
    BY <1>11
  <2> QED BY <2>1, <2>2, <2>3, <2>4, <2>5
<1> QED BY <1>2, <1>10, <1>11, <1>12, <1>14, <1>16, <1>17 DEF CallsOK

-----------------------------------------------------------------------------
(* The graphs of the workspace.                                             *)

Imported(f) == \A g \in at(graph.out, f) : f \in DOMAIN cache /\ g \in cache[f].imports

\* The loop has read the file anew and has not come to its edges yet.
Pending(f) == step \in Reading /\ step.file = f /\ step.pc # "snapshots"

GraphsInv ==
  /\ TypeOK /\ CachedStep
  /\ EdgesOK(graph) /\ \A f \in Files : Pending(f) \/ Imported(f)
  /\ CallsOK(calls) /\ DOMAIN calls.calls \subseteq DOMAIN cache

LEMMA GraphsInit == Init => GraphsInv
<1> SUFFICES ASSUME Init PROVE GraphsInv
  OBVIOUS
<1>1. /\ DOMAIN cache = {} /\ step = idle /\ DOMAIN graph.out = {} /\ DOMAIN graph.in = {}
      /\ DOMAIN calls.calls = {} /\ DOMAIN calls.exact = {} /\ DOMAIN calls.symbol = {}
  BY DEF Init, NoEdges, NoCalls
<1>2. EdgesOK(graph) /\ \A f \in Files : Imported(f)
  BY <1>1 DEF EdgesOK, Imported, at
<1>3. CallsOK(calls)
  BY <1>1 DEF CallsOK, at, calls_from
<1> QED BY <1>1, <1>2, <1>3, TypeInit, StepKinds DEF GraphsInv, CachedStep

\* What edges gives are functions of the workspace, or names that are not resolved.
LEMMA EdgesOfContent ==
  ASSUME NEW c \in Content
  PROVE  c.syms \in SUBSET Symbols /\ c.imports \in SUBSET Files /\ edges(c) \in [c.syms -> SUBSET Callees]
<1>1. c.syms \in SUBSET Symbols /\ c.imports \in SUBSET Files
  BY DEF Content
<1>2. ASSUME NEW s \in c.syms PROVE {<<g, s>> : g \in c.imports} \cup {<<"", s>>} \subseteq Callees
  <2>1. s \in Symbols /\ \A g \in c.imports \cup {""} : <<g, s>> \in Callees
    BY <1>1 DEF Callees
  <2> QED BY <2>1
<1> QED BY <1>1, <1>2 DEF edges

LEMMA GraphsStep == GraphsInv /\ [Next]_vars => GraphsInv'
<1> SUFFICES ASSUME GraphsInv, [Next]_vars PROVE GraphsInv'
  OBVIOUS
<1>0. /\ TypeOK /\ CachedStep /\ EdgesOK(graph) /\ CallsOK(calls) /\ DOMAIN calls.calls \subseteq DOMAIN cache
      /\ \A f \in Files : Pending(f) \/ Imported(f)
  BY DEF GraphsInv
<1>1. TypeOK' /\ CachedStep'
  BY <1>0, TypeStep, CachedKept
<1> SUFFICES /\ EdgesOK(graph)' /\ \A f \in Files : Pending(f)' \/ Imported(f)'
             /\ CallsOK(calls)' /\ DOMAIN calls'.calls \subseteq DOMAIN cache'
  BY <1>1 DEF GraphsInv
<1>2. CASE UNCHANGED loop
  <2>1. UNCHANGED <<step, cache, graph, calls>>
    BY <1>2 DEF loop
  <2>2. EdgesOK(graph)' /\ CallsOK(calls)'
    BY <1>0, <2>1 DEF EdgesOK, CallsOK
  <2>3. \A f \in Files : Pending(f)' \/ Imported(f)'
    BY <1>0, <2>1 DEF Pending, Imported
  <2> QED BY <1>0, <2>1, <2>2, <2>3
<1>3. CASE (ProcessDeletion \/ ReadModified) /\ ~UNCHANGED loop
  <2>0. step = idle /\ \A f \in Files : Imported(f)
    BY <1>0, <1>3, TakenStep, StepKinds DEF Pending
  <2>1. ASSUME NEW d \in Files, cache' = without(cache, {d}), graph' = remove_file(graph, d), calls' = remove_calls(calls, d)
        PROVE  /\ EdgesOK(graph)' /\ \A f \in Files : Imported(f)'
               /\ CallsOK(calls)' /\ DOMAIN calls'.calls \subseteq DOMAIN cache'
    <3>1. /\ EdgesOK(graph') /\ at(graph'.out, d) = {} /\ \A f \in Files : at(graph'.out, f) \subseteq at(graph.out, f)
      BY <1>0, <2>1, FileRemoved
    <3>2. CallsOK(calls') /\ DOMAIN calls'.calls = DOMAIN calls.calls \ {d}
      BY <1>0, <2>1, CallsRemoved
    <3>3. DOMAIN cache' = DOMAIN cache \ {d} /\ \A f \in DOMAIN cache' : cache'[f] = cache[f]
      BY <2>1 DEF without
    <3>4. ASSUME NEW f \in Files PROVE Imported(f)'
      BY <2>0, <3>1, <3>3 DEF Imported
    <3>5. EdgesOK(graph)' /\ CallsOK(calls)'
      BY <3>1, <3>2 DEF EdgesOK, CallsOK
    <3> QED BY <1>0, <3>2, <3>3, <3>4, <3>5
  <2>2. ASSUME NEW d \in Files, step' \in Reading, step'.pc = "skeleton", step'.file = d,
               cache' = with(cache, d, disk[d]), UNCHANGED <<graph, calls>>
        PROVE  /\ EdgesOK(graph)' /\ \A f \in Files : Pending(f)' \/ Imported(f)'
               /\ CallsOK(calls)' /\ DOMAIN calls'.calls \subseteq DOMAIN cache'
    <3>1. DOMAIN cache' = DOMAIN cache \cup {d} /\ \A f \in DOMAIN cache \ {d} : cache'[f] = cache[f]
      BY <2>2 DEF with
    <3>2. Pending(d)'
      BY <2>2 DEF Pending
    <3>3. ASSUME NEW f \in Files \ {d} PROVE Imported(f)'
      BY <2>0, <2>2, <3>1 DEF Imported
    <3>4. EdgesOK(graph)' /\ CallsOK(calls)'
      BY <1>0, <2>2 DEF EdgesOK, CallsOK
    <3> QED BY <1>0, <2>2, <3>1, <3>2, <3>3, <3>4
  <2>3. \/ \E d \in Files : cache' = without(cache, {d}) /\ graph' = remove_file(graph, d) /\ calls' = remove_calls(calls, d)
        \/ \E d \in Files : /\ step' \in Reading /\ step'.pc = "skeleton" /\ step'.file = d
                           /\ cache' = with(cache, d, disk[d]) /\ UNCHANGED <<graph, calls>>
    BY <1>0, <1>3, TakenStep
  <2> QED BY <2>1, <2>2, <2>3
<1>4. CASE DeleteSkeleton \/ DeleteSymbols \/ PersistSymbols \/ PersistSnapshots
  <2>1. UNCHANGED <<cache, graph, calls>>
    BY <1>4 DEF DeleteSkeleton, DeleteSymbols, PersistSymbols, PersistSnapshots
  <2>2. EdgesOK(graph)' /\ CallsOK(calls)'
    BY <1>0, <2>1 DEF EdgesOK, CallsOK
  <2>3. ASSUME NEW f \in Files, Pending(f) PROVE Pending(f)'
    <3>1. PersistSymbols
      BY <1>4, <2>3, StepKinds DEF Pending, DeleteSkeleton, DeleteSymbols, PersistSnapshots
    <3>2. step' = [step EXCEPT !.pc = "graph"] /\ step \in Reading /\ step.file = f
      BY <2>3, <3>1 DEF Pending, PersistSymbols
    <3> QED BY <3>2 DEF Pending, Reading
  <2>4. ASSUME NEW f \in Files, Imported(f) PROVE Imported(f)'
    BY <2>1, <2>4 DEF Imported
  <2> QED BY <1>0, <2>1, <2>2, <2>3, <2>4
<1>5. CASE PersistSkeleton
  <2>1. UNCHANGED <<cache, graph>> /\ step \in Reading /\ step.pc = "skeleton"
    BY <1>0, <1>5, StepKinds DEF PersistSkeleton, TypeOK
  <2>2. step' = [step EXCEPT !.pc = "symbols"] \/ step' = [step EXCEPT !.pc = "graph"]
    BY <1>5 DEF PersistSkeleton
  <2>3. step' \in Reading /\ step'.file = step.file /\ step'.pc # "snapshots"
    BY <2>1, <2>2 DEF Reading
  <2>4. \A f \in Files : Pending(f)' \/ Imported(f)'
    BY <1>0, <2>1, <2>3 DEF Pending, Imported
  <2>5. CallsOK(calls') /\ DOMAIN calls'.calls \subseteq DOMAIN cache
    <3>1. step.file \in Files /\ step.file \in DOMAIN cache /\ step.content \in Content
      BY <1>0, <2>1, StepKinds DEF CachedStep
    <3>2. CASE calls' = update_calls(calls, step.file, edges(step.content))
      BY <1>0, <3>1, <3>2, EdgesOfContent, CallsUpdated
    <3>3. CASE UNCHANGED calls
      BY <1>0, <3>3
    <3> QED BY <1>5, <3>2, <3>3 DEF PersistSkeleton
  <2>6. EdgesOK(graph)' /\ CallsOK(calls)'
    BY <1>0, <2>1, <2>5 DEF EdgesOK, CallsOK
  <2> QED BY <2>1, <2>4, <2>5, <2>6
<1>6. CASE UpdateGraph
  <2>1. UNCHANGED <<cache, calls>> /\ step \in Reading /\ graph' = set_dependencies(graph, step.file, step.content.imports)
    BY <1>0, <1>6, StepKinds DEF UpdateGraph, TypeOK
  <2>2. step.file \in Files /\ step.content.imports \in SUBSET Files /\ step.file \in DOMAIN cache /\ cache[step.file] = step.content
    BY <1>0, <2>1, StepKinds, EdgesOfContent DEF CachedStep
  <2>3. /\ EdgesOK(graph')
        /\ \A f \in Files : at(graph'.out, f) = IF f = step.file THEN step.content.imports ELSE at(graph.out, f)
    BY <1>0, <2>1, <2>2, DependenciesSet
  <2>4. ASSUME NEW f \in Files PROVE Imported(f)'
    <3>1. CASE f = step.file
      BY <2>1, <2>2, <2>3, <3>1 DEF Imported
    <3>2. CASE f # step.file
      <4>1. Imported(f)
        BY <1>0, <3>2 DEF Pending
      <4> QED BY <2>1, <2>3, <3>2, <4>1 DEF Imported
    <3> QED BY <3>1, <3>2
  <2>5. EdgesOK(graph)' /\ CallsOK(calls)'
    BY <1>0, <2>1, <2>3 DEF EdgesOK, CallsOK
  <2> QED BY <1>0, <2>1, <2>4, <2>5
<1>7. CASE Save \/ Delete \/ Rename \/ Index \/ UNCHANGED vars
  BY <1>2, <1>7, LoopRests
<1> QED BY <1>2, <1>3, <1>4, <1>5, <1>6, <1>7 DEF Next, Loop

\* The causal context counts each call of the file once.
LEMMA OutgoingExact ==
  ASSUME CallsOK(calls), NEW f \in Files
  PROVE  causal_context(calls, f).outgoing =
           Cardinality({m \in Sites \X Callees : m[2] \in calls_from(calls, m[1][1], m[1][2]) /\ m[1][1] = f})
<1> DEFINE symbols == IF f \in DOMAIN calls.calls THEN DOMAIN calls.calls[f] ELSE {}
           S == UNION {{s} \X calls_from(calls, f, s) : s \in symbols}
           T == {m \in Sites \X Callees : m[2] \in calls_from(calls, m[1][1], m[1][2]) /\ m[1][1] = f}
           site(p) == <<<<f, p[1]>>, p[2]>>
           h == [p \in S |-> site(p)]
<1>1. causal_context(calls, f).outgoing = Cardinality(S)
  BY DEF causal_context
<1>2. symbols \subseteq Symbols /\ \A s \in symbols : calls_from(calls, f, s) \subseteq Callees
  BY DEF CallsOK, calls_from, at
<1>3. \A s : calls_from(calls, f, s) # {} => s \in symbols
  BY DEF calls_from, at
<1> HIDE DEF symbols
<1>4. ASSUME NEW p \in S
      PROVE  p[1] \in Symbols /\ p[2] \in Callees /\ p[2] \in calls_from(calls, f, p[1]) /\ p = <<p[1], p[2]>>
  <2>1. PICK s \in symbols : p \in {s} \X calls_from(calls, f, s)
    OBVIOUS
  <2>2. p[1] = s /\ p[2] \in calls_from(calls, f, s) /\ p = <<p[1], p[2]>>
    BY <2>1
  <2> QED BY <1>2, <2>2
<1>5. ASSUME NEW s, NEW e, e \in calls_from(calls, f, s) PROVE <<s, e>> \in S
  <2>1. s \in symbols /\ <<s, e>> \in {s} \X calls_from(calls, f, s)
    BY <1>3, <1>5
  <2> QED BY <2>1
<1> HIDE DEF S
<1>6. IsFiniteSet(S)
  <2>1. IsFiniteSet(Files) /\ IsFiniteSet(Symbols)
    BY FileEventsConstants
  <2>2. IsFiniteSet(Files \cup {""})
    BY <2>1, FS_Singleton, FS_Union
  <2>3. IsFiniteSet(Callees)
    BY <2>1, <2>2, FS_Product DEF Callees
  <2>4. IsFiniteSet(Symbols \X Callees)
    BY <2>1, <2>3, FS_Product
  <2>5. S \subseteq Symbols \X Callees
    <3>1. \A p \in S : <<p[1], p[2]>> \in Symbols \X Callees
      BY <1>4
    <3> QED BY <1>4, <3>1
  <2> QED BY <2>4, <2>5, FS_Subset
<1>7. ASSUME NEW p \in S PROVE site(p) \in T
  <2>1. <<f, p[1]>> \in Sites /\ p[2] \in Callees /\ p[2] \in calls_from(calls, f, p[1])
    BY <1>4 DEF Sites
  <2>2. site(p) \in Sites \X Callees /\ site(p)[2] = p[2] /\ site(p)[1][1] = f /\ site(p)[1][2] = p[1]
    BY <2>1
  <2> QED BY <2>1, <2>2
<1>8. ASSUME NEW p \in S, NEW q \in S, site(p) = site(q) PROVE p = q
  <2>1. <<f, p[1]>> = <<f, q[1]>> /\ p[2] = q[2]
    BY <1>8
  <2>2. p[1] = q[1]
    BY <2>1
  <2> QED BY <1>4, <2>1, <2>2
<1>9. ASSUME NEW m \in T PROVE \E p \in S : site(p) = m
  <2>1. m \in Sites \X Callees /\ m[2] \in calls_from(calls, m[1][1], m[1][2]) /\ m[1][1] = f
    OBVIOUS
  <2>2. m = <<m[1], m[2]>> /\ m[1] \in Sites
    BY <2>1
  <2>3. m[1] = <<f, m[1][2]>>
    BY <2>1, <2>2 DEF Sites
  <2>4. <<m[1][2], m[2]>> \in S
    BY <1>5, <2>1
  <2>5. site(<<m[1][2], m[2]>>) = m
    BY <2>2, <2>3
  <2> QED BY <2>4, <2>5
<1> HIDE DEF T, site
<1>10. h \in [S -> T] /\ (\A p, q \in S : h[p] = h[q] => p = q) /\ \A m \in T : \E p \in S : h[p] = m
  BY <1>7, <1>8, <1>9
<1>11. ExistsBijection(S, T)
  BY <1>10 DEF ExistsBijection, Bijection, Injection, Surjection, IsInjective
<1>12. Cardinality(T) = Cardinality(S)
  BY <1>6, <1>11, FS_Bijection
<1> QED BY <1>1, <1>12 DEF T

\* For any number of files, symbols and changes, at every step of the loop: the maps of the dependency
\* graph mirror each other and hold no edge the file was not read with, and the indexes by callee hold
\* the calls of the files that are known, and only those.
THEOREM GraphsStayAgree == Spec => []GraphsAgree
<1>1. GraphsInv => GraphsAgree
  <2> SUFFICES ASSUME GraphsInv PROVE GraphsAgree
    OBVIOUS
  <2>0. EdgesOK(graph) /\ CallsOK(calls) /\ DOMAIN calls.calls \subseteq DOMAIN cache
    BY DEF GraphsInv
  <2> DEFINE made == {m \in Sites \X Callees : m[2] \in calls_from(calls, m[1][1], m[1][2])}
  <2>1. ASSUME NEW f \in Files, NEW g \in Files
        PROVE  /\ g \in at(graph.out, f) <=> f \in at(graph.in, g)
               /\ g \in at(graph.out, f) /\ ~(step # idle /\ step.file = f) => f \in DOMAIN cache /\ g \in cache[f].imports
    BY <2>0, StepKinds DEF GraphsInv, EdgesOK, Pending, Imported
  <2>2. ASSUME NEW c \in Sites, NEW e \in Callees
        PROVE  /\ <<c, e>> \in made <=> e \in calls_from(calls, c[1], c[2])
               /\ c \in at(calls.exact, e) <=> e[1] # "" /\ <<c, e>> \in made
               /\ <<c, e>> \in made => c \in at(calls.symbol, e[2])
               /\ e[1] \in Files \cup {""} /\ e[2] \in Symbols /\ e = <<e[1], e[2]>>
    <3>1. e[1] \in Files \cup {""} /\ e[2] \in Symbols /\ e = <<e[1], e[2]>>
      BY Pair DEF Callees
    <3>2. <<c, e>> \in made <=> e \in calls_from(calls, c[1], c[2])
      OBVIOUS
    <3>3. c \in at(calls.exact, e) <=> e[1] # "" /\ e \in calls_from(calls, c[1], c[2])
      BY <2>0 DEF CallsOK
    <3>4. c \in at(calls.symbol, e[2]) <=> \E d \in calls_from(calls, c[1], c[2]) : d[2] = e[2]
      BY <2>0, <3>1 DEF CallsOK
    <3> QED BY <3>1, <3>2, <3>3, <3>4
  <2>3. ASSUME NEW m \in made
        PROVE  m[1] \in Sites /\ m[2] \in Callees /\ m = <<m[1], m[2]>>
    BY Pair
  <2>4. Sites \subseteq Callees /\ "" \notin Files
    BY FileEventsConstants DEF Sites, Callees
  <2>5. ASSUME NEW e \in DOMAIN calls.exact, NEW c \in calls.exact[e] PROVE <<c, e>> \in made
    <3>1. c \in Sites /\ e \in Sites /\ c \in at(calls.exact, e)
      BY <2>0 DEF CallsOK, at
    <3> QED BY <2>2, <2>4, <3>1
  <2>6. ASSUME NEW s \in DOMAIN calls.symbol, NEW c \in calls.symbol[s] PROVE \E m \in made : m[1] = c /\ m[2][2] = s
    <3>1. c \in Sites /\ s \in Symbols /\ c \in at(calls.symbol, s)
      BY <2>0 DEF CallsOK, at
    <3>2. PICK e \in calls_from(calls, c[1], c[2]) : e[2] = s
      BY <2>0, <3>1 DEF CallsOK
    <3>3. c[1] \in Files /\ c[2] \in Symbols
      BY <3>1, Pair DEF Sites
    <3>4. e \in Callees
      BY <2>0, <3>3 DEF CallsOK, calls_from, at
    <3>5. <<c, e>> \in made /\ <<c, e>>[1] = c /\ <<c, e>>[2] = e
      BY <2>2, <3>1, <3>4
    <3> QED BY <3>2, <3>5
  <2>7. ASSUME NEW m \in made, NEW x \in causal_context(calls, m[2][1]).symbols, x.symbol = m[2][2]
        PROVE  m[1] \in x.called_by
    <3>1. m[1] \in Sites /\ m[2] \in Callees /\ <<m[1], m[2]>> \in made /\ m[2] = <<m[2][1], m[2][2]>>
      BY <2>2, <2>3
    <3>2. x.called_by = caller_sites(calls, m[2][1], m[2][2]) /\ m[2][1] \in DOMAIN calls.calls
      BY <2>7 DEF causal_context
    <3>3. m[2][1] \in Files
      BY <2>0, <3>2 DEF CallsOK
    <3>4. m[1] \in at(calls.exact, m[2])
      BY <2>2, <2>4, <3>1, <3>3
    <3> QED BY <3>1, <3>2, <3>4 DEF caller_sites
  <2>8. ASSUME NEW f \in Files PROVE causal_context(calls, f).outgoing = Cardinality({m \in made : m[1][1] = f})
    <3>1. {m \in made : m[1][1] = f} = {m \in Sites \X Callees : m[2] \in calls_from(calls, m[1][1], m[1][2]) /\ m[1][1] = f}
      OBVIOUS
    <3> QED BY <2>0, <3>1, OutgoingExact
  <2>9. ASSUME NEW m \in made
        PROVE  m[1] \in at(calls.symbol, m[2][2]) /\ (m[2][1] \in Files => m[1] \in at(calls.exact, m[2]))
    BY <2>2, <2>3, <2>4
  <2>10. made = {m \in (Files \X Symbols) \X ((Files \cup {""}) \X Symbols) : m[2] \in calls_from(calls, m[1][1], m[1][2])}
    BY DEF Sites, Callees
  <2> HIDE DEF made
  <2> QED BY <2>0, <2>1, <2>5, <2>6, <2>7, <2>8, <2>9, <2>10 DEF GraphsAgree
<1> QED BY <1>1, GraphsInit, GraphsStep, PTL DEF Spec
=============================================================================
