----------------------------- MODULE EmbeddingStore -----------------------------
(***************************************************************************)
(* The vectors of the semantic search (observer/embedding_store.rs): one   *)
(* row of a matrix per entry, the position of each entry, the entry of     *)
(* each position, and the hash of the text a vector was computed from, by  *)
(* which the background indexer skips what it has.  Each change is made    *)
(* under the four write locks, its statement on brain.db included, but for *)
(* the DELETE of a removal.                                                *)
(*                                                                         *)
(* A vector and a hash stand for the text they come from; upsert_legacy,   *)
(* remove and the deferred load have no caller that reaches them today.    *)
(***************************************************************************)
EXTENDS CodeGraphs

CONSTANTS
  Entries,      \* the ids of indexed entries
  MaxTexts,     \* bound: texts an entry may have, 1..MaxTexts
  MaxWrites,    \* bound: rows put or removed
  MaxStarts     \* bound: daemons started again

ASSUME EmbeddingStoreAssumption == MaxTexts \in Nat /\ "none" \notin Entries

VARIABLES
  rows,       \* index, matrix, ids (id_by_position) and hashes, in memory
  table,      \* embedding_vectors in brain.db
  deleting,   \* entry removed in memory whose DELETE is to come, or NoEntry
  loaded,     \* what the deferred task has read and not copied, or NotLoaded
  complete,   \* the deferred task has copied what it read
  given,      \* history: the text last given for an entry
  ahead,      \* history: entries whose row may differ from the table's
  since,      \* history: entries changed since the deferred task read
  writes, starts

storeVars == <<rows, table, deleting, loaded, complete, given, ahead, since, writes, starts>>

Texts == 1..MaxTexts
NoEntry == "none"
Empty == [index |-> <<>>, matrix |-> <<>>, ids |-> <<>>, hashes |-> <<>>]
NotLoaded == [ids |-> <<"none">>]

\* Fault-seeded: the entry swapped into the place of the removed one keeps its old position.
stays(index, ids, pos) == index
moved(index, ids, pos) == with(index, ids[pos], pos)

put(s, e, vector, hash) ==
    IF e \in DOMAIN s.index
    THEN [s EXCEPT !.matrix[s.index[e]] = vector, !.hashes[e] = hash]
    ELSE [index |-> with(s.index, e, Len(s.matrix) + 1), matrix |-> Append(s.matrix, vector),
          ids |-> Append(s.ids, e), hashes |-> with(s.hashes, e, hash)]

swap_remove(s, e) ==
    IF e \notin DOMAIN s.index THEN s
    ELSE LET pos == s.index[e]
             last == Len(s.ids)
             index == without(s.index, {e})
             filled(seq) == Front([seq EXCEPT ![pos] = seq[last]])
         IN  [index |-> IF pos < last THEN moved(index, [s.ids EXCEPT ![pos] = s.ids[last]], pos) ELSE index,
              matrix |-> filled(s.matrix), ids |-> filled(s.ids), hashes |-> without(s.hashes, {e})]

\* The entries whose vectors are nearest to that of the text.
search(s, text) == {s.ids[p] : p \in {q \in DOMAIN s.matrix : s.matrix[q] = text}}

StoreInit ==
  /\ rows = Empty /\ table = <<>> /\ deleting = NoEntry /\ loaded = NotLoaded
  /\ complete = FALSE /\ given = <<>> /\ ahead = {} /\ since = {} /\ writes = 0 /\ starts = 0

written_entry(e) == writes < MaxWrites /\ writes' = writes + 1 /\ since' = since \cup {e}

\* The background indexer: nothing is written for a hash that is known.  A statement that
\* fails leaves the row in memory, with its hash.
Upsert(e, text, stored) ==
  /\ ~(e \in DOMAIN rows.hashes /\ rows.hashes[e] = text)
  /\ rows' = put(rows, e, text, text)
  /\ table' = IF stored THEN with(table, e, [vector |-> text, hash |-> text]) ELSE table
  /\ given' = with(given, e, text)
  /\ ahead' = IF stored THEN ahead \ {e} ELSE ahead \cup {e}
  /\ written_entry(e)
  /\ UNCHANGED <<deleting, loaded, complete, starts>>

\* Without a pool: in memory only, under a hash of the vector's bytes.
upsert_legacy(e, text) ==
  /\ rows' = put(rows, e, text, 0 - text)
  /\ given' = with(given, e, text) /\ ahead' = ahead \cup {e}
  /\ written_entry(e)
  /\ UNCHANGED <<table, deleting, loaded, complete, starts>>

RemoveRow(e) ==
  /\ deleting = NoEntry /\ deleting' = e
  /\ rows' = swap_remove(rows, e)
  /\ given' = without(given, {e})
  /\ written_entry(e)
  /\ UNCHANGED <<table, loaded, complete, ahead, starts>>

\* The DELETE, after the locks are released: it also takes a row upserted in between.
DeleteRow(ok) ==
  /\ deleting # NoEntry /\ deleting' = NoEntry
  /\ table' = IF ok THEN without(table, {deleting}) ELSE table
  /\ ahead' = IF ok /\ deleting \notin DOMAIN rows.index THEN ahead \ {deleting} ELSE ahead \cup {deleting}
  /\ since' = since \cup {deleting}
  /\ UNCHANGED <<rows, loaded, complete, given, writes, starts>>

\* The rows of the table in some order, an id being there once.
rows_of(order) ==
    [index |-> [e \in DOMAIN table |-> CHOOSE pos \in DOMAIN order : order[pos] = e],
     matrix |-> [pos \in DOMAIN order |-> table[order[pos]].vector],
     ids |-> order, hashes |-> [e \in DOMAIN table |-> table[e].hash]]

Load ==
  /\ loaded = NotLoaded /\ ~complete
  /\ \E order \in SetToSeqs(DOMAIN table) : loaded' = rows_of(order)
  /\ since' = {}
  /\ UNCHANGED <<rows, table, deleting, complete, given, ahead, writes, starts>>

\* copy_from puts what was read in the place of what was upserted meanwhile.
CopyFrom ==
  /\ loaded # NotLoaded /\ loaded' = NotLoaded /\ complete' = TRUE
  /\ rows' = loaded
  /\ given' = [e \in DOMAIN loaded.index |-> loaded.matrix[loaded.index[e]]]
  /\ ahead' = since
  /\ UNCHANGED <<table, deleting, since, writes, starts>>

StoreRestart ==
  /\ starts < MaxStarts /\ starts' = starts + 1
  /\ rows' = Empty /\ deleting' = NoEntry /\ loaded' = NotLoaded /\ complete' = FALSE
  /\ given' = <<>> /\ ahead' = {} /\ since' = {}
  /\ UNCHANGED <<table, writes>>

StoreNext ==
  \/ \E e \in Entries, text \in Texts :
       \/ \E stored \in BOOLEAN : Upsert(e, text, stored)
       \/ upsert_legacy(e, text)
  \/ \E e \in Entries : RemoveRow(e)
  \/ \E ok \in BOOLEAN : DeleteRow(ok)
  \/ Load
  \/ CopyFrom
  \/ StoreRestart

\* However entries come, move and go, every entry's row is its own: the index and the ids are
\* inverse to each other, the row holds what was last given for the entry, a search for a text
\* finds the entries that have it, and the hash by which the indexer skips an entry is that of
\* its row.  Outside the entries a failed or overtaken statement is known to have left behind,
\* memory agrees with brain.db.
RowsFollow ==
  LET agreed == {e \in DOMAIN rows.index : e \notin ahead /\ e # deleting}
  IN  /\ DOMAIN rows.index = DOMAIN given /\ DOMAIN rows.hashes = DOMAIN given
      /\ Len(rows.ids) = Len(rows.matrix) /\ Cardinality(DOMAIN rows.index) = Len(rows.ids)
      /\ \A e \in DOMAIN rows.index :
           /\ rows.index[e] \in DOMAIN rows.ids /\ rows.ids[rows.index[e]] = e
           /\ rows.matrix[rows.index[e]] = given[e]
           /\ rows.hashes[e] \in {given[e], 0 - given[e]}
      /\ \A text \in Texts : search(rows, text) = {e \in DOMAIN given : given[e] = text}
      /\ \A e \in agreed : e \in DOMAIN table /\ table[e] = [vector |-> given[e], hash |-> rows.hashes[e]]
      /\ complete => DOMAIN table \ (ahead \cup {deleting}) \subseteq DOMAIN rows.index
=============================================================================
