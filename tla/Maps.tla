---------------------------------- MODULE Maps ----------------------------------
(***************************************************************************)
(* A HashMap is a function whose domain is the set of its keys.            *)
(***************************************************************************)

\* The set kept under a key; nothing is kept under a key that is not there.
at(map, key) == IF key \in DOMAIN map THEN map[key] ELSE {}

\* insert and remove
with(map, key, value) == [k \in DOMAIN map \cup {key} |-> IF k = key THEN value ELSE map[k]]
without(map, keys) == [k \in DOMAIN map \ keys |-> map[k]]
=============================================================================
