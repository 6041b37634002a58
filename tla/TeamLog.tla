------------------------------ MODULE TeamLog -------------------------------
(***************************************************************************)
(* What the operation list of team synchronisation promises, without       *)
(* Redis, matrices or trimming: members publish numbered operations, every *)
(* member gets to know operations, and a member acknowledges a number only *)
(* when it knows every operation published up to it.  An operation is      *)
(* never published below an acknowledged number, so nothing acknowledged   *)
(* is ever missing.                                                        *)
(***************************************************************************)
EXTENDS Naturals

CONSTANT Actors

VARIABLES
  pushed,   \* numbers of the published operations
  acked,    \* per member, the number acknowledged last
  known     \* per member, the operations it was handed

Init ==
  /\ pushed = {}
  /\ acked = [a \in Actors |-> 0]
  /\ known = [a \in Actors |-> {}]

Publish ==
  /\ \E n \in pushed' : /\ n \in Nat /\ pushed' = pushed \cup {n}
                        /\ \A a \in Actors : acked[a] < n
  /\ UNCHANGED <<acked, known>>

Learn(a) ==
  /\ known[a] \subseteq known'[a] /\ known'[a] \subseteq pushed
  /\ known' = [known EXCEPT ![a] = known'[a]]
  /\ UNCHANGED <<pushed, acked>>

Acknowledge(a) ==
  /\ acked'[a] \in Nat /\ acked'[a] >= acked[a]
  /\ \A n \in pushed : n <= acked'[a] => n \in known[a]
  /\ acked' = [acked EXCEPT ![a] = acked'[a]]
  /\ UNCHANGED <<pushed, known>>

Next == Publish \/ \E a \in Actors : Learn(a) \/ Acknowledge(a)

Spec == Init /\ [][Next]_<<pushed, acked, known>>

\* Whatever a member acknowledged it knows.
NothingMissing ==
  \A a \in Actors : \A n \in pushed : n <= acked[a] => n \in known[a]
=============================================================================
