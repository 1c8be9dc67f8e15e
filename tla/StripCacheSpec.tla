--------------------------- MODULE StripCacheSpec ---------------------------
(* What a user of the strip cache counts on, without the files: a map in     *)
(* memory and one that survives the process.  An entry is whole or absent;   *)
(* insert makes it durable (or fails to) before memory serves it; a restart  *)
(* serves what is durable.                                                   *)

CONSTANTS
  Keys,    \* cache keys
  Values,  \* what an entry may hold
  Absent   \* no entry

VARIABLES memory, durable

Entry(x) == [integrity |-> x, body |-> x]

Init ==
  /\ memory = [k \in Keys |-> Entry(Absent)]
  /\ durable = [k \in Keys |-> Entry(Absent)]

Persist(k, x) ==
  /\ durable' = [durable EXCEPT ![k] = Entry(x)]
  /\ UNCHANGED memory

Remember(k, x) ==
  /\ memory' = [memory EXCEPT ![k] = Entry(x)]
  /\ UNCHANGED durable

Reopen ==
  /\ memory' = durable
  /\ UNCHANGED durable

Next ==
  \/ \E k \in Keys, x \in Values : Persist(k, x) \/ Remember(k, x)
  \/ Reopen

Spec == Init /\ [][Next]_<<memory, durable>>
=============================================================================
