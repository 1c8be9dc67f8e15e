------------------------------ MODULE MCVetting -----------------------------
(* Instances of Vetting for TLC.                                             *)
EXTENDS Vetting

CONSTANTS v1, c1, c2

OneVersion == {v1}
TwoClients == {c1, c2}

(* The age filter alone, and each known-bad source with the artifacts only.  *)
EachPart ==
  {[source |-> "off", failOnMissing |-> x, indexes |-> TRUE] : x \in BOOLEAN}
  \cup {[source |-> s, failOnMissing |-> FALSE, indexes |-> FALSE] : s \in {"live", "mirror"}}
=============================================================================
