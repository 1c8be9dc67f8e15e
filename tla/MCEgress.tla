------------------------------ MODULE MCEgress ------------------------------
(* Instances of Egress for TLC.                                              *)
EXTENDS Egress

CONSTANTS a1, a2, cdn, tracker

TwoAddrs == {a1, a2}
TwoHosts == {cdn, tracker}
TwoPorts == {0, 443}

(* A host that is allowed for HTTPS, one that is denied altogether.          *)
TwoRules == {[verdict |-> "allow", host |-> cdn, ports |-> {443}],
             [verdict |-> "deny", host |-> tracker, ports |-> {0}]}

EachConfig ==
  [default : {"allow", "deny"}, mode : {"audit", "block"}, refresh : BOOLEAN]
=============================================================================
