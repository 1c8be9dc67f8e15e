-------------------------- MODULE MCStripPipeline --------------------------
(* Instances of StripPipeline for TLC.                                       *)
EXTENDS StripPipeline, TLC

CONSTANTS c1, c2, scripted, big, r1, r2, old, new

OneClient == {c1}
TwoClients == {c1, c2}
TwoRevs == {r1, r2}

Scripted == {scripted}
TwoKinds == {scripted, big}
TraitOf(p) ==
  CASE p = scripted -> "scripted"
    [] p = big -> "unstrippable"
Traits1 == [p \in Packages |-> TraitOf(p)]

Conf(b, a, p, f) == [build |-> b, allow |-> a, policy |-> p, onFailure |-> f]

TwoStrips == {Conf(old, {}, "strip", "passthrough"), Conf(old, {scripted}, "strip", "block")}
\* An allow-list that does not change while scripts are stripped.
Evolving ==
  {Conf(old, {}, "audit", "block"), Conf(old, {scripted}, "block", "block"),
   Conf(old, {}, "strip", "block"), Conf(new, {}, "strip", "passthrough")}

ClientSymmetry == Permutations(Clients)
=============================================================================
