---------------------------- MODULE MCStripCache ----------------------------
(* Instances of StripCache for TLC.                                          *)
EXTENDS StripCache, TLC

CONSTANTS k1, k2, b1, b2, w1, w2, w3, old, new, none, nofile, partial

OneKey == {k1}
TwoKeys == {k1, k2}
TwoBodies == {b1, b2}
OneBuild == {old}
TwoBuilds == {old, new}
OneWriter == {w1}
ThreeWriters == {w1, w2, w3}

\* One key that ships scripts, one that does not.
MixedOutput == [b \in {old} |-> [k \in {k1, k2} |-> IF k = k1 THEN b1 ELSE none]]
\* A release that no longer finds anything to strip.
RelaxedOutput == [b \in {old, new} |-> [k \in {k1} |-> IF b = old THEN b1 ELSE none]]

WriterSymmetry == Permutations(Writers)
=============================================================================
