----------------------------- MODULE MCJobDaemon ----------------------------
(* Instances of JobDaemon for TLC.                                           *)
EXTENDS JobDaemon

CONSTANTS d1, d2

One == {d1}
Other == {d2}
NoOther == {}
EveryMode == {"audit", "block"}
=============================================================================
