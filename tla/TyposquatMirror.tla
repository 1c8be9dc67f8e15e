--------------------------- MODULE TyposquatMirror ---------------------------
(* MirroredDetector of typosquat.rs: names that are a letter or two away     *)
(* from a popular one, by lists that are fetched every day and by the lists  *)
(* built into the program.  A name is a word of Patterns, in lower case.     *)
EXTENDS Patterns

CONSTANTS
  WithLists,       \* ecosystems that have lists
  WithoutLists,     \* ecosystems that have none: git, VS Code
  MirrorBodies,       \* what the mirror may serve: [WithLists -> sets of names]
  Baseline,     \* [WithLists -> set of names]
  Threshold,
  Asked,        \* names that are looked up
  NoTag,
  MaxPublished  \* bound: times the mirror changes

ASSUME TyposquatAssumption ==
  /\ MirrorBodies \subseteq [WithLists -> SUBSET Upto(Letters, MaxName)]
  /\ Baseline \in [WithLists -> SUBSET Upto(Letters, MaxName)]
  /\ WithLists \cap WithoutLists = {}
  /\ Threshold \in Nat /\ MaxPublished \in Nat /\ NoTag \notin MirrorBodies

VARIABLES
  served,     \* what the mirror answers: up, garbled, a body and its tag
  state,      \* the lists and the tag they came with
  refreshed,  \* what refresh_once has returned, "no" since the mirror has changed
  renewals,  \* history: how often it has
  flagged     \* the last name looked up: [eco, name, near]

squatVars == <<served, state, refreshed, renewals, flagged>>
Unasked == [eco |-> "none", name |-> <<>>, near |-> {}]
Empty == [e \in WithLists |-> {}]

(* scan_mirror, Detector::suggest: the closest names of a list, of which the *)
(* first in its order is the answer; none for a name of the list.            *)
Nearest(list, name) ==
  LET d == {<<top, DistanceUpTo(name, top, Threshold)>> : top \in list}
      near == {x \in d : x[2] # NoMatch}
  IN IF name \in list THEN {}
     ELSE {x[1] : x \in {y \in near : \A other \in near : y[2] <= other[2]}}

-----------------------------------------------------------------------------
(* Wrong variants of definitions below.                                      *)

\* An answer without a tag leaves the old one.
KeepTag(s, old) == [lists |-> s.body, tag |-> IF s.tag = NoTag THEN old.tag ELSE s.tag]

-----------------------------------------------------------------------------
(* MirroredDetector::suggest: what a name may be flagged for.                *)
Suggest(e, name) ==
  IF Threshold = 0 \/ name = <<>> \/ e \in WithoutLists THEN {}
  ELSE LET m == state.lists[e]
       IN IF name \in m THEN {}
          ELSE IF Nearest(m, name) # {} THEN Nearest(m, name)
          ELSE Nearest(Baseline[e], name)

(* refresh_once, of an answer with a body.                                   *)
Parsed(s, old) == [lists |-> s.body, tag |-> s.tag]

RefreshOnce ==
  /\ IF ~served.up THEN refreshed' = "error" /\ state' = state
     ELSE IF state.tag # NoTag /\ state.tag = served.tag
          THEN refreshed' = "unmodified" /\ state' = state
     ELSE IF served.garbled THEN refreshed' = "error" /\ state' = state
     ELSE refreshed' = "updated" /\ state' = Parsed(served, state)
  /\ flagged' = Unasked
  /\ UNCHANGED <<served, renewals>>

LookUp(e, name) ==
  /\ flagged' = [eco |-> e, name |-> name, near |-> Suggest(e, name)]
  /\ UNCHANGED <<served, state, refreshed, renewals>>

(* The mirror: a tag, if there is one, tells a body from every other.        *)
Publish(s) ==
  /\ renewals < MaxPublished /\ s # served
  /\ served' = s /\ refreshed' = "no" /\ renewals' = renewals + 1
  /\ flagged' = Unasked
  /\ UNCHANGED state

Down == [up |-> FALSE, garbled |-> FALSE, body |-> Empty, tag |-> NoTag]
MirrorAnswers ==
  {Down, [Down EXCEPT !.up = TRUE, !.garbled = TRUE]}
    \cup {[up |-> TRUE, garbled |-> FALSE, body |-> b, tag |-> t] : b \in MirrorBodies, t \in MirrorBodies \cup {NoTag}}

SquatInit ==
  /\ served = Down
  /\ state = [lists |-> Empty, tag |-> NoTag]
  /\ refreshed = "no" /\ renewals = 0 /\ flagged = Unasked

SquatNext ==
  \/ RefreshOnce
  \/ \E e \in WithLists \cup WithoutLists, name \in Asked : LookUp(e, name)
  \/ \E s \in {a \in MirrorAnswers : a.tag \in {NoTag, a.body}} : Publish(s)

SquatSpec == SquatInit /\ [][SquatNext]_squatVars

-----------------------------------------------------------------------------
SquatTypeOK ==
  /\ state.lists \in MirrorBodies \cup {Empty} /\ state.tag \in MirrorBodies \cup {NoTag}
  /\ refreshed \in {"no", "updated", "unmodified", "error"} /\ renewals \in 0 .. MaxPublished

(* A refresh that reports no error leaves the lists the mirror has, also     *)
(* when it answers 304 to the tag of lists that were fetched long ago.       *)
RefreshedIsCurrent == refreshed \in {"updated", "unmodified"} => state.lists = served.body

(* Neither a mirror that fails nor one that has dropped a name loses what    *)
(* the program knows by itself: a name close to a built-in one is flagged    *)
(* unless the mirror lists it; and so is a name close to one of the mirror's.*)
(* A threshold of 0 turns the detector off.                                  *)
CloseIsFlagged ==
  Threshold > 0 /\ flagged.eco \in WithLists /\ flagged.name # <<>> =>
    LET m == state.lists[flagged.eco]
    IN /\ Nearest(Baseline[flagged.eco], flagged.name) # {} /\ flagged.name \notin m => flagged.near # {}
       /\ Nearest(m, flagged.name) # {} => flagged.near # {}

(* A popular name is flagged in no case for the mirror's lists, and for the  *)
(* built-in ones only when the mirror lists another name close to it; where  *)
(* there are no lists, nothing is.                                           *)
PopularIsClean ==
  /\ flagged.eco \in WithoutLists => flagged.near = {}
  /\ flagged.eco \in WithLists =>
       LET m == state.lists[flagged.eco]
       IN /\ flagged.name \in m => flagged.near = {}
          /\ flagged.name \in Baseline[flagged.eco] => flagged.near \subseteq m

(* What is looked up is judged by the lists the mirror has and the built-in  *)
(* ones (typosquat.rs); the distance itself is PatternsAsMeant.              *)
SquatsAreFlagged == RefreshedIsCurrent /\ CloseIsFlagged /\ PopularIsClean
=============================================================================
