------------------------------ MODULE Patterns ------------------------------
(* Small algorithms and what they are meant to compute: the env rules and    *)
(* their globs (policy.rs), the patterns of CODEOWNERS (codeowners.rs) and the *)
(* edit distance of the typosquat detector (typosquat.rs).                   *)
EXTENDS Integers, Sequences, FiniteSets, FiniteSetsExt, SequencesExt

CONSTANTS
  Letters,                  \* of names and globs
  MaxName, MaxGlob,         \* bounds: their lengths
  MaxRuleGlob,              \* bound: of the globs of env rules, one of each list
  Segments, SegmentGlobs,   \* names between two slashes of a path, and globs of them
  MaxPath, MaxPattern       \* bounds: segments of a path, of a pattern

ASSUME PatternAssumption ==
  /\ "*" \notin Letters /\ Letters # {}
  /\ Segments \subseteq Seq(Letters) \ {<<>>} /\ SegmentGlobs \subseteq Seq(Letters \cup {"*"})
  /\ {MaxName, MaxGlob, MaxRuleGlob, MaxPath, MaxPattern} \subseteq Nat

VARIABLE input   \* what the algorithm at hand is given: [what |-> ..., ...]

NoMatch == -1
Upto(S, n) == UNION {[1 .. k -> S] : k \in 0 .. n}

-----------------------------------------------------------------------------
(* glob_match of policy.rs, segment_matches of codeowners.rs: the parts      *)
(* between the stars, the first at the start, the last at the end, each of   *)
(* the others at the first place after the one before.                       *)

\* Where the part that begins at i ends: at the next star, or behind the glob.
PartEnd(p, i) == Min({e \in i .. Len(p) : p[e] = "*"} \cup {Len(p) + 1})

\* Where a part occurs in n, as the number of letters before it, from a cursor on.
Occurrences(part, n, cursor) ==
  {k \in cursor .. Len(n) - Len(part) : SubSeq(n, k + 1, k + Len(part)) = part}

\* Whether the parts from the one that begins at i on fit behind a cursor.
PartsFit(p, n) ==
  LET fit[c \in (1 .. Len(p) + 1) \X (0 .. Len(n))] ==
        LET i == c[1]
            end == PartEnd(p, i)
            len == end - i
            at == Occurrences(SubSeq(p, i, end - 1), n, c[2])
        IN IF end > Len(p) THEN Len(n) - len \in at
           ELSE IF i = 1 THEN 0 \in at /\ fit[<<end + 1, len>>]
           ELSE at # {} /\ fit[<<end + 1, Min(at) + len>>]
  IN fit

GlobMatch(p, n) == IF "*" \notin ToSet(p) THEN p = n ELSE PartsFit(p, n)[<<1, 0>>]

\* What a glob means: a star stands for any run of letters, also an empty one.
Means(p, n) ==
  LET m[c \in (1 .. Len(p) + 1) \X (1 .. Len(n) + 1)] ==
        LET i == c[1]
            j == c[2]
        IN IF i > Len(p) THEN j > Len(n)
           ELSE IF p[i] = "*" THEN m[<<i + 1, j>>] \/ (j <= Len(n) /\ m[<<i, j + 1>>])
           ELSE j <= Len(n) /\ p[i] = n[j] /\ m[<<i + 1, j + 1>>]
  IN m

GlobMeans(p, n) == Means(p, n)[<<1, 1>>]

(* EnvPolicy: without rules the environment is inherited as it is, else each *)
(* name is kept or stripped before the command starts.                       *)
EnvActive(env) == env.default # "pass" \/ env.allow # {} \/ env.deny # {}

EnvKept(env, n) ==
  /\ ~\E g \in env.deny : GlobMatch(g, n)
  /\ env.default = "pass" \/ \E g \in env.allow : GlobMatch(g, n)

ChildEnv(env, parent) ==
  IF EnvActive(env) THEN {n \in parent : EnvKept(env, n)} ELSE parent

-----------------------------------------------------------------------------
(* pattern_matches of codeowners.rs.  A pattern is [lead, segs, dir]: a      *)
(* slash before, the segments, a slash after.                                *)

Star == <<"*">>
Stars == <<"*", "*">>

SegmentMatches(p, s) == GlobMatch(p, s)

(* match_prefix: how many segments of the path the pattern takes, from its   *)
(* i-th and the path's j-th on; for `**` as many as it can.                  *)
Taken(pat, path) ==
  LET taken[c \in (1 .. Len(pat) + 1) \X (1 .. Len(path) + 1)] ==
        LET i == c[1]
            j == c[2]
            rest == {k \in j .. Len(path) + 1 : taken[<<i + 1, k>>] # NoMatch}
        IN IF i > Len(pat) THEN 0
           ELSE IF pat[i] = Stars THEN
             IF rest = {} THEN NoMatch ELSE Max(rest) - j + taken[<<i + 1, Max(rest)>>]
           ELSE IF j > Len(path) \/ ~SegmentMatches(pat[i], path[j]) THEN NoMatch
           ELSE IF taken[<<i + 1, j + 1>>] = NoMatch THEN NoMatch
           ELSE 1 + taken[<<i + 1, j + 1>>]
  IN taken

MatchPrefix(pat, path) == Taken(pat, path)[<<1, 1>>]

Reaches(p, consumed, path) ==
  \/ p.dir /\ consumed < Len(path)
  \/ ~p.dir /\ (consumed = Len(path) \/ (Last(p.segs) = Stars /\ Len(p.segs) > 1))

Anchored(p) == p.lead \/ Len(p.segs) > 1

\* From where on a pattern is tried: from the root, or from every segment.
Rests(p, path) ==
  {SubSeq(path, start + 1, Len(path)) : start \in IF Anchored(p) THEN {0} ELSE 0 .. Len(path) - 1}

PathMatches(p, path) ==
  \/ p = [lead |-> FALSE, segs |-> <<Star>>, dir |-> FALSE]
  \/ \E rest \in Rests(p, path) :
       LET n == MatchPrefix(p.segs, rest)
       IN n # NoMatch /\ Reaches(p, n, rest)

\* Every number of segments of the path up to which the pattern can take it.
PatternEnds(pat, path) ==
  LET ends[c \in (1 .. Len(pat) + 1) \X (1 .. Len(path) + 1)] ==
        LET i == c[1]
            j == c[2]
        IN IF i > Len(pat) THEN {j - 1}
           ELSE IF pat[i] = Stars THEN UNION {ends[<<i + 1, k>>] : k \in j .. Len(path) + 1}
           ELSE IF j > Len(path) \/ ~GlobMeans(pat[i], path[j]) THEN {}
           ELSE ends[<<i + 1, j + 1>>]
  IN ends

Takes(pat, path) == PatternEnds(pat, path)[<<1, 1>>]

\* The path is what the pattern names; it is below a directory that it names.
NamesIt(p, path) == \E rest \in Rests(p, path) : Len(rest) \in Takes(p.segs, rest)
NamesAbove(p, path) == \E rest \in Rests(p, path) : \E k \in Takes(p.segs, rest) : k < Len(rest)

\* What a pattern owns: what it names, unless that has to be a directory, and
\* all that is below, unless it ends in a `*` of its own: that is one level.
PatternMeans(p, path) ==
  \/ p = [lead |-> FALSE, segs |-> <<Star>>, dir |-> FALSE]
  \/ ~p.dir /\ NamesIt(p, path)
  \/ (p.dir \/ Last(p.segs) # Star) /\ NamesAbove(p, path)

\* What the code may miss of it: what is below a directory that is given
\* without a slash behind it, or with a `**` in it.
MayMiss(p, path) ==
  NamesAbove(p, path) /\ IF p.dir THEN Stars \in ToSet(p.segs) ELSE Last(p.segs) # Stars

-----------------------------------------------------------------------------
(* edit_distance_bounded of typosquat.rs.                                    *)

(* The table that its three rows pass through: row j, cell i.                *)
Table(a, b) ==
  LET d[c \in (0 .. Len(b)) \X (0 .. Len(a))] ==
        LET j == c[1]
            i == c[2]
        IN IF j = 0 THEN i
           ELSE IF i = 0 THEN j
           ELSE Min({d[<<j - 1, i>>] + 1, d[<<j, i - 1>>] + 1,
                     d[<<j - 1, i - 1>>] + (IF a[i] = b[j] THEN 0 ELSE 1)}
                    \cup (IF i >= 2 /\ j >= 2 /\ a[i] = b[j - 1] /\ a[i - 1] = b[j]
                          THEN {d[<<j - 2, i - 2>>] + 1} ELSE {}))
  IN d

\* A wrong variant of ExitEarly: end the search at a row that is at the bound.
ExitAtBound(d, a, b, max) ==
  \E j \in 1 .. Len(b) : \A i \in 0 .. Len(a) : d[<<j, i>>] >= max

\* A row that is beyond the bound everywhere ends the search.
ExitEarly(d, a, b, max) ==
  \E j \in 1 .. Len(b) : \A i \in 0 .. Len(a) : d[<<j, i>>] > max

DistanceUpTo(x, y, max) ==
  LET a == IF Len(x) > Len(y) THEN y ELSE x
      b == IF Len(x) > Len(y) THEN x ELSE y
      d == Table(a, b)
  IN IF \/ Len(b) - Len(a) > max
        \/ ExitEarly(d, a, b, max)
        \/ d[<<Len(b), Len(a)>>] > max
     THEN NoMatch ELSE d[<<Len(b), Len(a)>>]

\* The words one edit away: a letter removed, added, replaced, or two swapped.
Edits(w) ==
  {RemoveAt(w, i) : i \in DOMAIN w}
    \cup {InsertAt(w, i, c) : i \in 1 .. Len(w) + 1, c \in Letters}
    \cup {[w EXCEPT ![i] = c] : i \in DOMAIN w, c \in Letters}
    \cup {[w EXCEPT ![i] = w[i + 1], ![i + 1] = w[i]] : i \in 1 .. Len(w) - 1}

-----------------------------------------------------------------------------
Pattern ==
  [lead : BOOLEAN, dir : BOOLEAN,
   segs : Upto(Segments \cup SegmentGlobs \cup {Star, Stars}, MaxPattern) \ {<<>>}]

PatternsInit == input = [what |-> "none"]

TryGlob == \E p \in Upto(Letters \cup {"*"}, MaxGlob) :
  input' = [what |-> "glob", glob |-> p]
TryEnv ==
  \E default \in {"pass", "clear"},
     allow, deny \in {{}} \cup {{g} : g \in Upto(Letters \cup {"*"}, MaxRuleGlob)} :
    input' = [what |-> "env", default |-> default, allow |-> allow, deny |-> deny]
TryPattern == \E p \in Pattern : input' = [what |-> "owners", pattern |-> p]
TryDistance == \E w \in Upto(Letters, MaxName) : input' = [what |-> "distance", word |-> w]

PatternsNext == input.what = "none" /\ (TryGlob \/ TryEnv \/ TryPattern \/ TryDistance)

PatternsSpec == PatternsInit /\ [][PatternsNext]_input

(* An env rule strips exactly the names its glob means: to take the leftmost *)
(* place for each part loses no match, and no part may be used twice.        *)
GlobIsAnyRun ==
  input.what = "glob" =>
    \A n \in Upto(Letters, MaxName) : GlobMatch(input.glob, n) = GlobMeans(input.glob, n)

(* The command's environment: nothing that a deny rule means, whatever allow *)
(* says, and under `clear` only what an allow rule means.                    *)
EnvIsScrubbed ==
  input.what = "env" =>
    \A n \in Upto(Letters, MaxName) :
      n \in ChildEnv(input, Upto(Letters, MaxName)) <=>
        /\ \A g \in input.deny : ~GlobMeans(g, n)
        /\ input.default = "clear" => \E g \in input.allow : GlobMeans(g, n)

(* A path that a CODEOWNERS pattern is said to own is one that it owns; and  *)
(* it is missed only below a directory whose pattern has no slash behind it, *)
(* or a `**`.                                                                *)
OwnersAsMeant ==
  input.what = "owners" =>
    \A path \in Upto(Segments, MaxPath) \ {<<>>} :
      /\ PathMatches(input.pattern, path) => PatternMeans(input.pattern, path)
      /\ PatternMeans(input.pattern, path) => PathMatches(input.pattern, path) \/ MayMiss(input.pattern, path)

(* The bounded distance counts edits: one is one edit away and nothing else, *)
(* two can be reached by two, and to stop at a row that is beyond the bound  *)
(* loses nothing, although a swap looks two rows back.                       *)
DistanceCountsEdits ==
  input.what = "distance" =>
    \A w \in Upto(Letters, MaxName) :
      LET d1 == DistanceUpTo(input.word, w, 1)
          d2 == DistanceUpTo(input.word, w, 2)
      IN /\ d1 = 0 <=> w = input.word
         /\ d1 = 1 <=> w # input.word /\ w \in Edits(input.word)
         /\ d2 # NoMatch => w \in UNION {Edits(v) : v \in Edits(input.word)}
         /\ d1 # NoMatch => d2 = d1
         /\ d2 = DistanceUpTo(w, input.word, 2)
         /\ d2 # NoMatch <=> DistanceUpTo(input.word, w, MaxName) <= 2
=============================================================================
