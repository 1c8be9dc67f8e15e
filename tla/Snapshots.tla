----------------------------- MODULE Snapshots -----------------------------
(* Snapshots of a directory, the difference of two, and the scan of what     *)
(* changed against the catalog of indicators. A path is the sequence of its  *)
(* names, and a tree maps each path to what is there: [kind, size, data].    *)
EXTENDS Integers, FiniteSets, SequencesExt

CONSTANTS
  SkipDirs,     \* the names of directories that are not walked
  MaxFileBytes, \* files above it are not hashed
  Rules,        \* the catalog: [kind, severity, pattern, only]
  Shown         \* data |-> the needles in its first MAX_CONTENT_BYTES, in any case;
                \* a link is read where it leads to

Severities == {"high", "medium"}

(* A rule is about a path, by its last names, or about the content of a      *)
(* file, for a file of any name or of one.                                   *)
PathRules == {r \in Rules : r.kind = "suffix"}
ContentRules == {r \in Rules : r.kind = "content"}
AnyFile == "any file"

ASSUME SnapshotAssumption ==
  /\ MaxFileBytes \in Nat
  /\ \A r \in Rules : r.severity \in Severities

Unhashed == "no hash"

(* snapshot_file and the arms of walk: a link has its target, a file its     *)
(* size, and its hash if it is small enough; a socket is not recorded.       *)
EntryOf(state) ==
  IF state.kind = "file" /\ state.size > MaxFileBytes
  THEN [state EXCEPT !.data = Unhashed] ELSE state

(* A wrong variant of EntriesDiffer.                                         *)

\* Compare sizes only.
SizesDiffer(a, b) == a.kind # b.kind \/ a.size # b.size

(* walk goes into no directory of the skip list, wherever it is.             *)
Walked(paths) ==
  {p \in paths : \A i \in 1 .. Len(p) - 1 : p[i] \notin SkipDirs}

(* Snapshot::take. What cannot be read is kept apart.                        *)
Take(tree) ==
  LET seen == {p \in Walked(DOMAIN tree) : tree[p].kind \in {"file", "link"}}
  IN [files |-> [p \in seen |-> EntryOf(tree[p])],
      unreadable |-> {p \in Walked(DOMAIN tree) : tree[p].kind = "locked"}]

(* entries_differ: a missing hash on either side leaves the size.            *)
EntriesDiffer(a, b) ==
  \/ a.kind # b.kind
  \/ a.size # b.size
  \/ a.data # b.data /\ Unhashed \notin {a.data, b.data}

Diff(before, after) ==
  LET was == DOMAIN before.files
      is == DOMAIN after.files
  IN [added    |-> is \ was,
      modified |-> {p \in was \cap is : EntriesDiffer(before.files[p], after.files[p])},
      removed  |-> was \ is]

NoDiff == [added |-> {}, modified |-> {}, removed |-> {}]

(* path_ends_with: whole names, not letters; a `.` among them is left out.   *)
PathEndsWith(p, suffix) == IsSuffix(suffix, p)

(* matches. A rule for a name is a rule for a path of one name.              *)
PathMatches(r, p) == r \in PathRules /\ PathEndsWith(p, r.pattern)

(* matches_content: a file that cannot be read has nothing in it.            *)
ContentMatches(r, p, state) ==
  /\ r \in ContentRules /\ r.only \in {AnyFile, Last(p)}
  /\ state.kind \in {"file", "link"} /\ state.data \in DOMAIN Shown
  /\ r.pattern \in Shown[state.data]

Indicates(r, p, state) == PathMatches(r, p) \/ ContentMatches(r, p, state)

(* scan_paths_in_root. The findings are the severities that were met.        *)
Scan(tree, paths) ==
  {r.severity : r \in {x \in Rules : \E p \in paths : Indicates(x, p, tree[p])}}
=============================================================================
