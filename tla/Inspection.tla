----------------------------- MODULE Inspection -----------------------------
(* What sakimori-proxy finds in an archive before it lets it through:        *)
(* install scripts of an npm tarball and what strip makes of it, the install *)
(* hooks of a Python sdist (lifecycle.rs), startup events, bundled packages  *)
(* and known content of an editor extension (vsix_inspect.rs).               *)
(*                                                                           *)
(* An archive is the sequence of its entries.  An entry is named by its file *)
(* name and how many components its path has, and says what its content is   *)
(* looked at for.                                                            *)
EXTENDS Naturals, SequencesExt, Positions

CONSTANTS
  MaxEntries,    \* StripLimits::max_entries
  MaxBundled,    \* MAX_BUNDLED_DEP_ENTRIES
  MaxScanned     \* MAX_SCANNED_ENTRIES

Facts == {"script",      \* a lifecycle key with a non-blank string
          "hollow",      \* a lifecycle key with anything else
          "backend",     \* [build-system] build-backend
          "startup",     \* activationEvents has "*" or onStartupFinished
          "high", "low"} \* content the catalogue of IOCs knows

(* readable: the content can be read to its end (in a gzip stream that is cut *)
(* short, the last entry listed cannot); escapes: the path is absolute or has *)
(* ".."; package: the name and version in a bundled package.json, <<>> without a *)
(* name.                                                                      *)
Archive(format, large, entries) == [format |-> format, large |-> large, entries |-> entries]
Entry(name, depth, says) ==
  [name |-> name, depth |-> depth, readable |-> TRUE, escapes |-> FALSE, says |-> says,
   package |-> <<>>]

ArchiveEntry ==
  [name : STRING, depth : Nat, readable : BOOLEAN, escapes : BOOLEAN, says : SUBSET Facts,
   package : {<<>>} \cup (Seq(STRING) \X Seq(STRING))]

ASSUME LimitsAssumption == {MaxEntries, MaxBundled, MaxScanned} \subseteq Nat

FirstEntry(b, Is(_)) ==
  LET at == {i \in DOMAIN b.entries : Is(b.entries[i])}
  IN IF at = {} THEN 0 ELSE CHOOSE i \in at : \A j \in at : i <= j

Unreadable == [readable |-> FALSE, found |-> {}, bundled |-> <<>>]
Found(says) == [readable |-> TRUE, found |-> says, bundled |-> <<>>]

-----------------------------------------------------------------------------
(* npm: the first package.json right below the archive's only directory.     *)

RootPackageJson(e) == e.name = "package.json" /\ e.depth = 2

InspectNpmTarball(b) ==
  LET i == FirstEntry(b, RootPackageJson)
  IN IF b.format # "gzip" \/ (i # 0 /\ ~b.entries[i].readable) THEN Unreadable
     ELSE Found(IF i = 0 THEN {} ELSE b.entries[i].says \cap {"script"})

(* strip removes a lifecycle key whatever its value is, and refuses what it  *)
(* cannot rebuild.  Entries are looked at in order, and those after a        *)
(* package.json with nothing to remove are not looked at.                    *)
Removed(says) == says \ {"script", "hollow"}

StripNpmTarball(b) ==
  LET i == FirstEntry(b, RootPackageJson)
      hooked == i # 0 /\ Removed(b.entries[i].says) # b.entries[i].says
      walked == IF hooked \/ i = 0 THEN DOMAIN b.entries ELSE 1..i
  IN IF \/ b.large \/ b.format # "gzip"
        \/ \E j \in DOMAIN b.entries : ~b.entries[j].readable
        \/ \E j \in walked : b.entries[j].escapes \/ j > MaxEntries
     THEN "failed"
     ELSE IF hooked THEN "stripped" ELSE "nothing to strip"

Stripped(b) ==
  [b EXCEPT !.entries[FirstEntry(b, RootPackageJson)].says = Removed(@)]

-----------------------------------------------------------------------------
(* PyPI: setup.py and pyproject.toml at the same place; the walk ends when   *)
(* both have been seen.                                                      *)

RootChild(e) == e.depth = 2

InspectPypiSdist(b) ==
  LET setup   == FirstEntry(b, LAMBDA e : RootChild(e) /\ e.name = "setup.py")
      project == {i \in DOMAIN b.entries : RootChild(b.entries[i])
                                           /\ b.entries[i].name = "pyproject.toml"}
      seen    == {i \in project : "backend" \in b.entries[i].says /\ b.entries[i].readable}
      enough(i) == \E s \in seen : s < i /\ setup # 0 /\ setup < i
  IN IF b.format # "gzip" \/ \E i \in project : ~b.entries[i].readable /\ ~enough(i)
     THEN Unreadable
     ELSE Found((IF setup # 0 THEN {"setup.py"} ELSE {})
                \cup (IF seen # {} THEN {"backend"} ELSE {}))

-----------------------------------------------------------------------------
(* .vsix: the manifest must be readable, anything else is skipped when it is *)
(* not; two caps bound what is looked at.                                    *)

Manifest(e) == e.name = "package.json" /\ e.depth = 2
BundledManifest(e) == e.name = "package.json" /\ e.depth >= 4 /\ ~e.escapes
IocCandidate(e) == e.name \in {"package.json", "main.js"}

UpTo(cap, found) == SubSeq(found, 1, IF Len(found) < cap THEN Len(found) ELSE cap)

InspectVsix(b) ==
  LET at == {j \in DOMAIN b.entries : Manifest(b.entries[j])}
      manifest == IF at = {} THEN Entry("package.json", 2, {}) ELSE b.entries[Max(at)]
      all(I) == AtPositions(b.entries, I)
      bundled == UpTo(MaxBundled, all({j \in DOMAIN b.entries : BundledManifest(b.entries[j])}))
      scanned == UpTo(MaxScanned, all({j \in DOMAIN b.entries : IocCandidate(b.entries[j]) /\ j \notin at}))
      deps == AtPositions(bundled, {j \in DOMAIN bundled : bundled[j].readable /\ bundled[j].package # <<>>})
      hits == UNION {e.says \cap {"high", "low"} : e \in {x \in ToSet(scanned) : x.readable}}
  IN IF b.large \/ b.format # "zip" \/ ~manifest.readable THEN Unreadable
     ELSE [readable |-> TRUE, bundled |-> [j \in DOMAIN deps |-> deps[j].package],
           found |-> hits \cup (manifest.says \cap {"startup"})]
=============================================================================
