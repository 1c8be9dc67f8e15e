----------------------------- MODULE DepsCheck -----------------------------
(* `sakimori deps check`: from a lockfile to the packages that are too young,*)
(* with the cache of publish dates that processes share.                     *)
(* A lockfile is [format, entries]; an entry is a package it resolves, with  *)
(* the place it comes from and whether it is part of the workspace itself.   *)
EXTENDS Integers, FiniteSets, Sequences, SequencesExt

CONSTANTS
  Registry,      \* package |-> the dates its registry has for it, in its order
  MinAge,        \* --min-age
  Ignore         \* --ignore, a set of patterns (sequences of characters)

Packages == DOMAIN Registry

(* The registry clients, for a package that is there: npm and crates.io have *)
(* one date for a version, PyPI one for every file uploaded, of which the    *)
(* first in time counts, and NuGet one in each of two indices, of which the  *)
(* first that knows the package counts.                                      *)
NpmPublished(ds) == ds[1]
CratesPublished(ds) == ds[1]
PypiPublished(ds) == CHOOSE d \in ToSet(ds) : \A e \in ToSet(ds) : d <= e
NugetPublished(ds) == ds[1]

Published ==
  [p \in {q \in Packages : Registry[q] # <<>>} |->
     CASE p.eco = "npm" -> NpmPublished(Registry[p])
       [] p.eco = "crates" -> CratesPublished(Registry[p])
       [] p.eco = "pypi" -> PypiPublished(Registry[p])
       [] p.eco = "nuget" -> NugetPublished(Registry[p])]

ASSUME CheckAssumption ==
  /\ \A p \in DOMAIN Published : Published[p] \in Nat
  /\ MinAge \in Nat

(* The parsers: the entries that have a publish date worth asking for.       *)
(* npm takes an entry without a URL for one of the registry; cargo lists     *)
(* what names crates.io; the TOML locks of Python list every index that      *)
(* looks like one; requirements.txt lists its exact pins.                    *)
NpmLists(e) == ~e.local /\ e.version # "" /\ e.source \in {"registry", "none"}
CargoLists(e) == e.source = "registry"
TomlLists(e) == e.source \in {"registry", "other registry", "none"}
PinLists(e) == e.version # "" /\ e.source = "none"
NugetLists(e) == ~e.local /\ e.version # ""

(* The format and its ecosystem follow from the name of the file.            *)
EcoOf(format) ==
  CASE format = "package-lock.json" -> "npm"
    [] format = "Cargo.lock" -> "crates"
    [] format \in {"uv.lock", "poetry.lock", "requirements.txt"} -> "pypi"
    [] format = "packages.lock.json" -> "nuget"

Lists(format, e) ==
  CASE format = "package-lock.json" -> NpmLists(e)
    [] format = "Cargo.lock" -> CargoLists(e)
    [] format \in {"uv.lock", "poetry.lock"} -> TomlLists(e)
    [] format = "requirements.txt" -> PinLists(e)
    [] format = "packages.lock.json" -> NugetLists(e)

Listed(lock) ==
  {[eco |-> EcoOf(lock.format), name |-> e.name, version |-> e.version] :
     e \in {x \in lock.entries : Lists(lock.format, x)}}

(* ignore_matches: the name itself, `prefix*` or `*suffix`.                  *)
IgnoreMatches(pattern, name) ==
  \/ pattern = name
  \/ pattern # <<>> /\ Last(pattern) = "*" /\ IsPrefix(Front(pattern), name)
  \/ pattern # <<>> /\ Head(pattern) = "*" /\ IsSuffix(Tail(pattern), name)

Wanted(lock) ==
  {p \in Listed(lock) : ~ \E pattern \in Ignore : IgnoreMatches(pattern, p.name)}

-----------------------------------------------------------------------------
(* The cache: a function from keys to dates, empty if the file is missing or *)
(* does not parse.                                                           *)
NoDates == [k \in {} |-> 0]

\* Wrong variant of KeyOf: one date for all versions of a package.
KeyOfName(p) == [p EXCEPT !.version = ""]
KeyOf(p) == p

Hits(wanted, cache) == {p \in wanted : KeyOf(p) \in DOMAIN cache}

(* fetch_published for every wanted package: from the cache, or from the     *)
(* registry, whose date is added; `unknown` are the lookups that fail.       *)
WithAnswers(wanted, cache, unknown) ==
  LET asked == ((wanted \cap DOMAIN Published) \ Hits(wanted, cache)) \ unknown
      new == {KeyOf(p) : p \in asked}
  IN [k \in DOMAIN cache \cup new |->
        IF k \in DOMAIN cache THEN cache[k]
        ELSE Published[CHOOSE p \in asked : KeyOf(p) = k]]

(* check, once `dates` holds what the registry has answered.                 *)
TooYoung(published, at) == at - published < MinAge
Violations(wanted, dates, at) ==
  {p \in Hits(wanted, dates) : TooYoung(dates[KeyOf(p)], at)}
Unanswered(wanted, dates) == wanted \ Hits(wanted, dates)
=============================================================================
