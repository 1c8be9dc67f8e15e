------------------------- MODULE CacheVerification -------------------------
(* `sakimori deps verify-cache`: the content of a package manager's store is *)
(* hashed again and compared with what the lockfile promises, before the     *)
(* package manager installs from it (deps/verify_cache.rs).                  *)
(* A hash is injective: the digest of a content is the content itself, and   *)
(* what names another content is a mismatch.                                 *)
EXTENDS Integers, Sequences, FiniteSets, SequencesExt

CONSTANTS
  Lockfiles,    \* what may be checked out
  Contents,     \* bytes that were published
  Garbage,      \* bytes that never were, and that parse as nothing
  Bad,          \* a digest that does not decode
  None,         \* an absent field, file or answer
  Locked,   \* a file that exists and cannot be read
  Files,        \* [Contents -> files of the package whose tarball it is]
  Registries,   \* directories below registry/cache, there from the start
  MaxSwaps, MaxLosses    \* bounds: files replaced, files lost

Algos == {"sha512", "sha256", "sha1"}
Token == [algo : Algos, digest : Contents \cup {Bad}]
Kinds == {"npm", "pnpm", "cargo"}
Outcomes == {"ok", "missing", "mismatch", "unsupported"}

(* key: "root" and "link" are the entries of package-lock.json that install  *)
(* nothing; a package has no integrity when it comes from git or a path.     *)
Package == [name : {None} \cup STRING, key : {"root", "link", "module"},
            integrity : {None} \cup Seq(Token)]
Lockfile == [kind : Kinds \cup {"other"}, parses : BOOLEAN, packages : Seq(Package)]

ASSUME CacheAssumption ==
  /\ MaxSwaps \in Nat /\ MaxLosses \in Nat
  /\ Lockfiles \subseteq Lockfile /\ Registries # {}
  /\ None \notin Lockfiles \cup Token \cup {Garbage, Locked} \cup 0 .. 1
  /\ Files \in [Contents -> Seq([content : Contents, exec : BOOLEAN])]
  /\ {Garbage, Bad, None, Locked} \cap Contents = {}

VARIABLES
  lockfile,
  disk,         \* what each path holds; what is not there is None
  sqlite,       \* the store is the database of pnpm 11
  command,      \* the command under way or at its end, None once that is stale
  swapped,      \* history: paths replaced since they were written
  late,         \* history: paths that changed after an entry was done with them
  losses        \* history: files lost

(* command: whether it saw that database, the verdicts so far, of the entry  *)
(* it is at the files and the next one to read, and the exit code.           *)
cacheVars == <<lockfile, disk, sqlite, command, swapped, late, losses>>

-----------------------------------------------------------------------------
(* What the lockfile promises.                                               *)

(* npm_integrity_entries, pnpm_integrity_entries, cargo_integrity_entries:   *)
(* the positions of what is looked at; what carries no integrity is not.     *)
Entries(l) ==
  {i \in DOMAIN l.packages :
     /\ l.packages[i].name # None /\ l.packages[i].integrity # None
     /\ l.kind = "npm" => l.packages[i].key = "module"}

\* Of crates the name stands for the name and the version.
ASSUME NamesAssumption ==
  \A l \in Lockfiles : \A i, j \in Entries(l) :
    l.kind = "cargo" /\ l.packages[i].name = l.packages[j].name => i = j

(* parse_sri: the first algorithm it knows decides, also when its digest     *)
(* does not decode.  decode_cargo_checksum has one digest to look at.        *)
Promise(integrity) ==
  LET known == {i \in DOMAIN integrity : integrity[i].algo \in {"sha512", "sha256"}}
  IN IF known = {} \/ integrity[Min(known)].digest = Bad THEN None ELSE integrity[Min(known)]

(* cacache_path, pnpm_index_path, pnpm_blob_path.                            *)
NpmPath(t) == <<"content", t.algo, t.digest>>
IndexPath(t) == <<"index", t.digest, None>>
BlobPath(t, exec) == <<IF exec THEN "exec" ELSE "blob", t.digest, None>>
CratePath(reg, e) == <<reg, e.name, None>>

-----------------------------------------------------------------------------
(* Verdicts.                                                                 *)

(* Wrong variants of definitions below.                                      *)

\* The first file stands for the others of the index.
FirstOnly(index) ==
  LET f == Head(index)
      t == Promise(f.integrity)
  IN << [path |-> BlobPath(t, f.exec), digest |-> t.digest] >>

(* verify_one_npm, verify_pnpm_file: read a file and hash it.                *)
Rehash(p, digest) ==
  CASE disk[p] = None -> "missing"
    [] disk[p] = Locked -> "unsupported"
    [] OTHER -> IF disk[p] = digest THEN "ok" ELSE "mismatch"

(* verify_one_pnpm: the files of an index in its order.  An index that       *)
(* parses is the one of the tarball, whose digests decode.                   *)
Listed(index) ==
  [j \in DOMAIN index |->
     LET t == Promise(index[j].integrity)
     IN [path |-> BlobPath(t, index[j].exec), digest |-> t.digest]]

(* The exit code: a mismatch fails the run, a missing file only with         *)
(* --strict.                                                                 *)
ExitCode(verdicts, strict) ==
  IF \E i \in DOMAIN verdicts : \/ verdicts[i] = "mismatch"
                                \/ strict /\ verdicts[i] = "missing"
  THEN 1 ELSE 0

-----------------------------------------------------------------------------
(* The store, as the package managers and a restored cache change it.        *)

CrateNames == UNION {{p.name : p \in ToSet(l.packages)} : l \in Lockfiles}
Paths ==
  ({"content"} \X {"sha512", "sha256"} \X Contents)
    \cup ({"index", "blob", "exec"} \X Contents \X {None})
    \cup (Registries \X CrateNames \X {None})

IndexOf(c) ==
  [i \in DOMAIN Files[c] |->
     [integrity |-> <<[algo |-> "sha512", digest |-> Files[c][i].content]>>,
      exec |-> Files[c][i].exec]]

(* What is written when entry e is fetched, for cargo into directory r.      *)
Stored(kind, e, r) ==
  LET c == Promise(e.integrity).digest
      t == Promise(e.integrity)
  IN CASE kind = "npm" -> {<<NpmPath(t), c>>}
       [] kind = "cargo" -> {<<CratePath(r, e), c>>}
       [] OTHER -> {<<IndexPath(t), IndexOf(c)>>}
            \cup {<<BlobPath([digest |-> f.content], f.exec), f.content>> : f \in ToSet(Files[c])}

CheckOut(l) ==
  /\ lockfile = None /\ lockfile' = l
  /\ UNCHANGED <<disk, sqlite, command, swapped, late, losses>>

-----------------------------------------------------------------------------
(* The command, one read of the store after the other.                       *)

Pending == Entries(lockfile) \ DOMAIN command.verdicts
Ended == command # None /\ command.exit # None

\* What entry i is still to be told by.
Unread(i) ==
  {p \in Paths :
     /\ i \in Pending
     /\ command.files # None /\ i = Min(Pending) =>
          \E k \in command.next .. Len(command.files) : command.files[k].path = p}

(* A change of path p, noted for the entries that are done with it.  What a  *)
(* command said at its end is of no interest after a change.                 *)
NoteChange(p) ==
  /\ late' = IF command = None \/ Ended THEN {}
             ELSE late \cup {<<i, p>> : i \in {j \in Entries(lockfile) : p \notin Unread(j)}}
  /\ command' = IF Ended THEN None ELSE command

Settle(v) ==
  command' = [command EXCEPT
    !.verdicts = [i \in DOMAIN @ \cup {Min(Pending)} |-> IF i \in DOMAIN @ THEN @[i] ELSE v],
    !.files = None]

ToRead(files) ==
  IF Len(files) = 0 THEN Settle("ok") ELSE command' = [command EXCEPT !.files = files, !.next = 1]

(* run_deps_verify_cache: an error ends the command without a verdict.       *)
BeginVerify ==
  /\ command = None
  /\ command' = [sqlite |-> sqlite, verdicts |-> <<>>, files |-> None, next |-> 1,
                 exit |-> IF lockfile.kind \notin Kinds \/ ~lockfile.parses THEN 1 ELSE None]
  /\ late' = {}
  /\ UNCHANGED <<lockfile, disk, sqlite, swapped, losses>>

Running == command # None /\ command.exit = None
StoreStays == UNCHANGED <<lockfile, disk, sqlite, swapped, late, losses>>

OpenNpm(t) == ToRead(<< [path |-> NpmPath(t), digest |-> t.digest] >>)

OpenPnpm(index) ==
  \/ index = None /\ Settle("missing")
  \/ index \in {Garbage, Locked} \cup Contents /\ Settle("unsupported")
  \/ index \notin {None, Garbage, Locked} \cup Contents /\ ToRead(Listed(index))

(* The first directory, in no particular order, that has a file of that name. *)
OpenCargo(e, t) ==
  LET having == {r \in Registries : disk[CratePath(r, e)] # None}
  IN \/ having = {} /\ Settle("missing")
     \/ \E r \in having : ToRead(<< [path |-> CratePath(r, e), digest |-> t.digest] >>)

(* verify_npm_cacache, verify_pnpm_store, verify_cargo_registry: the next    *)
(* entry.                                                                    *)
Open ==
  /\ Running /\ command.files = None /\ Pending # {}
  /\ LET e == lockfile.packages[Min(Pending)]
         t == Promise(e.integrity)
         dark == t = None \/ (lockfile.kind = "pnpm" /\ command.sqlite)
     IN \/ dark /\ Settle("unsupported")
        \/ ~dark /\ lockfile.kind = "npm" /\ OpenNpm(t)
        \/ ~dark /\ lockfile.kind = "pnpm" /\ OpenPnpm(disk[IndexPath(t)])
        \/ ~dark /\ lockfile.kind = "cargo" /\ OpenCargo(e, t)
  /\ StoreStays

(* The next file of the entry, up to the first one that fails.  A crate that *)
(* went away since it was found cannot be read.                              *)
HashNext ==
  /\ Running /\ command.files # None
  /\ LET f == command.files[command.next]
         v == Rehash(f.path, f.digest)
     IN IF v = "ok" /\ command.next < Len(command.files)
        THEN command' = [command EXCEPT !.next = @ + 1]
        ELSE Settle(IF v = "missing" /\ lockfile.kind = "cargo" THEN "unsupported" ELSE v)
  /\ StoreStays

(* Only here --strict is looked at.                                          *)
End(strict) ==
  /\ Running /\ Pending = {}
  /\ command' = [command EXCEPT !.exit = ExitCode(command.verdicts, strict)]
  /\ StoreStays

-----------------------------------------------------------------------------
(* Whoever else uses the store, before, during and after the command.        *)

(* One file of the entry that is not there.                                  *)
Fetch(e, r) ==
  /\ Promise(e.integrity) # None
  /\ \E f \in Stored(lockfile.kind, e, r) :
       disk[f[1]] = None /\ disk' = [disk EXCEPT ![f[1]] = f[2]] /\ NoteChange(f[1])
  /\ UNCHANGED <<lockfile, sqlite, swapped, losses>>

Lose(p) ==
  /\ disk[p] # None /\ losses < MaxLosses
  /\ disk' = [disk EXCEPT ![p] = None]
  /\ losses' = losses + 1 /\ swapped' = swapped \ {p} /\ NoteChange(p)
  /\ UNCHANGED <<lockfile, sqlite>>

(* An index is replaced by what does not parse only: the code takes an index *)
(* that parses for what the tarball held.                                    *)
Swap(p, c) ==
  /\ disk[p] \notin {None, c} /\ p \notin swapped /\ Cardinality(swapped) < MaxSwaps
  /\ p[1] = "index" => c \notin Contents
  /\ disk' = [disk EXCEPT ![p] = c]
  /\ swapped' = swapped \cup {p} /\ NoteChange(p)
  /\ UNCHANGED <<lockfile, sqlite, losses>>

Migrate ==
  /\ lockfile.kind = "pnpm" /\ ~sqlite
  /\ sqlite' = TRUE
  /\ UNCHANGED <<lockfile, disk, command, swapped, late, losses>>

-----------------------------------------------------------------------------
CacheInit ==
  /\ lockfile = None /\ disk = [p \in Paths |-> None] /\ sqlite = FALSE
  /\ command = None /\ swapped = {} /\ late = {} /\ losses = 0

CacheNext ==
  \/ \E l \in Lockfiles : CheckOut(l)
  \/ /\ lockfile # None
     /\ \/ \E i \in Entries(lockfile), r \in Registries : Fetch(lockfile.packages[i], r)
        \/ \E p \in Paths : Lose(p)
        \/ \E p \in Paths, c \in Contents \cup {Garbage, Locked} : Swap(p, c)
        \/ Migrate
        \/ BeginVerify
        \/ Open
        \/ HashNext
        \/ \E strict \in BOOLEAN : End(strict)

CacheSpec == CacheInit /\ [][CacheNext]_cacheVars

-----------------------------------------------------------------------------
CacheTypeOK ==
  /\ lockfile \in Lockfiles \cup {None}
  /\ DOMAIN disk = Paths /\ sqlite \in BOOLEAN
  /\ swapped \subseteq Paths /\ losses \in 0 .. MaxLosses
  /\ command # None =>
       /\ command.exit \in {None, 0, 1}
       /\ DOMAIN command.verdicts \subseteq Entries(lockfile)
       /\ \A i \in DOMAIN command.verdicts : command.verdicts[i] \in Outcomes

(* What the package manager reads when it installs entry i, and what was     *)
(* published there; not what changed after the command was done with it.  Of *)
(* two directories of crates it reads one, and not by their order; such an   *)
(* entry is left out.                                                        *)
ReadsOf(i) ==
  LET e == lockfile.packages[i]
      having == {r \in Registries : disk[CratePath(r, e)] # None}
      same == \A r \in Registries : <<i, CratePath(r, e)>> \notin late
  IN IF lockfile.kind # "cargo"
     THEN {f \in Stored(lockfile.kind, e, None) : f[1][1] # "index" /\ <<i, f[1]>> \notin late}
     ELSE IF same /\ \E r \in having : having = {r} THEN Stored("cargo", e, CHOOSE r \in having : TRUE)
     ELSE {}

(* An entry that is reported ok has everything the package manager reads of  *)
(* it in the store as it was published, unless it changed after the command  *)
(* had read it.                                                              *)
OkIsGenuine ==
  command # None =>
    \A i \in DOMAIN command.verdicts : command.verdicts[i] = "ok" =>
      \A f \in ReadsOf(i) : disk[f[1]] = f[2]

(* A file that was replaced before the command came to it fails the run,     *)
(* with or without --strict, when the store is complete and the code can     *)
(* look at all of it; a run in which something is missing may stop before it *)
(* has reached the file.                                                     *)
SwapIsReported ==
  Ended =>
    ((/\ \A i \in DOMAIN command.verdicts : command.verdicts[i] \notin {"missing", "unsupported"}
      /\ \E i \in DOMAIN command.verdicts :
           /\ Promise(lockfile.packages[i].integrity) # None
           /\ \E f \in ReadsOf(i) : f[1] \in swapped)
     => command.exit = 1)

(* A mismatch is reported only where a file was replaced: never for what is  *)
(* not there yet, or was written by another version of the package manager.  *)
(* The file may have been lost since the command read it.                    *)
NoFalseAlarm ==
  command # None =>
    \A i \in DOMAIN command.verdicts : command.verdicts[i] = "mismatch" =>
      \E r \in Registries : \E f \in Stored(lockfile.kind, lockfile.packages[i], r) :
        f[1] \in swapped \/ <<i, f[1]>> \in late

(* Ok means genuine, genuine means no mismatch, and a swap fails the run.    *)
VerdictsAreTrue == OkIsGenuine /\ SwapIsReported /\ NoFalseAlarm
=============================================================================
