----------------------------- MODULE StripCache -----------------------------
(* The strip cache of crates/sakimori-proxy/src/strip_cache.rs: an in-memory *)
(* map written through to a directory, by several tokio tasks at once, in a  *)
(* process that may crash between any two file-system calls and be started   *)
(* again, possibly from a newer binary.                                      *)
(*                                                                           *)
(* A rewritten tarball and its integrity string are one value: the hash is   *)
(* taken to be injective, so "the body hashes to the integrity" is           *)
(* "body = integrity".  The same value in <basename>.json stands for the     *)
(* metadata that carries that integrity; NoStripNeeded is the marker.        *)
EXTENDS Naturals

CONSTANTS
  Keys,           \* StripKey values: (name, version, orig_integrity)
  Builds,         \* proxy binaries; each has its own rewriter
  Writers,        \* tasks that may be inside StripCache::insert
  Bodies,         \* rewritten tarballs
  Output,         \* what the rewriter of a build makes of a key's tarball
  NoStripNeeded,  \* the marker entry
  NoFile,         \* no such path
  Partial,        \* a file created or truncated and not yet written
  Persistent,     \* persist_dir.is_some()
  MaxRestarts     \* bound on the crashes of one behaviour

Outcomes == Bodies \cup {NoStripNeeded}
Contents == Outcomes \cup {NoFile, Partial}

ASSUME OutputAssumption == Output \in [Builds -> [Keys -> Outcomes]]
ASSUME MarkerAssumption ==
  /\ NoStripNeeded \notin Bodies
  /\ NoFile \notin Outcomes
  /\ Partial \notin Outcomes
  /\ NoFile # Partial
ASSUME ConfigAssumption == Persistent \in BOOLEAN /\ MaxRestarts \in Nat

VARIABLES
  build,     \* the binary the running process was started from
  mem,       \* inner: the entry of each key, [integrity, body]
  tmp,       \* the content of <basename>.<ext>.tmp
  final,     \* the content of <basename>.<ext>
  pc,        \* where each writer is inside insert
  key,       \* the key it inserts
  ext,       \* the file atomic_write is at: "tgz" or "json"
  fd,        \* which file its open handle points at
  restarts   \* crashes so far

writerVars == <<pc, key, ext, fd>>
vars == <<build, mem, tmp, final, pc, key, ext, fd, restarts>>

Exts  == {"tgz", "json"}
Paths == Keys \X Exts
Stages == {"idle", "remove", "create", "write", "rename", "memory"}
Handles == {"none", "tmp", "final", "lost"}
Entries == [integrity : Contents, body : Contents]

NoEntry == [integrity |-> NoFile, body |-> NoFile]
Whole(x) == [integrity |-> x, body |-> x]

Out(k) == Output[build][k]
Own(k) == Whole(Out(k))
Path(w) == <<key[w], ext[w]>>

(* load_dir_into for one key: malformed metadata and a Stripped entry whose  *)
(* body is missing are skipped; the body is not hashed again.                *)
LoadFrom(meta, body) ==
  CASE meta = NoStripNeeded -> Whole(NoStripNeeded)
    [] meta \in Bodies /\ body # NoFile -> [integrity |-> meta, body |-> body]
    [] OTHER -> NoEntry

Load(k) == LoadFrom(final[<<k, "json">>], final[<<k, "tgz">>])

-----------------------------------------------------------------------------
(* Wrong variants of the definitions below, one per property that must be    *)
(* able to fail.                                                             *)

\* File::create_new instead of File::create: a left-over tmp is an error.
CreateExclusive(w) ==
  /\ pc[w] = "create"
  /\ IF tmp[Path(w)] # NoFile
       THEN pc' = [pc EXCEPT ![w] = "memory"] /\ UNCHANGED <<tmp, fd>>
       ELSE /\ tmp' = [tmp EXCEPT ![Path(w)] = Partial]
            /\ fd' = [fd EXCEPT ![w] = "tmp"]
            /\ pc' = [pc EXCEPT ![w] = "write"]
  /\ UNCHANGED <<build, mem, final, key, ext, restarts>>

\* Propagate the I/O error instead of logging it.
IOErrorPropagates(w) ==
  /\ pc[w] \in {"create", "write", "rename"}
  /\ pc' = [pc EXCEPT ![w] = "idle"]
  /\ fd' = [fd EXCEPT ![w] = "none"]
  /\ UNCHANGED <<build, mem, tmp, final, key, ext, restarts>>

\* Open the final file itself instead of a temporary one.
CreateInPlace(w) ==
  /\ pc[w] = "create"
  /\ final' = [final EXCEPT ![Path(w)] = Partial]
  /\ fd' = [fd EXCEPT ![w] = "final"]
  /\ pc' = [pc EXCEPT ![w] = "write"]
  /\ UNCHANGED <<build, mem, tmp, key, ext, restarts>>

-----------------------------------------------------------------------------
Init ==
  /\ build \in Builds
  /\ mem = [k \in Keys |-> NoEntry]
  /\ tmp = [p \in Paths |-> NoFile]
  /\ final = [p \in Paths |-> NoFile]
  /\ pc = [w \in Writers |-> "idle"]
  /\ key \in [Writers -> Keys]
  /\ ext = [w \in Writers |-> "tgz"]
  /\ fd = [w \in Writers |-> "none"]
  /\ restarts = 0

(* insert: the rewriter has produced Out(k); persist_entry writes the body   *)
(* of a Stripped entry first, and removes a stale one otherwise.             *)
Begin(w, k) ==
  /\ pc[w] = "idle"
  /\ key' = [key EXCEPT ![w] = k]
  /\ ext' = [ext EXCEPT ![w] = IF Out(k) = NoStripNeeded THEN "json" ELSE "tgz"]
  /\ pc' = [pc EXCEPT ![w] = IF ~Persistent THEN "memory"
                             ELSE IF Out(k) = NoStripNeeded THEN "remove"
                             ELSE "create"]
  /\ UNCHANGED <<build, mem, tmp, final, fd, restarts>>

(* let _ = remove_file(tgz): the error, if any, is ignored.                  *)
RemoveStale(w) ==
  /\ pc[w] = "remove"
  /\ \/ final' = [final EXCEPT ![<<key[w], "tgz">>] = NoFile]
     \/ UNCHANGED final
  /\ pc' = [pc EXCEPT ![w] = "create"]
  /\ UNCHANGED <<build, mem, tmp, key, ext, fd, restarts>>

(* File::create(tmp) truncates the file another writer of the key may hold.  *)
Create(w) ==
  /\ pc[w] = "create"
  /\ tmp' = [tmp EXCEPT ![Path(w)] = Partial]
  /\ fd' = [fd EXCEPT ![w] = "tmp"]
  /\ pc' = [pc EXCEPT ![w] = "write"]
  /\ UNCHANGED <<build, mem, final, key, ext, restarts>>

(* write_all + sync_data go to the file the handle was opened on, wherever   *)
(* that file has been renamed to since.                                      *)
Write(w) ==
  /\ pc[w] = "write"
  /\ tmp' = IF fd[w] = "tmp" THEN [tmp EXCEPT ![Path(w)] = Out(key[w])] ELSE tmp
  /\ final' = IF fd[w] = "final" THEN [final EXCEPT ![Path(w)] = Out(key[w])]
                                 ELSE final
  /\ fd' = [fd EXCEPT ![w] = "none"]
  /\ pc' = [pc EXCEPT ![w] = "rename"]
  /\ UNCHANGED <<build, mem, key, ext, restarts>>

(* Where the handles of the writers point after tmp has become final.        *)
HandleAfterRename(w, x) ==
  IF pc[x] = "write" /\ Path(x) = Path(w)
    THEN IF fd[x] = "tmp" THEN "final" ELSE "lost"
    ELSE fd[x]

(* rename(tmp, path): fails when another writer has already renamed tmp.     *)
Rename(w) ==
  /\ pc[w] = "rename"
  /\ IF tmp[Path(w)] = NoFile
       THEN /\ pc' = [pc EXCEPT ![w] = "memory"]
            /\ UNCHANGED <<tmp, final, fd, ext>>
       ELSE /\ final' = [final EXCEPT ![Path(w)] = tmp[Path(w)]]
            /\ tmp' = [tmp EXCEPT ![Path(w)] = NoFile]
            /\ fd' = [x \in Writers |-> HandleAfterRename(w, x)]
            /\ pc' = [pc EXCEPT ![w] = IF ext[w] = "tgz" THEN "create" ELSE "memory"]
            /\ ext' = [ext EXCEPT ![w] = "json"]
  /\ UNCHANGED <<build, mem, key, restarts>>

(* Any of the three calls fails; insert logs a warning and goes on.          *)
IOError(w) ==
  /\ pc[w] \in {"create", "write", "rename"}
  /\ pc' = [pc EXCEPT ![w] = "memory"]
  /\ fd' = [fd EXCEPT ![w] = "none"]
  /\ UNCHANGED <<build, mem, tmp, final, key, ext, restarts>>

StoreInMemory(w) ==
  /\ pc[w] = "memory"
  /\ mem' = [mem EXCEPT ![key[w]] = Own(key[w])]
  /\ pc' = [pc EXCEPT ![w] = "idle"]
  /\ UNCHANGED <<build, tmp, final, key, ext, fd, restarts>>

(* The process dies and is started again, from the same or another binary;   *)
(* with_persist_dir loads the directory.                                     *)
Restart(b) ==
  /\ restarts < MaxRestarts
  /\ restarts' = restarts + 1
  /\ build' = b
  /\ mem' = [k \in Keys |-> IF Persistent THEN Load(k) ELSE NoEntry]
  /\ pc' = [w \in Writers |-> "idle"]
  /\ fd' = [w \in Writers |-> "none"]
  /\ UNCHANGED <<tmp, final, key, ext>>

WriterStep(w) ==
  RemoveStale(w) \/ Create(w) \/ Write(w) \/ Rename(w) \/ StoreInMemory(w)

Next ==
  \/ \E w \in Writers : WriterStep(w) \/ \E k \in Keys : Begin(w, k)
  \/ \E b \in Builds : Restart(b)

FaultyNext == Next \/ \E w \in Writers : IOError(w)

(* The disk does not fail; any number of writers, crashes and upgrades.      *)
Spec == Init /\ [][Next]_vars

(* The disk may fail as well, and a task that has started insert is run: it  *)
(* has no await inside, so the runtime cannot park it.                       *)
FaultySpec ==
  Init /\ [][FaultyNext]_vars /\ \A w \in Writers : WF_vars(WriterStep(w))

-----------------------------------------------------------------------------
TypeOK ==
  /\ build \in Builds
  /\ mem \in [Keys -> Entries]
  /\ tmp \in [Paths -> Contents]
  /\ final \in [Paths -> Contents]
  /\ pc \in [Writers -> Stages]
  /\ key \in [Writers -> Keys]
  /\ ext \in [Writers -> Exts]
  /\ fd \in [Writers -> Handles]
  /\ restarts \in Nat

(* Writers of one key share one tmp file, yet on a disk that does not fail   *)
(* they leave the directory right: once none of them is inside insert, a key *)
(* whose entry memory holds loads back as that very entry.  This is about    *)
(* the unserialised persist_entry calls of insert.                           *)
QuiescentConsistent ==
  Persistent =>
    \A k \in Keys :
      (mem[k] = Own(k) /\ \A w \in Writers : key[w] = k => pc[w] = "idle")
        => Load(k) = Own(k)

(* An insert the process survives ends in memory whatever the disk does: a   *)
(* persist failure or a rename lost to another writer only costs the copy on *)
(* disk (StripCache::insert logs and goes on).                               *)
InsertReachesMemory ==
  \A w \in Writers, k \in Keys, n \in 0 .. MaxRestarts :
    (pc[w] # "idle" /\ key[w] = k /\ restarts = n)
      ~> (mem[k] = Own(k) \/ restarts > n)

(* One writer at a time and one binary: the directory is an atomic map.      *)
AtomicCache == INSTANCE StripCacheSpec
  WITH memory <- mem, durable <- [k \in Keys |-> Load(k)],
       Values <- Outcomes, Absent <- NoFile

ImplementsAtomicCache == AtomicCache!Spec
=============================================================================
