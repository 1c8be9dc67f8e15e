-------------------------- MODULE StripCacheProofs --------------------------
(* Proofs about StripCache for any number of keys, builds, writers and       *)
(* crashes: type correctness, that the writers of a key, who share one tmp   *)
(* file, leave the directory right when they are done, and that without such *)
(* company the files are an atomic map.                                      *)
EXTENDS StripCache, TLAPS

(* A writer with an open handle on the file h of path p will still write it. *)
Pending(p, h) ==
  \E w \in Writers : pc[w] = "write" /\ Path(w) = p /\ fd[w] = h

(* The file holds the output of this build, or is about to.                  *)
TmpOK(k, e) == tmp[<<k, e>>] = Out(k) \/ Pending(<<k, e>>, "tmp")
FinalOK(k, e) == final[<<k, e>>] = Out(k) \/ Pending(<<k, e>>, "final")

(* w is inside atomic_write of the file <<k, e>>.                            *)
Writing(w, k, e) ==
  key[w] = k /\ ext[w] = e /\ pc[w] \in {"create", "write", "rename"}

(* The body is there, or k has none.                                         *)
BodyOK(k) == Out(k) # NoStripNeeded => FinalOK(k, "tgz")

(* The metadata is there, or somebody is writing it.                         *)
MetaOK(k) == FinalOK(k, "json") \/ \E w \in Writers : Writing(w, k, "json")

(* remove is the road of the marker, a body is written only for the others,  *)
(* and an in-memory cache has no road at all.                                *)
RoadOK ==
  \A w \in Writers :
    /\ pc[w] = "remove" => Out(key[w]) = NoStripNeeded
    /\ pc[w] \in {"create", "write", "rename"} /\ ext[w] = "tgz"
         => Out(key[w]) # NoStripNeeded
    /\ pc[w] = "remove" => ext[w] = "json"

(* After its create a writer finds in tmp what it may rename, or finds it    *)
(* renamed by somebody whose file then is in place.                          *)
TmpInv ==
  \A w \in Writers :
    pc[w] \in {"write", "rename"} =>
      \/ TmpOK(key[w], ext[w])
      \/ /\ tmp[Path(w)] = NoFile
         /\ FinalOK(key[w], ext[w])
         /\ MetaOK(key[w])

(* A handle points at tmp only while there is a tmp.                         *)
HandleInv ==
  \A w \in Writers : pc[w] = "write" /\ fd[w] = "tmp" => tmp[Path(w)] # NoFile

(* The metadata is written only once the body is in place.                   *)
OrderInv == \A w \in Writers : Writing(w, key[w], "json") => BodyOK(key[w])

(* What memory serves, or is about to, is on disk or about to be.            *)
MemInv ==
  /\ \A w \in Writers :
       pc[w] = "memory" => BodyOK(key[w]) /\ MetaOK(key[w])
  /\ \A k \in Keys : mem[k] = Own(k) => BodyOK(k) /\ MetaOK(k)

DiskInv == Persistent => RoadOK /\ TmpInv /\ HandleInv /\ OrderInv /\ MemInv

IInv == TypeOK /\ DiskInv

-----------------------------------------------------------------------------
(* What the rewriter makes of a tarball is a value the cache can hold.       *)
LEMMA OutType ==
  ASSUME build \in Builds, NEW k \in Keys
  PROVE  Out(k) \in Outcomes
BY OutputAssumption DEF Out

(* Loading gives an entry: both its fields are values or NoFile.             *)
LEMMA LoadType ==
  ASSUME TypeOK, NEW k \in Keys
  PROVE  Load(k) \in Entries
<1>1. final[<<k, "json">>] \in Contents /\ final[<<k, "tgz">>] \in Contents
  BY DEF TypeOK, Paths, Exts
<1> QED
  BY <1>1 DEF Load, LoadFrom, Whole, NoEntry, Entries, Contents, Outcomes

(* Type correctness: every handler of the cache keeps its variables in       *)
(* range, for any set of keys, builds and writers.                           *)
LEMMA TypeInit == Init => TypeOK
BY ConfigAssumption
   DEF Init, TypeOK, Entries, NoEntry, Contents, Outcomes, Exts, Stages, Handles

LEMMA TypeStep == TypeOK /\ [Next]_vars => TypeOK'
<1> SUFFICES ASSUME TypeOK, [Next]_vars PROVE TypeOK'
  OBVIOUS
<1>a. \A k \in Keys : Out(k) \in Contents
  BY OutType DEF TypeOK, Contents
<1>b. \A w \in Writers : Path(w) \in Paths
  BY DEF TypeOK, Path, Paths
<1>1. ASSUME NEW w \in Writers, NEW k \in Keys, Begin(w, k) PROVE TypeOK'
  BY <1>1 DEF Begin, TypeOK, Exts, Stages
<1>2. ASSUME NEW w \in Writers, RemoveStale(w) PROVE TypeOK'
  BY <1>2 DEF RemoveStale, TypeOK, Stages, Contents
<1>3. ASSUME NEW w \in Writers, Create(w) PROVE TypeOK'
  BY <1>3 DEF Create, TypeOK, Stages, Handles, Contents
<1>4. ASSUME NEW w \in Writers, Write(w) PROVE TypeOK'
  <2>1. tmp' \in [Paths -> Contents] /\ final' \in [Paths -> Contents]
    BY <1>4, <1>a DEF Write, TypeOK
  <2>2. pc' \in [Writers -> Stages] /\ fd' \in [Writers -> Handles]
    BY <1>4 DEF Write, TypeOK, Stages, Handles
  <2> QED
    BY <1>4, <2>1, <2>2 DEF Write, TypeOK
<1>5. ASSUME NEW w \in Writers, Rename(w) PROVE TypeOK'
  <2>1. CASE tmp[Path(w)] = NoFile
    BY <1>5, <2>1 DEF Rename, TypeOK, Stages
  <2>2. CASE tmp[Path(w)] # NoFile
    <3>1. tmp[Path(w)] \in Contents /\ NoFile \in Contents
      BY <1>b DEF TypeOK, Contents
    <3>2. tmp' \in [Paths -> Contents] /\ final' \in [Paths -> Contents]
      BY <1>5, <2>2, <3>1 DEF Rename, TypeOK
    <3>3. \A x \in Writers : HandleAfterRename(w, x) \in Handles
      BY DEF HandleAfterRename, TypeOK, Handles
    <3>4. fd' \in [Writers -> Handles]
      BY <1>5, <2>2, <3>3 DEF Rename
    <3>5. pc' \in [Writers -> Stages] /\ ext' \in [Writers -> Exts]
      BY <1>5, <2>2 DEF Rename, TypeOK, Stages, Exts
    <3> QED
      BY <1>5, <2>2, <3>2, <3>4, <3>5 DEF Rename, TypeOK
  <2> QED
    BY <2>1, <2>2
<1>6. ASSUME NEW w \in Writers, StoreInMemory(w) PROVE TypeOK'
  <2>1. Own(key[w]) \in Entries
    BY <1>a DEF TypeOK, Own, Whole, Entries
  <2> QED
    BY <1>6, <2>1 DEF StoreInMemory, TypeOK, Stages
<1>7. ASSUME NEW b \in Builds, Restart(b) PROVE TypeOK'
  <2>1. NoEntry \in Entries
    BY DEF NoEntry, Entries, Contents
  <2>2. mem' \in [Keys -> Entries]
    BY <1>7, <2>1, LoadType DEF Restart
  <2> QED
    BY <1>7, <2>2, ConfigAssumption DEF Restart, TypeOK, Stages, Handles
<1>8. CASE UNCHANGED vars
  BY <1>8 DEF vars, TypeOK
<1> QED
  BY <1>1, <1>2, <1>3, <1>4, <1>5, <1>6, <1>7, <1>8 DEF Next, WriterStep

(* Every variable of the cache keeps its type, whatever the writers and the  *)
(* crashes do.                                                               *)
THEOREM TypeCorrect == Spec => []TypeOK
BY TypeInit, TypeStep, PTL DEF Spec

-----------------------------------------------------------------------------
(* What an insert of any writer leaves alone: a file that is in place, or    *)
(* about to be, stays so.                                                    *)
Stable ==
  \A k \in Keys :
    /\ BodyOK(k) => BodyOK(k)'
    /\ MetaOK(k) => MetaOK(k)'

LEMMA DiskInit == Init => DiskInv
<1> SUFFICES ASSUME Init PROVE RoadOK /\ TmpInv /\ HandleInv /\ OrderInv /\ MemInv
  BY DEF DiskInv
<1>1. \A k \in Keys : mem[k] # Own(k)
  BY OutType, MarkerAssumption DEF Init, Own, Whole, NoEntry
<1> QED
  BY <1>1 DEF Init, RoadOK, TmpInv, HandleInv, OrderInv, MemInv, Writing

(* A new insert opens no file.                                               *)
LEMMA DiskBegin ==
  ASSUME IInv, Persistent, NEW w \in Writers, NEW k \in Keys, Begin(w, k)
  PROVE  DiskInv'
<1>1. \A x \in Writers : pc'[x] \in {"write", "rename", "memory"} => x # w
  BY DEF IInv, TypeOK, Begin, Stages
<1>2. \A p \in Paths, h \in {"tmp", "final"} : Pending(p, h) <=> Pending(p, h)'
  BY DEF IInv, TypeOK, Begin, Pending, Path
<1>3. \A j \in Keys, e \in Exts :
        /\ TmpOK(j, e) <=> TmpOK(j, e)'
        /\ FinalOK(j, e) <=> FinalOK(j, e)'
  BY <1>2 DEF Begin, TmpOK, FinalOK, Paths, Out
<1>4. Stable
  <2>1. \A j \in Keys : BodyOK(j) => BodyOK(j)'
    BY <1>3 DEF BodyOK, Begin, Out, Exts
  <2>2. \A x \in Writers, j \in Keys : Writing(x, j, "json") => Writing(x, j, "json")'
    BY DEF Writing, Begin, IInv, TypeOK
  <2> QED
    BY <1>3, <2>1, <2>2 DEF Stable, MetaOK, Exts
<1>5. RoadOK'
  BY DEF IInv, DiskInv, RoadOK, Begin, Out, TypeOK
<1>6. TmpInv'
  <2> SUFFICES ASSUME NEW x \in Writers, pc'[x] \in {"write", "rename"}
               PROVE  \/ TmpOK(key[x], ext[x])'
                      \/ tmp'[Path(x)'] = NoFile /\ FinalOK(key[x], ext[x])' /\ MetaOK(key[x])'
    BY DEF TmpInv
  <2>1. x # w /\ pc[x] = pc'[x] /\ key'[x] = key[x] /\ ext'[x] = ext[x]
    BY <1>1 DEF Begin, IInv, TypeOK
  <2>2. key[x] \in Keys /\ ext[x] \in Exts
    BY DEF IInv, TypeOK
  <2>3. \/ TmpOK(key[x], ext[x])
        \/ tmp[Path(x)] = NoFile /\ FinalOK(key[x], ext[x]) /\ MetaOK(key[x])
    BY <2>1 DEF IInv, DiskInv, TmpInv
  <2> QED
    BY <1>3, <1>4, <2>1, <2>2, <2>3 DEF Stable, Path, Begin
<1>7. OrderInv'
  <2> SUFFICES ASSUME NEW x \in Writers, Writing(x, key[x], "json")'
               PROVE  BodyOK(key[x])'
    BY DEF OrderInv
  <2>1. CASE x = w
    BY <2>1 DEF Writing, Begin, IInv, TypeOK, BodyOK, Out
  <2>2. CASE x # w
    <3>1. Writing(x, key[x], "json") /\ key'[x] = key[x] /\ key[x] \in Keys
      BY <2>2 DEF Writing, Begin, IInv, TypeOK
    <3> QED
      BY <3>1, <1>4 DEF IInv, DiskInv, OrderInv, Stable
  <2> QED
    BY <2>1, <2>2
<1>8. MemInv'
  <2>1. \A x \in Writers : pc'[x] = "memory" =>
           pc[x] = "memory" /\ key'[x] = key[x] /\ key[x] \in Keys
    BY <1>1 DEF Begin, IInv, TypeOK
  <2>2. \A j \in Keys : mem'[j] = Own(j)' => mem[j] = Own(j)
    BY DEF Begin, Own, Out
  <2> QED
    BY <2>1, <2>2, <1>4 DEF IInv, DiskInv, MemInv, Stable
<1>9. HandleInv'
  BY <1>1 DEF IInv, DiskInv, HandleInv, Begin, TypeOK, Path
<1> QED
  BY <1>5, <1>6, <1>7, <1>8, <1>9 DEF DiskInv

(* Only a marker's body is removed.                                          *)
LEMMA DiskRemove ==
  ASSUME IInv, Persistent, NEW w \in Writers, RemoveStale(w)
  PROVE  DiskInv'
<1>1. Out(key[w]) = NoStripNeeded /\ ext[w] = "json" /\ key[w] \in Keys
  BY DEF IInv, TypeOK, DiskInv, RoadOK, RemoveStale
<1>2. \A x \in Writers : pc'[x] \in {"write", "rename", "memory"} =>
        x # w /\ pc[x] = pc'[x]
  BY DEF IInv, TypeOK, RemoveStale, Stages
<1>3. \A p \in Paths, h \in {"tmp", "final"} : Pending(p, h) <=> Pending(p, h)'
  BY DEF IInv, TypeOK, RemoveStale, Pending, Path
<1>4. \A j \in Keys, e \in Exts :
        /\ TmpOK(j, e) <=> TmpOK(j, e)'
        /\ j # key[w] \/ e = "json" => (FinalOK(j, e) => FinalOK(j, e)')
  BY <1>3 DEF IInv, TypeOK, RemoveStale, TmpOK, FinalOK, Paths, Out
<1>5. Stable
  <2>1. \A j \in Keys : BodyOK(j) => BodyOK(j)'
    BY <1>1, <1>4 DEF BodyOK, RemoveStale, Out, Exts
  <2>2. \A x \in Writers, j \in Keys : Writing(x, j, "json") => Writing(x, j, "json")'
    BY DEF Writing, RemoveStale, IInv, TypeOK
  <2> QED
    BY <1>4, <2>1, <2>2 DEF Stable, MetaOK, Exts
<1>6. RoadOK'
  BY <1>1 DEF IInv, DiskInv, RoadOK, RemoveStale, Out, TypeOK
<1>7. TmpInv'
  <2> SUFFICES ASSUME NEW x \in Writers, pc'[x] \in {"write", "rename"}
               PROVE  \/ TmpOK(key[x], ext[x])'
                      \/ tmp'[Path(x)'] = NoFile /\ FinalOK(key[x], ext[x])' /\ MetaOK(key[x])'
    BY DEF TmpInv
  <2>1. pc[x] = pc'[x] /\ key[x] \in Keys /\ ext[x] \in Exts
    BY <1>2 DEF IInv, TypeOK
  <2>2. \/ TmpOK(key[x], ext[x])
        \/ tmp[Path(x)] = NoFile /\ FinalOK(key[x], ext[x]) /\ MetaOK(key[x])
    BY <2>1 DEF IInv, DiskInv, TmpInv
  <2>3. key[x] # key[w] \/ ext[x] = "json"
    BY <1>1, <2>1 DEF IInv, DiskInv, RoadOK, Exts
  <2> QED
    BY <1>4, <1>5, <2>1, <2>2, <2>3 DEF Stable, Path, RemoveStale
<1>8. HandleInv'
  BY <1>2 DEF IInv, DiskInv, HandleInv, RemoveStale, TypeOK, Path
<1>9. OrderInv'
  <2> SUFFICES ASSUME NEW x \in Writers, Writing(x, key[x], "json")'
               PROVE  BodyOK(key[x])'
    BY DEF OrderInv
  <2>1. CASE x = w
    BY <1>1, <2>1 DEF BodyOK, Out, RemoveStale
  <2>2. CASE x # w
    BY <2>2, <1>5 DEF Writing, RemoveStale, IInv, TypeOK, DiskInv, OrderInv, Stable
  <2> QED
    BY <2>1, <2>2
<1>10. MemInv'
  <2>1. \A j \in Keys : mem'[j] = Own(j)' => mem[j] = Own(j)
    BY DEF RemoveStale, Own, Out
  <2> QED
    BY <2>1, <1>2, <1>5 DEF IInv, DiskInv, MemInv, Stable, TypeOK, RemoveStale
<1> QED
  BY <1>6, <1>7, <1>8, <1>9, <1>10 DEF DiskInv

(* Truncating tmp takes nothing away that its new owner does not give back.  *)
LEMMA DiskCreate ==
  ASSUME IInv, Persistent, NEW w \in Writers, Create(w)
  PROVE  DiskInv'
<1>1. \A x \in Writers : x # w => pc'[x] = pc[x] /\ fd'[x] = fd[x]
  BY DEF IInv, TypeOK, Create
<1>2. pc[w] = "create" /\ pc'[w] = "write" /\ fd'[w] = "tmp"
  BY DEF IInv, TypeOK, Create
<1>3. \A p \in Paths, h \in {"tmp", "final"} : Pending(p, h) => Pending(p, h)'
  BY <1>1, <1>2 DEF Create, Pending, Path
<1>4. TmpOK(key[w], ext[w])'
  BY <1>2 DEF Create, TmpOK, Pending, Path
<1>5. \A j \in Keys, e \in Exts :
        /\ TmpOK(j, e) => TmpOK(j, e)'
        /\ FinalOK(j, e) => FinalOK(j, e)'
  <2> TAKE j \in Keys, e \in Exts
  <2>1. CASE <<j, e>> = Path(w)
    BY <1>3, <1>4, <2>1 DEF Create, FinalOK, Paths, Path, Out
  <2>2. CASE <<j, e>> # Path(w)
    BY <1>3, <2>2 DEF IInv, TypeOK, Create, TmpOK, FinalOK, Paths, Out
  <2> QED
    BY <2>1, <2>2
<1>6. Stable
  <2>1. \A j \in Keys : BodyOK(j) => BodyOK(j)'
    BY <1>5 DEF BodyOK, Create, Out, Exts
  <2>2. \A x \in Writers, j \in Keys : Writing(x, j, "json") => Writing(x, j, "json")'
    BY <1>1, <1>2 DEF Writing, Create
  <2> QED
    BY <1>5, <2>1, <2>2 DEF Stable, MetaOK, Exts
<1>7. RoadOK'
  BY <1>1, <1>2 DEF IInv, DiskInv, RoadOK, Create, Out
<1>8. TmpInv'
  <2> SUFFICES ASSUME NEW x \in Writers, pc'[x] \in {"write", "rename"}
               PROVE  \/ TmpOK(key[x], ext[x])'
                      \/ tmp'[Path(x)'] = NoFile /\ FinalOK(key[x], ext[x])' /\ MetaOK(key[x])'
    BY DEF TmpInv
  <2>0. key[x] \in Keys /\ ext[x] \in Exts /\ Path(x) \in Paths
    BY DEF IInv, TypeOK, Path, Paths
  <2>1. CASE Path(x) = Path(w)
    BY <1>4, <2>1 DEF Path, Create
  <2>2. CASE Path(x) # Path(w)
    <3>1. \/ TmpOK(key[x], ext[x])
          \/ tmp[Path(x)] = NoFile /\ FinalOK(key[x], ext[x]) /\ MetaOK(key[x])
      BY <1>1, <2>2 DEF IInv, DiskInv, TmpInv
    <3>2. tmp'[Path(x)'] = tmp[Path(x)]
      BY <2>0, <2>2 DEF Create, Path, IInv, TypeOK
    <3> QED
      BY <1>5, <1>6, <2>0, <3>1, <3>2 DEF Stable, Create
  <2> QED
    BY <2>1, <2>2
<1>9. HandleInv'
  <2>1. \A x \in Writers : Path(x)' = Path(x) /\ Path(x) \in Paths
    BY DEF Path, Paths, Create, IInv, TypeOK
  <2>2. tmp' = [tmp EXCEPT ![Path(w)] = Partial] /\ Partial # NoFile
    BY MarkerAssumption DEF Create
  <2> QED
    BY <1>1, <1>2, <2>1, <2>2 DEF IInv, DiskInv, HandleInv, TypeOK
<1>10. OrderInv'
  <2>1. \A x \in Writers : Writing(x, key[x], "json")' => Writing(x, key[x], "json")
    BY <1>1, <1>2 DEF Writing, Create
  <2> QED
    BY <2>1, <1>6 DEF IInv, DiskInv, OrderInv, Stable, Create, TypeOK
<1>11. MemInv'
  <2>1. \A j \in Keys : mem'[j] = Own(j)' => mem[j] = Own(j)
    BY DEF Create, Own, Out
  <2> QED
    BY <2>1, <1>1, <1>2, <1>6 DEF IInv, DiskInv, MemInv, Stable, TypeOK, Create
<1> QED
  BY <1>7, <1>8, <1>9, <1>10, <1>11 DEF DiskInv

(* The bytes land in the file the handle points at, and nowhere else.        *)
LEMMA DiskWrite ==
  ASSUME IInv, Persistent, NEW w \in Writers, Write(w)
  PROVE  DiskInv'
<1>1. \A x \in Writers : x # w => pc'[x] = pc[x] /\ fd'[x] = fd[x]
  BY DEF IInv, TypeOK, Write
<1>2. pc[w] = "write" /\ pc'[w] = "rename" /\ Path(w) \in Paths
  BY DEF IInv, TypeOK, Write, Path, Paths
<1>3. \A j \in Keys, e \in Exts, h \in {"tmp", "final"} :
        Pending(<<j, e>>, h) =>
          \/ Pending(<<j, e>>, h)'
          \/ <<j, e>> = Path(w) /\ fd[w] = h
  BY <1>1 DEF Write, Pending, Path
<1>4. \A j \in Keys, e \in Exts :
        /\ TmpOK(j, e) => TmpOK(j, e)'
        /\ FinalOK(j, e) => FinalOK(j, e)'
  <2> TAKE j \in Keys, e \in Exts
  <2>1. <<j, e>> \in Paths /\ Out(j)' = Out(j)
    BY DEF Paths, Write, Out
  <2>2. CASE <<j, e>> = Path(w)
    <3>1. Out(j) = Out(key[w])
      BY <2>2 DEF Path
    <3>2. /\ fd[w] = "tmp" => tmp'[<<j, e>>] = Out(j)
          /\ fd[w] # "tmp" => tmp'[<<j, e>>] = tmp[<<j, e>>]
          /\ fd[w] = "final" => final'[<<j, e>>] = Out(j)
          /\ fd[w] # "final" => final'[<<j, e>>] = final[<<j, e>>]
      BY <2>1, <2>2, <3>1 DEF Write, IInv, TypeOK
    <3> QED
      BY <1>3, <2>1, <3>2 DEF TmpOK, FinalOK
  <2>3. CASE <<j, e>> # Path(w)
    <3>1. tmp'[<<j, e>>] = tmp[<<j, e>>] /\ final'[<<j, e>>] = final[<<j, e>>]
      BY <2>1, <2>3 DEF Write, IInv, TypeOK
    <3> QED
      BY <1>3, <2>1, <2>3, <3>1 DEF TmpOK, FinalOK
  <2> QED
    BY <2>2, <2>3
<1>5. Stable
  <2>1. \A j \in Keys : BodyOK(j) => BodyOK(j)'
    BY <1>4 DEF BodyOK, Write, Out, Exts
  <2>2. \A x \in Writers, j \in Keys : Writing(x, j, "json") => Writing(x, j, "json")'
    BY <1>1, <1>2 DEF Writing, Write
  <2> QED
    BY <1>4, <2>1, <2>2 DEF Stable, MetaOK, Exts
<1>6. RoadOK'
  BY <1>1, <1>2 DEF IInv, DiskInv, RoadOK, Write, Out
<1>7. TmpInv'
  <2> SUFFICES ASSUME NEW x \in Writers, pc'[x] \in {"write", "rename"}
               PROVE  \/ TmpOK(key[x], ext[x])'
                      \/ tmp'[Path(x)'] = NoFile /\ FinalOK(key[x], ext[x])' /\ MetaOK(key[x])'
    BY DEF TmpInv
  <2>1. key[x] \in Keys /\ ext[x] \in Exts /\ Path(x) \in Paths /\ Path(x)' = Path(x)
    BY DEF IInv, TypeOK, Path, Paths, Write
  <2>2. \/ TmpOK(key[x], ext[x])
        \/ tmp[Path(x)] = NoFile /\ FinalOK(key[x], ext[x]) /\ MetaOK(key[x])
    BY <1>1, <1>2 DEF IInv, DiskInv, TmpInv
  <2>3. CASE fd[w] = "tmp" /\ Path(x) = Path(w)
    <3>1. tmp'[Path(x)] = Out(key[x])
      BY <2>1, <2>3 DEF Write, IInv, TypeOK, Path
    <3> QED
      BY <3>1 DEF TmpOK, Path, Out, Write
  <2>4. CASE ~ (fd[w] = "tmp" /\ Path(x) = Path(w))
    <3>1. tmp'[Path(x)] = tmp[Path(x)]
      BY <1>2, <2>1, <2>4 DEF Write, IInv, TypeOK
    <3> QED
      BY <1>4, <1>5, <2>1, <2>2, <3>1 DEF Stable, Write
  <2> QED
    BY <2>3, <2>4
<1>8. HandleInv'
  <2> SUFFICES ASSUME NEW x \in Writers, pc'[x] = "write", fd'[x] = "tmp"
               PROVE  tmp'[Path(x)'] # NoFile
    BY DEF HandleInv
  <2>1. x # w /\ Path(x)' = Path(x) /\ Path(x) \in Paths
    BY <1>2 DEF Path, Paths, Write, IInv, TypeOK
  <2>2. tmp[Path(x)] # NoFile
    BY <1>1, <2>1 DEF IInv, DiskInv, HandleInv
  <2>3. Out(key[w]) # NoFile
    BY OutType, MarkerAssumption DEF IInv, TypeOK
  <2> QED
    BY <1>2, <2>1, <2>2, <2>3 DEF Write, IInv, TypeOK
<1>9. OrderInv'
  <2>1. \A x \in Writers : Writing(x, key[x], "json")' => Writing(x, key[x], "json")
    BY <1>1, <1>2 DEF Writing, Write
  <2> QED
    BY <2>1, <1>5 DEF IInv, DiskInv, OrderInv, Stable, Write, TypeOK
<1>10. MemInv'
  <2>1. \A j \in Keys : mem'[j] = Own(j)' => mem[j] = Own(j)
    BY DEF Write, Own, Out
  <2> QED
    BY <2>1, <1>1, <1>2, <1>5 DEF IInv, DiskInv, MemInv, Stable, TypeOK, Write
<1> QED
  BY <1>6, <1>7, <1>8, <1>9, <1>10 DEF DiskInv

(* A rename that finds no tmp changes no file: another writer's file is in   *)
(* place already.                                                            *)
LEMMA DiskRenameLost ==
  ASSUME IInv, Persistent, NEW w \in Writers, Rename(w), tmp[Path(w)] = NoFile
  PROVE  DiskInv'
<1>1. /\ \A x \in Writers : x # w => pc'[x] = pc[x]
      /\ pc[w] = "rename" /\ pc'[w] = "memory"
      /\ key[w] \in Keys /\ ext[w] \in Exts
      /\ tmp' = tmp /\ final' = final /\ fd' = fd /\ ext' = ext /\ key' = key
      /\ mem' = mem /\ build' = build
  BY DEF IInv, TypeOK, Rename
<1>2. FinalOK(key[w], ext[w]) /\ MetaOK(key[w])
  <2>1. Out(key[w]) # NoFile
    BY <1>1, OutType, MarkerAssumption DEF IInv, TypeOK
  <2>2. ~ Pending(Path(w), "tmp")
    BY DEF IInv, DiskInv, HandleInv, Pending
  <2>3. ~ TmpOK(key[w], ext[w])
    BY <2>1, <2>2 DEF TmpOK, Path
  <2> QED
    BY <1>1, <2>3 DEF IInv, DiskInv, TmpInv
<1>3. \A p \in Paths, h \in {"tmp", "final"} : Pending(p, h) => Pending(p, h)'
  BY <1>1 DEF Pending, Path
<1>4. \A j \in Keys, e \in Exts :
        /\ TmpOK(j, e) => TmpOK(j, e)'
        /\ FinalOK(j, e) => FinalOK(j, e)'
  BY <1>1, <1>3 DEF TmpOK, FinalOK, Paths, Out
<1>5. Stable
  <2>1. \A j \in Keys : BodyOK(j) => BodyOK(j)'
    BY <1>1, <1>4 DEF BodyOK, Out, Exts
  <2>2. \A x \in Writers, j \in Keys :
          Writing(x, j, "json") => Writing(x, j, "json")' \/ FinalOK(j, "json")
    BY <1>1, <1>2 DEF Writing
  <2> QED
    BY <1>4, <2>1, <2>2 DEF Stable, MetaOK, Exts
<1>6. BodyOK(key[w]) /\ MetaOK(key[w])
  <2>1. CASE ext[w] = "tgz"
    BY <1>2, <2>1 DEF BodyOK
  <2>2. CASE ext[w] = "json"
    BY <1>1, <1>2, <2>2 DEF IInv, DiskInv, OrderInv, Writing
  <2> QED
    BY <1>1, <2>1, <2>2 DEF Exts
<1>7. RoadOK'
  BY <1>1 DEF IInv, DiskInv, RoadOK, Out
<1>8. TmpInv'
  <2> SUFFICES ASSUME NEW x \in Writers, pc'[x] \in {"write", "rename"}
               PROVE  \/ TmpOK(key[x], ext[x])'
                      \/ tmp'[Path(x)'] = NoFile /\ FinalOK(key[x], ext[x])' /\ MetaOK(key[x])'
    BY DEF TmpInv
  <2>1. \/ TmpOK(key[x], ext[x])
        \/ tmp[Path(x)] = NoFile /\ FinalOK(key[x], ext[x]) /\ MetaOK(key[x])
    BY <1>1 DEF IInv, DiskInv, TmpInv
  <2> QED
    BY <1>1, <1>4, <1>5, <2>1 DEF Stable, Path, IInv, TypeOK
<1>9. HandleInv'
  BY <1>1 DEF IInv, DiskInv, HandleInv, Path
<1>10. OrderInv'
  <2>1. \A x \in Writers : Writing(x, key[x], "json")' => Writing(x, key[x], "json")
    BY <1>1 DEF Writing
  <2> QED
    BY <2>1, <1>1, <1>5 DEF IInv, DiskInv, OrderInv, Stable, TypeOK
<1>11. MemInv'
  <2>1. \A j \in Keys : mem'[j] = Own(j)' => mem[j] = Own(j)
    BY <1>1 DEF Own, Out
  <2> QED
    BY <2>1, <1>1, <1>5, <1>6 DEF IInv, DiskInv, MemInv, Stable, TypeOK
<1> QED
  BY <1>7, <1>8, <1>9, <1>10, <1>11 DEF DiskInv

(* A rename that succeeds puts in place what tmp holds, and takes along the  *)
(* handles that point at it.                                                 *)
LEMMA DiskRenameDone ==
  ASSUME IInv, Persistent, NEW w \in Writers, Rename(w),
         NEW k \in Keys, NEW e \in Exts, key[w] = k, ext[w] = e,
         tmp[<<k, e>>] # NoFile
  PROVE  DiskInv'
<1>0. Path(w) = <<k, e>> /\ <<k, e>> \in Paths
  BY DEF Path, Paths
<1>1. /\ \A x \in Writers : x # w => pc'[x] = pc[x] /\ ext'[x] = ext[x]
      /\ pc[w] = "rename" /\ ext'[w] = "json"
      /\ pc'[w] = IF e = "tgz" THEN "create" ELSE "memory"
      /\ key' = key /\ mem' = mem /\ build' = build
      /\ \A x \in Writers : fd'[x] = HandleAfterRename(w, x)
      /\ tmp'[<<k, e>>] = NoFile /\ final'[<<k, e>>] = tmp[<<k, e>>]
      /\ \A q \in Paths : q # <<k, e>> => tmp'[q] = tmp[q] /\ final'[q] = final[q]
  BY <1>0 DEF IInv, TypeOK, Rename
<1>2. \A x \in Writers : pc[x] = "write" =>
        pc'[x] = "write" /\ Path(x)' = Path(x)
  BY <1>1 DEF Path
<1>3. Pending(<<k, e>>, "tmp") => Pending(<<k, e>>, "final")'
  BY <1>0, <1>1, <1>2 DEF Pending, HandleAfterRename
<1>4. \A q \in Paths, h \in {"tmp", "final"} :
        q # <<k, e>> /\ Pending(q, h) => Pending(q, h)'
  BY <1>0, <1>1, <1>2 DEF Pending, HandleAfterRename
<1>5. FinalOK(k, e)'
  <2>1. TmpOK(k, e)
    BY <1>1, <1>0 DEF IInv, DiskInv, TmpInv
  <2> QED
    BY <2>1, <1>1, <1>3 DEF TmpOK, FinalOK, Out
<1>6. \A j \in Keys, f \in Exts :
        /\ <<j, f>> # <<k, e>> => (TmpOK(j, f) => TmpOK(j, f)')
        /\ FinalOK(j, f) => FinalOK(j, f)'
  <2> TAKE j \in Keys, f \in Exts
  <2>1. CASE <<j, f>> = <<k, e>>
    BY <1>5, <2>1
  <2>2. CASE <<j, f>> # <<k, e>>
    BY <1>1, <1>4, <2>2 DEF TmpOK, FinalOK, Paths, Out
  <2> QED
    BY <2>1, <2>2
<1>7. MetaOK(k)'
  <2>1. CASE e = "tgz"
    BY <1>1, <2>1 DEF MetaOK, Writing
  <2>2. CASE e = "json"
    BY <1>5, <2>2 DEF MetaOK
  <2> QED
    BY <2>1, <2>2 DEF Exts
<1>8. Stable
  <2>1. \A j \in Keys : BodyOK(j) => BodyOK(j)'
    BY <1>1, <1>6 DEF BodyOK, Out, Exts
  <2>2. \A x \in Writers, j \in Keys :
          x # w => (Writing(x, j, "json") => Writing(x, j, "json")')
    BY <1>1 DEF Writing
  <2>3. \A j \in Keys : Writing(w, j, "json") => j = k
    BY DEF Writing
  <2>4. \A j \in Keys : MetaOK(j) => MetaOK(j)'
    BY <1>6, <1>7, <2>2, <2>3 DEF MetaOK, Exts
  <2> QED
    BY <2>1, <2>4 DEF Stable
<1>9. BodyOK(k)'
  <2>1. CASE e = "tgz"
    BY <1>5, <2>1 DEF BodyOK
  <2>2. CASE e = "json"
    BY <1>1, <1>8, <2>2 DEF IInv, DiskInv, OrderInv, Writing, Stable
  <2> QED
    BY <2>1, <2>2 DEF Exts
<1>10. RoadOK'
  BY <1>1 DEF IInv, DiskInv, RoadOK, Out
<1>11. TmpInv'
  <2> SUFFICES ASSUME NEW x \in Writers, pc'[x] \in {"write", "rename"}
               PROVE  \/ TmpOK(key[x], ext[x])'
                      \/ tmp'[Path(x)'] = NoFile /\ FinalOK(key[x], ext[x])' /\ MetaOK(key[x])'
    BY DEF TmpInv
  <2>1. /\ x # w /\ pc[x] = pc'[x] /\ Path(x)' = Path(x) /\ ext'[x] = ext[x]
        /\ key[x] \in Keys /\ ext[x] \in Exts /\ Path(x) \in Paths
    BY <1>1 DEF Path, Paths, IInv, TypeOK
  <2>2. CASE Path(x) = <<k, e>>
    BY <1>1, <1>5, <1>7, <2>1, <2>2 DEF Path
  <2>3. CASE Path(x) # <<k, e>>
    <3>1. \/ TmpOK(key[x], ext[x])
          \/ tmp[Path(x)] = NoFile /\ FinalOK(key[x], ext[x]) /\ MetaOK(key[x])
      BY <2>1 DEF IInv, DiskInv, TmpInv
    <3> QED
      BY <1>1, <1>6, <1>8, <2>1, <2>3, <3>1 DEF Stable, Path
  <2> QED
    BY <2>2, <2>3
<1>12. HandleInv'
  BY <1>0, <1>1, <1>2 DEF IInv, DiskInv, HandleInv, HandleAfterRename, TypeOK, Path, Paths
<1>13. OrderInv'
  <2> SUFFICES ASSUME NEW x \in Writers, Writing(x, key[x], "json")'
               PROVE  BodyOK(key[x])'
    BY DEF OrderInv
  <2>1. CASE x = w
    BY <1>1, <1>9, <2>1
  <2>2. CASE x # w
    BY <1>1, <1>8, <2>2 DEF Writing, IInv, TypeOK, DiskInv, OrderInv, Stable
  <2> QED
    BY <2>1, <2>2
<1>14. MemInv'
  <2>1. \A j \in Keys : mem'[j] = Own(j)' => mem[j] = Own(j)
    BY <1>1 DEF Own, Out
  <2>2. \A x \in Writers : pc'[x] = "memory" => x = w \/ pc[x] = "memory"
    BY <1>1
  <2> QED
    BY <2>1, <2>2, <1>1, <1>7, <1>8, <1>9 DEF IInv, DiskInv, MemInv, Stable, TypeOK
<1> QED
  BY <1>10, <1>11, <1>12, <1>13, <1>14 DEF DiskInv

(* What goes into memory is on disk already.                                 *)
LEMMA DiskStore ==
  ASSUME IInv, Persistent, NEW w \in Writers, StoreInMemory(w)
  PROVE  DiskInv'
<1>1. /\ \A x \in Writers : x # w => pc'[x] = pc[x]
      /\ pc[w] = "memory" /\ pc'[w] = "idle" /\ key[w] \in Keys
      /\ tmp' = tmp /\ final' = final /\ fd' = fd /\ ext' = ext /\ key' = key
      /\ build' = build
  BY DEF IInv, TypeOK, StoreInMemory
<1>2. \A p \in Paths, h \in {"tmp", "final"} : Pending(p, h) => Pending(p, h)'
  BY <1>1 DEF Pending, Path
<1>3. \A j \in Keys, e \in Exts :
        /\ TmpOK(j, e) => TmpOK(j, e)'
        /\ FinalOK(j, e) => FinalOK(j, e)'
  BY <1>1, <1>2 DEF TmpOK, FinalOK, Paths, Out
<1>4. Stable
  <2>1. \A j \in Keys : BodyOK(j) => BodyOK(j)'
    BY <1>1, <1>3 DEF BodyOK, Out, Exts
  <2>2. \A x \in Writers, j \in Keys : Writing(x, j, "json") => Writing(x, j, "json")'
    BY <1>1 DEF Writing
  <2> QED
    BY <1>3, <2>1, <2>2 DEF Stable, MetaOK, Exts
<1>5. RoadOK'
  BY <1>1 DEF IInv, DiskInv, RoadOK, Out
<1>6. TmpInv'
  BY <1>1, <1>3, <1>4 DEF IInv, DiskInv, TmpInv, Stable, Path, TypeOK
<1>7. HandleInv'
  BY <1>1 DEF IInv, DiskInv, HandleInv, Path
<1>8. OrderInv'
  BY <1>1, <1>4 DEF IInv, DiskInv, OrderInv, Stable, TypeOK, Writing
<1>9. MemInv'
  <2>1. BodyOK(key[w]) /\ MetaOK(key[w])
    BY <1>1 DEF IInv, DiskInv, MemInv
  <2>2. \A j \in Keys : mem'[j] = Own(j)' => mem[j] = Own(j) \/ j = key[w]
    BY <1>1 DEF Own, Out, StoreInMemory, IInv, TypeOK
  <2> QED
    BY <1>1, <1>4, <2>1, <2>2 DEF IInv, DiskInv, MemInv, Stable, TypeOK
<1> QED
  BY <1>5, <1>6, <1>7, <1>8, <1>9 DEF DiskInv

(* A restart loads what it finds, and only a whole entry loads as this       *)
(* build's own.                                                              *)
LEMMA DiskRestart ==
  ASSUME IInv, Persistent, NEW b \in Builds, Restart(b)
  PROVE  DiskInv'
<1>1. \A x \in Writers : pc'[x] = "idle"
  BY DEF Restart
<1>2. \A j \in Keys : mem'[j] = Own(j)' => BodyOK(j)' /\ MetaOK(j)'
  <2> SUFFICES ASSUME NEW j \in Keys, mem'[j] = Own(j)'
               PROVE  BodyOK(j)' /\ MetaOK(j)'
    OBVIOUS
  <2>1. Out(j)' \in Outcomes
    BY OutputAssumption DEF Restart, Out
  <2>2. Load(j) = [integrity |-> Out(j)', body |-> Out(j)']
    BY DEF Restart, Own, Whole
  <2>3. /\ final[<<j, "json">>] = Out(j)'
        /\ Out(j)' # NoStripNeeded => final[<<j, "tgz">>] = Out(j)'
    BY <2>1, <2>2, MarkerAssumption DEF Load, LoadFrom, Whole, NoEntry, Outcomes
  <2> QED
    BY <2>3 DEF Restart, BodyOK, MetaOK, FinalOK
<1> QED
  BY <1>1, <1>2 DEF DiskInv, RoadOK, TmpInv, HandleInv, OrderInv, MemInv, Writing

LEMMA DiskStep == IInv /\ [Next]_vars => DiskInv'
<1> SUFFICES ASSUME IInv, [Next]_vars, Persistent PROVE DiskInv'
  BY DEF DiskInv
<1>1. ASSUME NEW w \in Writers, Rename(w) PROVE DiskInv'
  <2>1. key[w] \in Keys /\ ext[w] \in Exts /\ Path(w) = <<key[w], ext[w]>>
    BY DEF IInv, TypeOK, Path
  <2>2. CASE tmp[Path(w)] = NoFile
    BY <1>1, <2>2, DiskRenameLost
  <2>3. CASE tmp[Path(w)] # NoFile
    BY <1>1, <2>1, <2>3, DiskRenameDone
  <2> QED
    BY <2>2, <2>3
<1>2. CASE UNCHANGED vars
  BY <1>2 DEF vars, IInv, DiskInv, RoadOK, TmpInv, HandleInv, OrderInv, MemInv,
              TmpOK, FinalOK, BodyOK, MetaOK, Writing, Pending, Path, Own, Out
<1> QED
  BY <1>1, <1>2, DiskBegin, DiskRemove, DiskCreate, DiskWrite, DiskStore, DiskRestart
     DEF Next, WriterStep

(* The invariant is about the run of insert; what it gives when no insert of *)
(* the key is under way is the property.                                     *)
LEMMA DiskImplies == IInv => QuiescentConsistent
<1> SUFFICES ASSUME IInv, Persistent, NEW k \in Keys, mem[k] = Own(k),
                    \A w \in Writers : key[w] = k => pc[w] = "idle"
             PROVE  Load(k) = Own(k)
  BY DEF QuiescentConsistent
<1>1. \A e \in Exts, h \in {"tmp", "final"} : ~ Pending(<<k, e>>, h)
  BY DEF Pending, Path
<1>2. \A w \in Writers : ~ Writing(w, k, "json")
  BY DEF Writing
<1>3. /\ final[<<k, "json">>] = Out(k)
      /\ Out(k) # NoStripNeeded => final[<<k, "tgz">>] = Out(k)
  BY <1>1, <1>2 DEF IInv, DiskInv, MemInv, BodyOK, MetaOK, FinalOK, Exts
<1>4. Out(k) \in Outcomes
  BY OutType DEF IInv, TypeOK
<1> QED
  BY <1>3, <1>4, MarkerAssumption DEF Load, LoadFrom, Own, Whole, Outcomes

(* On a disk that does not fail, however many tasks insert the same key at   *)
(* once and however often the proxy crashes or is upgraded, a key no insert  *)
(* is working on loads back as the very entry memory holds.                  *)
THEOREM QuiescentCorrect == Spec => []QuiescentConsistent
<1>1. Init => IInv
  BY TypeInit, DiskInit DEF IInv
<1>2. IInv /\ [Next]_vars => IInv'
  BY TypeStep, DiskStep DEF IInv
<1> QED
  BY <1>1, <1>2, DiskImplies, PTL DEF Spec

-----------------------------------------------------------------------------
(* Refinement of the atomic cache                                            *)
(*                                                                           *)
(* One task inserts at a time, and restarts are of one binary.  Then tmp is  *)
(* the writer's own, so what is renamed is whole, and a file under its final *)
(* name is always the output of the rewriter.                                *)
Alone == (\A x, y \in Writers : x = y) /\ (\A a, b \in Builds : a = b)

\* A file in place is whole; metadata of a rewritten tarball has its body.
FilesWhole ==
  \A k \in Keys :
    /\ final[<<k, "json">>] \in {NoFile, Out(k)}
    /\ final[<<k, "tgz">>] \in {NoFile, Out(k)}
    /\ Out(k) = NoStripNeeded => final[<<k, "tgz">>] = NoFile
    /\ final[<<k, "json">>] = Out(k) /\ Out(k) # NoStripNeeded
         => final[<<k, "tgz">>] = Out(k)

\* Where the writer is, and what it has done so far.
OnRoad ==
  \A w \in Writers :
    /\ pc[w] = "remove" => Out(key[w]) = NoStripNeeded /\ ext[w] = "json"
    /\ pc[w] \in {"create", "write", "rename"} =>
         IF ext[w] = "tgz" THEN Out(key[w]) # NoStripNeeded
         ELSE Out(key[w]) # NoStripNeeded => final[<<key[w], "tgz">>] = Out(key[w])
    /\ pc[w] = "write" => fd[w] = "tmp"
    /\ pc[w] = "rename" => tmp[Path(w)] = Out(key[w])

\* A cache without a directory touches no file.
InMemory ==
  ~Persistent => /\ \A p \in Paths : final[p] = NoFile
                 /\ \A w \in Writers : pc[w] \in {"idle", "memory"}

AtomicInv == TypeOK /\ FilesWhole /\ OnRoad /\ InMemory

LEMMA AtomicInit == Init => AtomicInv
<1> SUFFICES ASSUME Init PROVE AtomicInv
  OBVIOUS
<1>1. TypeOK
  BY TypeInit
<1>2. \A k \in Keys : Out(k) # NoFile
  BY OutType, MarkerAssumption DEF Init
<1>3. \A p \in Paths : final[p] = NoFile
  BY DEF Init
<1>4. FilesWhole
  <2>1. \A k \in Keys : final[<<k, "json">>] = NoFile /\ final[<<k, "tgz">>] = NoFile
    BY <1>3 DEF Paths, Exts
  <2> QED
    BY <1>2, <2>1 DEF FilesWhole
<1>5. OnRoad /\ InMemory
  BY <1>3 DEF Init, OnRoad, InMemory
<1> QED
  BY <1>1, <1>4, <1>5 DEF AtomicInv

(* The type is kept on a disk that fails as well.                            *)
LEMMA TypeFaulty == TypeOK /\ [FaultyNext]_vars => TypeOK'
<1>1. ASSUME TypeOK, NEW w \in Writers, IOError(w) PROVE TypeOK'
  BY <1>1 DEF IOError, TypeOK, Stages, Handles
<1> QED
  BY <1>1, TypeStep DEF FaultyNext

(* What is loaded is this build's own entry or nothing.                      *)
LoadsWhole ==
  \A k \in Keys : Load(k) = IF final[<<k, "json">>] = Out(k) THEN Own(k) ELSE NoEntry

LEMMA WholeEntries == TypeOK /\ FilesWhole => LoadsWhole
<1> SUFFICES ASSUME TypeOK, FilesWhole, NEW k \in Keys
             PROVE  Load(k) = IF final[<<k, "json">>] = Out(k) THEN Own(k) ELSE NoEntry
  BY DEF LoadsWhole
<1>1. Out(k) \in Outcomes /\ Out(k) # NoFile
  BY OutType, MarkerAssumption DEF TypeOK
<1>2. CASE final[<<k, "json">>] = Out(k)
  <2>1. CASE Out(k) = NoStripNeeded
    BY <1>2, <2>1, MarkerAssumption DEF Load, LoadFrom, Own
  <2>2. CASE Out(k) # NoStripNeeded
    <3>1. Out(k) \in Bodies /\ final[<<k, "tgz">>] = Out(k)
      BY <1>1, <1>2, <2>2 DEF Outcomes, FilesWhole
    <3> QED
      BY <1>1, <1>2, <2>2, <3>1 DEF Load, LoadFrom, Own, Whole
  <2> QED
    BY <2>1, <2>2
<1>3. CASE final[<<k, "json">>] # Out(k)
  <2>1. final[<<k, "json">>] = NoFile
    BY <1>3 DEF FilesWhole
  <2>2. NoFile # NoStripNeeded /\ NoFile \notin Bodies
    BY MarkerAssumption DEF Outcomes
  <2> QED
    BY <1>3, <2>1, <2>2 DEF Load, LoadFrom
<1> QED
  BY <1>2, <1>3

(* What a step does to the files, seen from what would be loaded.            *)
SameLoads == \A k \in Keys : Load(k)' = Load(k)

(* Steps that leave files and memory alone.                                  *)
LEMMA AtomicStill ==
  ASSUME AtomicInv, UNCHANGED <<build, mem, final>>
  PROVE  FilesWhole' /\ SameLoads
BY DEF AtomicInv, FilesWhole, SameLoads, Load, Out

LEMMA AtomicBegin ==
  ASSUME AtomicInv, NEW w \in Writers, NEW k \in Keys, Begin(w, k)
  PROVE  OnRoad' /\ InMemory'
<1>1. /\ \A x \in Writers : x # w => pc'[x] = pc[x] /\ key'[x] = key[x] /\ ext'[x] = ext[x]
      /\ key'[w] = k /\ fd' = fd /\ tmp' = tmp /\ final' = final
      /\ ext'[w] = IF Out(k) = NoStripNeeded THEN "json" ELSE "tgz"
      /\ pc'[w] = IF ~Persistent THEN "memory"
                  ELSE IF Out(k) = NoStripNeeded THEN "remove" ELSE "create"
      /\ \A j : Out(j)' = Out(j)
  BY DEF Begin, AtomicInv, TypeOK, Out
<1> QED
  BY <1>1 DEF AtomicInv, OnRoad, InMemory, Path

LEMMA AtomicRemove ==
  ASSUME AtomicInv, NEW w \in Writers, RemoveStale(w)
  PROVE  final' = final /\ OnRoad' /\ InMemory'
<1>1. final[<<key[w], "tgz">>] = NoFile /\ key[w] \in Keys
  BY DEF AtomicInv, RemoveStale, OnRoad, FilesWhole, TypeOK
<1>2. final' = final
  BY <1>1 DEF RemoveStale, AtomicInv, TypeOK, Paths, Exts
<1>3. /\ \A x \in Writers : x # w => pc'[x] = pc[x]
      /\ pc[w] = "remove" /\ pc'[w] = "create" /\ key' = key /\ ext' = ext /\ fd' = fd
      /\ tmp' = tmp /\ \A j : Out(j)' = Out(j)
  BY DEF RemoveStale, AtomicInv, TypeOK, Out
<1> QED
  BY <1>2, <1>3 DEF AtomicInv, OnRoad, InMemory, Path

LEMMA AtomicCreate ==
  ASSUME Alone, AtomicInv, NEW w \in Writers, Create(w)
  PROVE  OnRoad' /\ InMemory'
<1>1. /\ \A x \in Writers : x = w
      /\ pc[w] = "create" /\ pc'[w] = "write" /\ fd'[w] = "tmp" /\ key' = key /\ ext' = ext
      /\ final' = final /\ \A j : Out(j)' = Out(j)
  BY DEF Alone, Create, AtomicInv, TypeOK, Out
<1> QED
  BY <1>1 DEF AtomicInv, OnRoad, InMemory

LEMMA AtomicWrite ==
  ASSUME Alone, AtomicInv, NEW w \in Writers, Write(w)
  PROVE  final' = final /\ OnRoad' /\ InMemory'
<1>1. /\ \A x \in Writers : x = w
      /\ pc[w] = "write" /\ fd[w] = "tmp" /\ pc'[w] = "rename" /\ key' = key /\ ext' = ext
      /\ \A j : Out(j)' = Out(j)
  BY DEF Alone, Write, AtomicInv, OnRoad, TypeOK, Out
<1>2. final' = final /\ tmp' = [tmp EXCEPT ![Path(w)] = Out(key[w])]
  BY <1>1 DEF Write
<1>3. tmp'[Path(w)] = Out(key[w])
  BY <1>2 DEF AtomicInv, TypeOK, Path, Paths
<1> QED
  BY <1>1, <1>2, <1>3 DEF AtomicInv, OnRoad, InMemory, Path

(* Only the rename of the metadata changes what would be loaded, and to the  *)
(* whole entry.                                                              *)
LEMMA AtomicRename ==
  ASSUME Alone, AtomicInv, NEW w \in Writers, Rename(w)
  PROVE  /\ FilesWhole' /\ OnRoad' /\ InMemory'
         /\ \A k \in Keys : k # key[w] => Load(k)' = Load(k)
         /\ Load(key[w])' \in {Load(key[w]), Own(key[w])}
<1>1. /\ \A x \in Writers : x = w
      /\ pc[w] = "rename" /\ tmp[Path(w)] = Out(key[w]) /\ Out(key[w]) # NoFile
      /\ key[w] \in Keys /\ Path(w) \in Paths /\ ext[w] \in Exts
  <2>1. key[w] \in Keys /\ ext[w] \in Exts
    BY DEF AtomicInv, TypeOK
  <2>2. Out(key[w]) # NoFile
    BY <2>1, OutType, MarkerAssumption DEF AtomicInv, TypeOK
  <2>3. pc[w] = "rename" /\ tmp[Path(w)] = Out(key[w])
    BY DEF Rename, AtomicInv, OnRoad
  <2> QED
    BY <2>1, <2>2, <2>3 DEF Alone, Path, Paths
<1>2. /\ final' = [final EXCEPT ![Path(w)] = Out(key[w])]
      /\ pc'[w] = IF ext[w] = "tgz" THEN "create" ELSE "memory"
      /\ ext'[w] = "json" /\ key' = key /\ \A j : Out(j)' = Out(j)
      /\ Persistent
  BY <1>1 DEF Rename, AtomicInv, TypeOK, Out, InMemory
<1>3. \A p \in Paths : final'[p] = IF p = Path(w) THEN Out(key[w]) ELSE final[p]
  BY <1>2 DEF AtomicInv, TypeOK
<1>4. \A k \in Keys, e \in Exts :
        final'[<<k, e>>] = IF k = key[w] /\ e = ext[w] THEN Out(key[w]) ELSE final[<<k, e>>]
  BY <1>3 DEF Path, Paths
<1>5. ext[w] = "json" /\ Out(key[w]) # NoStripNeeded => final[<<key[w], "tgz">>] = Out(key[w])
  BY <1>1 DEF AtomicInv, OnRoad
<1>6. ext[w] = "tgz" => Out(key[w]) # NoStripNeeded
  BY <1>1 DEF AtomicInv, OnRoad
<1>7. FilesWhole'
  <2> SUFFICES ASSUME NEW k \in Keys
               PROVE  /\ final'[<<k, "json">>] \in {NoFile, Out(k)}
                      /\ final'[<<k, "tgz">>] \in {NoFile, Out(k)}
                      /\ Out(k) = NoStripNeeded => final'[<<k, "tgz">>] = NoFile
                      /\ final'[<<k, "json">>] = Out(k) /\ Out(k) # NoStripNeeded
                           => final'[<<k, "tgz">>] = Out(k)
    BY <1>2 DEF FilesWhole
  <2>1. /\ final[<<k, "json">>] \in {NoFile, Out(k)}
        /\ final[<<k, "tgz">>] \in {NoFile, Out(k)}
        /\ Out(k) = NoStripNeeded => final[<<k, "tgz">>] = NoFile
        /\ final[<<k, "json">>] = Out(k) /\ Out(k) # NoStripNeeded
             => final[<<k, "tgz">>] = Out(k)
    BY DEF AtomicInv, FilesWhole
  <2>2. CASE k # key[w]
    BY <1>4, <2>1, <2>2 DEF Exts
  <2>3. CASE k = key[w] /\ ext[w] = "tgz"
    BY <1>4, <1>6, <2>1, <2>3 DEF Exts
  <2>4. CASE k = key[w] /\ ext[w] = "json"
    BY <1>4, <1>5, <2>1, <2>4 DEF Exts
  <2> QED
    BY <1>1, <2>2, <2>3, <2>4 DEF Exts
<1>8. OnRoad' /\ InMemory'
  BY <1>1, <1>2, <1>4, <1>6 DEF OnRoad, InMemory, Exts
<1>9. ASSUME NEW k \in Keys, k # key[w] PROVE Load(k)' = Load(k)
  <2>1. final'[<<k, "json">>] = final[<<k, "json">>] /\ final'[<<k, "tgz">>] = final[<<k, "tgz">>]
    BY <1>4, <1>9 DEF Exts
  <2> QED
    BY <2>1 DEF Load
<1>10. Load(key[w])' \in {Load(key[w]), Own(key[w])}
  <2>1. TypeOK'
    BY TypeStep DEF AtomicInv, Next, WriterStep
  <2>2. Load(key[w])' = IF final'[<<key[w], "json">>] = Out(key[w]) THEN Own(key[w]) ELSE NoEntry
    <3>1. LoadsWhole'
      BY <1>7, <2>1, WholeEntries, PTL
    <3>2. Own(key[w])' = Own(key[w]) /\ Out(key[w])' = Out(key[w]) /\ key'[w] = key[w]
      BY <1>2 DEF Own
    <3>3. Load(key[w])' = IF final'[<<key[w], "json">>] = Out(key[w])' THEN Own(key[w])' ELSE NoEntry
      BY <1>1, <1>2, <3>1 DEF LoadsWhole
    <3> QED
      BY <3>2, <3>3
  <2>3. Load(key[w]) = IF final[<<key[w], "json">>] = Out(key[w]) THEN Own(key[w]) ELSE NoEntry
    BY <1>1, WholeEntries DEF AtomicInv, LoadsWhole
  <2> QED
    BY <1>1, <1>4, <2>2, <2>3 DEF Exts
<1> QED
  BY <1>7, <1>8, <1>9, <1>10

LEMMA AtomicError ==
  ASSUME Alone, AtomicInv, NEW w \in Writers, IOError(w)
  PROVE  OnRoad' /\ InMemory'
<1>1. /\ \A x \in Writers : x = w
      /\ pc[w] \in {"create", "write", "rename"} /\ pc'[w] = "memory" /\ final' = final
      /\ key' = key
  BY DEF Alone, IOError, AtomicInv, TypeOK
<1> QED
  BY <1>1 DEF AtomicInv, OnRoad, InMemory

LEMMA AtomicStore ==
  ASSUME Alone, AtomicInv, NEW w \in Writers, StoreInMemory(w)
  PROVE  FilesWhole' /\ SameLoads /\ OnRoad' /\ InMemory'
<1>1. /\ \A x \in Writers : x = w
      /\ pc'[w] = "idle" /\ final' = final /\ key' = key /\ \A j : Out(j)' = Out(j)
  BY DEF Alone, StoreInMemory, AtomicInv, TypeOK, Out
<1> QED
  BY <1>1 DEF AtomicInv, FilesWhole, SameLoads, Load, OnRoad, InMemory

LEMMA AtomicRestart ==
  ASSUME Alone, AtomicInv, NEW b \in Builds, Restart(b)
  PROVE  FilesWhole' /\ SameLoads /\ OnRoad' /\ InMemory' /\ mem' = [k \in Keys |-> Load(k)]
<1>1. /\ \A x \in Writers : pc'[x] = "idle"
      /\ final' = final /\ build' = build /\ \A j : Out(j)' = Out(j)
  BY DEF Alone, Restart, AtomicInv, TypeOK, Out
<1>2. FilesWhole' /\ SameLoads /\ OnRoad' /\ InMemory'
  BY <1>1 DEF AtomicInv, FilesWhole, SameLoads, Load, OnRoad, InMemory
<1>3. ASSUME ~Persistent, NEW k \in Keys PROVE Load(k) = NoEntry
  <2>1. final[<<k, "json">>] = NoFile
    BY <1>3 DEF AtomicInv, InMemory, Paths, Exts
  <2>2. Out(k) # NoFile
    BY OutType, MarkerAssumption DEF AtomicInv, TypeOK
  <2> QED
    BY <2>1, <2>2, WholeEntries DEF AtomicInv, LoadsWhole
<1>4. mem' = [k \in Keys |-> Load(k)]
  BY <1>3 DEF Restart
<1> QED
  BY <1>2, <1>4

-----------------------------------------------------------------------------
(* Every step is one of the atomic cache, or a step that it does not see.    *)
Durable == [k \in Keys |-> Load(k)]
AtomicStep == AtomicCache!Next \/ UNCHANGED <<mem, Durable>>

LEMMA Unseen == ASSUME SameLoads, mem' = mem PROVE AtomicStep
BY DEF SameLoads, AtomicStep, Durable

LEMMA AtomicNext ==
  ASSUME Alone, AtomicInv, [FaultyNext]_vars
  PROVE  AtomicInv' /\ AtomicStep
<1>0. TypeOK'
  BY TypeFaulty DEF AtomicInv
<1> DEFINE Good == AtomicInv' /\ AtomicStep
<1>a. ASSUME UNCHANGED <<build, mem, final>>, OnRoad', InMemory' PROVE Good
  BY <1>0, <1>a, AtomicStill, Unseen DEF AtomicInv
<1>1. ASSUME NEW w \in Writers, NEW k \in Keys, Begin(w, k) PROVE Good
  BY <1>1, <1>a, AtomicBegin DEF Begin
<1>2. ASSUME NEW w \in Writers, RemoveStale(w) PROVE Good
  BY <1>2, <1>a, AtomicRemove DEF RemoveStale
<1>3. ASSUME NEW w \in Writers, Create(w) PROVE Good
  BY <1>3, <1>a, AtomicCreate DEF Create
<1>4. ASSUME NEW w \in Writers, Write(w) PROVE Good
  BY <1>4, <1>a, AtomicWrite DEF Write
<1>5. ASSUME NEW w \in Writers, IOError(w) PROVE Good
  BY <1>5, <1>a, AtomicError DEF IOError
<1>6. ASSUME NEW w \in Writers, Rename(w) PROVE Good
  <2>1. /\ FilesWhole' /\ OnRoad' /\ InMemory'
        /\ \A k \in Keys : k # key[w] => Load(k)' = Load(k)
        /\ Load(key[w])' \in {Load(key[w]), Own(key[w])}
        /\ mem' = mem
    BY <1>6, AtomicRename DEF Rename
  <2>2. key[w] \in Keys /\ Out(key[w]) \in Outcomes
    BY OutType DEF AtomicInv, TypeOK
  <2>3. ASSUME Load(key[w])' = Load(key[w]) PROVE AtomicStep
    <3>1. ASSUME NEW k \in Keys PROVE Load(k)' = Load(k)
      <4>1. CASE k = key[w]
        <5>1. key'[w] = key[w]
          BY <1>6 DEF Rename
        <5> QED
          BY <2>3, <4>1, <5>1 DEF Load
      <4> QED
        BY <2>1, <4>1
    <3> QED
      BY <2>1, <3>1, Unseen DEF SameLoads
  <2>4. ASSUME Load(key[w])' = Own(key[w]) PROVE AtomicStep
    <3>1. \A k \in Keys : Load(k)' = IF k = key[w] THEN Own(key[w]) ELSE Load(k)
      <4>1. key'[w] = key[w]
        BY <1>6 DEF Rename
      <4> QED
        BY <2>1, <2>4, <4>1 DEF Load
    <3>2. Durable' = [Durable EXCEPT ![key[w]] = AtomicCache!Entry(Out(key[w]))]
      BY <3>1 DEF Durable, Own, Whole, AtomicCache!Entry
    <3>3. AtomicCache!Persist(key[w], Out(key[w]))
      BY <2>1, <3>2 DEF AtomicCache!Persist, Durable
    <3> QED
      BY <2>2, <3>3 DEF AtomicCache!Next, AtomicStep
  <2>5. AtomicStep
    BY <2>1, <2>3, <2>4
  <2> QED
    BY <1>0, <2>1, <2>5 DEF AtomicInv
<1>7. ASSUME NEW w \in Writers, StoreInMemory(w) PROVE Good
  <2>1. FilesWhole' /\ SameLoads /\ OnRoad' /\ InMemory'
    BY <1>7, AtomicStore
  <2>2. key[w] \in Keys /\ Out(key[w]) \in Outcomes
    BY OutType DEF AtomicInv, TypeOK
  <2>3. Durable' = Durable
    BY <2>1 DEF SameLoads, Durable
  <2>4. AtomicCache!Remember(key[w], Out(key[w]))
    BY <1>7, <2>3
       DEF StoreInMemory, AtomicCache!Remember, AtomicCache!Entry, Own, Whole, Durable
  <2>5. AtomicStep
    BY <2>2, <2>4 DEF AtomicCache!Next, AtomicStep
  <2> QED
    BY <1>0, <2>1, <2>5 DEF AtomicInv
<1>8. ASSUME NEW b \in Builds, Restart(b) PROVE Good
  <2>1. FilesWhole' /\ SameLoads /\ OnRoad' /\ InMemory' /\ mem' = Durable
    BY <1>8, AtomicRestart DEF Durable
  <2>2. Durable' = Durable
    BY <2>1 DEF SameLoads, Durable
  <2>3. AtomicCache!Reopen
    BY <2>1, <2>2 DEF AtomicCache!Reopen, Durable
  <2>4. AtomicStep
    BY <2>3 DEF AtomicCache!Next, AtomicStep
  <2> QED
    BY <1>0, <2>1, <2>4 DEF AtomicInv
<1>9. CASE UNCHANGED vars
  <2>1. OnRoad' /\ InMemory'
    BY <1>9 DEF vars, AtomicInv, OnRoad, InMemory, Path, Out
  <2> QED
    BY <1>9, <1>a, <2>1 DEF vars
<1> QED
  BY <1>1, <1>2, <1>3, <1>4, <1>5, <1>6, <1>7, <1>8, <1>9
     DEF FaultyNext, Next, WriterStep

LEMMA AtomicStart == ASSUME Init PROVE AtomicCache!Init
<1>1. \A k \in Keys : Load(k) = NoEntry
  <2> SUFFICES ASSUME NEW k \in Keys PROVE Load(k) = NoEntry
    OBVIOUS
  <2>1. final[<<k, "json">>] = NoFile
    BY DEF Init, Paths, Exts
  <2>2. NoFile # NoStripNeeded /\ NoFile \notin Bodies
    BY MarkerAssumption DEF Outcomes
  <2> QED
    BY <2>1, <2>2 DEF Load, LoadFrom
<1> QED
  BY <1>1 DEF Init, AtomicCache!Init, AtomicCache!Entry, NoEntry

(* One inserting task at a time and one binary: however often the disk fails *)
(* and the process dies, the files are an atomic map, in which an entry is   *)
(* whole or absent and durable before memory serves it (strip_cache.rs,      *)
(* insert and with_persist_dir).                                             *)
THEOREM FilesAreAtomic == ASSUME Alone PROVE FaultySpec => ImplementsAtomicCache
<1>1. AtomicInv /\ [FaultyNext]_vars => AtomicInv' /\ AtomicStep
  BY AtomicNext
<1>2. Init => AtomicInv /\ AtomicCache!Init
  BY AtomicInit, AtomicStart
<1>3. AtomicStep => [AtomicCache!Next]_<<mem, [k \in Keys |-> Load(k)]>>
  BY DEF AtomicStep, Durable
<1> QED
  BY <1>1, <1>2, <1>3, PTL DEF FaultySpec, ImplementsAtomicCache, AtomicCache!Spec
=============================================================================
