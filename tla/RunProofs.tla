----------------------------- MODULE RunProofs ------------------------------
(* Proofs about a supervised run: SupervisedRun for any command and limits,  *)
(* PolicySuggestion, which makes a policy of audited runs, for any runs,     *)
(* WindowsRun for any rules, and Attribution for any processes.              *)
EXTENDS SupervisedRun, PolicySuggestion, WindowsRun, Attribution, FiniteSetTheorems, FunctionTheorems,
        SequenceTheorems, WellFoundedInduction, TLAPS

-----------------------------------------------------------------------------
(* Counting. An event that the report will call denied, once it is read.     *)
DeniedAs(e, k) == e.kind = k /\ e.from # Supervisor /\ Denied(e)
HitsIn(s, k) == {i \in DOMAIN s : s[i].kind = k /\ s[i].from # Supervisor /\ Denied(s[i])}

LEMMA HitsFinite ==
  ASSUME NEW s \in Seq(Event), NEW k
  PROVE  IsFiniteSet(HitsIn(s, k)) /\ Cardinality(HitsIn(s, k)) \in Nat
<1>1. HitsIn(s, k) \in SUBSET (1 .. Len(s)) /\ Len(s) \in Nat
  BY DEF HitsIn
<1>2. IsFiniteSet(1 .. Len(s))
  BY <1>1, FS_Interval
<1> QED
  BY <1>1, <1>2, FS_Subset, FS_CardinalityType

LEMMA AppendHits ==
  ASSUME NEW s \in Seq(Event), NEW e \in Event, NEW k
  PROVE  Cardinality(HitsIn(Append(s, e), k)) =
           Cardinality(HitsIn(s, k)) + (IF DeniedAs(e, k) THEN 1 ELSE 0)
<1> DEFINE t == Append(s, e)
<1>1. /\ Len(s) \in Nat /\ Len(t) = Len(s) + 1 /\ DOMAIN t = 1 .. Len(s) + 1
      /\ DOMAIN s = 1 .. Len(s)
      /\ \A i \in 1 .. Len(s) : t[i] = s[i]
      /\ t[Len(s) + 1] = e
  BY AppendProperties
<1> HIDE DEF t
<1>2. Len(s) + 1 \notin HitsIn(s, k)
  BY <1>1 DEF HitsIn
<1>3. CASE DeniedAs(e, k)
  <2>1. HitsIn(t, k) = HitsIn(s, k) \cup {Len(s) + 1}
    BY <1>1, <1>3 DEF HitsIn, DeniedAs
  <2> QED
    BY <1>2, <1>3, <2>1, HitsFinite, FS_AddElement DEF t
<1>4. CASE ~DeniedAs(e, k)
  <2>1. HitsIn(t, k) = HitsIn(s, k)
    BY <1>1, <1>4 DEF HitsIn, DeniedAs
  <2> QED
    BY <1>4, <2>1, HitsFinite DEF t
<1> QED
  BY <1>3, <1>4

LEMMA TailHits ==
  ASSUME NEW s \in Seq(Event), s # <<>>, NEW k
  PROVE  Cardinality(HitsIn(s, k)) =
           Cardinality(HitsIn(Tail(s), k)) + (IF DeniedAs(Head(s), k) THEN 1 ELSE 0)
<1> DEFINE t == Tail(s)
           S == HitsIn(t, k)
           T == HitsIn(s, k) \ {1}
           f == [i \in S |-> i + 1]
<1>1. /\ Len(s) \in Nat \ {0} /\ DOMAIN s = 1 .. Len(s)
      /\ t \in Seq(Event) /\ DOMAIN t = 1 .. Len(s) - 1
      /\ \A i \in 1 .. Len(s) - 1 : t[i] = s[i + 1]
      /\ Head(s) = s[1]
  BY HeadTailProperties, EmptySeq
<1> HIDE DEF t
<1>2. f \in Bijection(S, T)
  <2>1. f \in [S -> T] /\ \A i, j \in S : f[i] = f[j] => i = j
    BY <1>1 DEF HitsIn
  <2>2. ASSUME NEW j \in T
        PROVE  \E i \in S : f[i] = j
    <3>1. j - 1 \in S
      BY <1>1 DEF HitsIn
    <3> QED
      BY <1>1, <3>1 DEF HitsIn
  <2> QED
    BY <2>1, <2>2 DEF Bijection, Injection, Surjection, IsInjective
<1>3. Cardinality(T) = Cardinality(S)
  <2>1. IsFiniteSet(S) /\ ExistsBijection(S, T)
    BY <1>1, <1>2, HitsFinite DEF ExistsBijection
  <2> QED
    BY <2>1, FS_Bijection
<1>4. 1 \in HitsIn(s, k) <=> DeniedAs(Head(s), k)
  BY <1>1 DEF HitsIn, DeniedAs
<1>5. /\ Cardinality(T) = IF 1 \in HitsIn(s, k) THEN Cardinality(HitsIn(s, k)) - 1
                          ELSE Cardinality(HitsIn(s, k))
      /\ Cardinality(HitsIn(s, k)) \in Nat
  BY HitsFinite, FS_RemoveElement
<1> QED
  BY <1>3, <1>4, <1>5 DEF t

-----------------------------------------------------------------------------
(* The inductive invariant: what the hooks and the drain task have written.  *)
RingOK ==
  /\ ring \in Seq(Event) /\ Len(ring) <= RingCap
  /\ recorded \in Nat /\ missed \in Nat /\ flagged \in [Kinds -> Nat]
StatsOK ==
  /\ observed \in Nat /\ denied \in Nat /\ lost \in Nat
  /\ keptDenied \in [Kinds -> Nat] /\ keptAllowed \in [Kinds -> Nat]

\* Denied events of a kind that the drain task has read.
Seen(k) == flagged[k] - Cardinality(HitsIn(ring, k))
Counting ==
  /\ \A k \in Kinds : Seen(k) \in Nat
  /\ denied = Seen("exec") + Seen("connect") + Seen("open")

Kept(k) ==
  \/ keptDenied[k] = Seen(k)
  \/ keptAllowed[k] = 0 /\ keptDenied[k] >= PerKindCap
  \/ TotalKept >= TotalCap /\ \A v \in Kinds : keptAllowed[v] = 0
Surfacing == \A k \in Kinds : Kept(k)

Books == RingOK /\ StatsOK /\ Counting /\ Surfacing

LEMMA SurfacingMeans == Surfacing <=> DeniedSurface
BY DEF Surfacing, Kept, Seen, HitsIn, DeniedSurface

-----------------------------------------------------------------------------
(* The steps, as far as they matter for the books.                           *)
HookStep == stage # "done" /\ Hook /\ UNCHANGED runVars
IngestStep == stage # "done" /\ DrainNext /\ UNCHANGED runVars
DrainStep == stage # "done" /\ (DrainEmpty \/ DrainCheck \/ DrainWake) /\ UNCHANGED runVars
ReadStep == ReadFile \/ TakeAfter \/ TakeExtensionsAfter \/ ScanExtensions \/ ScanWorkspace

LEMMA StepCases ==
  ASSUME [Next]_vars
  PROVE  \/ TakeBaseline \/ TakeExtensions \/ MakeCgroup \/ Attach \/ Populate \/ LoadFails
         \/ SpawnChild \/ ChildWaited \/ SetStop \/ CopyStats \/ ReadStep \/ WriteReport
         \/ Decide \/ Fork \/ WriteFile \/ Detach
         \/ \E p \in Inside : Exits(p)
         \/ HookStep \/ IngestStep \/ DrainStep
         \/ UNCHANGED vars
BY DEF Next, Main, Pipeline, Drain, HookStep, IngestStep, DrainStep, ReadStep

LEMMA BooksFrame ==
  ASSUME [Next]_vars
  PROVE  HookStep \/ IngestStep \/ UNCHANGED <<ring, statVars, recorded, missed, flagged>>
<1> USE DEF pipeVars, historyVars, statVars
<1>1. CASE TakeBaseline \/ TakeExtensions \/ MakeCgroup \/ Attach \/ Populate \/ LoadFails
  BY <1>1 DEF TakeBaseline, TakeExtensions, MakeCgroup, Attach, Populate, LoadFails
<1>2. CASE SpawnChild \/ ChildWaited \/ SetStop \/ CopyStats \/ ReadStep \/ WriteReport
  BY <1>2 DEF SpawnChild, ChildWaited, SetStop, CopyStats, ReadStep, ReadFile, TakeAfter,
              TakeExtensionsAfter, ScanExtensions, ScanWorkspace, WriteReport
<1>3. CASE Decide \/ Fork \/ WriteFile \/ Detach \/ \E p \in Inside : Exits(p)
  BY <1>3 DEF Decide, Fork, WriteFile, Detach, Exits
<1>4. CASE DrainStep
  BY <1>4 DEF DrainStep, DrainEmpty, DrainCheck, DrainWake
<1>5. CASE UNCHANGED vars
  BY <1>5 DEF vars
<1> QED
  BY <1>1, <1>2, <1>3, <1>4, <1>5, StepCases

(* Every hook writes one event, and may end the process it is called by.     *)
LEMMA HookEffect ==
  ASSUME Hook
  PROVE  /\ \E e \in Event : Emit(e)
         /\ UNCHANGED <<mode, lacks, hooks, slots, drain, stop, statVars>>
         /\ alive' \subseteq alive /\ killed' \subseteq killed \cup Paths
<1>1. ASSUME NEW p \in Inside \cup Outside, Execve(p) PROVE \E e \in Event : Emit(e)
  <2>1. PICK n \in Names : Emit([kind |-> "exec", from |-> p, what |-> n, denied |-> FALSE])
    BY <1>1 DEF Execve
  <2>2. [kind |-> "exec", from |-> p, what |-> n, denied |-> FALSE] \in Event
    BY DEF Event, Kinds
  <2> QED
    BY <2>1, <2>2
<1>2. ASSUME NEW p \in Inside \cup Outside, Openat(p) PROVE \E e \in Event : Emit(e)
  <2>1. PICK path \in Paths :
          Emit([kind |-> "open", from |-> p, what |-> path, denied |-> KernelDenied(path)])
    BY <1>2 DEF Openat
  <2>2. KernelDenied(path) \in BOOLEAN
    BY DEF KernelDenied
  <2>3. [kind |-> "open", from |-> p, what |-> path, denied |-> KernelDenied(path)] \in Event
    BY <2>2 DEF Event, Kinds
  <2> QED
    BY <2>1, <2>3
<1>3. ASSUME NEW p \in Inside \cup Outside, Connect(p) PROVE \E e \in Event : Emit(e)
  <2>1. PICK v \in {"allow", "deny"} :
          Emit([kind |-> "connect", from |-> p, what |-> v, denied |-> v = "deny"])
    BY <1>3 DEF Connect
  <2>2. [kind |-> "connect", from |-> p, what |-> v, denied |-> v = "deny"] \in Event
    BY DEF Event, Kinds
  <2> QED
    BY <2>1, <2>2
<1>4. ASSUME NEW p \in Inside \cup Outside, UnknownRecord(p) PROVE \E e \in Event : Emit(e)
  <2>1. [kind |-> "unknown", from |-> p, what |-> "allow", denied |-> FALSE] \in Event
    BY DEF Event
  <2> QED
    BY <1>4, <2>1 DEF UnknownRecord
<1>5. ASSUME OwnOpen PROVE \E e \in Event : Emit(e)
  <2>1. PICK path \in Paths :
          Emit([kind |-> "open", from |-> Supervisor, what |-> path, denied |-> FALSE])
    BY <1>5 DEF OwnOpen
  <2>2. [kind |-> "open", from |-> Supervisor, what |-> path, denied |-> FALSE] \in Event
    BY DEF Event, Kinds
  <2> QED
    BY <2>1, <2>2
<1>6. \E e \in Event : Emit(e)
  BY <1>1, <1>2, <1>3, <1>4, <1>5 DEF Hook
<1>7. /\ UNCHANGED <<mode, lacks, hooks, slots, drain, stop, statVars>>
      /\ alive' \subseteq alive /\ killed' \subseteq killed \cup Paths
  BY DEF Hook, Execve, Openat, Connect, UnknownRecord, OwnOpen
<1> QED
  BY <1>6, <1>7

LEMMA EmitBooks ==
  ASSUME RingOK, NEW e \in Event, Emit(e)
  PROVE  RingOK' /\ \A k \in Kinds : Seen(k)' = Seen(k)
<1>1. CASE "EVENTS" \notin lacks /\ Len(ring) < RingCap
  <2>1. /\ ring' = Append(ring, e) /\ recorded' = recorded + 1 /\ missed' = missed
        /\ flagged' = IF e.from # Supervisor /\ e.kind # "unknown" /\ Denied(e)
                      THEN [flagged EXCEPT ![e.kind] = @ + 1] ELSE flagged
    BY <1>1 DEF Emit
  <2>2. ring' \in Seq(Event) /\ Len(ring') = Len(ring) + 1 /\ Len(ring) \in Nat /\ RingCap \in Nat
    BY <2>1, AppendProperties, PipelineAssumption DEF RingOK
  <2>3. e.kind \in Kinds \cup {"unknown"} /\ "unknown" \notin Kinds
    BY DEF Event, Kinds
  <2>4. flagged' \in [Kinds -> Nat]
        /\ \A k \in Kinds : flagged'[k] = flagged[k] + (IF DeniedAs(e, k) THEN 1 ELSE 0)
    <3>1. CASE e.from # Supervisor /\ e.kind # "unknown" /\ Denied(e)
      BY <2>1, <2>3, <3>1 DEF RingOK, DeniedAs
    <3>2. CASE ~(e.from # Supervisor /\ e.kind # "unknown" /\ Denied(e))
      BY <2>1, <2>3, <3>2 DEF RingOK, DeniedAs
    <3> QED
      BY <3>1, <3>2
  <2>5. RingOK'
    BY <1>1, <2>1, <2>2, <2>4 DEF RingOK
  <2>6. ASSUME NEW k \in Kinds PROVE Seen(k)' = Seen(k)
    <3>1. Cardinality(HitsIn(ring', k)) =
            Cardinality(HitsIn(ring, k)) + (IF DeniedAs(e, k) THEN 1 ELSE 0)
      BY <2>1, AppendHits DEF RingOK
    <3>2. Cardinality(HitsIn(ring, k)) \in Nat /\ flagged[k] \in Nat
      BY HitsFinite DEF RingOK
    <3>3. Seen(k)' = flagged'[k] - Cardinality(HitsIn(ring', k))
      BY DEF Seen, HitsIn, Denied, FileDenied
    <3> QED
      BY <2>4, <3>1, <3>2, <3>3 DEF Seen
  <2> QED
    BY <2>5, <2>6
<1>2. CASE ~("EVENTS" \notin lacks /\ Len(ring) < RingCap)
  <2>1. missed' = missed + 1 /\ UNCHANGED <<ring, recorded, flagged>>
    BY <1>2 DEF Emit
  <2> QED
    BY <2>1 DEF RingOK, Seen, HitsIn, Denied, FileDenied
<1> QED
  BY <1>1, <1>2

(* The drain task takes the first record, and what it finds is counted.      *)
LEMMA IngestBooks ==
  ASSUME RingOK, DrainNext
  PROVE  /\ RingOK' /\ ring # <<>> /\ Head(ring) \in Event /\ Ingest(Head(ring))
         /\ \A k \in Kinds : Seen(k)' = Seen(k) + (IF DeniedAs(Head(ring), k) THEN 1 ELSE 0)
         /\ \A k \in Kinds : flagged[k] \in Nat /\ Cardinality(HitsIn(ring, k)) \in Nat
<1>1. /\ ring # <<>> /\ Ingest(Head(ring)) /\ ring' = Tail(ring)
      /\ UNCHANGED <<recorded, missed, flagged>>
  BY DEF DrainNext, historyVars
<1>2. /\ Head(ring) \in Event /\ ring' \in Seq(Event) /\ Len(ring') = Len(ring) - 1
      /\ Len(ring) \in Nat /\ RingCap \in Nat
  BY <1>1, HeadTailProperties, PipelineAssumption DEF RingOK
<1>3. RingOK'
  BY <1>1, <1>2 DEF RingOK
<1>4. ASSUME NEW k \in Kinds
      PROVE  /\ Seen(k)' = Seen(k) + (IF DeniedAs(Head(ring), k) THEN 1 ELSE 0)
             /\ flagged[k] \in Nat /\ Cardinality(HitsIn(ring, k)) \in Nat
  <2>1. Cardinality(HitsIn(ring, k)) =
          Cardinality(HitsIn(ring', k)) + (IF DeniedAs(Head(ring), k) THEN 1 ELSE 0)
    BY <1>1, TailHits DEF RingOK
  <2>2. /\ Cardinality(HitsIn(ring, k)) \in Nat /\ Cardinality(HitsIn(ring', k)) \in Nat
        /\ flagged[k] \in Nat
    BY <1>2, HitsFinite DEF RingOK
  <2>3. Seen(k)' = flagged[k] - Cardinality(HitsIn(ring', k))
    BY <1>1 DEF Seen, HitsIn, Denied, FileDenied
  <2> QED
    BY <2>1, <2>2, <2>3 DEF Seen
<1> QED
  BY <1>1, <1>2, <1>3, <1>4

(* What is kept of an event that is counted.                                 *)
LEMMA KeepSurfaces ==
  ASSUME StatsOK, NEW f \in [Kinds -> Nat], NEW g \in [Kinds -> Nat],
         NEW kk \in Kinds, NEW d \in BOOLEAN, Keep(kk, d),
         \A k \in Kinds : g[k] = f[k] + (IF d /\ k = kk THEN 1 ELSE 0),
         \A k \in Kinds :
           \/ keptDenied[k] = f[k]
           \/ keptAllowed[k] = 0 /\ keptDenied[k] >= PerKindCap
           \/ TotalKept >= TotalCap /\ \A v \in Kinds : keptAllowed[v] = 0
  PROVE  /\ keptDenied' \in [Kinds -> Nat] /\ keptAllowed' \in [Kinds -> Nat]
         /\ \A k \in Kinds :
              \/ keptDenied'[k] = g[k]
              \/ keptAllowed'[k] = 0 /\ keptDenied'[k] >= PerKindCap
              \/ TotalKept' >= TotalCap /\ \A v \in Kinds : keptAllowed'[v] = 0
<1> DEFINE A == keptAllowed
           D == keptDenied
<1>0. /\ A \in [Kinds -> Nat] /\ D \in [Kinds -> Nat] /\ TotalKept \in Int
      /\ TotalCap \in Nat /\ PerKindCap \in Nat
      /\ KindRoom(kk) <=> D[kk] + A[kk] < PerKindCap
      /\ TotalRoom <=> TotalKept < TotalCap
  <2>1. /\ A \in [Kinds -> Nat] /\ D \in [Kinds -> Nat]
        /\ TotalCap \in Nat /\ PerKindCap \in Nat
    BY PipelineAssumption DEF StatsOK
  <2>2. \A k \in Kinds : KeptOf(k) \in Int /\ KeptOf(k) = D[k] + A[k]
    BY <2>1 DEF KeptOf
  <2>3. TotalKept \in Int
    BY <2>2 DEF TotalKept, Kinds
  <2> QED
    BY <2>1, <2>2, <2>3 DEF KindRoom, TotalRoom
<1>1. CASE KindRoom(kk) /\ TotalRoom /\ d
  <2>1. D' = [D EXCEPT ![kk] = @ + 1] /\ A' = A
    BY <1>1 DEF Keep
  <2>2. D' \in [Kinds -> Nat] /\ A' \in [Kinds -> Nat]
        /\ \A k \in Kinds : D'[k] = D[k] + (IF k = kk THEN 1 ELSE 0)
    BY <1>0, <2>1
  <2>3. \A k \in Kinds : D[k] = f[k] \/ (A[k] = 0 /\ D[k] >= PerKindCap)
    BY <1>0, <1>1
  <2> QED
    BY <1>0, <1>1, <2>1, <2>2, <2>3
<1>2. CASE KindRoom(kk) /\ TotalRoom /\ ~d
  <2>1. A' = [A EXCEPT ![kk] = @ + 1] /\ D' = D
    BY <1>2 DEF Keep
  <2>2. D' \in [Kinds -> Nat] /\ A' \in [Kinds -> Nat]
        /\ \A k \in Kinds : A'[k] = A[k] + (IF k = kk THEN 1 ELSE 0)
    BY <1>0, <2>1
  <2>3. \A k \in Kinds : D[k] = f[k] \/ (A[k] = 0 /\ D[k] >= PerKindCap)
    BY <1>0, <1>2
  <2> QED
    BY <1>0, <1>2, <2>1, <2>2, <2>3
<1>3. CASE ~(KindRoom(kk) /\ TotalRoom) /\ d /\ Victims(kk) # {}
  <2>1. PICK v \in Victims(kk) :
          A' = [A EXCEPT ![v] = @ - 1] /\ D' = [D EXCEPT ![kk] = @ + 1]
    BY <1>3 DEF Keep
  <2>2. v \in Kinds /\ A[v] > 0
    BY DEF Victims
  <2>3. D' \in [Kinds -> Nat] /\ A' \in [Kinds -> Nat]
        /\ (\A k \in Kinds : D'[k] = D[k] + (IF k = kk THEN 1 ELSE 0))
        /\ \A k \in Kinds : A'[k] = A[k] - (IF k = v THEN 1 ELSE 0)
    BY <1>0, <2>1, <2>2
  <2>4. \A k \in Kinds : D[k] = f[k] \/ (A[k] = 0 /\ D[k] >= PerKindCap)
    BY <1>0, <2>2
  <2> QED
    BY <1>0, <1>3, <2>2, <2>3, <2>4
<1>4. CASE ~(KindRoom(kk) /\ TotalRoom) /\ d /\ Victims(kk) = {}
  <2>1. A' = A /\ D' = D
    BY <1>4 DEF Keep
  <2>2. TotalKept' = TotalKept
    BY <2>1 DEF TotalKept, KeptOf
  <2>3. A[kk] = 0
    BY <1>0, <1>4 DEF Victims
  <2>4. CASE TotalRoom
    BY <1>0, <1>4, <2>1, <2>2, <2>3, <2>4
  <2>5. CASE ~TotalRoom
    <3>1. \A v \in Kinds : A[v] = 0
      BY <1>0, <1>4, <2>3, <2>5 DEF Victims
    <3> QED
      BY <1>0, <2>1, <2>2, <2>5, <3>1
  <2> QED
    BY <2>4, <2>5
<1>5. CASE ~(KindRoom(kk) /\ TotalRoom) /\ ~d
  <2>1. A' = A /\ D' = D
    BY <1>5 DEF Keep
  <2>2. TotalKept' = TotalKept
    BY <2>1 DEF TotalKept, KeptOf
  <2> QED
    BY <1>0, <1>5, <2>1, <2>2
<1> QED
  BY <1>1, <1>2, <1>3, <1>4, <1>5

LEMMA BooksNext ==
  ASSUME Books, [Next]_vars
  PROVE  Books'
<1>1. CASE HookStep
  <2>1. PICK e \in Event : Emit(e)
    BY <1>1, HookEffect DEF HookStep
  <2>2. RingOK' /\ (\A k \in Kinds : Seen(k)' = Seen(k)) /\ UNCHANGED statVars
    BY <1>1, <2>1, EmitBooks, HookEffect DEF HookStep, Books
  <2>3. StatsOK' /\ Surfacing'
    BY <2>2 DEF Books, StatsOK, Surfacing, Kept, TotalKept, KeptOf, statVars
  <2>4. Counting'
    BY <2>2 DEF Books, Counting, statVars, Kinds
  <2> QED
    BY <2>2, <2>3, <2>4 DEF Books
<1>2. CASE IngestStep
  <2> DEFINE e == Head(ring)
             f == [k \in Kinds |-> Seen(k)]
             g == [k \in Kinds |-> Seen(k)']
  <2>1. /\ RingOK' /\ e \in Event /\ Ingest(e)
        /\ \A k \in Kinds : Seen(k)' = Seen(k) + (IF DeniedAs(e, k) THEN 1 ELSE 0)
    BY <1>2, IngestBooks DEF IngestStep, Books
  <2> HIDE DEF e
  <2>2. f \in [Kinds -> Nat] /\ g \in [Kinds -> Nat]
    BY <2>1 DEF Books, Counting
  <2>3. Counting <=> denied = f["exec"] + f["connect"] + f["open"]
    BY <2>2 DEF Counting, Kinds
  <2>4. Counting' <=> denied' = g["exec"] + g["connect"] + g["open"]
    BY <2>2 DEF Counting, Kinds
  <2>5. Surfacing' <=> \A k \in Kinds :
          \/ keptDenied'[k] = g[k]
          \/ keptAllowed'[k] = 0 /\ keptDenied'[k] >= PerKindCap
          \/ TotalKept' >= TotalCap /\ \A v \in Kinds : keptAllowed'[v] = 0
    BY DEF Surfacing, Kept
  <2>6. \A k \in Kinds :
          \/ keptDenied[k] = f[k]
          \/ keptAllowed[k] = 0 /\ keptDenied[k] >= PerKindCap
          \/ TotalKept >= TotalCap /\ \A v \in Kinds : keptAllowed[v] = 0
    BY DEF Books, Surfacing, Kept
  <2>7. CASE e.kind = "unknown" \/ e.from = Supervisor
    <3>1. g = f
      BY <2>1, <2>2, <2>7 DEF DeniedAs, Kinds
    <3>2. UNCHANGED <<observed, denied, keptDenied, keptAllowed>> /\ lost' \in Nat
      BY <2>1, <2>7 DEF Ingest, statVars, Books, StatsOK
    <3>3. TotalKept' = TotalKept /\ StatsOK'
      BY <3>2 DEF TotalKept, KeptOf, Books, StatsOK
    <3> QED
      BY <2>1, <2>3, <2>4, <2>5, <2>6, <3>1, <3>2, <3>3 DEF Books
  <2>8. CASE e.kind # "unknown" /\ e.from # Supervisor
    <3>1. /\ observed' = observed + 1 /\ lost' = lost /\ Keep(e.kind, Denied(e))
          /\ denied' = IF Denied(e) THEN denied + 1 ELSE denied
      BY <2>1, <2>8 DEF Ingest
    <3>2. e.kind \in Kinds /\ Denied(e) \in BOOLEAN
      BY <2>1, <2>8 DEF Event, Denied, FileDenied
    <3>3. \A k \in Kinds : g[k] = f[k] + (IF Denied(e) /\ k = e.kind THEN 1 ELSE 0)
      BY <2>1, <2>8 DEF DeniedAs
    <3>4. /\ keptDenied' \in [Kinds -> Nat] /\ keptAllowed' \in [Kinds -> Nat]
          /\ Surfacing'
      <4> HIDE DEF f, g
      <4>1. StatsOK
        BY DEF Books
      <4>2. /\ keptDenied' \in [Kinds -> Nat] /\ keptAllowed' \in [Kinds -> Nat]
            /\ \A k \in Kinds :
                 \/ keptDenied'[k] = g[k]
                 \/ keptAllowed'[k] = 0 /\ keptDenied'[k] >= PerKindCap
                 \/ TotalKept' >= TotalCap /\ \A v \in Kinds : keptAllowed'[v] = 0
        BY <2>2, <2>6, <3>1, <3>2, <3>3, <4>1, KeepSurfaces
      <4> QED
        BY <2>5, <4>2
    <3>5. Counting'
      <4> HIDE DEF f, g
      <4> QED
        BY <2>2, <2>3, <2>4, <3>1, <3>2, <3>3 DEF Books, Kinds
    <3>6. denied' \in Nat /\ observed' \in Nat /\ lost' \in Nat
      BY <3>1 DEF Books, StatsOK
    <3> QED
      BY <2>1, <3>4, <3>5, <3>6 DEF Books, StatsOK
  <2> QED
    BY <2>7, <2>8
<1>3. CASE UNCHANGED <<ring, statVars, recorded, missed, flagged>>
  BY <1>3 DEF Books, RingOK, StatsOK, Counting, Surfacing, Kept, Seen, HitsIn, Denied,
              FileDenied, TotalKept, KeptOf, statVars
<1> QED
  BY <1>1, <1>2, <1>3, BooksFrame

-----------------------------------------------------------------------------
(* The order of the run: what is so before the command, and while it runs.   *)
PipeShape ==
  /\ mode \in {"audit", "block"} /\ Accepted
  /\ lacks \in Objects /\ hooks \subseteq Tracepoints \cup ConnectHooks
  /\ slots \in Seq(Seq(STRING))
  /\ drain \in {"off", "reading", "checking", "asleep", "ended"}
  /\ stop \in BOOLEAN
  /\ alive \subseteq Inside \cup Outside
  /\ killed \subseteq Paths

Early == {"baseline", "extensions", "cgroup", "attach", "populate", "spawn"}
Order ==
  /\ stage \in Early => /\ Inside \cap alive = {} /\ tree = InitialTree
                        /\ childCode = Pending /\ cgroup \in {"none", "made"}
  /\ stage \in {"baseline", "extensions", "cgroup"} => cgroup = "none"
  /\ stage # "done" => exit = Pending
  /\ Child \in alive => stage = "child"
  /\ stage \in Early \cup {"child", "window"} => ~stop
  /\ drain = "ended" => stop \/ "EVENTS" \in lacks

Attached == hooks = (Tracepoints \cup (IF cgroup = "none" THEN {} ELSE ConnectHooks)) \ lacks
Listed == "FILE_DENY_PREFIX" \in lacks \/ slots = SlotsOf(FileDeny)
Guarded ==
  /\ stage = "populate" => Attached
  /\ mode = "block" /\ stage \in {"spawn", "child"} =>
       Attached /\ Listed /\ ("EVENTS" \in lacks \/ drain # "off")

LEMMA MinOfTwo ==
  ASSUME NEW a \in Nat, NEW b \in Nat
  PROVE  /\ Min({a, b}) \in Nat /\ Min({a, b}) <= a /\ Min({a, b}) <= b
         /\ a <= b => Min({a, b}) = a
<1>1. \E x \in {a, b} : \A y \in {a, b} : x <= y
  OBVIOUS
<1>2. Min({a, b}) = CHOOSE x \in {a, b} : \A y \in {a, b} : x <= y
  BY DEF Min
<1> QED
  BY <1>1, <1>2

(* A list that is accepted has a slot for each of its entries.               *)
LEMMA AcceptedFits ==
  ASSUME Accepted, mode = "block"
  PROVE  DOMAIN SlotsOf(FileDeny) = DOMAIN FileDeny
<1>1. FileDeny \in Seq(Seq(STRING)) /\ MaxSlots \in Nat /\ Len(FileDeny) \in Nat
  BY PipelineAssumption
<1>2. Min({Len(FileDeny), MaxSlots}) = Len(FileDeny)
  BY <1>1, MinOfTwo DEF Accepted
<1>3. DOMAIN SlotsOf(FileDeny) = 1 .. Min({Len(FileDeny), MaxSlots})
  BY DEF SlotsOf
<1> QED
  BY <1>1, <1>2, <1>3

LEMMA GuardedMeans == PipeShape /\ Order /\ Guarded => BlockRunsProtected
BY AcceptedFits DEF PipeShape, Order, Early, Guarded, Attached, Listed, BlockRunsProtected

LEMMA SlotsType == SlotsOf(FileDeny) \in Seq(Seq(STRING))
<1> DEFINE n == Min({Len(FileDeny), MaxSlots})
<1>1. /\ FileDeny \in Seq(Seq(STRING)) /\ Len(FileDeny) \in Nat
      /\ MaxSlots \in Nat /\ PrefixLen \in Nat
  BY PipelineAssumption
<1>2. n \in Nat /\ n <= Len(FileDeny)
  BY <1>1, MinOfTwo
<1> HIDE DEF n
<1>3. ASSUME NEW i \in 1 .. n
      PROVE  SubSeq(FileDeny[i], 1, Min({Len(FileDeny[i]), PrefixLen})) \in Seq(STRING)
  <2> DEFINE q == FileDeny[i]
             m == Min({Len(q), PrefixLen})
  <2>1. q \in Seq(STRING) /\ Len(q) \in Nat
    BY <1>1, <1>2
  <2>2. m \in Nat /\ m <= Len(q)
    BY <1>1, <2>1, MinOfTwo
  <2> HIDE DEF q, m
  <2>3. 1 \in Int /\ m \in Int /\ \A j \in 1 .. m : q[j] \in STRING
    BY <2>1, <2>2
  <2>4. SubSeq(q, 1, m) \in Seq(STRING)
    BY <2>3, SubSeqProperties
  <2> QED
    BY <2>4 DEF q, m
<1> DEFINE cut == [i \in 1 .. n |-> SubSeq(FileDeny[i], 1, Min({Len(FileDeny[i]), PrefixLen}))]
<1>4. SlotsOf(FileDeny) = cut
  BY DEF SlotsOf, n
<1>5. cut \in [1 .. n -> Seq(STRING)]
  BY <1>3
<1> HIDE DEF cut
<1> QED
  BY <1>2, <1>4, <1>5

LEMMA PipeShapeNext ==
  ASSUME PipeShape, [Next]_vars
  PROVE  PipeShape'
<1> USE DEF PipeShape, Accepted, pipeVars, historyVars, statVars, End, DropCgroup
<1>1. CASE TakeBaseline
  BY <1>1 DEF TakeBaseline
<1>2. CASE TakeExtensions
  BY <1>2 DEF TakeExtensions
<1>3. CASE MakeCgroup
  BY <1>3 DEF MakeCgroup
<1>4. CASE Attach
  BY <1>4 DEF Attach
<1>5. CASE Populate
  BY <1>5, SlotsType DEF Populate
<1>6. CASE LoadFails
  BY <1>6 DEF LoadFails
<1>7. CASE SpawnChild
  BY <1>7, RunAssumption DEF SpawnChild
<1>8. CASE ChildWaited
  BY <1>8 DEF ChildWaited
<1>9. CASE SetStop
  BY <1>9 DEF SetStop
<1>10. CASE CopyStats
  BY <1>10 DEF CopyStats
<1>11. CASE ReadStep
  BY <1>11 DEF ReadStep, ReadFile, TakeAfter, TakeExtensionsAfter, ScanExtensions, ScanWorkspace
<1>12. CASE WriteReport
  BY <1>12 DEF WriteReport
<1>13. CASE Decide
  BY <1>13 DEF Decide
<1>14. CASE Fork
  BY <1>14 DEF Fork
<1>15. CASE WriteFile
  BY <1>15 DEF WriteFile
<1>16. CASE Detach
  BY <1>16 DEF Detach
<1>17. CASE \E p \in Inside : Exits(p)
  BY <1>17 DEF Exits
<1>18. CASE HookStep
  BY <1>18, HookEffect DEF HookStep
<1>19. CASE IngestStep
  BY <1>19 DEF IngestStep, DrainNext
<1>20. CASE DrainStep
  BY <1>20 DEF DrainStep, DrainEmpty, DrainCheck, DrainWake
<1>21. CASE UNCHANGED vars
  BY <1>21 DEF vars
<1> QED
  BY <1>1, <1>2, <1>3, <1>4, <1>5, <1>6, <1>7, <1>8, <1>9, <1>10, <1>11,
     <1>12, <1>13, <1>14, <1>15, <1>16, <1>17, <1>18, <1>19, <1>20, <1>21, StepCases

LEMMA OrderNext ==
  ASSUME Order, [Next]_vars
  PROVE  Order'
<1> USE DEF Order, Early, pipeVars, historyVars, runVars, End, DropCgroup
<1>1. CASE TakeBaseline
  BY <1>1 DEF TakeBaseline
<1>2. CASE TakeExtensions
  BY <1>2 DEF TakeExtensions
<1>3. CASE MakeCgroup
  BY <1>3 DEF MakeCgroup
<1>4. CASE Attach
  BY <1>4 DEF Attach
<1>5. CASE Populate
  BY <1>5 DEF Populate
<1>6. CASE LoadFails
  BY <1>6 DEF LoadFails
<1>7. CASE SpawnChild
  BY <1>7, RunAssumption DEF SpawnChild
<1>8. CASE ChildWaited
  BY <1>8 DEF ChildWaited
<1>9. CASE SetStop
  BY <1>9 DEF SetStop
<1>10. CASE CopyStats
  BY <1>10 DEF CopyStats
<1>11. CASE ReadStep
  <2>1. /\ UNCHANGED <<pipeVars, exit, cgroup, childCode, tree>>
        /\ stage' = stage \/ (stage \in AfterStages /\ stage' \in AfterStages)
    BY <1>11 DEF ReadStep, ReadFile, TakeAfter, TakeExtensionsAfter, ScanExtensions, ScanWorkspace,
                 AfterStages
  <2> QED BY <2>1 DEF AfterStages
<1>12. CASE WriteReport
  BY <1>12 DEF WriteReport
<1>13. CASE Decide
  BY <1>13 DEF Decide
<1>14. CASE Fork
  BY <1>14, RunAssumption DEF Fork
<1>15. CASE WriteFile
  BY <1>15 DEF WriteFile
<1>16. CASE Detach
  BY <1>16 DEF Detach, AfterStages
<1>17. CASE \E p \in Inside : Exits(p)
  BY <1>17, RunAssumption DEF Exits
<1>18. CASE HookStep
  BY <1>18, HookEffect DEF HookStep
<1>19. CASE IngestStep
  BY <1>19 DEF IngestStep, DrainNext
<1>20. CASE DrainStep
  BY <1>20 DEF DrainStep, DrainEmpty, DrainCheck, DrainWake
<1>21. CASE UNCHANGED vars
  BY <1>21 DEF vars
<1> QED
  BY <1>1, <1>2, <1>3, <1>4, <1>5, <1>6, <1>7, <1>8, <1>9, <1>10, <1>11,
     <1>12, <1>13, <1>14, <1>15, <1>16, <1>17, <1>18, <1>19, <1>20, <1>21, StepCases

LEMMA GuardedNext ==
  ASSUME Order, Guarded, [Next]_vars
  PROVE  Guarded'
<1> USE DEF Guarded, Order, Early, Attached, Listed, SlotsOf, pipeVars, historyVars, runVars,
            End, DropCgroup
<1>1. CASE TakeBaseline
  BY <1>1 DEF TakeBaseline
<1>2. CASE TakeExtensions
  BY <1>2 DEF TakeExtensions
<1>3. CASE MakeCgroup
  BY <1>3 DEF MakeCgroup
<1>4. CASE Attach
  BY <1>4 DEF Attach
<1>5. CASE Populate
  BY <1>5 DEF Populate
<1>6. CASE LoadFails
  BY <1>6 DEF LoadFails
<1>7. CASE SpawnChild
  BY <1>7 DEF SpawnChild
<1>8. CASE ChildWaited
  BY <1>8 DEF ChildWaited
<1>9. CASE SetStop
  BY <1>9 DEF SetStop
<1>10. CASE CopyStats
  BY <1>10 DEF CopyStats
<1>11. CASE ReadStep
  BY <1>11 DEF ReadStep, ReadFile, TakeAfter, TakeExtensionsAfter, ScanExtensions, ScanWorkspace
<1>12. CASE WriteReport
  BY <1>12 DEF WriteReport
<1>13. CASE Decide
  BY <1>13 DEF Decide
<1>14. CASE Fork
  BY <1>14 DEF Fork
<1>15. CASE WriteFile
  BY <1>15 DEF WriteFile
<1>16. CASE Detach
  BY <1>16 DEF Detach, AfterStages
<1>17. CASE \E p \in Inside : Exits(p)
  BY <1>17 DEF Exits
<1>18. CASE HookStep
  BY <1>18, HookEffect DEF HookStep
<1>19. CASE IngestStep
  BY <1>19 DEF IngestStep, DrainNext
<1>20. CASE DrainStep
  BY <1>20 DEF DrainStep, DrainEmpty, DrainCheck, DrainWake
<1>21. CASE UNCHANGED vars
  BY <1>21 DEF vars
<1> QED
  BY <1>1, <1>2, <1>3, <1>4, <1>5, <1>6, <1>7, <1>8, <1>9, <1>10, <1>11,
     <1>12, <1>13, <1>14, <1>15, <1>16, <1>17, <1>18, <1>19, <1>20, <1>21, StepCases

-----------------------------------------------------------------------------
(* Snapshots: what a difference shows.                                       *)
Regular(t, area) == {p \in Walked(area) : t[p].kind \in {"file", "link"}}

LEMMA WalkedWithin ==
  ASSUME NEW area
  PROVE  Walked(area) \subseteq area
BY DEF Walked

LEMMA WalkedTwice ==
  ASSUME NEW area
  PROVE  Walked(Walked(area)) = Walked(area)
BY DEF Walked

LEMMA TakenFiles ==
  ASSUME NEW area, NEW t \in [area -> States]
  PROVE  /\ DOMAIN Take(t).files = Regular(t, area)
         /\ \A p \in Regular(t, area) : Take(t).files[p] = EntryOf(t[p])
BY DEF Take, Regular

LEMMA EntriesShow ==
  ASSUME NEW a \in States, NEW b \in States,
         a.kind \in {"file", "link"}, b.kind \in {"file", "link"}
  PROVE  EntriesDiffer(EntryOf(a), EntryOf(b)) <=> a # b /\ ~Invisible(a, b)
<1> DEFINE R == [kind : STRING, size : Nat, data : STRING \ {Unhashed}]
<1>1. a \in R /\ b \in R /\ MaxFileBytes \in Nat
  BY RunAssumption, SnapshotAssumption
<1>2. /\ a.size \in Nat /\ b.size \in Nat /\ a.data # Unhashed /\ b.data # Unhashed
      /\ a = b <=> (a.kind = b.kind /\ a.size = b.size /\ a.data = b.data)
  <2> HIDE DEF Unhashed
  <2> QED
    BY <1>1
<1>3. ASSUME NEW s \in R
      PROVE  LET e == EntryOf(s)
             IN /\ e.kind = s.kind /\ e.size = s.size
                /\ e.data = IF s.kind = "file" /\ s.size > MaxFileBytes THEN Unhashed ELSE s.data
  BY DEF EntryOf
<1> HIDE DEF Unhashed
<1>4. /\ EntryOf(a).kind = a.kind /\ EntryOf(a).size = a.size
      /\ EntryOf(a).data = IF a.kind = "file" /\ a.size > MaxFileBytes THEN Unhashed ELSE a.data
      /\ EntryOf(b).kind = b.kind /\ EntryOf(b).size = b.size
      /\ EntryOf(b).data = IF b.kind = "file" /\ b.size > MaxFileBytes THEN Unhashed ELSE b.data
  BY <1>1, <1>3
<1> HIDE DEF R
<1> QED
  BY <1>1, <1>2, <1>4 DEF EntriesDiffer, Invisible

LEMMA DiffShows ==
  ASSUME NEW area \in SUBSET Files, NEW t \in [Walked(area) -> States]
  PROVE  LET d == Diff(Take(Part(InitialTree, area)), Take(t))
         IN /\ d.added \cup d.modified = Changed(t) \cap Regular(t, area)
            /\ d # NoDiff <=> Changed(t) # {}
            /\ d \in [added : SUBSET Files, modified : SUBSET Files, removed : SUBSET Files]
<1> DEFINE i == Part(InitialTree, area)
           d == Diff(Take(i), Take(t))
           was == Regular(i, area)
           is == Regular(t, area)
<1>1. /\ i \in [area -> States] /\ \A p \in area : i[p] = InitialTree[p]
  BY RunAssumption DEF Part
<1> HIDE DEF i
<1>11. DOMAIN Take(t).files = is /\ \A p \in is : Take(t).files[p] = EntryOf(t[p])
  <2>1. Regular(t, Walked(area)) = is
    BY WalkedTwice DEF Regular
  <2> QED
    BY <2>1, TakenFiles
<1>2. /\ d.added = is \ was /\ d.removed = was \ is
      /\ d.modified = {p \in was \cap is : EntriesDiffer(EntryOf(i[p]), EntryOf(t[p]))}
      /\ d = [added |-> d.added, modified |-> d.modified, removed |-> d.removed]
  BY <1>1, <1>11, TakenFiles DEF Diff
<1> HIDE DEF d
<1>3. \A p \in was \cap is :
        EntriesDiffer(EntryOf(i[p]), EntryOf(t[p])) <=> i[p] # t[p] /\ ~Invisible(i[p], t[p])
  <2>1. ASSUME NEW p \in was \cap is
        PROVE  EntriesDiffer(EntryOf(i[p]), EntryOf(t[p]))
                 <=> i[p] # t[p] /\ ~Invisible(i[p], t[p])
    <3>1. /\ i[p] \in States /\ t[p] \in States
          /\ i[p].kind \in {"file", "link"} /\ t[p].kind \in {"file", "link"}
      BY <1>1, WalkedWithin DEF Regular
    <3> QED
      BY <3>1, EntriesShow
  <2> QED
    BY <2>1
<1>4. Changed(t) = {p \in Walked(area) : t[p] # i[p] /\ ~Invisible(i[p], t[p])}
  BY <1>1, WalkedWithin, WalkedTwice DEF Changed
<1>5. \A p \in Walked(area) :
        /\ p \in was <=> i[p].kind \in {"file", "link"}
        /\ p \in is <=> t[p].kind \in {"file", "link"}
  BY DEF Regular
<1>6. was \subseteq Walked(area) /\ is \subseteq Walked(area)
  BY DEF Regular
<1> HIDE DEF was, is
<1>7. d.added \cup d.modified = Changed(t) \cap is
  BY <1>2, <1>3, <1>4, <1>5, <1>6 DEF Invisible
<1>8. d.removed = Changed(t) \ is
  <2>1. ASSUME NEW p \in Walked(area)
        PROVE  p \in was \ is <=> t[p] # i[p] /\ ~Invisible(i[p], t[p]) /\ p \notin is
    BY <1>5 DEF Invisible
  <2> QED
    BY <1>2, <1>4, <1>6, <2>1
<1>9. d # NoDiff <=> Changed(t) # {}
  <2>1. d = NoDiff <=> d.added = {} /\ d.modified = {} /\ d.removed = {}
    BY <1>2 DEF NoDiff
  <2> QED
    BY <2>1, <1>7, <1>8
<1>10. d \in [added : SUBSET Files, modified : SUBSET Files, removed : SUBSET Files]
  BY <1>2, <1>6, WalkedWithin
<1> QED
  BY <1>7, <1>9, <1>10 DEF d, is, i

LEMMA ScanShows ==
  ASSUME NEW area, NEW t \in [area -> States], NEW paths \in SUBSET Regular(t, area)
  PROVE  /\ Scan(t, paths) \subseteq Severities
         /\ "high" \in Scan(t, paths) <=> \E p \in paths : Severe(p, t[p])
<1>1. Scan(t, paths) \subseteq Severities
  BY SnapshotAssumption DEF Scan
<1>2. paths \subseteq area
  BY WalkedWithin DEF Regular
<1>3. "high" \in Scan(t, paths) <=> \E p \in paths : Severe(p, t[p])
  BY <1>2 DEF Scan, Severe
<1> QED
  BY <1>1, <1>3

-----------------------------------------------------------------------------
(* What the run has found: the difference and the findings tell of the files *)
(* as they were before the command and as the snapshots after it found them. *)
DiffType == [added : SUBSET Files, modified : SUBSET Files, removed : SUBSET Files]
Reads == UNION {[area -> States] : area \in SUBSET Files}
WorkBase == Take(Part(InitialTree, WorkspaceFiles))
ExtBase == Take(Part(InitialTree, ExtensionFiles))

RunShape ==
  /\ stage \in Stages /\ opts \in Options /\ tree \in [Files -> States]
  /\ cgroup \in {"none", "made", "removed", "busy"}
  /\ childCode \in ExitCodes \cup {Pending, 1} /\ exit \in ExitCodes \cup {Pending, 1}
  /\ final \in Nat /\ writes \in 0 .. opts.writes /\ faults \in 0 .. MaxFaults
  /\ copied \in [flagged : Nat, unread : 0 .. RingCap, alone : BOOLEAN]
SnapShape ==
  /\ base \in [workspace : {<<>>, <<WorkBase>>}, extensions : {<<>>, <<ExtBase>>}]
  /\ found \in [baseline : SUBSET Severities, workspace : SUBSET Severities,
                extensions : SUBSET Severities]
  /\ drift \in [workspace : DiffType, extensions : DiffType]
  /\ reads \in Reads
  /\ asOf \in [workspace : Reads, extensions : Reads]
  /\ scanned \in [workspace : Reads, extensions : Reads]

(* A difference tells of the files the snapshot has read, the findings of    *)
(* what the scan has read of those that differ.                              *)
DriftTells(t, d, area) ==
  /\ DOMAIN t = Walked(area)
  /\ d # NoDiff <=> Changed(t) # {}
  /\ Differing(d) = Changed(t) \cap Regular(t, area)
FoundTells(d, s, f) ==
  /\ DOMAIN s = Differing(d)
  /\ "high" \in f <=> \E p \in Differing(d) : Severe(p, s[p])

NoBaseline == {"extension baseline", "extension scan"}
NoExtensions == {"extension baseline", "extension scan", "extension drift"}
Baselines ==
  /\ stage = "baseline" => base.workspace = <<>>
  /\ stage \in {"baseline", "extensions"} => base.extensions = <<>> /\ found.baseline = {}
  /\ stage \notin {"baseline", "done"} =>
       base.workspace = IF opts.workspace THEN <<WorkBase>> ELSE <<>>
  /\ stage \notin {"baseline", "extensions", "done"} =>
       /\ base.extensions # <<>> => opts.extensions
       /\ stage = "extensions after" => base.extensions # <<>>
       /\ opts.extensions /\ base.extensions = <<>> => "extension baseline" \in gone
       /\ "high" \in found.baseline => opts.extensions /\ AlreadyBad
       /\ opts.extensions /\ "high" \notin found.baseline =>
            ~AlreadyBad \/ gone \cap NoBaseline # {}

\* From which stage on a result is there.
Compared == {"extensions after", "extension scan", "scan", "report", "decide"}
ComparedExtensions == {"extension scan", "scan", "report", "decide"}
ScannedExtensions == {"scan", "report", "decide"}
ScannedAll == {"report", "decide"}
Nothing(area) ==
  drift[area] = NoDiff /\ asOf[area] = NothingRead
NothingFound(area) == found[area] = {} /\ scanned[area] = NothingRead
Results ==
  /\ DOMAIN reads \subseteq ToRead
  /\ stage \notin Compared \cup {"done"} => Nothing("workspace")
  /\ stage \notin ComparedExtensions \cup {"done"} => Nothing("extensions")
  /\ stage \notin ScannedExtensions \cup {"done"} => NothingFound("extensions")
  /\ stage \notin ScannedAll \cup {"done"} => NothingFound("workspace")
  /\ stage \in Compared =>
       \/ drift.workspace = NoDiff /\ (opts.workspace => "after" \in gone)
       \/ opts.workspace /\ DriftTells(asOf.workspace, drift.workspace, WorkspaceFiles)
  /\ stage \in ComparedExtensions =>
       \/ drift.extensions = NoDiff /\ (opts.extensions => gone \cap NoExtensions # {})
       \/ opts.extensions /\ DriftTells(asOf.extensions, drift.extensions, ExtensionFiles)
  /\ stage \in ScannedExtensions => FoundTells(drift.extensions, scanned.extensions, found.extensions)
  /\ stage \in ScannedAll => FoundTells(drift.workspace, scanned.workspace, found.workspace)
Counted ==
  stage \in AfterStages =>
    final <= copied.flagged /\ (copied.unread = 0 => copied.flagged = final)

\* What was read is as it is, if nothing of the command was left.
AsIs(s) == \A p \in DOMAIN s : s[p] = tree[p]
Alone ==
  copied.alone =>
    /\ stage \in AfterStages \cup {"done"} /\ Inside \cap alive = {}
    /\ AsIs(reads) /\ AsIs(asOf.workspace) /\ AsIs(asOf.extensions)
    /\ AsIs(scanned.workspace) /\ AsIs(scanned.extensions)

LEMMA AfterTells ==
  ASSUME NEW area \in SUBSET Files, reads \in Reads, DOMAIN reads = Walked(area)
  PROVE  LET d == Diff(Take(Part(InitialTree, area)), Take(reads))
         IN d \in DiffType /\ DriftTells(reads, d, area)
<1>1. reads \in [Walked(area) -> States]
  BY DEF Reads
<1> QED BY <1>1, DiffShows DEF DriftTells, Differing, DiffType

LEMMA ScanTells ==
  ASSUME NEW d, reads \in Reads, DOMAIN reads = Differing(d)
  PROVE  Scan(reads, DOMAIN reads) \subseteq Severities /\ FoundTells(d, reads, Scan(reads, DOMAIN reads))
<1>1. Scan(reads, DOMAIN reads) \subseteq Severities
  BY SnapshotAssumption DEF Scan
<1>2. "high" \in Scan(reads, DOMAIN reads) <=> \E p \in DOMAIN reads : Severe(p, reads[p])
  BY DEF Scan, Severe
<1> QED BY <1>1, <1>2 DEF FoundTells

LEMMA BeforeTells ==
  LET here == Part(InitialTree, ExtensionFiles)
      f == Scan(here, DOMAIN Take(here).files)
  IN f \subseteq Severities /\ ("high" \in f <=> AlreadyBad)
<1> DEFINE here == Part(InitialTree, ExtensionFiles)
           f == Scan(here, DOMAIN Take(here).files)
<1>1. /\ here \in [ExtensionFiles -> States]
      /\ \A p \in ExtensionFiles : here[p] = InitialTree[p]
  BY RunAssumption DEF Part, Files
<1> HIDE DEF here
<1>2. DOMAIN Take(here).files = Regular(here, ExtensionFiles)
  BY <1>1, TakenFiles
<1>3. /\ f \subseteq Severities
      /\ "high" \in f <=> \E p \in Regular(here, ExtensionFiles) : Severe(p, here[p])
  BY <1>1, <1>2, ScanShows
<1> HIDE DEF f
<1> QED
  BY <1>1, <1>3, WalkedWithin DEF Regular, AlreadyBad, f, here

LEMMA FaultsShape ==
  ASSUME RunShape, Fine \/ (\E x : Fail(x)) \/ UNCHANGED faults
  PROVE  faults' \in 0 .. MaxFaults
BY RunAssumption DEF RunShape, Fine, Fail

LEMMA RunShapeNext ==
  ASSUME RunShape, Books, [Next]_vars
  PROVE  RunShape'
<1> USE DEF runVars
<1>1. CASE TakeBaseline
  <2>1. /\ Fine \/ (\E x : Fail(x)) \/ UNCHANGED faults
        /\ stage' \in Stages /\ exit' \in {exit, 1}
        /\ UNCHANGED <<opts, tree, cgroup, childCode, final, writes, copied>>
    BY <1>1 DEF TakeBaseline, End, Stages
  <2> QED
    BY <2>1, FaultsShape DEF RunShape
<1>2. CASE TakeExtensions
  <2>1. /\ Fine \/ (\E x : Fail(x)) \/ UNCHANGED faults
        /\ stage' \in Stages /\ exit' \in {exit, 1}
        /\ UNCHANGED <<opts, tree, cgroup, childCode, final, writes, copied>>
    BY <1>2 DEF TakeExtensions, End, Stages
  <2> QED
    BY <2>1, FaultsShape DEF RunShape
<1>3. CASE MakeCgroup
  <2>1. /\ Fine \/ (\E x : Fail(x)) \/ UNCHANGED faults
        /\ stage' \in Stages /\ exit' \in {exit, 1}
        /\ cgroup' \in {cgroup, "made"}
        /\ UNCHANGED <<opts, tree, childCode, final, writes, copied>>
    BY <1>3 DEF MakeCgroup, Stages
  <2> QED
    BY <2>1, FaultsShape DEF RunShape
<1>4. CASE Attach
  <2>1. /\ Fine \/ (\E x : Fail(x)) \/ UNCHANGED faults
        /\ stage' \in Stages /\ exit' \in {exit, 1}
        /\ UNCHANGED <<opts, tree, cgroup, childCode, final, writes, copied>>
    BY <1>4 DEF Attach, Stages
  <2> QED
    BY <2>1, FaultsShape DEF RunShape
<1>5. CASE Populate
  <2>1. /\ Fine \/ (\E x : Fail(x)) \/ UNCHANGED faults
        /\ stage' \in Stages /\ exit' \in {exit, 1}
        /\ UNCHANGED <<opts, tree, cgroup, childCode, final, writes, copied>>
    BY <1>5 DEF Populate, Stages
  <2> QED
    BY <2>1, FaultsShape DEF RunShape
<1>6. CASE LoadFails
  <2>1. /\ Fine \/ (\E x : Fail(x)) \/ UNCHANGED faults
        /\ stage' \in Stages /\ exit' \in {exit, 1}
        /\ cgroup' \in {cgroup, "removed", "busy"}
        /\ UNCHANGED <<opts, tree, childCode, final, writes, copied>>
    BY <1>6 DEF LoadFails, End, Stages, DropCgroup
  <2> QED
    BY <2>1, FaultsShape DEF RunShape
<1>7. CASE SpawnChild
  <2>1. /\ Fine \/ (\E x : Fail(x)) \/ UNCHANGED faults
        /\ stage' \in Stages /\ exit' \in {exit, 1}
        /\ cgroup' \in {cgroup, "removed", "busy"}
        /\ UNCHANGED <<opts, tree, childCode, final, writes, copied>>
    BY <1>7 DEF SpawnChild, End, Stages, DropCgroup
  <2> QED
    BY <2>1, FaultsShape DEF RunShape
<1>8. CASE ChildWaited
  <2>1. /\ Fine \/ (\E x : Fail(x)) \/ UNCHANGED faults
        /\ stage' \in Stages /\ exit' \in {exit, 1}
        /\ childCode' \in {childCode, 1}
        /\ UNCHANGED <<opts, tree, cgroup, final, writes, copied>>
    BY <1>8 DEF ChildWaited, Stages
  <2> QED
    BY <2>1, FaultsShape DEF RunShape
<1>9. CASE SetStop
  <2>1. /\ Fine \/ (\E x : Fail(x)) \/ UNCHANGED faults
        /\ stage' \in Stages /\ exit' \in {exit, 1}
        /\ UNCHANGED <<opts, tree, cgroup, childCode, final, writes, copied>>
    BY <1>9 DEF SetStop, Stages
  <2> QED
    BY <2>1, FaultsShape DEF RunShape
<1>10. CASE CopyStats
  <2>1. FlaggedTotal \in Nat /\ Len(ring) \in 0 .. RingCap /\ denied \in Nat
    BY PipelineAssumption DEF FlaggedTotal, Books, RingOK, StatsOK, Kinds
  <2>2. copied' \in [flagged : Nat, unread : 0 .. RingCap, alone : BOOLEAN] /\ final' \in Nat
    BY <1>10, <2>1 DEF CopyStats
  <2>3. /\ stage' \in Stages /\ cgroup' \in {cgroup, "removed", "busy"}
        /\ UNCHANGED <<opts, tree, childCode, exit, writes, faults>>
    BY <1>10 DEF CopyStats, Stages, DropCgroup
  <2> QED
    BY <2>2, <2>3 DEF RunShape
<1>11. CASE ReadStep
  <2>1. /\ Fine \/ (\E x : Fail(x)) \/ UNCHANGED faults
        /\ stage' \in Stages /\ exit' \in {exit, 1}
        /\ UNCHANGED <<opts, tree, cgroup, childCode, final, writes, copied>>
    BY <1>11 DEF ReadStep, ReadFile, TakeAfter, TakeExtensionsAfter, ScanExtensions, ScanWorkspace,
                 Stages, RunShape
  <2> QED
    BY <2>1, FaultsShape DEF RunShape
<1>12. CASE WriteReport
  <2>1. /\ Fine \/ (\E x : Fail(x)) \/ UNCHANGED faults
        /\ stage' \in Stages /\ exit' \in {exit, 1}
        /\ UNCHANGED <<opts, tree, cgroup, childCode, final, writes, copied>>
    BY <1>12 DEF WriteReport, End, Stages
  <2> QED
    BY <2>1, FaultsShape DEF RunShape
<1>13. CASE Decide
  <2>1. Verdict \in {1, childCode}
    BY DEF Verdict
  <2> QED
    BY <1>13, <2>1 DEF Decide, RunShape, Stages, End
<1>14. CASE Fork
  BY <1>14 DEF Fork, RunShape
<1>15. CASE WriteFile
  <2>1. tree' \in [Files -> States]
    BY <1>15 DEF WriteFile, RunShape
  <2>2. opts.writes \in Nat
    BY RunAssumption DEF RunShape
  <2> QED
    BY <1>15, <2>1, <2>2 DEF WriteFile, RunShape
<1>16. CASE Detach
  BY <1>16 DEF Detach, RunShape
<1>17. CASE \E p \in Inside : Exits(p)
  BY <1>17 DEF Exits, RunShape
<1>18. CASE HookStep
  BY <1>18 DEF HookStep, RunShape
<1>19. CASE IngestStep
  BY <1>19 DEF IngestStep, RunShape
<1>20. CASE DrainStep
  BY <1>20 DEF DrainStep, RunShape
<1>21. CASE UNCHANGED vars
  BY <1>21 DEF vars, RunShape
<1> QED
  BY <1>1, <1>2, <1>3, <1>4, <1>5, <1>6, <1>7, <1>8, <1>9, <1>10, <1>11,
     <1>12, <1>13, <1>14, <1>15, <1>16, <1>17, <1>18, <1>19, <1>20, <1>21, StepCases


(* Only a few steps take snapshots or read them, each at a stage of its own. *)
Quiet == {"cgroup", "attach", "populate", "spawn", "child", "window", "stopping"}
SnapStill ==
  /\ UNCHANGED <<opts, base, seenVars>> /\ gone \subseteq gone'
  /\ \/ stage' = stage
     \/ stage \in Quiet \cup {"report", "decide", "done"} /\ stage' = "done"
     \/ stage = "report" /\ stage' = "decide"
     \/ stage \in Quiet /\ stage' \in Quiet \cup {"after"}

LEMMA SnapFrame ==
  ASSUME [Next]_vars
  PROVE  SnapStill \/ TakeBaseline \/ TakeExtensions \/ ReadStep
<1> USE DEF SnapStill, Quiet, Fine, Fail, End, runVars, seenVars
<1>1. CASE MakeCgroup
  BY <1>1 DEF MakeCgroup
<1>2. CASE Attach
  BY <1>2 DEF Attach
<1>3. CASE Populate
  BY <1>3 DEF Populate
<1>4. CASE LoadFails
  BY <1>4 DEF LoadFails
<1>5. CASE SpawnChild
  BY <1>5 DEF SpawnChild
<1>6. CASE ChildWaited
  BY <1>6 DEF ChildWaited
<1>7. CASE SetStop
  BY <1>7 DEF SetStop
<1>8. CASE CopyStats
  BY <1>8 DEF CopyStats
<1>9. CASE Decide
  BY <1>9 DEF Decide
<1>10. CASE Fork
  BY <1>10 DEF Fork
<1>11. CASE WriteFile
  BY <1>11 DEF WriteFile
<1>12. CASE Detach
  BY <1>12 DEF Detach
<1>13. CASE \E p \in Inside : Exits(p)
  BY <1>13 DEF Exits
<1>14. CASE HookStep \/ IngestStep \/ DrainStep
  BY <1>14 DEF HookStep, IngestStep, DrainStep
<1>15. CASE UNCHANGED vars
  BY <1>15 DEF vars
<1>16. CASE WriteReport
  BY <1>16 DEF WriteReport
<1> QED
  BY <1>1, <1>2, <1>3, <1>4, <1>5, <1>6, <1>7, <1>8, <1>9,
     <1>10, <1>11, <1>12, <1>13, <1>14, <1>15, <1>16, StepCases

SnapInv == SnapShape /\ Baselines /\ Results

LEMMA OptionShape == RunShape => opts.workspace \in BOOLEAN /\ opts.extensions \in BOOLEAN
BY RunAssumption DEF RunShape

LEMMA SnapStillNext ==
  ASSUME SnapInv, SnapStill
  PROVE  SnapInv'
<1> USE DEF seenVars
<1>1. SnapShape'
  BY DEF SnapInv, SnapStill, SnapShape
<1> DEFINE A == AlreadyBad
           T1 == DriftTells(asOf.workspace, drift.workspace, WorkspaceFiles)
           T2 == DriftTells(asOf.extensions, drift.extensions, ExtensionFiles)
           F1 == FoundTells(drift.workspace, scanned.workspace, found.workspace)
           F2 == FoundTells(drift.extensions, scanned.extensions, found.extensions)
<1>2. A' = A
  BY DEF AlreadyBad
<1>3. T1' = T1 /\ T2' = T2 /\ F1' = F1 /\ F2' = F2
  BY DEF SnapStill, DriftTells, FoundTells, Changed
<1>4. \A a : Nothing(a)' = Nothing(a) /\ NothingFound(a)' = NothingFound(a)
  BY DEF SnapStill, Nothing, NothingFound
<1>5. /\ base' = base /\ found' = found /\ drift' = drift /\ opts' = opts /\ gone \subseteq gone'
      /\ reads' = reads
  BY DEF SnapStill
<1>6. CASE stage' = "done"
  <2>1. DOMAIN reads' \subseteq ToRead'
    <3>1. stage = "done" \/ stage \in Quiet \cup {"report", "decide"}
      BY <1>6 DEF SnapStill, Quiet
    <3>2. ToRead = {}
      BY <3>1 DEF ToRead, Quiet
    <3> QED BY <1>5, <3>2 DEF SnapInv, Results
  <2> QED BY <1>1, <1>6, <2>1 DEF SnapInv, Baselines, Results, Compared, ComparedExtensions,
              ScannedExtensions, ScannedAll
<1>7. CASE stage' = stage
  <2>1. ToRead' = ToRead
    BY <1>5, <1>7 DEF ToRead
  <2>2. Baselines'
    BY <1>2, <1>5, <1>7 DEF SnapInv, Baselines, A
  <2> HIDE DEF T1, T2, F1, F2
  <2>3. Results'
    BY <1>3, <1>4, <1>5, <1>7, <2>1 DEF SnapInv, Results, T1, T2, F1, F2
  <2> QED BY <1>1, <2>2, <2>3 DEF SnapInv
<1>8. CASE stage = "report" /\ stage' = "decide"
  <2>1. DOMAIN reads' \subseteq ToRead'
    BY <1>5, <1>8 DEF ToRead, SnapInv, Results
  <2>2. Baselines'
    BY <1>2, <1>5, <1>8 DEF SnapInv, Baselines, A
  <2>3. Results'
    BY <1>3, <1>5, <1>8, <2>1 DEF SnapInv, Results, Compared, ComparedExtensions,
              ScannedExtensions, ScannedAll, T1, T2, F1, F2
  <2> QED BY <1>1, <2>2, <2>3 DEF SnapInv
<1>9. CASE stage \in Quiet /\ stage' \in Quiet \cup {"after"}
  <2>1. DOMAIN reads' \subseteq ToRead'
    BY <1>5, <1>9 DEF ToRead, Quiet, SnapInv, Results
  <2>2. Baselines'
    BY <1>2, <1>5, <1>9 DEF SnapInv, Baselines, A, Quiet
  <2>3. Results'
    BY <1>4, <1>5, <1>9, <2>1 DEF SnapInv, Results, Compared, ComparedExtensions,
              ScannedExtensions, ScannedAll, Quiet
  <2> QED BY <1>1, <2>2, <2>3 DEF SnapInv
<1> QED
  BY <1>6, <1>7, <1>8, <1>9 DEF SnapStill

(* Every file that is to be read is one of the tree.                         *)
LEMMA ToReadWithin ==
  ASSUME SnapShape
  PROVE  ToRead \subseteq Files
<1>1. Walked(WorkspaceFiles) \subseteq Files /\ Walked(ExtensionFiles) \subseteq Files
  BY WalkedWithin DEF Files
<1>2. Differing(drift.workspace) \subseteq Files /\ Differing(drift.extensions) \subseteq Files
  BY DEF SnapShape, DiffType, Differing
<1> QED BY <1>1, <1>2 DEF ToRead

LEMMA ReadsAre ==
  ASSUME NEW f \in Reads
  PROVE  f \in [DOMAIN f -> States] /\ DOMAIN f \subseteq Files
BY DEF Reads

LEMMA BasesAre == <<WorkBase>> # <<>> /\ <<WorkBase>>[1] = WorkBase /\ <<ExtBase>> # <<>> /\ <<ExtBase>>[1] = ExtBase
OBVIOUS

LEMMA NothingTells ==
  NothingRead \in Reads /\ DOMAIN NothingRead = {} /\ FoundTells(NoDiff, NothingRead, {})
<1>1. NothingRead \in [{} -> States] /\ DOMAIN NothingRead = {}
  BY DEF NothingRead
<1>2. NothingRead \in Reads
  BY <1>1 DEF Reads
<1>3. Differing(NoDiff) = {}
  BY DEF Differing, NoDiff
<1> QED BY <1>1, <1>2, <1>3 DEF FoundTells

LEMMA TakeBaselineNext ==
  ASSUME SnapInv, RunShape, Order, TakeBaseline
  PROVE  SnapInv'
<1>1. /\ stage = "baseline" /\ tree = InitialTree
      /\ UNCHANGED <<opts, seenVars>> /\ gone \subseteq gone'
      /\ \/ opts.workspace /\ base' = [base EXCEPT !.workspace = <<WorkBase>>]
            /\ stage' = "extensions"
         \/ ~opts.workspace /\ base' = base /\ stage' = "extensions"
         \/ base' = base /\ stage' = "done"
  BY DEF TakeBaseline, Order, Early, WorkBase, Fine, Fail, End
<1> HIDE DEF WorkBase
<1>2. SnapShape' /\ base'.extensions = base.extensions
      /\ base'.workspace \in {base.workspace, <<WorkBase>>}
      /\ (stage' = "extensions" /\ opts.workspace => base'.workspace = <<WorkBase>>)
      /\ (stage' = "extensions" /\ ~opts.workspace => base'.workspace = <<>>)
  BY <1>1 DEF SnapInv, SnapShape, Baselines, seenVars
<1>3. Baselines'
  BY <1>1, <1>2 DEF SnapInv, Baselines, AlreadyBad, seenVars
<1>4. Results'
  BY <1>1 DEF SnapInv, Results, ToRead, Nothing, NothingFound, Compared, ComparedExtensions,
              ScannedExtensions, ScannedAll, seenVars
<1> QED
  BY <1>2, <1>3, <1>4 DEF SnapInv

LEMMA TakeExtensionsNext ==
  ASSUME SnapInv, RunShape, Order, TakeExtensions
  PROVE  SnapInv'
<1> DEFINE F == Scan(Part(InitialTree, ExtensionFiles), DOMAIN ExtBase.files)
<1>1. stage = "extensions" /\ tree = InitialTree /\ UNCHANGED <<opts, drift, reads, asOf, scanned>>
  BY DEF TakeExtensions, Order, Early
<1>2. F \subseteq Severities /\ ("high" \in F <=> AlreadyBad)
  BY BeforeTells DEF ExtBase
<1>3. CASE ~opts.extensions /\ stage' = "cgroup" /\ UNCHANGED <<base, found, gone>>
  BY <1>1, <1>3 DEF SnapInv, SnapShape, Baselines, AlreadyBad, Results, ToRead, Nothing, NothingFound, Compared, ComparedExtensions,
              ScannedExtensions, ScannedAll
<1>4. CASE stage' = "done" /\ UNCHANGED <<base, found>>
  BY <1>1, <1>4 DEF SnapInv, SnapShape, Baselines, AlreadyBad, Results, ToRead, Nothing, NothingFound, Compared, ComparedExtensions,
              ScannedExtensions, ScannedAll
<1>5. ASSUME NEW snapped \in BOOLEAN, NEW looked \in BOOLEAN,
             opts.extensions, stage' = "cgroup",
             base' = IF snapped THEN [base EXCEPT !.extensions = <<ExtBase>>] ELSE base,
             found' = IF looked THEN [found EXCEPT !.baseline = F] ELSE found,
             ~snapped => "extension baseline" \in gone',
             ~looked => gone' \cap NoBaseline # {}
      PROVE  SnapInv'
  <2> HIDE DEF F, ExtBase
  <2>1. /\ base'.workspace = base.workspace
        /\ base'.extensions = IF snapped THEN <<ExtBase>> ELSE base.extensions
        /\ base' \in [workspace : {<<>>, <<WorkBase>>}, extensions : {<<>>, <<ExtBase>>}]
    BY <1>5 DEF SnapInv, SnapShape
  <2>2. /\ found'.workspace = found.workspace /\ found'.extensions = found.extensions
        /\ found'.baseline = IF looked THEN F ELSE found.baseline
        /\ found' \in [baseline : SUBSET Severities, workspace : SUBSET Severities,
                       extensions : SUBSET Severities]
    BY <1>2, <1>5 DEF SnapInv, SnapShape
  <2>3. SnapShape'
    BY <1>1, <2>1, <2>2 DEF SnapInv, SnapShape
  <2>4. Baselines'
    BY <1>1, <1>2, <1>5, <2>1, <2>2 DEF SnapInv, Baselines, AlreadyBad
  <2>5. Results'
    BY <1>1, <1>5, <2>2 DEF SnapInv, Results, ToRead, Nothing, NothingFound, Compared, ComparedExtensions,
              ScannedExtensions, ScannedAll
  <2> QED
    BY <2>3, <2>4, <2>5 DEF SnapInv
<1>6. \/ ~opts.extensions /\ stage' = "cgroup" /\ UNCHANGED <<base, found, gone>>
      \/ stage' = "done" /\ UNCHANGED <<base, found>>
      \/ \E snapped, looked \in BOOLEAN :
           /\ opts.extensions /\ stage' = "cgroup"
           /\ base' = IF snapped THEN [base EXCEPT !.extensions = <<ExtBase>>] ELSE base
           /\ found' = IF looked THEN [found EXCEPT !.baseline = F] ELSE found
           /\ ~snapped => "extension baseline" \in gone'
           /\ ~looked => gone' \cap NoBaseline # {}
  BY <1>1 DEF TakeExtensions, ExtBase, Fine, Fail, End, NoBaseline
<1> QED
  BY <1>3, <1>4, <1>5, <1>6

LEMMA ReadFileNext ==
  ASSUME SnapInv, RunShape, ReadFile
  PROVE  SnapInv'
<1>1. PICK p \in ToRead \ DOMAIN reads :
        reads' = [q \in DOMAIN reads \cup {p} |-> IF q = p THEN tree[p] ELSE reads[q]]
  BY DEF ReadFile
<1>2. UNCHANGED <<stage, opts, base, found, drift, gone, asOf, scanned>>
  BY DEF ReadFile
<1>3. p \in Files /\ reads \in [DOMAIN reads -> States] /\ DOMAIN reads \subseteq Files
  BY ToReadWithin, ReadsAre DEF SnapInv, SnapShape
<1>4. reads' \in [DOMAIN reads \cup {p} -> States] /\ DOMAIN reads \cup {p} \in SUBSET Files
  BY <1>1, <1>3 DEF RunShape
<1>5. reads' \in Reads
  BY <1>4 DEF Reads
<1>6. SnapShape'
  BY <1>2, <1>5 DEF SnapInv, SnapShape
<1>7. ToRead' = ToRead /\ DOMAIN reads' \subseteq ToRead
  BY <1>1, <1>2 DEF ToRead, SnapInv, Results
<1>8. Baselines'
  BY <1>2 DEF SnapInv, Baselines, AlreadyBad
<1> DEFINE T1 == DriftTells(asOf.workspace, drift.workspace, WorkspaceFiles)
           T2 == DriftTells(asOf.extensions, drift.extensions, ExtensionFiles)
           F1 == FoundTells(drift.workspace, scanned.workspace, found.workspace)
           F2 == FoundTells(drift.extensions, scanned.extensions, found.extensions)
<1>9. T1' = T1 /\ T2' = T2 /\ F1' = F1 /\ F2' = F2
  BY <1>2 DEF DriftTells, FoundTells, Changed
<1>10. \A a : Nothing(a)' = Nothing(a) /\ NothingFound(a)' = NothingFound(a)
  BY <1>2 DEF Nothing, NothingFound
<1> HIDE DEF T1, T2, F1, F2
<1>11. Results'
  BY <1>2, <1>7, <1>9, <1>10 DEF SnapInv, Results, T1, T2, F1, F2
<1> QED
  BY <1>6, <1>8, <1>11 DEF SnapInv

LEMMA TakeAfterNext ==
  ASSUME SnapInv, RunShape, TakeAfter
  PROVE  SnapInv'
<1> DEFINE d == Diff(base.workspace[1], Take(reads))
<1>1. /\ stage = "after" /\ UNCHANGED <<opts, base, found, scanned>> /\ gone \subseteq gone'
      /\ reads' = NothingRead
      /\ stage' = IF base.extensions # <<>> THEN "extensions after"
                  ELSE IF base.workspace # <<>> THEN "scan" ELSE "report"
  BY DEF TakeAfter, Fine, Fail
<1>2. /\ base.workspace = IF opts.workspace THEN <<WorkBase>> ELSE <<>>
      /\ opts.extensions /\ base.extensions = <<>> => "extension baseline" \in gone
      /\ Nothing("workspace") /\ Nothing("extensions")
      /\ NothingFound("workspace") /\ NothingFound("extensions")
  BY <1>1 DEF SnapInv, Baselines, Results, Compared, ComparedExtensions, ScannedExtensions, ScannedAll
<1>3. Baselines'
  BY <1>1 DEF SnapInv, Baselines, AlreadyBad
<1>4. DOMAIN reads' \subseteq ToRead'
  BY <1>1, NothingTells
<1>5. NoDiff \in DiffType
  BY DEF NoDiff, DiffType
<1>6. ASSUME NEW e \in DiffType, NEW t \in Reads,
             drift' = [drift EXCEPT !.workspace = e], asOf' = [asOf EXCEPT !.workspace = t],
             \/ e = NoDiff /\ (opts.workspace => "after" \in gone')
             \/ opts.workspace /\ DriftTells(t, e, WorkspaceFiles)
      PROVE  SnapInv'
  <2>1. /\ drift'.workspace = e /\ drift'.extensions = drift.extensions
        /\ asOf'.workspace = t /\ asOf'.extensions = asOf.extensions
        /\ drift' \in [workspace : DiffType, extensions : DiffType]
        /\ asOf' \in [workspace : Reads, extensions : Reads]
    BY <1>6 DEF SnapInv, SnapShape
  <2>2. SnapShape'
    BY <1>1, <2>1, NothingTells DEF SnapInv, SnapShape
  <2>3. Nothing("extensions")' /\ NothingFound("extensions")' /\ NothingFound("workspace")'
    BY <1>1, <1>2, <2>1 DEF Nothing, NothingFound
  <2>4. DriftTells(asOf.workspace, drift.workspace, WorkspaceFiles)' <=> DriftTells(t, e, WorkspaceFiles)
    BY <2>1 DEF DriftTells, Changed
  <2>5. base.workspace = <<>> => ~opts.workspace
    BY <1>2, BasesAre
  <2>6. FoundTells(drift.extensions, scanned.extensions, found.extensions)'
    <3>1. drift'.extensions = NoDiff /\ scanned'.extensions = NothingRead /\ found'.extensions = {}
      BY <2>3 DEF Nothing, NothingFound
    <3> QED BY <3>1, NothingTells DEF FoundTells
  <2>7. stage' = "report" => FoundTells(drift.workspace, scanned.workspace, found.workspace)'
    <3> SUFFICES ASSUME stage' = "report" PROVE FoundTells(drift.workspace, scanned.workspace, found.workspace)'
      OBVIOUS
    <3>1. drift'.workspace = NoDiff /\ scanned'.workspace = NothingRead /\ found'.workspace = {}
      BY <1>1, <1>6, <2>1, <2>3, <2>5 DEF NothingFound
    <3> QED BY <3>1, NothingTells DEF FoundTells
  <2>8. stage' # "extensions after" => drift'.extensions = NoDiff /\ (opts'.extensions => gone' \cap NoExtensions # {})
    BY <1>1, <1>2, <2>3 DEF Nothing, NoExtensions
  <2>9. stage' \in {"extensions after", "scan", "report"}
    BY <1>1
  <2>10. \/ drift'.workspace = NoDiff /\ (opts'.workspace => "after" \in gone')
         \/ opts'.workspace /\ DriftTells(asOf.workspace, drift.workspace, WorkspaceFiles)'
    BY <1>1, <1>6, <2>1, <2>4
  <2>11. Results'
    BY <1>4, <2>3, <2>6, <2>7, <2>8, <2>9, <2>10
       DEF Results, Compared, ComparedExtensions, ScannedExtensions, ScannedAll
  <2> QED BY <1>3, <2>2, <2>11 DEF SnapInv
<1>7. CASE /\ base.workspace # <<>> /\ AllRead
           /\ drift' = [drift EXCEPT !.workspace = d] /\ asOf' = [asOf EXCEPT !.workspace = reads]
  <2>1. opts.workspace /\ d = Diff(Take(Part(InitialTree, WorkspaceFiles)), Take(reads))
    <3>1. opts.workspace /\ base.workspace[1] = WorkBase
      BY <1>2, <1>7, BasesAre
    <3> QED BY <3>1 DEF WorkBase
  <2>2. reads \in Reads /\ DOMAIN reads = Walked(WorkspaceFiles) /\ WorkspaceFiles \in SUBSET Files
    BY <1>1, <1>7 DEF AllRead, ToRead, SnapInv, SnapShape, Files
  <2> HIDE DEF d
  <2>3. d \in DiffType /\ DriftTells(reads, d, WorkspaceFiles)
    BY <2>1, <2>2, AfterTells
  <2> QED BY <1>6, <1>7, <2>1, <2>2, <2>3
<1>8. CASE (base.workspace = <<>> \/ "after" \in gone') /\ UNCHANGED <<drift, asOf>>
  <2>1. drift.workspace = NoDiff /\ asOf.workspace = NothingRead
    BY <1>2 DEF Nothing
  <2>2. drift' = [drift EXCEPT !.workspace = NoDiff] /\ asOf' = [asOf EXCEPT !.workspace = NothingRead]
    BY <1>8, <2>1 DEF SnapInv, SnapShape
  <2>3. opts.workspace => "after" \in gone'
    BY <1>2, <1>8, BasesAre
  <2> QED BY <1>5, <1>6, <2>2, <2>3, NothingTells
<1> QED
  <2>1. \/ /\ base.workspace # <<>> /\ AllRead
           /\ drift' = [drift EXCEPT !.workspace = d] /\ asOf' = [asOf EXCEPT !.workspace = reads]
        \/ (base.workspace = <<>> \/ "after" \in gone') /\ UNCHANGED <<drift, asOf>>
    BY DEF TakeAfter, Fail
  <2> QED BY <1>7, <1>8, <2>1

LEMMA TakeExtensionsAfterNext ==
  ASSUME SnapInv, RunShape, TakeExtensionsAfter
  PROVE  SnapInv'
<1> DEFINE d == Diff(base.extensions[1], Take(reads))
<1>1. /\ stage = "extensions after" /\ stage' = "extension scan" /\ reads' = NothingRead
      /\ UNCHANGED <<opts, base, found, scanned>> /\ gone \subseteq gone'
  BY DEF TakeExtensionsAfter, Fine, Fail
<1>2. /\ Nothing("extensions") /\ NothingFound("workspace") /\ NothingFound("extensions")
      /\ base.extensions # <<>> /\ opts.extensions
      /\ \/ drift.workspace = NoDiff /\ (opts.workspace => "after" \in gone)
         \/ opts.workspace /\ DriftTells(asOf.workspace, drift.workspace, WorkspaceFiles)
  BY <1>1 DEF SnapInv, Baselines, Results, Compared, ComparedExtensions, ScannedExtensions, ScannedAll
<1>3. Baselines'
  BY <1>1 DEF SnapInv, Baselines, AlreadyBad
<1>4. DOMAIN reads' \subseteq ToRead'
  BY <1>1, NothingTells
<1>5. NoDiff \in DiffType
  BY DEF NoDiff, DiffType
<1>6. ASSUME NEW e \in DiffType, NEW t \in Reads,
             drift' = [drift EXCEPT !.extensions = e], asOf' = [asOf EXCEPT !.extensions = t],
             \/ e = NoDiff /\ "extension drift" \in gone'
             \/ opts.extensions /\ DriftTells(t, e, ExtensionFiles)
      PROVE  SnapInv'
  <2>1. /\ drift'.extensions = e /\ drift'.workspace = drift.workspace
        /\ asOf'.extensions = t /\ asOf'.workspace = asOf.workspace
        /\ drift' \in [workspace : DiffType, extensions : DiffType]
        /\ asOf' \in [workspace : Reads, extensions : Reads]
    BY <1>6 DEF SnapInv, SnapShape
  <2>2. SnapShape'
    BY <1>1, <2>1, NothingTells DEF SnapInv, SnapShape
  <2>3. NothingFound("extensions")' /\ NothingFound("workspace")'
    BY <1>1, <1>2 DEF NothingFound
  <2>4. DriftTells(asOf.extensions, drift.extensions, ExtensionFiles)' <=> DriftTells(t, e, ExtensionFiles)
    BY <2>1 DEF DriftTells, Changed
  <2>5. DriftTells(asOf.workspace, drift.workspace, WorkspaceFiles)'
          <=> DriftTells(asOf.workspace, drift.workspace, WorkspaceFiles)
    BY <2>1 DEF DriftTells, Changed
  <2>6. /\ \/ drift'.workspace = NoDiff /\ (opts'.workspace => "after" \in gone')
           \/ opts'.workspace /\ DriftTells(asOf.workspace, drift.workspace, WorkspaceFiles)'
        /\ \/ drift'.extensions = NoDiff /\ (opts'.extensions => gone' \cap NoExtensions # {})
           \/ opts'.extensions /\ DriftTells(asOf.extensions, drift.extensions, ExtensionFiles)'
    BY <1>1, <1>2, <1>6, <2>1, <2>4, <2>5 DEF NoExtensions
  <2>7. Results'
    BY <1>1, <1>4, <2>3, <2>6 DEF Results, Compared, ComparedExtensions, ScannedExtensions, ScannedAll
  <2> QED BY <1>3, <2>2, <2>7 DEF SnapInv
<1>7. CASE /\ AllRead /\ base.extensions # <<>>
           /\ drift' = [drift EXCEPT !.extensions = d] /\ asOf' = [asOf EXCEPT !.extensions = reads]
  <2>1. opts.extensions /\ base.extensions = <<ExtBase>>
    BY <1>2, <1>7 DEF SnapInv, SnapShape
  <2>2. d = Diff(Take(Part(InitialTree, ExtensionFiles)), Take(reads))
    BY <2>1 DEF ExtBase
  <2>3. reads \in Reads /\ DOMAIN reads = Walked(ExtensionFiles) /\ ExtensionFiles \in SUBSET Files
    BY <1>1, <1>7 DEF AllRead, ToRead, SnapInv, SnapShape, Files
  <2> HIDE DEF d
  <2>4. d \in DiffType /\ DriftTells(reads, d, ExtensionFiles)
    BY <2>2, <2>3, AfterTells
  <2> QED BY <1>6, <1>7, <2>1, <2>3, <2>4
<1>8. CASE "extension drift" \in gone' /\ UNCHANGED <<drift, asOf>>
  <2>1. drift.extensions = NoDiff /\ asOf.extensions = NothingRead
    BY <1>2 DEF Nothing
  <2>2. drift' = [drift EXCEPT !.extensions = NoDiff] /\ asOf' = [asOf EXCEPT !.extensions = NothingRead]
    BY <1>8, <2>1 DEF SnapInv, SnapShape
  <2> QED BY <1>5, <1>6, <1>8, <2>2, NothingTells
<1> QED
  <2>1. \/ /\ AllRead /\ base.extensions # <<>>
           /\ drift' = [drift EXCEPT !.extensions = d] /\ asOf' = [asOf EXCEPT !.extensions = reads]
        \/ "extension drift" \in gone' /\ UNCHANGED <<drift, asOf>>
    BY <1>2 DEF TakeExtensionsAfter, Fail
  <2> QED BY <1>7, <1>8, <2>1

LEMMA ScanExtensionsNext ==
  ASSUME SnapInv, RunShape, ScanExtensions
  PROVE  SnapInv'
<1> DEFINE f == Scan(reads, DOMAIN reads)
<1>1. /\ stage = "extension scan" /\ reads' = NothingRead /\ UNCHANGED <<opts, base, drift, gone, asOf>>
      /\ found' = [found EXCEPT !.extensions = f] /\ scanned' = [scanned EXCEPT !.extensions = reads]
      /\ stage' = IF base.workspace # <<>> THEN "scan" ELSE "report"
  BY DEF ScanExtensions
<1>2. reads \in Reads /\ DOMAIN reads = Differing(drift.extensions)
  BY <1>1 DEF ScanExtensions, AllRead, ToRead, SnapInv, SnapShape
<1>3. f \subseteq Severities /\ FoundTells(drift.extensions, reads, f)
  BY <1>2, ScanTells
<1> HIDE DEF f
<1>4. /\ found'.extensions = f /\ found'.workspace = found.workspace /\ found'.baseline = found.baseline
      /\ scanned'.extensions = reads /\ scanned'.workspace = scanned.workspace
      /\ found' \in [baseline : SUBSET Severities, workspace : SUBSET Severities,
                      extensions : SUBSET Severities]
      /\ scanned' \in [workspace : Reads, extensions : Reads]
  BY <1>1, <1>2, <1>3 DEF SnapInv, SnapShape
<1>5. SnapShape'
  BY <1>1, <1>4, NothingTells DEF SnapInv, SnapShape
<1>6. Baselines'
  BY <1>1, <1>4 DEF SnapInv, Baselines, AlreadyBad
<1>7. NothingFound("workspace")'
  BY <1>1, <1>4 DEF SnapInv, Results, NothingFound, ScannedAll
<1>8. FoundTells(drift.extensions, scanned.extensions, found.extensions)'
  BY <1>1, <1>3, <1>4 DEF FoundTells
<1>9. stage' = "report" => FoundTells(drift.workspace, scanned.workspace, found.workspace)'
  <2> SUFFICES ASSUME stage' = "report" PROVE FoundTells(drift.workspace, scanned.workspace, found.workspace)'
    OBVIOUS
  <2>1. ~opts.workspace
    BY <1>1, BasesAre DEF SnapInv, Baselines
  <2>2. drift.workspace = NoDiff
    BY <1>1, <2>1 DEF SnapInv, Results, Compared
  <2>3. drift'.workspace = NoDiff /\ scanned'.workspace = NothingRead /\ found'.workspace = {}
    BY <1>1, <1>7, <2>2 DEF NothingFound
  <2> QED BY <2>3, NothingTells DEF FoundTells
<1>10. /\ DriftTells(asOf.workspace, drift.workspace, WorkspaceFiles)'
             <=> DriftTells(asOf.workspace, drift.workspace, WorkspaceFiles)
       /\ DriftTells(asOf.extensions, drift.extensions, ExtensionFiles)'
             <=> DriftTells(asOf.extensions, drift.extensions, ExtensionFiles)
  BY <1>1 DEF DriftTells, Changed
<1>11. DOMAIN reads' \subseteq ToRead'
  BY <1>1, NothingTells
<1>12. stage' \in {"scan", "report"}
  BY <1>1
<1>13. Results'
  BY <1>1, <1>7, <1>8, <1>9, <1>10, <1>11, <1>12
     DEF SnapInv, Results, Compared, ComparedExtensions, ScannedExtensions, ScannedAll
<1> QED BY <1>5, <1>6, <1>13 DEF SnapInv

LEMMA ScanWorkspaceNext ==
  ASSUME SnapInv, RunShape, ScanWorkspace
  PROVE  SnapInv'
<1> DEFINE f == Scan(reads, DOMAIN reads)
<1>1. /\ stage = "scan" /\ stage' = "report" /\ reads' = NothingRead
      /\ UNCHANGED <<opts, base, drift, gone, asOf>>
      /\ found' = [found EXCEPT !.workspace = f] /\ scanned' = [scanned EXCEPT !.workspace = reads]
  BY DEF ScanWorkspace
<1>2. reads \in Reads /\ DOMAIN reads = Differing(drift.workspace)
  BY <1>1 DEF ScanWorkspace, AllRead, ToRead, SnapInv, SnapShape
<1>3. f \subseteq Severities /\ FoundTells(drift.workspace, reads, f)
  BY <1>2, ScanTells
<1> HIDE DEF f
<1>4. /\ found'.workspace = f /\ found'.extensions = found.extensions /\ found'.baseline = found.baseline
      /\ scanned'.workspace = reads /\ scanned'.extensions = scanned.extensions
      /\ found' \in [baseline : SUBSET Severities, workspace : SUBSET Severities,
                      extensions : SUBSET Severities]
      /\ scanned' \in [workspace : Reads, extensions : Reads]
  BY <1>1, <1>2, <1>3 DEF SnapInv, SnapShape
<1>5. SnapShape'
  BY <1>1, <1>4, NothingTells DEF SnapInv, SnapShape
<1>6. Baselines'
  BY <1>1, <1>4 DEF SnapInv, Baselines, AlreadyBad
<1>7. FoundTells(drift.workspace, scanned.workspace, found.workspace)'
  BY <1>1, <1>3, <1>4 DEF FoundTells
<1>8. FoundTells(drift.extensions, scanned.extensions, found.extensions)'
        <=> FoundTells(drift.extensions, scanned.extensions, found.extensions)
  BY <1>1, <1>4 DEF FoundTells
<1>9. /\ DriftTells(asOf.workspace, drift.workspace, WorkspaceFiles)'
            <=> DriftTells(asOf.workspace, drift.workspace, WorkspaceFiles)
      /\ DriftTells(asOf.extensions, drift.extensions, ExtensionFiles)'
            <=> DriftTells(asOf.extensions, drift.extensions, ExtensionFiles)
  BY <1>1 DEF DriftTells, Changed
<1>10. DOMAIN reads' \subseteq ToRead'
  BY <1>1, NothingTells
<1>11. Results'
  BY <1>1, <1>7, <1>8, <1>9, <1>10
     DEF SnapInv, Results, Compared, ComparedExtensions, ScannedExtensions, ScannedAll
<1> QED BY <1>5, <1>6, <1>11 DEF SnapInv

LEMMA SnapNext ==
  ASSUME SnapInv, RunShape, Order, [Next]_vars
  PROVE  SnapInv'
BY SnapFrame, SnapStillNext, TakeBaselineNext, TakeExtensionsNext, ReadFileNext, TakeAfterNext,
   TakeExtensionsAfterNext, ScanExtensionsNext, ScanWorkspaceNext DEF ReadStep

(* The counters that the verdict uses are those that CopyStats has copied.   *)
LEMMA CopyFrame ==
  ASSUME [Next]_vars
  PROVE  CopyStats \/ (UNCHANGED <<final, copied>>
                        /\ (stage' \in AfterStages => stage \in AfterStages))
<1> USE DEF End, runVars, Fine, Fail, AfterStages
<1>1. CASE TakeBaseline
  BY <1>1 DEF TakeBaseline
<1>2. CASE TakeExtensions
  BY <1>2 DEF TakeExtensions
<1>3. CASE MakeCgroup
  BY <1>3 DEF MakeCgroup
<1>4. CASE Attach
  BY <1>4 DEF Attach
<1>5. CASE Populate
  BY <1>5 DEF Populate
<1>6. CASE LoadFails
  BY <1>6 DEF LoadFails
<1>7. CASE SpawnChild
  BY <1>7 DEF SpawnChild
<1>8. CASE ChildWaited
  BY <1>8 DEF ChildWaited
<1>9. CASE SetStop
  BY <1>9 DEF SetStop
<1>10. CASE ReadStep
  BY <1>10 DEF ReadStep, ReadFile, TakeAfter, TakeExtensionsAfter, ScanExtensions, ScanWorkspace
<1>11. CASE WriteReport
  BY <1>11 DEF WriteReport
<1>12. CASE Decide
  BY <1>12 DEF Decide
<1>13. CASE Fork
  BY <1>13 DEF Fork
<1>14. CASE WriteFile
  BY <1>14 DEF WriteFile
<1>15. CASE Detach
  BY <1>15 DEF Detach
<1>16. CASE \E p \in Inside : Exits(p)
  BY <1>16 DEF Exits
<1>17. CASE HookStep \/ IngestStep \/ DrainStep
  BY <1>17 DEF HookStep, IngestStep, DrainStep
<1>18. CASE UNCHANGED vars
  BY <1>18 DEF vars
<1> QED
  BY <1>1, <1>2, <1>3, <1>4, <1>5, <1>6, <1>7, <1>8, <1>9,
     <1>10, <1>11, <1>12, <1>13, <1>14, <1>15, <1>16, <1>17, <1>18, StepCases

LEMMA CountedNext ==
  ASSUME Counted, Books, [Next]_vars
  PROVE  Counted'
<1>1. CASE CopyStats
  <2>1. /\ final' = denied /\ copied'.flagged = FlaggedTotal /\ copied'.unread = Len(ring)
    BY <1>1 DEF CopyStats
  <2>2. /\ flagged \in [Kinds -> Nat] /\ ring \in Seq(Event)
        /\ denied = Seen("exec") + Seen("connect") + Seen("open")
        /\ \A k \in Kinds : Cardinality(HitsIn(ring, k)) \in Nat
    BY HitsFinite DEF Books, RingOK, Counting
  <2>3. denied <= FlaggedTotal
    BY <2>2 DEF Seen, FlaggedTotal, Kinds
  <2>4. ASSUME Len(ring) = 0 PROVE FlaggedTotal = denied
    <3>1. \A k : Cardinality(HitsIn(ring, k)) = 0
      BY <2>2, <2>4, FS_EmptySet DEF HitsIn
    <3> QED
      BY <2>2, <3>1 DEF Seen, FlaggedTotal, Kinds
  <2> QED
    BY <2>1, <2>3, <2>4 DEF Counted
<1>2. CASE /\ UNCHANGED <<final, copied>>
           /\ stage' \in AfterStages => stage \in AfterStages
  BY <1>2 DEF Counted
<1> QED
  BY <1>1, <1>2, CopyFrame

(* As long as nothing of the command is left, no file changes any more.      *)
LEMMA AloneNext ==
  ASSUME Alone, SnapShape, Results, RunShape, Order, [Next]_vars
  PROVE  Alone'
<1> USE DEF AsIs, runVars, pipeVars, historyVars, statVars, seenVars, Fine, End
<1>1. CASE CopyStats
  <2>1. /\ stage = "stopping" /\ stage' = "after" /\ copied'.alone = (Inside \cap alive = {})
        /\ alive' = alive /\ UNCHANGED seenVars
    BY <1>1 DEF CopyStats
  <2>2. DOMAIN reads = {}
    BY <2>1 DEF Results, ToRead
  <2>3. /\ asOf.workspace = NothingRead /\ asOf.extensions = NothingRead
        /\ scanned.workspace = NothingRead /\ scanned.extensions = NothingRead
    BY <2>1 DEF Results, Compared, ComparedExtensions, ScannedExtensions, ScannedAll, Nothing, NothingFound
  <2>4. DOMAIN NothingRead = {}
    BY DEF NothingRead
  <2> QED BY <2>1, <2>2, <2>3, <2>4 DEF Alone, AfterStages
<1>2. CASE ~copied.alone /\ copied' = copied
  BY <1>2 DEF Alone
<1>3. ASSUME copied.alone PROVE Alone'
  <2>1. stage \in AfterStages \cup {"done"} /\ Inside \cap alive = {} /\ Child \notin alive
    BY <1>3, RunAssumption DEF Alone
  <2>2. CASE ReadFile
    <3>1. PICK p \in ToRead \ DOMAIN reads :
            reads' = [q \in DOMAIN reads \cup {p} |-> IF q = p THEN tree[p] ELSE reads[q]]
      BY <2>2 DEF ReadFile
    <3>2. UNCHANGED <<stage, alive, tree, copied, asOf, scanned>>
      BY <2>2 DEF ReadFile
    <3>3. AsIs(reads)'
      BY <1>3, <3>1, <3>2 DEF Alone
    <3> QED BY <1>3, <2>1, <3>2, <3>3 DEF Alone
  <2>3. CASE TakeAfter
    <3>1. /\ stage' \in AfterStages /\ UNCHANGED <<alive, tree, copied, scanned>> /\ reads' = NothingRead
          /\ asOf' = asOf \/ asOf' = [asOf EXCEPT !.workspace = reads]
      BY <2>3 DEF TakeAfter, AfterStages
    <3>2. /\ asOf'.workspace \in {asOf.workspace, reads} \/ AsIs(asOf'.workspace)
          /\ asOf'.extensions = asOf.extensions
      BY <3>1, <1>3 DEF Alone, SnapShape
    <3>3. DOMAIN NothingRead = {}
      BY DEF NothingRead
    <3> QED BY <1>3, <2>1, <3>1, <3>2, <3>3 DEF Alone
  <2>4. CASE TakeExtensionsAfter
    <3>1. /\ stage' \in AfterStages /\ UNCHANGED <<alive, tree, copied, scanned>> /\ reads' = NothingRead
          /\ asOf' = asOf \/ asOf' = [asOf EXCEPT !.extensions = reads]
      BY <2>4 DEF TakeExtensionsAfter, AfterStages
    <3>2. /\ asOf'.extensions \in {asOf.extensions, reads} \/ AsIs(asOf'.extensions)
          /\ asOf'.workspace = asOf.workspace
      BY <3>1, <1>3 DEF Alone, SnapShape
    <3>3. DOMAIN NothingRead = {}
      BY DEF NothingRead
    <3> QED BY <1>3, <2>1, <3>1, <3>2, <3>3 DEF Alone
  <2>5. CASE ScanExtensions
    <3>1. /\ stage' \in AfterStages /\ UNCHANGED <<alive, tree, copied, asOf>> /\ reads' = NothingRead
          /\ scanned' = [scanned EXCEPT !.extensions = reads]
      BY <2>5 DEF ScanExtensions, AfterStages
    <3>2. /\ scanned'.extensions \in {scanned.extensions, reads} \/ AsIs(scanned'.extensions)
          /\ scanned'.workspace = scanned.workspace
      BY <3>1, <1>3 DEF Alone, SnapShape
    <3>3. DOMAIN NothingRead = {}
      BY DEF NothingRead
    <3> QED BY <1>3, <2>1, <3>1, <3>2, <3>3 DEF Alone
  <2>6. CASE ScanWorkspace
    <3>1. /\ stage' \in AfterStages /\ UNCHANGED <<alive, tree, copied, asOf>> /\ reads' = NothingRead
          /\ scanned' = [scanned EXCEPT !.workspace = reads]
      BY <2>6 DEF ScanWorkspace, AfterStages
    <3>2. /\ scanned'.workspace \in {scanned.workspace, reads} \/ AsIs(scanned'.workspace)
          /\ scanned'.extensions = scanned.extensions
      BY <3>1, <1>3 DEF Alone, SnapShape
    <3>3. DOMAIN NothingRead = {}
      BY DEF NothingRead
    <3> QED BY <1>3, <2>1, <3>1, <3>2, <3>3 DEF Alone
  <2>7. CASE /\ UNCHANGED <<tree, copied, seenVars>> /\ alive' \subseteq alive
             /\ stage' \in AfterStages \cup {"done"}
    BY <1>3, <2>1, <2>7 DEF Alone
  <2>8. CASE UNCHANGED <<tree, copied, seenVars, stage>> /\ alive' \subseteq alive
    BY <1>3, <2>1, <2>8 DEF Alone
  <2>9. CASE HookStep
    BY <2>8, <2>9, HookEffect DEF HookStep
  <2>10. CASE IngestStep \/ DrainStep
    BY <2>8, <2>10 DEF IngestStep, DrainNext, DrainStep, DrainEmpty, DrainCheck, DrainWake
  <2>11. CASE Detach \/ UNCHANGED vars
    BY <2>8, <2>11 DEF Detach, vars
  <2>12. CASE \E p \in Inside : Exits(p)
    BY <2>8, <2>12 DEF Exits
  <2>13. CASE WriteReport \/ Decide
    BY <2>7, <2>13 DEF WriteReport, Decide, AfterStages
  <2>14. CASE Fork \/ WriteFile \/ CopyStats
    BY <2>1, <2>14 DEF Fork, WriteFile, CopyStats, AfterStages
  <2>15. CASE TakeBaseline \/ TakeExtensions \/ MakeCgroup \/ Attach \/ Populate \/ LoadFails
              \/ SpawnChild \/ ChildWaited \/ SetStop
    BY <2>1, <2>15 DEF TakeBaseline, TakeExtensions, MakeCgroup, Attach, Populate, LoadFails,
                       SpawnChild, ChildWaited, SetStop, AfterStages
  <2> QED BY <2>2, <2>3, <2>4, <2>5, <2>6, <2>9, <2>10, <2>11, <2>12, <2>13, <2>14, <2>15, StepCases
             DEF ReadStep
<1>4. CopyStats \/ copied' = copied
  BY CopyFrame
<1>5. copied.alone \in BOOLEAN
  BY DEF RunShape
<1> QED BY <1>1, <1>2, <1>3, <1>4, <1>5

-----------------------------------------------------------------------------
(* The exit code.                                                            *)
LEMMA DecideExplained ==
  ASSUME SnapInv, Counted, Alone, RunShape, Decide
  PROVE  ExitCodeExplained'
<1> DEFINE W == Worse(asOf.workspace, scanned.workspace)
           X == Worse(asOf.extensions, scanned.extensions)
           R == ReadAsIs(asOf.workspace, scanned.workspace, WorkspaceFiles)
           Q == ReadAsIs(asOf.extensions, scanned.extensions, ExtensionFiles)
<1>1. /\ stage = "decide" /\ exit' = Verdict
      /\ UNCHANGED <<mode, opts, tree, childCode, final, copied, asOf, scanned, gone>>
  BY DEF Decide, End, seenVars
<1>2. /\ final \in Nat /\ copied.flagged \in Nat /\ final <= copied.flagged
      /\ copied.unread \in Nat /\ (copied.unread = 0 => copied.flagged = final)
  BY <1>1, PipelineAssumption DEF RunShape, Counted, AfterStages
<1>3. ASSUME NEW area, NEW t, NEW d, NEW s, NEW f, t \in Reads, s \in Reads,
             DriftTells(t, d, area), FoundTells(d, s, f),
             copied.alone => AsIs(t) /\ AsIs(s)
      PROVE  /\ Worse(t, s) <=> "high" \in f \/ (d # NoDiff /\ mode = "block")
             /\ ReadAsIs(t, s, area)
  <2>1. Changed(t) \subseteq Walked(area)
    BY <1>3, WalkedTwice DEF Changed, DriftTells
  <2>2. Differing(d) = {p \in Changed(t) : t[p].kind \in {"file", "link"}}
    BY <1>3, <2>1 DEF DriftTells, Regular
  <2>3. Worse(t, s) <=> "high" \in f \/ (d # NoDiff /\ mode = "block")
    BY <1>3, <2>2 DEF DriftTells, FoundTells, Worse
  <2>4. t \in [DOMAIN t -> States] /\ s \in [DOMAIN s -> States] /\ DOMAIN t = Walked(area)
    BY <1>3, ReadsAre DEF DriftTells
  <2>5. ASSUME copied.alone PROVE t = Part(tree, Walked(area)) /\ s = Part(tree, DOMAIN s)
    <3>1. (\A p \in DOMAIN t : t[p] = tree[p]) /\ \A p \in DOMAIN s : s[p] = tree[p]
      BY <1>3, <2>5 DEF AsIs
    <3> QED BY <2>4, <3>1 DEF Part
  <2> QED BY <2>3, <2>4, <2>5 DEF ReadAsIs
<1>15. /\ asOf.workspace \in Reads /\ asOf.extensions \in Reads
       /\ scanned.workspace \in Reads /\ scanned.extensions \in Reads
       /\ FoundTells(drift.workspace, scanned.workspace, found.workspace)
       /\ FoundTells(drift.extensions, scanned.extensions, found.extensions)
       /\ copied.alone => /\ AsIs(asOf.workspace) /\ AsIs(scanned.workspace)
                          /\ AsIs(asOf.extensions) /\ AsIs(scanned.extensions)
  BY <1>1 DEF SnapInv, SnapShape, Results, ScannedExtensions, ScannedAll, Alone
<1>16. \A s, f : FoundTells(NoDiff, s, f) => "high" \notin f
  BY DEF FoundTells, Differing, NoDiff
<1>4. \/ /\ drift.workspace = NoDiff /\ "high" \notin found.workspace
         /\ opts.workspace => "after" \in gone
      \/ opts.workspace /\ R /\ (W <=> "high" \in found.workspace
                                         \/ (drift.workspace # NoDiff /\ mode = "block"))
  <2>1. \/ drift.workspace = NoDiff /\ (opts.workspace => "after" \in gone)
        \/ opts.workspace /\ DriftTells(asOf.workspace, drift.workspace, WorkspaceFiles)
    BY <1>1 DEF SnapInv, Results, Compared
  <2> QED BY <1>3, <1>15, <1>16, <2>1
<1>5. \/ /\ drift.extensions = NoDiff /\ "high" \notin found.extensions
         /\ opts.extensions => gone \cap NoExtensions # {}
      \/ opts.extensions /\ Q /\ (X <=> "high" \in found.extensions
                                          \/ (drift.extensions # NoDiff /\ mode = "block"))
  <2>1. \/ drift.extensions = NoDiff /\ (opts.extensions => gone \cap NoExtensions # {})
        \/ opts.extensions /\ DriftTells(asOf.extensions, drift.extensions, ExtensionFiles)
    BY <1>1 DEF SnapInv, Results, ComparedExtensions
  <2> QED BY <1>3, <1>15, <1>16, <2>1
<1>6. /\ "high" \in found.baseline => opts.extensions /\ AlreadyBad
      /\ opts.extensions /\ "high" \notin found.baseline =>
           ~AlreadyBad \/ gone \cap NoBaseline # {}
  BY <1>1 DEF SnapInv, Baselines
<1>7. W' = W /\ X' = X /\ R' = R /\ Q' = Q
  BY <1>1 DEF Worse, Changed, ReadAsIs
<1> DEFINE A == AlreadyBad
<1>8. A' = A
  BY DEF AlreadyBad
<1> HIDE DEF W, X, A, R, Q
<1>9. ASSUME Verdict = 0
      PROVE  /\ childCode = 0 /\ (mode = "block" => final = 0)
             /\ ~(drift.workspace # NoDiff /\ mode = "block") /\ "high" \notin found.workspace
             /\ ~(drift.extensions # NoDiff /\ mode = "block") /\ "high" \notin found.extensions
             /\ "high" \notin found.baseline
  BY <1>2, <1>9 DEF Verdict
<1>10. ASSUME Verdict # 0, childCode = 0
       PROVE  \/ final > 0 /\ mode = "block"
              \/ drift.workspace # NoDiff /\ mode = "block"
              \/ "high" \in found.workspace
              \/ drift.extensions # NoDiff /\ mode = "block"
              \/ "high" \in found.extensions
              \/ "high" \in found.baseline
  BY <1>10 DEF Verdict
<1>11. ASSUME exit' = 0
       PROVE  /\ childCode' = 0
              /\ mode' = "block" => copied'.flagged = 0 \/ copied'.unread > 0
              /\ opts'.workspace => "after" \in gone' \/ (R' /\ ~W')
              /\ opts'.extensions =>
                   \/ gone' \cap {"extension baseline", "extension scan", "extension drift"} # {}
                   \/ Q' /\ ~X' /\ ~A'
  <2>1. Verdict = 0
    BY <1>1, <1>11
  <2>2. childCode' = 0 /\ (mode' = "block" => copied'.flagged = 0 \/ copied'.unread > 0)
    BY <1>1, <1>2, <1>9, <2>1
  <2>3. opts'.workspace => "after" \in gone' \/ (R' /\ ~W')
    BY <1>1, <1>4, <1>7, <1>9, <2>1
  <2>4. opts'.extensions => gone' \cap NoExtensions # {} \/ (Q' /\ ~X' /\ ~A')
    BY <1>1, <1>5, <1>6, <1>7, <1>8, <1>9, <2>1 DEF A, NoBaseline, NoExtensions
  <2> QED
    BY <2>2, <2>3, <2>4 DEF NoExtensions
<1>12. ASSUME exit' # 0, childCode' = 0
       PROVE  \/ mode' = "block" /\ copied'.flagged > 0
              \/ opts'.workspace /\ W'
              \/ opts'.extensions /\ (X' \/ A')
  <2>1. CASE final > 0 /\ mode = "block"
    BY <1>1, <1>2, <2>1
  <2>2. CASE (drift.workspace # NoDiff /\ mode = "block") \/ "high" \in found.workspace
    BY <1>1, <1>4, <1>7, <2>2
  <2>3. CASE (drift.extensions # NoDiff /\ mode = "block") \/ "high" \in found.extensions
    BY <1>1, <1>5, <1>7, <2>3
  <2>4. CASE "high" \in found.baseline
    BY <1>1, <1>6, <1>8, <2>4 DEF A
  <2> QED
    BY <1>1, <1>10, <1>12, <2>1, <2>2, <2>3, <2>4
<1>13. PassMeansClean'
  BY <1>11 DEF PassMeansClean, W, X, A, R, Q
<1>14. FailHasReason'
  BY <1>12 DEF FailHasReason, W, X, A
<1> QED
  BY <1>13, <1>14 DEF ExitCodeExplained

(* The other ways to end: nothing happens any more, the command has not been *)
(* started, or the report could not be written.                              *)
LEMMA EndSteps ==
  ASSUME Order, [Next]_vars, stage' = "done"
  PROVE  \/ UNCHANGED <<stage, exit, childCode, mode, copied, opts, tree, gone, asOf, scanned>>
         \/ exit' = 1 /\ childCode' = Pending
         \/ exit' = 1 /\ "report" \in gone'
         \/ Decide
<1> USE DEF Order, Early, End, Fail, seenVars
<1>1. CASE TakeBaseline
  BY <1>1 DEF TakeBaseline
<1>2. CASE TakeExtensions
  BY <1>2 DEF TakeExtensions
<1>3. CASE MakeCgroup
  BY <1>3 DEF MakeCgroup
<1>4. CASE Attach
  BY <1>4 DEF Attach
<1>5. CASE Populate
  BY <1>5 DEF Populate
<1>6. CASE LoadFails
  BY <1>6 DEF LoadFails
<1>7. CASE SpawnChild
  BY <1>7 DEF SpawnChild
<1>8. CASE ChildWaited
  BY <1>8 DEF ChildWaited
<1>9. CASE SetStop
  BY <1>9 DEF SetStop
<1>10. CASE CopyStats
  BY <1>10 DEF CopyStats
<1>11. CASE ReadStep
  BY <1>11 DEF ReadStep, ReadFile, TakeAfter, TakeExtensionsAfter, ScanExtensions, ScanWorkspace,
               pipeVars
<1>12. CASE WriteReport
  BY <1>12 DEF WriteReport
<1>13. CASE Fork
  BY <1>13 DEF Fork, runVars
<1>14. CASE WriteFile
  BY <1>14 DEF WriteFile
<1>15. CASE Detach
  BY <1>15 DEF Detach, runVars
<1>16. CASE \E p \in Inside : Exits(p)
  BY <1>16 DEF Exits
<1>17. CASE HookStep \/ IngestStep \/ DrainStep
  BY <1>17 DEF HookStep, IngestStep, DrainStep, runVars
<1>18. CASE UNCHANGED vars
  BY <1>18 DEF vars, runVars, pipeVars
<1> QED
  BY <1>1, <1>2, <1>3, <1>4, <1>5, <1>6, <1>7, <1>8, <1>9,
     <1>10, <1>11, <1>12, <1>13, <1>14, <1>15, <1>16, <1>17, <1>18, StepCases

LEMMA ExitNext ==
  ASSUME SnapInv, Counted, Alone, RunShape, Order, Order', ExitCodeExplained, [Next]_vars
  PROVE  ExitCodeExplained'
<1>1. CASE stage' # "done"
  <2>1. exit' # 0
    BY <1>1 DEF Order, Pending
  <2>2. PassMeansClean'
    BY <2>1 DEF PassMeansClean
  <2>3. FailHasReason'
    BY <1>1 DEF FailHasReason
  <2> QED
    BY <2>2, <2>3 DEF ExitCodeExplained
<1>2. CASE UNCHANGED <<stage, exit, childCode, mode, copied, opts, tree, gone, asOf, scanned>>
  <2> DEFINE W == Worse(asOf.workspace, scanned.workspace)
             X == Worse(asOf.extensions, scanned.extensions)
             R == ReadAsIs(asOf.workspace, scanned.workspace, WorkspaceFiles)
             Q == ReadAsIs(asOf.extensions, scanned.extensions, ExtensionFiles)
             A == AlreadyBad
  <2>1. W' = W /\ X' = X /\ A' = A /\ R' = R /\ Q' = Q
    BY <1>2 DEF Worse, Changed, AlreadyBad, ReadAsIs
  <2> HIDE DEF W, X, A, R, Q
  <2>2. PassMeansClean' <=> PassMeansClean
    BY <1>2, <2>1 DEF PassMeansClean, W, X, A, R, Q
  <2>3. FailHasReason' <=> FailHasReason
    BY <1>2, <2>1 DEF FailHasReason, W, X, A
  <2> QED
    BY <2>2, <2>3 DEF ExitCodeExplained
<1>3. CASE exit' = 1 /\ childCode' = Pending
  <2>1. exit' # 0 /\ childCode' # 0
    BY <1>3 DEF Pending
  <2>2. PassMeansClean'
    BY <2>1 DEF PassMeansClean
  <2>3. FailHasReason'
    BY <2>1 DEF FailHasReason
  <2> QED
    BY <2>2, <2>3 DEF ExitCodeExplained
<1>4. CASE exit' = 1 /\ "report" \in gone'
  <2>1. exit' # 0
    BY <1>4
  <2>2. PassMeansClean'
    BY <2>1 DEF PassMeansClean
  <2>3. FailHasReason'
    BY <1>4 DEF FailHasReason
  <2> QED
    BY <2>2, <2>3 DEF ExitCodeExplained
<1> QED
  BY <1>1, <1>2, <1>3, <1>4, EndSteps, DecideExplained

-----------------------------------------------------------------------------
(* The inductive invariant, and what follows from it.                        *)
IInv == Books /\ PipeShape /\ RunShape /\ Order /\ Guarded /\ SnapInv /\ Counted /\ Alone
          /\ ExitCodeExplained

LEMMA InitIInv == Init => IInv
<1> SUFFICES ASSUME Init PROVE IInv
  OBVIOUS
<1> USE DEF Init, PipelineInit
<1>1. Books
  <2>1. ring \in Seq(Event) /\ Len(ring) = 0 /\ RingCap \in Nat
    BY PipelineAssumption
  <2>2. \A k : Cardinality(HitsIn(ring, k)) = 0
    BY <2>1, FS_EmptySet DEF HitsIn
  <2>3. \A k \in Kinds : Seen(k) = 0
    BY <2>2 DEF Seen
  <2>4. RingOK /\ StatsOK
    BY <2>1 DEF RingOK, StatsOK
  <2>5. Counting /\ Surfacing
    BY <2>3 DEF Counting, Surfacing, Kept, Kinds
  <2> QED
    BY <2>4, <2>5 DEF Books
<1>2. PipeShape
  <2>1. slots \in Seq(Seq(STRING))
    OBVIOUS
  <2> QED
    BY <2>1 DEF PipeShape, Accepted
<1>3. RunShape
  <2>1. opts.writes \in Nat /\ MaxFaults \in Nat /\ InitialTree \in [Files -> States]
        /\ RingCap \in Nat
    BY RunAssumption, PipelineAssumption
  <2> QED
    BY <2>1 DEF RunShape, Stages
<1>4. Order /\ Guarded
  BY PipelineAssumption, RunAssumption DEF Order, Early, Guarded
<1>5. SnapInv
  <2>1. SnapShape
    <3>1. NoDiff \in DiffType
      BY DEF NoDiff, DiffType
    <3>2. /\ Part(InitialTree, WorkspaceFiles) \in [WorkspaceFiles -> States]
          /\ Part(InitialTree, ExtensionFiles) \in [ExtensionFiles -> States]
      BY RunAssumption DEF Part, Files
    <3> HIDE DEF NoDiff
    <3> QED
      BY <3>1, <3>2, NothingTells DEF SnapShape
  <2>2. Baselines /\ Results
    BY NothingTells DEF Baselines, Results, Nothing, NothingFound, Compared, ComparedExtensions,
              ScannedExtensions, ScannedAll
  <2> QED
    BY <2>1, <2>2 DEF SnapInv
<1>6. Counted /\ Alone /\ ExitCodeExplained
  BY DEF Counted, Alone, AfterStages, ExitCodeExplained, PassMeansClean, FailHasReason, Pending
<1> QED
  BY <1>1, <1>2, <1>3, <1>4, <1>5, <1>6 DEF IInv

LEMMA IInvNext == IInv /\ [Next]_vars => IInv'
BY BooksNext, PipeShapeNext, RunShapeNext, OrderNext, GuardedNext, SnapNext, CountedNext,
   AloneNext, ExitNext DEF IInv, SnapInv

LEMMA Inductive == Spec => []IInv
BY InitIInv, IInvNext, PTL DEF Spec

(* Every variable keeps its type: the ring within its bound, the counters    *)
(* natural numbers, the stage one of those of the code.                      *)
THEOREM TypeCorrect == Spec => []TypeOK
<1>1. IInv => TypeOK
  BY DEF IInv, Books, RingOK, StatsOK, PipeShape, RunShape, TypeOK, PipelineTypeOK
<1> QED
  BY <1>1, Inductive, PTL

(* Whatever the sizes of the ring and of the two caps of Stats: a denied     *)
(* event that the drain task has read is among the samples of its kind, or   *)
(* found no sample that it could displace.                                   *)
THEOREM DenialsSurface == Spec => []DeniedSurface
<1>1. IInv => DeniedSurface
  BY SurfacingMeans DEF IInv, Books
<1> QED
  BY <1>1, Inductive, PTL

(* In block mode the command never runs without the hooks, the deny list in  *)
(* the kernel and a task that drains the ring, whatever step fails: for any  *)
(* object file, of what it has, since a part that it lacks is passed over.   *)
THEOREM BlockIsProtected == Spec => []BlockRunsProtected
<1>1. IInv => BlockRunsProtected
  BY GuardedMeans DEF IInv
<1> QED
  BY <1>1, Inductive, PTL

(* For any files, catalog, skip list and way to fail: a run that ends with 0 *)
(* was clean in the sense of PassMeansClean, of the files as they were read, *)
(* which is as they are unless a process outlived the command; and one that  *)
(* is failed although its command ended with 0 has one of the reasons of     *)
(* FailHasReason.                                                            *)
THEOREM ExitIsExplained == Spec => []ExitCodeExplained
<1>1. IInv => ExitCodeExplained
  BY DEF IInv
<1> QED
  BY <1>1, Inductive, PTL

-----------------------------------------------------------------------------
(* The suggestion of a policy.                                               *)

(* A set of positions has a least one.                                       *)
LEMMA LeastOf ==
  ASSUME NEW T \in SUBSET Nat, T # {}
  PROVE  \E x \in T : \A y \in T : x <= y
<1>1. IsWellFoundedOn(OpToRel(<, Nat), Nat)
  BY NatLessThanWellFounded
<1>2. PICK x \in T : \A y \in T : ~ (<<y, x>> \in OpToRel(<, Nat))
  BY <1>1, WFMin
<1>3. \A y \in T : <<y, x>> \in OpToRel(<, Nat) <=> y < x
  BY DEF OpToRel
<1>4. \A y \in T : ~(y < x) /\ y \in Nat /\ x \in Nat
  BY <1>2, <1>3
<1>5. \A y \in T : x <= y
  BY <1>4
<1> QED BY <1>5

(* Max of a set of positions is one of them, and no less than any.           *)
LEMMA GreatestPosition ==
  ASSUME NEW n \in Nat, NEW T \in SUBSET (1 .. n), T # {}
  PROVE  Max(T) \in T /\ \A y \in T : Max(T) >= y
<1>0. \A x \in T : x \in Nat /\ x <= n /\ n - x \in Nat
  OBVIOUS
<1>1. PICK D : D = {n - x : x \in T}
  OBVIOUS
<1>2. D \in SUBSET Nat /\ D # {}
  BY <1>0, <1>1
<1>3. PICK d \in D : \A e \in D : d <= e
  BY <1>2, LeastOf
<1>4. PICK x \in T : d = n - x
  BY <1>1
<1>5. ASSUME NEW y \in T PROVE x >= y
  <2>1. n - x <= n - y
    BY <1>1, <1>3, <1>4
  <2> QED BY <1>0, <2>1
<1> QED BY <1>5 DEF Max

(* What a sequence holds after an Append.                                    *)
LEMMA AppendedSet ==
  ASSUME NEW T, NEW s \in Seq(T), NEW e \in T
  PROVE  /\ Append(s, e) \in Seq(T)
         /\ ToSet(Append(s, e)) = ToSet(s) \cup {e}
<1>1. /\ Append(s, e) \in Seq(T) /\ DOMAIN Append(s, e) = 1 .. Len(s) + 1
      /\ Append(s, e)[Len(s) + 1] = e /\ \A i \in DOMAIN s : Append(s, e)[i] = s[i]
      /\ DOMAIN s = 1 .. Len(s) /\ Len(s) \in Nat
  OBVIOUS
<1>2. \A i \in 1 .. Len(s) + 1 : i = Len(s) + 1 \/ i \in 1 .. Len(s)
  BY <1>1
<1> QED BY <1>1, <1>2 DEF ToSet

(* What the concatenation of two sequences holds.                            *)
LEMMA JoinedSet ==
  ASSUME NEW T, NEW s \in Seq(T), NEW t \in Seq(T)
  PROVE  /\ s \o t \in Seq(T)
         /\ ToSet(s \o t) = ToSet(s) \cup ToSet(t)
<1>1. /\ s \o t \in Seq(T) /\ DOMAIN (s \o t) = 1 .. Len(s) + Len(t)
      /\ \A i \in 1 .. Len(s) + Len(t) : (s \o t)[i] = IF i <= Len(s) THEN s[i] ELSE t[i - Len(s)]
      /\ DOMAIN s = 1 .. Len(s) /\ Len(s) \in Nat /\ DOMAIN t = 1 .. Len(t) /\ Len(t) \in Nat
  OBVIOUS
<1>2. ASSUME NEW i \in DOMAIN (s \o t) PROVE (s \o t)[i] \in ToSet(s) \cup ToSet(t)
  <2>1. CASE i <= Len(s)
    BY <1>1, <2>1 DEF ToSet
  <2>2. CASE ~(i <= Len(s))
    <3>1. i - Len(s) \in DOMAIN t /\ (s \o t)[i] = t[i - Len(s)]
      BY <1>1, <2>2
    <3> QED BY <3>1 DEF ToSet
  <2> QED BY <2>1, <2>2
<1>3. ASSUME NEW i \in DOMAIN s PROVE i \in DOMAIN (s \o t) /\ (s \o t)[i] = s[i]
  BY <1>1
<1>4. ASSUME NEW i \in DOMAIN t
      PROVE  i + Len(s) \in DOMAIN (s \o t) /\ (s \o t)[i + Len(s)] = t[i]
  <2>1. i \in 1 .. Len(t)
    BY <1>1
  <2>2. /\ i + Len(s) \in 1 .. Len(s) + Len(t)
        /\ ~(i + Len(s) <= Len(s)) /\ i + Len(s) - Len(s) = i
    BY <1>1, <2>1
  <2> QED BY <1>1, <2>2
<1>5. \A x \in ToSet(s \o t) : x \in ToSet(s) \cup ToSet(t)
  BY <1>2 DEF ToSet
<1>6. \A x \in ToSet(s) : x \in ToSet(s \o t)
  BY <1>3 DEF ToSet
<1>7. \A x \in ToSet(t) : x \in ToSet(s \o t)
  BY <1>4 DEF ToSet
<1> QED BY <1>1, <1>5, <1>6, <1>7

(* A connect is kept under its address or the name of it.                    *)
NamesOf(a) == {a} \cup ({Ptr[a]} \ {NoName})

Conn == [addr : Addrs, port : Ports]
Logged == [target : Addrs \cup DOMAIN Answers, port : Ports]

SamplesAre ==
  /\ connects \in Seq(Conn) /\ opens \in Seq(Opened)
  /\ log = [runs |-> log.runs, connects |-> log.connects, opens |-> log.opens]
  /\ log.connects \in Seq(Logged) /\ log.opens \in Seq(Opened)
  /\ seen = [connects |-> seen.connects, opens |-> seen.opens]
  /\ seen.connects \subseteq Addrs \X Ports /\ seen.opens \subseteq Opened
  /\ dropped \in BOOLEAN

(* Nothing is sampled that was not seen ...                                  *)
SampledIsSeen ==
  /\ \A s \in ToSet(connects) : <<s.addr, s.port>> \in seen.connects
  /\ \A s \in ToSet(log.connects) : \E c \in seen.connects : c[2] = s.port /\ s.target \in NamesOf(c[1])

(* ... and what was seen is sampled while there is room.                     *)
SeenIsSampled ==
  ~dropped =>
    /\ \A c \in seen.connects :
         \/ \E s \in ToSet(connects) : s.addr = c[1] /\ s.port = c[2]
         \/ \E s \in ToSet(log.connects) : s.port = c[2] /\ s.target \in NamesOf(c[1])
    /\ \A path \in seen.opens : path \in ToSet(opens) \cup ToSet(log.opens)

PolicyIsOfLog ==
  \/ policy = Unsuggested
  \/ /\ connects = <<>> /\ opens = <<>>
     /\ policy =
          [made |-> TRUE,
           allow |-> {[target |-> t, ports |-> PortsOf(log.connects, t)] :
                        t \in {s.target : s \in ToSet(log.connects)}},
           dirs |-> {ParentDir(p) : p \in ToSet(log.opens) \ {<<>>}}]

SuggestInv == SamplesAre /\ SampledIsSeen /\ SeenIsSampled /\ PolicyIsOfLog

(* The empty sequence holds nothing.                                         *)
LEMMA EmptySet == ToSet(<<>>) = {}
  BY DEF ToSet

(* Nothing is sampled before the first run.                                  *)
LEMMA SuggestInitInv ==
  ASSUME SuggestInit
  PROVE  SuggestInv
<1>1. PolicyIsOfLog
  BY DEF SuggestInit, PolicyIsOfLog
<1>3. SamplesAre
  <2>1. /\ log = [runs |-> <<>>, connects |-> <<>>, opens |-> <<>>]
        /\ seen = [connects |-> {}, opens |-> {}]
    BY DEF SuggestInit
  <2>2. /\ log.runs = <<>> /\ log.connects = <<>> /\ log.opens = <<>>
        /\ seen.connects = {} /\ seen.opens = {}
    BY <2>1
  <2>3. connects = <<>> /\ opens = <<>> /\ dropped = FALSE
    BY DEF SuggestInit
  <2>4. \A T : <<>> \in Seq(T)
    OBVIOUS
  <2>5. connects \in Seq(Conn) /\ opens \in Seq(Opened) /\ log.connects \in Seq(Logged) /\ log.opens \in Seq(Opened)
    BY <2>2, <2>3, <2>4
  <2> QED BY <2>1, <2>2, <2>3, <2>5 DEF SamplesAre
<1>2. connects = <<>> /\ log.connects = <<>> /\ seen.connects = {} /\ seen.opens = {}
  BY DEF SuggestInit
<1> QED BY <1>1, <1>2, <1>3, EmptySet DEF SuggestInv, SampledIsSeen, SeenIsSampled

(* A connect is sampled, or dropped when the sample is full.                 *)
LEMMA ConnectStep ==
  ASSUME SuggestInv, NEW a \in Addrs, NEW p \in Ports, AuditConnect(a, p)
  PROVE  SuggestInv'
<1>1. /\ opens' = opens /\ log' = log /\ policy' = policy /\ ~policy.made
      /\ connects' = Sampled(connects, [addr |-> a, port |-> p])
      /\ seen' = [seen EXCEPT !.connects = @ \cup {<<a, p>>}]
      /\ dropped' = (dropped \/ Len(connects) >= SampleCap)
  BY DEF AuditConnect, Auditing
<1>2. SamplesAre /\ SampledIsSeen /\ SeenIsSampled
  BY DEF SuggestInv
<1>3. seen' = [connects |-> seen.connects \cup {<<a, p>>}, opens |-> seen.opens]
  BY <1>1, <1>2 DEF SamplesAre
<1>4. seen'.connects = seen.connects \cup {<<a, p>>} /\ seen'.opens = seen.opens
  BY <1>3
<1>5. PICK e : e = [addr |-> a, port |-> p]
  OBVIOUS
<1>6. e \in Conn /\ e.addr = a /\ e.port = p
  BY <1>5 DEF Conn
<1>7. connects \in Seq(Conn) /\ Len(connects) \in Nat
  BY <1>2 DEF SamplesAre
<1>8. /\ connects' \in Seq(Conn) /\ ToSet(connects') \subseteq ToSet(connects) \cup {e}
      /\ ~dropped' => ~dropped /\ ToSet(connects') = ToSet(connects) \cup {e}
  <2>3. connects' = Sampled(connects, e)
    BY <1>1, <1>5
  <2>1. CASE Len(connects) < SampleCap
    <3>1. connects' = Append(connects, e)
      BY <2>3, <2>1 DEF Sampled
    <3>2. ~dropped' => ~dropped
      BY <1>1, Zenon
    <3> QED BY <1>6, <1>7, <3>1, <3>2, AppendedSet
  <2>2. CASE ~(Len(connects) < SampleCap)
    <3>1. connects' = connects
      BY <2>3, <2>2 DEF Sampled
    <3>2. Len(connects) >= SampleCap
      BY <1>7, <2>2, SuggestAssumption
    <3>3. dropped'
      BY <1>1, <3>2, Zenon
    <3> QED BY <1>7, <3>1, <3>3
  <2> QED BY <2>1, <2>2
<1>9. SamplesAre'
  <2>1. seen'.connects \subseteq Addrs \X Ports /\ seen'.opens \subseteq Opened
    BY <1>2, <1>4 DEF SamplesAre
  <2>2. seen' = [connects |-> seen'.connects, opens |-> seen'.opens]
    BY <1>3, <1>4
  <2>3. dropped' \in BOOLEAN
    BY <1>1, Zenon
  <2> QED BY <1>1, <1>2, <1>8, <2>1, <2>2, <2>3 DEF SamplesAre
<1>10. SampledIsSeen'
  <2>1. \A s \in ToSet(connects') : <<s.addr, s.port>> \in seen'.connects
    BY <1>2, <1>4, <1>6, <1>8 DEF SampledIsSeen
  <2>2. \A s \in ToSet(log.connects) : \E c \in seen'.connects : c[2] = s.port /\ s.target \in NamesOf(c[1])
    BY <1>2, <1>4 DEF SampledIsSeen
  <2> QED BY <1>1, <2>1, <2>2 DEF SampledIsSeen, NamesOf
<1>11. SeenIsSampled'
  <2>1. SUFFICES ASSUME ~dropped'
                 PROVE  /\ \A c \in seen'.connects :
                             \/ \E s \in ToSet(connects') : s.addr = c[1] /\ s.port = c[2]
                             \/ \E s \in ToSet(log.connects) : s.port = c[2] /\ s.target \in NamesOf(c[1])
                        /\ \A path \in seen'.opens : path \in ToSet(opens) \cup ToSet(log.opens)
    BY <1>1 DEF SeenIsSampled, NamesOf
  <2>2. ~dropped /\ ToSet(connects') = ToSet(connects) \cup {e}
    BY <1>8, <2>1
  <2>3. \A path \in seen'.opens : path \in ToSet(opens) \cup ToSet(log.opens)
    BY <1>2, <1>4, <2>2 DEF SeenIsSampled
  <2>4. ASSUME NEW c \in seen'.connects
        PROVE  \/ \E s \in ToSet(connects') : s.addr = c[1] /\ s.port = c[2]
               \/ \E s \in ToSet(log.connects) : s.port = c[2] /\ s.target \in NamesOf(c[1])
    <3>1. CASE c = <<a, p>>
      BY <1>6, <2>2, <3>1
    <3>2. CASE c \in seen.connects
      BY <1>2, <2>2, <3>2 DEF SeenIsSampled
    <3> QED BY <1>4, <3>1, <3>2
  <2> QED BY <2>3, <2>4
<1>12. PolicyIsOfLog'
  <2>1. policy = Unsuggested
    BY <1>1 DEF SuggestInv, PolicyIsOfLog
  <2> QED BY <1>1, <2>1 DEF PolicyIsOfLog
<1> QED BY <1>9, <1>10, <1>11, <1>12 DEF SuggestInv

(* So is an open.                                                            *)
LEMMA OpenStep ==
  ASSUME SuggestInv, NEW path \in Opened, AuditOpen(path)
  PROVE  SuggestInv'
<1>1. /\ connects' = connects /\ log' = log /\ policy' = policy /\ ~policy.made
      /\ opens' = Sampled(opens, path)
      /\ seen' = [seen EXCEPT !.opens = @ \cup {path}]
      /\ dropped' = (dropped \/ Len(opens) >= SampleCap)
  BY DEF AuditOpen, Auditing
<1>2. SamplesAre /\ SampledIsSeen /\ SeenIsSampled
  BY DEF SuggestInv
<1>3. seen' = [connects |-> seen.connects, opens |-> seen.opens \cup {path}]
  BY <1>1, <1>2 DEF SamplesAre
<1>4. seen'.connects = seen.connects /\ seen'.opens = seen.opens \cup {path}
  BY <1>3
<1>7. opens \in Seq(Opened) /\ Len(opens) \in Nat
  BY <1>2 DEF SamplesAre
<1>8. /\ opens' \in Seq(Opened)
      /\ ~dropped' => ~dropped /\ ToSet(opens') = ToSet(opens) \cup {path}
  <2>3. opens' = Sampled(opens, path)
    BY <1>1
  <2>1. CASE Len(opens) < SampleCap
    <3>1. opens' = Append(opens, path)
      BY <2>3, <2>1 DEF Sampled
    <3>2. ~dropped' => ~dropped
      BY <1>1, Zenon
    <3> QED BY <1>7, <3>1, <3>2, AppendedSet
  <2>2. CASE ~(Len(opens) < SampleCap)
    <3>1. opens' = opens
      BY <2>3, <2>2 DEF Sampled
    <3>2. Len(opens) >= SampleCap
      BY <1>7, <2>2, SuggestAssumption
    <3>3. dropped'
      BY <1>1, <3>2, Zenon
    <3> QED BY <1>7, <3>1, <3>3
  <2> QED BY <2>1, <2>2
<1>9. SamplesAre'
  BY <1>1, <1>2, <1>3, <1>8 DEF SamplesAre
<1>10. SampledIsSeen'
  BY <1>1, <1>2, <1>4 DEF SampledIsSeen, NamesOf
<1>11. SeenIsSampled'
  <2>1. SUFFICES ASSUME ~dropped'
                 PROVE  /\ \A c \in seen.connects :
                             \/ \E s \in ToSet(connects) : s.addr = c[1] /\ s.port = c[2]
                             \/ \E s \in ToSet(log.connects) : s.port = c[2] /\ s.target \in NamesOf(c[1])
                        /\ \A q \in seen'.opens : q \in ToSet(opens') \cup ToSet(log.opens)
    BY <1>1, <1>4 DEF SeenIsSampled, NamesOf
  <2> QED BY <1>2, <1>4, <1>8, <2>1 DEF SeenIsSampled
<1>12. PolicyIsOfLog'
  <2>1. policy = Unsuggested
    BY <1>1 DEF SuggestInv, PolicyIsOfLog
  <2> QED BY <1>1, <2>1 DEF PolicyIsOfLog
<1> QED BY <1>9, <1>10, <1>11, <1>12 DEF SuggestInv

(* The end of an audited run moves its samples into the log.                 *)
LEMMA EndStep ==
  ASSUME SuggestInv, EndAudit
  PROVE  SuggestInv'
<1>1. PICK answered \in SUBSET {s.addr : s \in ToSet(connects)} :
        LET Target(a) == IF a \in answered /\ Ptr[a] # NoName THEN Ptr[a] ELSE a
            stamped == [i \in DOMAIN connects |->
                          [target |-> Target(connects[i].addr), port |-> connects[i].port]]
        IN log' = [runs |-> Append(log.runs, Len(connects)),
                   connects |-> log.connects \o stamped, opens |-> log.opens \o opens]
  BY DEF EndAudit
<1>2. PICK stamped :
        /\ stamped = [i \in DOMAIN connects |->
             [target |-> IF connects[i].addr \in answered /\ Ptr[connects[i].addr] # NoName
                         THEN Ptr[connects[i].addr] ELSE connects[i].addr,
              port |-> connects[i].port]]
        /\ log' = [runs |-> Append(log.runs, Len(connects)),
                   connects |-> log.connects \o stamped, opens |-> log.opens \o opens]
  BY <1>1
<1>3. /\ connects' = <<>> /\ opens' = <<>> /\ policy' = policy /\ seen' = seen /\ dropped' = dropped
      /\ ~policy.made
  BY DEF EndAudit
<1>4. SamplesAre /\ SampledIsSeen /\ SeenIsSampled
  BY DEF SuggestInv
<1>5. connects \in Seq(Conn) /\ opens \in Seq(Opened) /\ log.connects \in Seq(Logged) /\ log.opens \in Seq(Opened)
  BY <1>4 DEF SamplesAre
<1>6. log'.connects = log.connects \o stamped /\ log'.opens = log.opens \o opens
  BY <1>2
<1>7. ASSUME NEW i \in DOMAIN connects
      PROVE  /\ connects[i] \in Conn
             /\ stamped[i] \in Logged /\ stamped[i].port = connects[i].port
             /\ stamped[i].target \in NamesOf(connects[i].addr)
  <2>1. PICK a, p : a = connects[i].addr /\ p = connects[i].port
    OBVIOUS
  <2>2. connects[i] \in Conn
    BY <1>5
  <2>3. a \in Addrs /\ p \in Ports
    BY <2>1, <2>2 DEF Conn
  <2>4. PICK t : t = IF a \in answered /\ Ptr[a] # NoName THEN Ptr[a] ELSE a
    OBVIOUS
  <2>5. stamped[i] = [target |-> t, port |-> p]
    BY <1>2, <2>1, <2>4
  <2>6. t \in NamesOf(a) /\ t \in Addrs \cup DOMAIN Answers
    BY <2>3, <2>4, SuggestAssumption DEF NamesOf
  <2> QED BY <2>1, <2>2, <2>3, <2>5, <2>6 DEF Logged
<1>8. stamped \in Seq(Logged) /\ DOMAIN stamped = DOMAIN connects
  <2>1. DOMAIN connects = 1 .. Len(connects) /\ Len(connects) \in Nat
    BY <1>5
  <2>2. DOMAIN stamped = DOMAIN connects
    BY <1>2
  <2> QED BY <1>2, <1>7, <2>1, <2>2
<1>9. /\ log'.connects \in Seq(Logged) /\ ToSet(log'.connects) = ToSet(log.connects) \cup ToSet(stamped)
      /\ log'.opens \in Seq(Opened) /\ ToSet(log'.opens) = ToSet(log.opens) \cup ToSet(opens)
  BY <1>5, <1>6, <1>8, JoinedSet
<1>10. \A x \in ToSet(stamped) : \E s \in ToSet(connects) : x.port = s.port /\ x.target \in NamesOf(s.addr)
  BY <1>7, <1>8 DEF ToSet
<1>11. \A s \in ToSet(connects) : \E x \in ToSet(stamped) : x.port = s.port /\ x.target \in NamesOf(s.addr)
  BY <1>7, <1>8 DEF ToSet
<1>12. ToSet(connects') = {} /\ ToSet(opens') = {}
  BY <1>3, EmptySet
<1>13. SamplesAre'
  <2>1. log' = [runs |-> log'.runs, connects |-> log'.connects, opens |-> log'.opens]
    BY <1>2
  <2>2. connects' \in Seq(Conn) /\ opens' \in Seq(Opened)
    BY <1>3
  <2> QED BY <1>3, <1>4, <1>9, <2>1, <2>2 DEF SamplesAre
<1>14. SampledIsSeen'
  <2>1. \A s \in ToSet(log'.connects) : \E c \in seen.connects : c[2] = s.port /\ s.target \in NamesOf(c[1])
    <3>1. ASSUME NEW s \in ToSet(stamped)
          PROVE  \E c \in seen.connects : c[2] = s.port /\ s.target \in NamesOf(c[1])
      <4>1. PICK x \in ToSet(connects) : s.port = x.port /\ s.target \in NamesOf(x.addr)
        BY <1>10
      <4>2. PICK c : c = <<x.addr, x.port>>
        OBVIOUS
      <4>3. c \in seen.connects /\ c[1] = x.addr /\ c[2] = x.port
        BY <1>4, <4>2 DEF SampledIsSeen
      <4> QED BY <4>1, <4>3
    <3>2. ASSUME NEW s \in ToSet(log.connects)
          PROVE  \E c \in seen.connects : c[2] = s.port /\ s.target \in NamesOf(c[1])
      BY <1>4 DEF SampledIsSeen
    <3> QED BY <1>9, <3>1, <3>2
  <2> QED BY <1>3, <1>12, <2>1 DEF SampledIsSeen, NamesOf
<1>15. SeenIsSampled'
  <2>1. SUFFICES ASSUME ~dropped
                 PROVE  /\ \A c \in seen.connects :
                             \E s \in ToSet(log'.connects) : s.port = c[2] /\ s.target \in NamesOf(c[1])
                        /\ \A path \in seen.opens : path \in ToSet(log'.opens)
    BY <1>3 DEF SeenIsSampled, NamesOf
  <2>2. ASSUME NEW c \in seen.connects
        PROVE  \E s \in ToSet(log'.connects) : s.port = c[2] /\ s.target \in NamesOf(c[1])
    <3>1. CASE \E s \in ToSet(connects) : s.addr = c[1] /\ s.port = c[2]
      BY <1>9, <1>11, <3>1
    <3>2. CASE \E s \in ToSet(log.connects) : s.port = c[2] /\ s.target \in NamesOf(c[1])
      BY <1>9, <3>2
    <3> QED BY <1>4, <2>1, <3>1, <3>2 DEF SeenIsSampled
  <2>3. \A path \in seen.opens : path \in ToSet(log'.opens)
    BY <1>4, <1>9, <2>1 DEF SeenIsSampled
  <2> QED BY <2>2, <2>3
<1>16. PolicyIsOfLog'
  <2>1. policy = Unsuggested
    BY <1>3 DEF SuggestInv, PolicyIsOfLog
  <2> QED BY <1>3, <2>1 DEF PolicyIsOfLog
<1> QED BY <1>13, <1>14, <1>15, <1>16 DEF SuggestInv

(* SuggestInv is inductive: one case for each action.                        *)
LEMMA SuggestStep ==
  ASSUME SuggestInv, [SuggestNext]_suggestVars
  PROVE  SuggestInv'
<1>1. CASE \E a \in Addrs, p \in Ports : AuditConnect(a, p)
  BY <1>1, ConnectStep
<1>2. CASE \E path \in Opened : AuditOpen(path)
  BY <1>2, OpenStep
<1>3. CASE EndAudit
  BY <1>3, EndStep
<1>4. CASE SuggestPolicy
  <2>1. /\ connects' = connects /\ opens' = opens /\ log' = log /\ seen' = seen /\ dropped' = dropped
        /\ connects = <<>> /\ opens = <<>>
    BY <1>4 DEF SuggestPolicy
  <2>2. SamplesAre' /\ SampledIsSeen' /\ SeenIsSampled'
    BY <2>1 DEF SuggestInv, SamplesAre, SampledIsSeen, SeenIsSampled, NamesOf
  <2>3. policy' =
          [made |-> TRUE,
           allow |-> {[target |-> t, ports |-> PortsOf(log.connects, t)] :
                        t \in {s.target : s \in ToSet(log.connects)}},
           dirs |-> {ParentDir(p) : p \in ToSet(log.opens) \ {<<>>}}]
    BY <1>4, Zenon DEF SuggestPolicy
  <2>4. PolicyIsOfLog'
    BY <2>1, <2>3, Zenon DEF PolicyIsOfLog
  <2> QED BY <2>2, <2>4 DEF SuggestInv
<1>5. CASE UNCHANGED suggestVars
  BY <1>5 DEF suggestVars, SuggestInv, SamplesAre, SampledIsSeen, SeenIsSampled, NamesOf, PolicyIsOfLog
<1> QED BY <1>1, <1>2, <1>3, <1>4, <1>5 DEF SuggestNext

(* A path is under the directory that is suggested for it.                   *)
LEMMA UnderItsDirectory ==
  ASSUME NEW path \in Seq(STRING)
  PROVE  Under(path, ParentDir(path))
<1> DEFINE slashes == {i \in DOMAIN path : path[i] = "/"}
<1>1. CASE slashes # {}
  <2>1. slashes \in SUBSET (1 .. Len(path)) /\ Len(path) \in Nat
    OBVIOUS
  <2>2. PICK m : m = Max(slashes)
    OBVIOUS
  <2>3. m \in slashes
    BY <1>1, <2>1, <2>2, GreatestPosition
  <2>4. m \in 1 .. Len(path) /\ path[m] = "/"
    BY <2>3
  <2>5. PICK d : d = SubSeq(path, 1, m)
    OBVIOUS
  <2>6. ParentDir(path) = d
    BY <1>1, <2>2, <2>5 DEF ParentDir
  <2>7. Len(d) = m /\ d \in Seq(STRING) /\ \A i \in 1 .. m : d[i] = path[i]
    BY <2>1, <2>4, <2>5
  <2>8. SubSeq(d, 1, m) = d
    BY <2>4, <2>7
  <2>9. IsPrefix(d, path)
    BY <2>1, <2>4, <2>5, <2>7, <2>8 DEF IsPrefix
  <2>10. d # <<>> /\ Last(d) = "/"
    BY <2>4, <2>7 DEF Last
  <2> QED BY <2>6, <2>9, <2>10, Zenon DEF Under
<1>2. CASE slashes = {}
  <2>1. ParentDir(path) = path
    BY <1>2 DEF ParentDir
  <2>2. IsPrefix(path, path)
    BY DEF IsPrefix
  <2> QED BY <2>1, <2>2, Zenon DEF Under
<1> QED BY <1>1, <1>2

(* The invariant gives the property.                                         *)
LEMMA SuggestInvGives ==
  ASSUME SuggestInv
  PROVE  SuggestionFits
<1>1. CASE policy = Unsuggested
  <2>1. ~policy.made
    BY <1>1 DEF Unsuggested
  <2> QED BY <2>1 DEF SuggestionFits, RerunPasses, OpensCovered, SuggestionIsTight
<1>2. CASE policy # Unsuggested
  <2>1. PICK allow, dirs :
          /\ policy = [made |-> TRUE, allow |-> allow, dirs |-> dirs]
          /\ allow = {[target |-> t, ports |-> PortsOf(log.connects, t)] :
                        t \in {s.target : s \in ToSet(log.connects)}}
          /\ dirs = {ParentDir(p) : p \in ToSet(log.opens) \ {<<>>}}
          /\ connects = <<>> /\ opens = <<>>
    BY <1>2, Zenon DEF SuggestInv, PolicyIsOfLog
  <2>2. policy.allow = allow /\ policy.dirs = dirs
    BY <2>1
  <2>3. ToSet(connects) = {} /\ ToSet(opens) = {}
    BY <2>1, EmptySet
  <2>4. SamplesAre /\ SampledIsSeen /\ SeenIsSampled
    BY DEF SuggestInv
  <2>5. RerunPasses
    <3>1. SUFFICES ASSUME ~dropped, NEW c \in seen.connects, Confirmed(c[1])
                   PROVE  Allowed(c[1], c[2])
      BY DEF RerunPasses
    <3>2. PICK s \in ToSet(log.connects) : s.port = c[2] /\ s.target \in NamesOf(c[1])
      BY <2>3, <2>4, <3>1 DEF SeenIsSampled
    <3>3. PICK t, r : t = s.target /\ r = [target |-> t, ports |-> PortsOf(log.connects, t)]
      OBVIOUS
    <3>4. r \in policy.allow /\ r.target = t /\ r.ports = PortsOf(log.connects, t)
      BY <2>1, <2>2, <3>3
    <3>5. c[2] \in r.ports
      BY <3>2, <3>3, <3>4 DEF PortsOf
    <3>6. c[1] \in Addrs
      BY <2>4 DEF SamplesAre
    <3>7. c[1] \in Resolve(t)
      <4>1. CASE t = c[1]
        BY <3>6, <4>1 DEF Resolve
      <4>2. CASE t = Ptr[c[1]] /\ t # NoName
        <5>1. t \notin Addrs
          BY <3>6, <4>2, SuggestAssumption
        <5> QED BY <3>1, <4>2, <5>1 DEF Resolve, Confirmed
      <4> QED BY <3>2, <3>3, <4>1, <4>2 DEF NamesOf
    <3> QED BY <3>4, <3>5, <3>7 DEF Allowed
  <2>6. OpensCovered
    <3>1. SUFFICES ASSUME ~dropped, NEW path \in seen.opens \ {<<>>}
                   PROVE  \E d \in policy.dirs : Under(path, d)
      BY DEF OpensCovered
    <3>2. path \in ToSet(log.opens) /\ path \in Seq(STRING)
      BY <2>3, <2>4, <3>1, SuggestAssumption DEF SeenIsSampled, SamplesAre
    <3>3. ParentDir(path) \in policy.dirs
      BY <2>1, <2>2, <3>2
    <3> QED BY <3>2, <3>3, UnderItsDirectory
  <2>7. SuggestionIsTight
    <3>1. SUFFICES ASSUME NEW a \in Addrs, NEW p \in Ports \ {AnyPort}, Allowed(a, p),
                          \A r \in policy.allow : AnyPort \notin r.ports
                   PROVE  \E c \in seen.connects :
                            /\ c[2] = p
                            /\ c[1] = a \/ (Ptr[c[1]] # NoName /\ a \in Answers[Ptr[c[1]]])
      BY DEF SuggestionIsTight
    <3>2. PICK r \in policy.allow : a \in Resolve(r.target) /\ p \in r.ports
      BY <3>1 DEF Allowed
    <3>3. PICK t : r = [target |-> t, ports |-> PortsOf(log.connects, t)]
      BY <2>1, <2>2
    <3>4. a \in Resolve(t) /\ p \in PortsOf(log.connects, t)
      BY <3>2, <3>3
    <3>5. PICK s \in ToSet(log.connects) : s.target = t /\ s.port = p
      BY <3>4 DEF PortsOf
    <3>6. PICK c \in seen.connects : c[2] = s.port /\ s.target \in NamesOf(c[1])
      BY <2>4 DEF SampledIsSeen
    <3>7. c[1] \in Addrs
      BY <2>4 DEF SamplesAre
    <3>8. c[1] = a \/ (Ptr[c[1]] # NoName /\ a \in Answers[Ptr[c[1]]])
      <4>1. CASE t = c[1]
        BY <3>4, <3>7, <4>1 DEF Resolve
      <4>2. CASE t = Ptr[c[1]] /\ t # NoName
        <5>1. t \notin Addrs
          BY <3>7, <4>2, SuggestAssumption
        <5> QED BY <3>4, <4>2, <5>1 DEF Resolve
      <4> QED BY <3>5, <3>6, <4>1, <4>2 DEF NamesOf
    <3> QED BY <3>5, <3>6, <3>8
  <2> QED BY <2>5, <2>6, <2>7 DEF SuggestionFits
<1> QED BY <1>1, <1>2

(* For any audited runs and limits of the samples: under the suggested       *)
(* policy the runs may do again what they did, where the samples had room    *)
(* and reverse lookups lead back, and it opens no port of an address but     *)
(* those that the runs used with one of its names (suggest.rs).              *)
THEOREM SuggestSafe == SuggestSpec => []SuggestionFits
<1>1. SuggestInit => SuggestInv
  BY SuggestInitInv
<1>2. SuggestInv /\ [SuggestNext]_suggestVars => SuggestInv'
  BY SuggestStep
<1>3. SuggestInv => SuggestionFits
  BY SuggestInvGives
<1> QED BY <1>1, <1>2, <1>3, PTL DEF SuggestSpec

-----------------------------------------------------------------------------
(* What the run on Windows keeps: the phase tells the child, the wait and    *)
(* the rules that are left to add.                                           *)
WindowsShape ==
  /\ settings.mode \in {"audit", "block"} /\ settings.exec \in BOOLEAN
  /\ phase \in {"starting", "fencing", "spawning", "running", "draining", "reporting", "exited", "failed"}
  /\ unapplied \subseteq DenyRules
  /\ phase \in {"spawning", "running", "draining", "reporting", "exited"} /\ settings.mode = "block" =>
       unapplied = {}
  /\ phase \in {"starting", "fencing", "spawning"} => child = Unset /\ passed = {}
  /\ child = Runs <=> phase = "running"
  /\ phase \in {"starting", "fencing", "spawning", "running"} => waited = 0
  /\ waited \in Nat /\ deniedTold \in Nat /\ traced \in Nat /\ mishaps \in Nat

(* The rule of each address that the firewall was given is there, and there  *)
(* is none after an error that could remove them.                            *)
Fences ==
  /\ DOMAIN missing = DenyRules
  /\ phase = "failed" => fence = {} \/ unremoved
  /\ phase # "failed" /\ settings.mode = "block" =>
       \A r \in DenyRules \ unapplied : \E f \in fence : f.ports = r.ports /\ f.addrs = r.covers \ missing[r]

(* A denied event of the child is told, untold, or in the trace, and there   *)
(* it is as old as the wait.                                                 *)
Owing ==
  /\ \A e \in trace : e \in [id : Nat, denied : BOOLEAN, age : Nat] /\ e.age <= MaxLatency
  /\ \A i \in owed : \/ i \in untold \/ deniedTold > 0
                     \/ \E e \in trace : e.id = i /\ e.denied /\ e.age >= waited
  /\ phase \in {"reporting", "exited"} /\ settings.exec => deniedTold > 0 \/ waited = DrainDeadline
  /\ phase \in {"fencing", "spawning", "running"} =>
       \A r \in DenyRules : r.kind = "address" => r.covers \subseteq tags
  /\ \A c \in passed : \A r \in DenyRules : r.kind = "address" /\ Matches(r, c) => c.id \in owed
  /\ phase = "exited" => runExit = IF deniedTold > 0 /\ settings.mode = "block" THEN 1 ELSE child

WindowsInv == WindowsShape /\ Fences /\ Owing /\ DeniedIsFenced

LEMMA WindowsCases ==
  ASSUME [WindowsNext]_windowsVars
  PROVE  \/ \E answers \in [DenyRules -> SUBSET RemoteAddrs] : StartTrace(answers)
         \/ \E r \in DenyRules, answers, added \in SUBSET RemoteAddrs : AddRule(r, answers, added)
         \/ StartFails \/ Fenced \/ Spawn \/ SpawnFails
         \/ \E code \in ChildCodes : ChildEnds(code)
         \/ \E isDenied \in BOOLEAN : Activity(isDenied)
         \/ \E a \in RemoteAddrs, p \in DestPorts, proto \in Protocols : ChildConnects(a, p, proto)
         \/ \E e \in trace : Tell(e)
         \/ \E e \in trace : Lose(e)
         \/ Poll \/ Report \/ ReportFails
         \/ UNCHANGED windowsVars
BY DEF WindowsNext

LEMMA WindowsShapeNext ==
  ASSUME WindowsShape, [WindowsNext]_windowsVars
  PROVE  WindowsShape'
<1> USE WindowsAssumption DEF WindowsShape, stepVars, Unset, Runs, EndsInError, RulesRemoved, RulesLinger
<1>1. CASE \E answers \in [DenyRules -> SUBSET RemoteAddrs] : StartTrace(answers)
  BY <1>1 DEF StartTrace
<1>2. CASE \E r \in DenyRules, answers, added \in SUBSET RemoteAddrs : AddRule(r, answers, added)
  BY <1>2 DEF AddRule
<1>3. CASE StartFails \/ Fenced \/ Spawn \/ SpawnFails
  BY <1>3 DEF StartFails, Fenced, Spawn, SpawnFails
<1>4. CASE \E code \in ChildCodes : ChildEnds(code)
  BY <1>4 DEF ChildEnds
<1>5. CASE \E isDenied \in BOOLEAN : Activity(isDenied)
  BY <1>5 DEF Activity, Happens
<1>6. CASE \E a \in RemoteAddrs, p \in DestPorts, proto \in Protocols : ChildConnects(a, p, proto)
  BY <1>6 DEF ChildConnects, Happens
<1>7. CASE \E e \in trace : Tell(e)
  BY <1>7 DEF Tell
<1>8. CASE \E e \in trace : Lose(e)
  BY <1>8 DEF Lose
<1>9. CASE Poll
  BY <1>9 DEF Poll
<1>10. CASE Report \/ ReportFails
  BY <1>10 DEF Report, ReportFails
<1>11. CASE UNCHANGED windowsVars
  BY <1>11 DEF windowsVars
<1> QED
  BY <1>1, <1>2, <1>3, <1>4, <1>5, <1>6, <1>7, <1>8, <1>9, <1>10, <1>11, WindowsCases

LEMMA FencesNext ==
  ASSUME WindowsShape, Fences, [WindowsNext]_windowsVars
  PROVE  Fences'
<1> USE DEF WindowsShape, Fences, stepVars, EndsInError, RulesRemoved, RulesLinger
<1>1. CASE \E answers \in [DenyRules -> SUBSET RemoteAddrs] : StartTrace(answers)
  BY <1>1 DEF StartTrace
<1>2. ASSUME NEW r \in DenyRules, NEW answers \in SUBSET RemoteAddrs,
             NEW added \in SUBSET RemoteAddrs, AddRule(r, answers, added)
      PROVE  Fences'
  <2>1. added \subseteq r.covers
    BY <1>2, WindowsAssumption DEF AddRule, AddedOf, Lookups
  <2> DEFINE n == [addrs |-> added, ports |-> r.ports]
  <2>2. n.addrs = added /\ n.ports = r.ports
    OBVIOUS
  <2>3. fence' = fence \cup {n} /\ unapplied' = unapplied \ {r} /\ phase = "fencing" /\ UNCHANGED <<phase, settings>>
        /\ missing' = [missing EXCEPT ![r] = r.covers \ added]
    BY <1>2 DEF AddRule
  <2> HIDE DEF n
  <2>4. /\ DOMAIN missing' = DenyRules /\ missing'[r] = r.covers \ added
        /\ \A s \in DenyRules \ {r} : missing'[s] = missing[s]
    BY <2>3
  <2>5. r.covers \ missing'[r] = added
    BY <2>1, <2>4
  <2> QED
    BY <2>2, <2>3, <2>4, <2>5
<1>3. CASE StartFails \/ Fenced \/ Spawn \/ SpawnFails
  BY <1>3 DEF StartFails, Fenced, Spawn, SpawnFails
<1>4. CASE \E code \in ChildCodes : ChildEnds(code)
  BY <1>4 DEF ChildEnds
<1>5. CASE \E isDenied \in BOOLEAN : Activity(isDenied)
  BY <1>5 DEF Activity
<1>6. CASE \E a \in RemoteAddrs, p \in DestPorts, proto \in Protocols : ChildConnects(a, p, proto)
  BY <1>6 DEF ChildConnects
<1>7. CASE \E e \in trace : Tell(e)
  BY <1>7 DEF Tell
<1>8. CASE \E e \in trace : Lose(e)
  BY <1>8 DEF Lose
<1>9. CASE Poll
  BY <1>9 DEF Poll
<1>10. CASE Report \/ ReportFails
  BY <1>10 DEF Report, ReportFails
<1>11. CASE UNCHANGED windowsVars
  BY <1>11 DEF windowsVars
<1> QED
  BY <1>1, <1>2, <1>3, <1>4, <1>5, <1>6, <1>7, <1>8, <1>9, <1>10, <1>11, WindowsCases

LEMMA DeniedIsFencedNext ==
  ASSUME WindowsShape, Fences, DeniedIsFenced, [WindowsNext]_windowsVars
  PROVE  DeniedIsFenced'
<1> USE DEF WindowsShape, DeniedIsFenced, stepVars, EndsInError, RulesRemoved, RulesLinger
<1>1. CASE \E answers \in [DenyRules -> SUBSET RemoteAddrs] : StartTrace(answers)
  BY <1>1 DEF StartTrace
<1>2. CASE \E r \in DenyRules, answers, added \in SUBSET RemoteAddrs : AddRule(r, answers, added)
  BY <1>2 DEF AddRule
<1>3. CASE StartFails \/ Fenced \/ Spawn \/ SpawnFails
  BY <1>3 DEF StartFails, Fenced, Spawn, SpawnFails
<1>4. CASE \E code \in ChildCodes : ChildEnds(code)
  BY <1>4 DEF ChildEnds
<1>5. CASE \E isDenied \in BOOLEAN : Activity(isDenied)
  BY <1>5 DEF Activity
<1>6. ASSUME NEW a \in RemoteAddrs, NEW p \in DestPorts, NEW proto \in Protocols, ChildConnects(a, p, proto)
      PROVE  DeniedIsFenced'
  <2> DEFINE n == [addr |-> a, port |-> p, proto |-> proto, id |-> traced]
  <2>1. passed' = passed \cup {n} /\ phase = "running" /\ UNCHANGED <<settings, missing>>
    BY <1>6 DEF ChildConnects
  <2>2. n.addr = a /\ n.port = p /\ n.proto = proto
    OBVIOUS
  <2> HIDE DEF n
  <2>3. ASSUME NEW r \in DenyRules, Matches(r, n), settings.mode = "block",
               r.ports = {} \/ n.proto = "tcp"
        PROVE  n.addr \in missing[r]
    <3>1. PICK f \in fence : f.ports = r.ports /\ f.addrs = r.covers \ missing[r]
      BY <2>1, <2>3 DEF Fences
    <3>2. a \notin f.addrs \/ ~(f.ports = {} \/ (proto = "tcp" /\ p \in f.ports))
      BY <1>6 DEF ChildConnects, Blocked
    <3> QED
      BY <3>1, <3>2, <2>2, <2>3 DEF Matches
  <2> QED
    BY <2>1, <2>3
<1>7. CASE \E e \in trace : Tell(e)
  BY <1>7 DEF Tell
<1>8. CASE \E e \in trace : Lose(e)
  BY <1>8 DEF Lose
<1>9. CASE Poll
  BY <1>9 DEF Poll
<1>10. CASE Report \/ ReportFails
  BY <1>10 DEF Report, ReportFails
<1>11. CASE UNCHANGED windowsVars
  BY <1>11 DEF windowsVars
<1> QED
  BY <1>1, <1>2, <1>3, <1>4, <1>5, <1>6, <1>7, <1>8, <1>9, <1>10, <1>11, WindowsCases

(* A new event of the trace owes nothing, or is in it.                       *)
LEMMA OwingHappens ==
  ASSUME WindowsShape, Owing, NEW d \in BOOLEAN, Happens(d), UNCHANGED <<waited, deniedTold, untold>>
  PROVE  /\ \A e \in trace' : e \in [id : Nat, denied : BOOLEAN, age : Nat] /\ e.age <= MaxLatency
         /\ \A i \in owed' : \/ i \in untold' \/ deniedTold' > 0
                             \/ \E e \in trace' : e.id = i /\ e.denied /\ e.age >= waited'
         /\ owed \subseteq owed' /\ (d /\ child = Runs => traced \in owed')
<1> DEFINE n == [id |-> traced, denied |-> d, age |-> 0]
<1>1. n.id = traced /\ n.denied = d /\ n.age = 0 /\ n \in [id : Nat, denied : BOOLEAN, age : Nat]
  BY DEF WindowsShape
<1>2. /\ trace' = trace \cup {n}
      /\ owed' = IF d /\ child = Runs THEN owed \cup {traced} ELSE owed
  BY DEF Happens
<1> HIDE DEF n
<1>3. child = Runs => waited = 0
  BY DEF WindowsShape
<1>4. MaxLatency \in Nat
  BY WindowsAssumption
<1>5. \A e \in trace' : e \in [id : Nat, denied : BOOLEAN, age : Nat] /\ e.age <= MaxLatency
  BY <1>1, <1>2, <1>4 DEF Owing
<1>6. ASSUME NEW i \in owed'
      PROVE  i \in untold' \/ deniedTold' > 0 \/ \E e \in trace' : e.id = i /\ e.denied /\ e.age >= waited'
  <2>1. CASE i \in owed
    BY <2>1, <1>2 DEF Owing
  <2>2. CASE i \notin owed
    BY <2>2, <1>1, <1>2, <1>3
  <2> QED
    BY <2>1, <2>2
<1> QED
  BY <1>2, <1>5, <1>6

LEMMA OwingNext ==
  ASSUME WindowsShape, Owing, [WindowsNext]_windowsVars
  PROVE  Owing'
<1> USE WindowsAssumption DEF stepVars, EndsInError, RulesRemoved, RulesLinger, Matches
<1>1. ASSUME NEW answers \in [DenyRules -> SUBSET RemoteAddrs], StartTrace(answers)
      PROVE  Owing'
  <2>1. /\ phase' \in {"fencing", "spawning"} /\ phase = "starting"
        /\ tags' = UNION {answers[r] : r \in DenyRules}
        /\ \A r \in DenyRules : r.kind = "address" => answers[r] = r.covers
        /\ UNCHANGED <<trace, owed, untold, deniedTold, waited, passed>>
    BY <1>1 DEF StartTrace, TagLookups, Lookups
  <2>2. \A r \in DenyRules : r.kind = "address" => r.covers \subseteq tags'
    BY <2>1
  <2> QED
    BY <2>1, <2>2 DEF WindowsShape, Owing
<1>2. CASE \E r \in DenyRules, answers, added \in SUBSET RemoteAddrs : AddRule(r, answers, added)
  BY <1>2 DEF AddRule, WindowsShape, Owing
<1>3. CASE StartFails \/ Fenced \/ SpawnFails
  BY <1>3 DEF StartFails, Fenced, SpawnFails, WindowsShape, Owing
<1>12. CASE Spawn
  BY <1>12 DEF Spawn, WindowsShape, Owing
<1>4. CASE \E code \in ChildCodes : ChildEnds(code)
  BY <1>4 DEF ChildEnds, WindowsShape, Owing
<1>5. ASSUME NEW d \in BOOLEAN, Activity(d)
      PROVE  Owing'
  BY <1>5, OwingHappens DEF Activity, WindowsShape, Owing
<1>6. ASSUME NEW a \in RemoteAddrs, NEW p \in DestPorts, NEW proto \in Protocols, ChildConnects(a, p, proto)
      PROVE  Owing'
  <2> DEFINE n == [addr |-> a, port |-> p, proto |-> proto, id |-> traced]
             d == a \in tags
  <2>1. /\ passed' = passed \cup {n} /\ phase = "running" /\ child = Runs /\ Happens(d)
        /\ UNCHANGED <<settings, phase, child, waited, tags, deniedTold, untold, runExit>>
    BY <1>6 DEF ChildConnects, WindowsShape
  <2>2. n.addr = a /\ n.port = p /\ n.id = traced
    OBVIOUS
  <2>3. d \in BOOLEAN
    OBVIOUS
  <2> HIDE DEF n
  <2>4. /\ \A e \in trace' : e \in [id : Nat, denied : BOOLEAN, age : Nat] /\ e.age <= MaxLatency
        /\ \A i \in owed' : \/ i \in untold' \/ deniedTold' > 0
                            \/ \E e \in trace' : e.id = i /\ e.denied /\ e.age >= waited'
        /\ owed \subseteq owed' /\ (d => traced \in owed')
    BY <2>1, <2>3, OwingHappens
  <2>5. \A c \in passed' : \A r \in DenyRules : r.kind = "address" /\ Matches(r, c) => c.id \in owed'
    BY <2>1, <2>2, <2>4 DEF Owing
  <2> QED
    BY <2>1, <2>4, <2>5 DEF Owing
<1>7. ASSUME NEW e \in trace, Tell(e)
      PROVE  Owing'
  BY <1>7 DEF Tell, WindowsShape, Owing
<1>8. ASSUME NEW e \in trace, Lose(e)
      PROVE  Owing'
  BY <1>8 DEF Lose, WindowsShape, Owing
<1>9. CASE Poll
  <2>1. /\ phase = "draining" /\ waited' = waited + 1 /\ phase' \in {"draining", "reporting"}
        /\ UNCHANGED <<settings, tags, owed, untold, deniedTold, passed>>
        /\ phase' = "reporting" /\ settings.exec => deniedTold > 0 \/ waited' = DrainDeadline
    BY <1>9 DEF Poll, Limit
  <2>2. \A e \in trace : e.age < MaxLatency
    BY <1>9 DEF Poll
  <2> DEFINE Older(e) == [e EXCEPT !.age = @ + 1]
  <2>3. trace' = {Older(e) : e \in trace}
    BY <1>9 DEF Poll
  <2>4. \A e \in trace : Older(e).id = e.id /\ Older(e).denied = e.denied /\ Older(e).age = e.age + 1
    BY WindowsAssumption DEF Owing
  <2> HIDE DEF Older
  <2>9. \A e \in trace : Older(e) \in [id : Nat, denied : BOOLEAN, age : Nat]
    BY DEF Owing, Older
  <2>5. \A e \in trace' : e \in [id : Nat, denied : BOOLEAN, age : Nat] /\ e.age <= MaxLatency
    BY <2>2, <2>3, <2>4, <2>9 DEF Owing
  <2>6. ASSUME NEW i \in owed, NEW e \in trace, e.id = i, e.denied, e.age >= waited
        PROVE  \E g \in trace' : g.id = i /\ g.denied /\ g.age >= waited'
    <3>1. Older(e) \in trace'
      BY <2>3
    <3>2. Older(e).age >= waited'
      BY <2>1, <2>4, <2>6 DEF Owing, WindowsShape
    <3> QED
      BY <2>4, <2>6, <3>1, <3>2
  <2>7. \A i \in owed' : \/ i \in untold' \/ deniedTold' > 0
                          \/ \E e \in trace' : e.id = i /\ e.denied /\ e.age >= waited'
    BY <2>1, <2>6 DEF Owing
  <2> QED
    BY <2>1, <2>5, <2>7 DEF Owing
<1>10. CASE Report \/ ReportFails
  BY <1>10 DEF Report, ReportFails, WindowsShape, Owing
<1>11. CASE UNCHANGED windowsVars
  BY <1>11 DEF windowsVars, Owing
<1> QED
  BY <1>1, <1>2, <1>3, <1>4, <1>5, <1>6, <1>7, <1>8, <1>9, <1>10, <1>11, <1>12, WindowsCases

LEMMA WindowsInductive == WindowsSpec => []WindowsInv
<1>1. WindowsInit => WindowsInv
  BY DEF WindowsInit, WindowsInv, WindowsShape, Fences, Owing, DeniedIsFenced, Unset, Runs
<1>2. WindowsInv /\ [WindowsNext]_windowsVars => WindowsInv'
  BY WindowsShapeNext, FencesNext, DeniedIsFencedNext, OwingNext DEF WindowsInv
<1> QED
  BY <1>1, <1>2, PTL DEF WindowsSpec

THEOREM WindowsAreFenced == WindowsSpec => []WindowsHolds
<1>1. WindowsInv => RulesAfterwards
  BY DEF WindowsInv, WindowsShape, Fences, RulesAfterwards
<1>2. WindowsInv => DeniedFailsRun
  BY WindowsAssumption DEF WindowsInv, WindowsShape, Owing, DeniedFailsRun
<1> QED
  BY <1>1, <1>2, WindowsInductive, PTL DEF WindowsInv, WindowsHolds

-----------------------------------------------------------------------------
(* The processes: pid 1 and the supervisor are always there, and no process  *)
(* has a parent that has exited.                                             *)
AnyProgram == Programs \cup {"init", "sakimori", Gone}
Kernel ==
  /\ procs \in [program : [Pids -> AnyProgram], parent : [Pids -> Pids \cup {NoPid}], exited : SUBSET Pids]
  /\ procs.program[ReaperPid] = "init" /\ procs.program[SupervisorPid] = "sakimori"
  /\ procs.parent[ReaperPid] = NoPid /\ procs.parent[SupervisorPid] = ReaperPid
  /\ procs.exited \subseteq Alive \ {ReaperPid, SupervisorPid}
  /\ \A q \in Pids : procs.parent[q] # NoPid => procs.parent[q] \in Running

(* What a step does to the processes.                                        *)
Others(p) == \A r \in Pids \ {p} : procs'.program[r] = procs.program[r] /\ procs'.parent[r] = procs.parent[r]
ProcType == [program : [Pids -> AnyProgram], parent : [Pids -> Pids \cup {NoPid}], exited : SUBSET Pids]

LEMMA ForkEffect ==
  ASSUME Kernel, NEW p \in Pids, NEW q \in Pids, ForkProcess(p, q)
  PROVE  /\ procs' \in ProcType /\ p \in Running /\ q \notin Alive
         /\ procs'.program[q] = procs.program[p] /\ procs'.parent[q] = p
         /\ Others(q) /\ procs'.exited = procs.exited
<1>1. procs' = [program |-> [procs.program EXCEPT ![q] = procs.program[p]],
                parent |-> [procs.parent EXCEPT ![q] = p], exited |-> procs.exited]
  BY DEF ForkProcess, Kernel
<1>2. p \in Running /\ q \notin Alive
  BY DEF ForkProcess
<1> QED
  BY <1>1, <1>2 DEF Kernel, ProcType, Others

LEMMA ExecuteEffect ==
  ASSUME Kernel, NEW p \in Pids, NEW g \in Programs, Execute(p, g)
  PROVE  /\ procs' \in ProcType /\ p \in Running \ {ReaperPid, SupervisorPid}
         /\ procs'.program[p] = g /\ procs'.parent = procs.parent
         /\ Others(p) /\ procs'.exited = procs.exited
<1>1. procs' = [program |-> [procs.program EXCEPT ![p] = g], parent |-> procs.parent, exited |-> procs.exited]
  BY DEF Execute, Kernel
<1>2. p \in Running \ {ReaperPid, SupervisorPid}
  BY DEF Execute
<1> QED
  BY <1>1, <1>2 DEF Kernel, ProcType, Others, AnyProgram

LEMMA ExitEffect ==
  ASSUME Kernel, NEW p \in Pids, Exit(p)
  PROVE  /\ procs' \in ProcType /\ p \in Running \ {ReaperPid, SupervisorPid}
         /\ procs'.program = procs.program /\ procs'.exited = procs.exited \cup {p}
         /\ \A r \in Pids : procs'.parent[r] = IF procs.parent[r] = p THEN ReaperPid ELSE procs.parent[r]
<1>1. procs' = [program |-> procs.program,
                parent |-> [r \in Pids |-> IF procs.parent[r] = p THEN ReaperPid ELSE procs.parent[r]],
                exited |-> procs.exited \cup {p}]
  BY DEF Exit, Kernel
<1>2. p \in Running \ {ReaperPid, SupervisorPid}
  BY DEF Exit
<1> QED
  BY <1>1, <1>2, AttributionAssumption DEF Kernel, ProcType

LEMMA ReapEffect ==
  ASSUME Kernel, NEW p \in Pids, Reap(p)
  PROVE  /\ procs' \in ProcType /\ p \in procs.exited
         /\ procs'.program[p] = Gone /\ procs'.parent[p] = NoPid
         /\ Others(p) /\ procs'.exited = procs.exited \ {p}
<1>1. procs' = [program |-> [procs.program EXCEPT ![p] = Gone], parent |-> [procs.parent EXCEPT ![p] = NoPid],
                exited |-> procs.exited \ {p}]
  BY DEF Reap, Kernel
<1>2. p \in procs.exited
  BY DEF Reap
<1> QED
  BY <1>1, <1>2 DEF Kernel, ProcType, Others, AnyProgram

(* What it does to the memory of the moment of the event.                    *)
HistoryType == [procs : ProcType, elders : SUBSET Pids, ran : SUBSET AnyProgram,
                disturbed : SUBSET Pids, reused : BOOLEAN]
Moment == history'.procs = history.procs /\ history'.elders = history.elders

LEMMA ForkHistory ==
  ASSUME history \in HistoryType, NEW p \in Pids, NEW q \in Pids, ForkProcess(p, q)
  PROVE  /\ history' \in HistoryType /\ Moment
         /\ history'.ran = history.ran /\ history'.disturbed = history.disturbed
         /\ history'.reused <=> history.reused \/ q \in history.elders
<1> DEFINE u == history.reused \/ q \in history.elders
<1>1. history' = [history EXCEPT !.reused = u] /\ u \in BOOLEAN
  BY DEF ForkProcess
<1> HIDE DEF u
<1>2. history' = [procs |-> history.procs, elders |-> history.elders, ran |-> history.ran,
                  disturbed |-> history.disturbed, reused |-> u]
  BY <1>1 DEF HistoryType
<1>3. history' \in HistoryType
  BY <1>1, <1>2 DEF HistoryType
<1>4. history'.reused = u
  BY <1>2
<1> QED
  BY <1>2, <1>3, <1>4 DEF Moment, u

LEMMA DisturbHistory ==
  ASSUME history \in HistoryType, NEW p \in Pids
  PROVE  Disturb(p) = [procs |-> history.procs, elders |-> history.elders, ran |-> history.ran,
                       disturbed |-> IF p \in history.elders THEN history.disturbed \cup {p}
                                     ELSE history.disturbed,
                       reused |-> history.reused]
BY DEF HistoryType, Disturb

LEMMA ExecuteHistory ==
  ASSUME history \in HistoryType, NEW p \in Pids, NEW g \in Programs, Execute(p, g)
  PROVE  /\ history' \in HistoryType /\ Moment /\ history'.reused = history.reused
         /\ history'.disturbed = IF p \in history.elders THEN history.disturbed \cup {p} ELSE history.disturbed
         /\ history'.ran = IF p \in history.elders THEN history.ran \cup {g} ELSE history.ran
<1> DEFINE d == IF p \in history.elders THEN history.disturbed \cup {p} ELSE history.disturbed
           r == IF p \in history.elders THEN history.ran \cup {g} ELSE history.ran
<1>1. history' = [Disturb(p) EXCEPT !.ran = IF p \in history.elders THEN @ \cup {g} ELSE @]
  BY DEF Execute
<1>2. d \in SUBSET Pids /\ r \in SUBSET AnyProgram
  BY DEF HistoryType, AnyProgram
<1>3. history' = [procs |-> history.procs, elders |-> history.elders, ran |-> r,
                  disturbed |-> d, reused |-> history.reused]
  <2>1. PICK b : b = Disturb(p)
    OBVIOUS
  <2>2. b = [procs |-> history.procs, elders |-> history.elders, ran |-> history.ran,
             disturbed |-> d, reused |-> history.reused]
    BY <2>1, DisturbHistory
  <2>3. history' = [b EXCEPT !.ran = r]
    <3>1. b.ran = history.ran
      BY <2>2
    <3>2. history' = [b EXCEPT !.ran = IF p \in history.elders THEN b.ran \cup {g} ELSE b.ran]
      BY <1>1, <2>1
    <3> QED
      BY <3>1, <3>2
  <2> HIDE DEF d, r
  <2> QED
    BY <2>2, <2>3
<1> HIDE DEF d, r
<1>4. history' \in HistoryType
  BY <1>2, <1>3 DEF HistoryType
<1> QED
  BY <1>3, <1>4 DEF Moment, d, r

LEMMA ExitHistory ==
  ASSUME history \in HistoryType, NEW p \in Pids, Exit(p)
  PROVE  /\ history' \in HistoryType /\ Moment /\ history'.reused = history.reused
         /\ history'.disturbed = IF p \in history.elders THEN history.disturbed \cup {p} ELSE history.disturbed
         /\ history'.ran = history.ran
<1> DEFINE d == IF p \in history.elders THEN history.disturbed \cup {p} ELSE history.disturbed
<1>1. history' = [procs |-> history.procs, elders |-> history.elders, ran |-> history.ran,
                  disturbed |-> d, reused |-> history.reused]
  BY DisturbHistory DEF Exit
<1>2. d \in SUBSET Pids
  BY DEF HistoryType
<1> HIDE DEF d
<1>3. history' \in HistoryType
  BY <1>1, <1>2 DEF HistoryType
<1> QED
  BY <1>1, <1>3 DEF Moment, d

(* What the event adds to it.                                                *)
LEMMA RaiseHistory ==
  ASSUME Kernel, NEW p \in Pids, NEW h \in Hosts, Raise(p, h)
  PROVE  /\ history' \in HistoryType /\ history'.procs = procs
         /\ history'.elders = Above(p) \cup {ReaperPid}
         /\ history'.ran = {procs.program[q] : q \in Above(p) \cup {ReaperPid}}
         /\ history'.disturbed = {} /\ history'.reused = FALSE
<1> DEFINE e == Above(p) \cup {ReaperPid}
           n == {procs.program[q] : q \in e}
<1>1. history' = [procs |-> procs, elders |-> e, ran |-> n, disturbed |-> {}, reused |-> FALSE]
  BY DEF Raise
<1>2. e \subseteq Pids
  BY AttributionAssumption DEF Above
<1> HIDE DEF e
<1>3. n \subseteq AnyProgram /\ procs \in ProcType
  BY <1>2 DEF Kernel, ProcType
<1> HIDE DEF n
<1>4. history' \in HistoryType
  BY <1>1, <1>2, <1>3 DEF HistoryType
<1> QED
  BY <1>1, <1>4 DEF e, n

LEMMA AttributionCases ==
  ASSUME [AttributionNext]_attributionVars
  PROVE  \/ \E p, q \in Pids : ForkProcess(p, q)
         \/ \E p \in Pids, g \in Programs : Execute(p, g)
         \/ \E p \in Pids : Exit(p)
         \/ \E p \in Pids : Reap(p)
         \/ \E p \in Pids, h \in Hosts : Raise(p, h)
         \/ Begin \/ ReadParent \/ ReadCmdline
         \/ UNCHANGED attributionVars
BY DEF AttributionNext

LEMMA KernelNext ==
  ASSUME Kernel, [AttributionNext]_attributionVars
  PROVE  Kernel'
<1> USE AttributionAssumption
<1>1. ASSUME NEW p \in Pids, NEW q \in Pids, ForkProcess(p, q)
      PROVE  Kernel'
  BY <1>1, ForkEffect DEF Kernel, Others, ProcType, Alive, Running
<1>2. ASSUME NEW p \in Pids, NEW g \in Programs, Execute(p, g)
      PROVE  Kernel'
  BY <1>2, ExecuteEffect DEF Kernel, Others, ProcType, Alive, Running
<1>3. ASSUME NEW p \in Pids, Exit(p)
      PROVE  Kernel'
  BY <1>3, ExitEffect DEF Kernel, ProcType, Alive, Running
<1>4. ASSUME NEW p \in Pids, Reap(p)
      PROVE  Kernel'
  BY <1>4, ReapEffect DEF Kernel, Others, ProcType, Alive, Running
<1>5. CASE UNCHANGED procs
  BY <1>5 DEF Kernel, Alive, Running
<1> QED
  BY <1>1, <1>2, <1>3, <1>4, <1>5, AttributionCases DEF Raise, Begin, ReadParent, ReadCmdline, attributionVars

(* What was kept of the moment of the event.                                 *)
Raised == event # NoEvent
Tree ==
  Raised =>
    /\ event.pid \in history.elders \ {ReaperPid, SupervisorPid} /\ history.elders \subseteq Pids
    /\ ReaperPid \in history.elders
    /\ \A p \in history.elders : history.procs.parent[p] \in history.elders \cup {NoPid}
    /\ \A s \in SUBSET Pids :
         event.pid \in s /\ ReaperPid \in s /\ (\A r \in s : history.procs.parent[r] \in s \cup {NoPid})
           => history.elders \subseteq s
    /\ history.procs.program[ReaperPid] = "init"
    /\ history.procs.parent[ReaperPid] = NoPid /\ history.procs.parent[SupervisorPid] = ReaperPid

(* As long as none of the elders is disturbed they are as they were.         *)
Still ==
  Raised /\ history.disturbed = {} =>
    \A p \in history.elders :
      /\ p \in Running
      /\ procs.program[p] = history.procs.program[p] /\ procs.parent[p] = history.procs.parent[p]

(* As long as no pid of theirs is used again, their parents are elders, and  *)
(* what they run is on record.                                               *)
Family ==
  Raised /\ ~history.reused =>
    \A p \in history.elders :
      procs.parent[p] \in history.elders \cup {NoPid} /\ procs.program[p] \in history.ran \cup {Gone}

(* The walk, as far as it is: of elders, and of the chain at the event.      *)
Links == [pid : Pids, program : AnyProgram]
WalkType ==
  [at : {"waiting", "parent", "cmdline", "done"}, chain : Seq(Links), next : Pids \cup {NoPid}]
WalkShape ==
  /\ walk \in WalkType
  /\ ~Raised => walk.at = "waiting"
  /\ walk.at = "waiting" => walk.chain = <<>>
  /\ walk.at \in {"parent", "cmdline"} => walk.chain # <<>>
  /\ walk.at = "cmdline" => walk.next \in Pids

OfElders ==
  ~history.reused =>
    /\ \A k \in 1 .. Len(walk.chain) :
         walk.chain[k].pid \in history.elders /\ walk.chain[k].program \in history.ran
    /\ walk.at = "cmdline" => walk.next \in history.elders

Along(c) ==
  /\ Len(c) >= 1 /\ Len(c) <= MaxDepth + 1 /\ c[1].pid = event.pid
  /\ \A k \in 1 .. Len(c) : c[k].pid \in history.elders /\ c[k].program = history.procs.program[c[k].pid]
  /\ \A k \in 1 .. Len(c) - 1 :
       /\ c[k + 1].pid = history.procs.parent[c[k].pid]
       /\ history.procs.parent[c[k].pid] # SupervisorPid

UpFrom(c) == history.procs.parent[c[Len(c)].pid]

ChainThen ==
  history.disturbed = {} /\ walk.at # "waiting" =>
    /\ Along(walk.chain)
    /\ walk.at = "cmdline" =>
         walk.next = UpFrom(walk.chain) /\ walk.next \notin {SupervisorPid, NoPid} /\ Len(walk.chain) <= MaxDepth
    /\ walk.at = "done" => UpFrom(walk.chain) \in {SupervisorPid, NoPid} \/ Len(walk.chain) = MaxDepth + 1

LEMMA AlongGoesOn ==
  ASSUME NEW c \in Seq(Links), NEW l \in Links, Along(c), Len(c) <= MaxDepth,
         l.pid = UpFrom(c), l.pid # SupervisorPid, l.pid \in history.elders,
         l.program = history.procs.program[l.pid]
  PROVE  Along(Append(c, l))
<1> DEFINE d == Append(c, l)
           n == Len(c)
<1>1. n \in Nat /\ n >= 1 /\ MaxDepth \in Nat
  BY AttributionAssumption DEF Along
<1>2. Len(d) = n + 1 /\ d[n + 1] = l /\ \A k \in 1 .. n : d[k] = c[k]
  OBVIOUS
<1> HIDE DEF d
<1>3. d[1].pid = event.pid
  BY <1>1, <1>2 DEF Along
<1>4. ASSUME NEW k \in 1 .. n + 1
      PROVE  d[k].pid \in history.elders /\ d[k].program = history.procs.program[d[k].pid]
  <2>1. CASE k = n + 1
    BY <1>2, <2>1
  <2>2. CASE k # n + 1
    <3>1. k \in 1 .. n
      BY <1>1, <2>2
    <3> QED
      BY <1>2, <3>1 DEF Along
  <2> QED
    BY <2>1, <2>2
<1>5. ASSUME NEW k \in 1 .. n
      PROVE  /\ d[k + 1].pid = history.procs.parent[d[k].pid]
             /\ history.procs.parent[d[k].pid] # SupervisorPid
  <2>1. CASE k = n
    BY <1>1, <1>2, <2>1 DEF UpFrom
  <2>2. CASE k # n
    <3>1. k \in 1 .. n - 1 /\ k + 1 \in 1 .. n /\ k \in 1 .. n
      BY <1>1, <2>2
    <3> QED
      BY <1>2, <3>1 DEF Along
  <2> QED
    BY <2>1, <2>2
<1>6. Along(d)
  BY <1>1, <1>2, <1>3, <1>4, <1>5 DEF Along
<1> QED
  BY <1>6 DEF d

LEMMA HistoryNext ==
  ASSUME Kernel, history \in HistoryType, [AttributionNext]_attributionVars
  PROVE  history' \in HistoryType
BY ForkHistory, ExecuteHistory, ExitHistory, RaiseHistory, AttributionCases
   DEF Reap, Begin, ReadParent, ReadCmdline, attributionVars

(* The ancestors of a process are there and none has exited, and each has    *)
(* its parent among them.                                                    *)
LEMMA AboveIsClosed ==
  ASSUME Kernel, NEW p \in Running, p \in Pids
  PROVE  /\ p \in Above(p) /\ Above(p) \subseteq Running
         /\ \A q \in Above(p) : procs.parent[q] \in Above(p) \cup {NoPid}
<1>1. \A q \in Pids : procs.parent[q] \in Pids \cup {NoPid}
  BY DEF Kernel
<1>2. Running \in SUBSET Pids /\ \A r \in Running : procs.parent[r] \in Running \cup {NoPid}
  BY DEF Kernel, Running, Alive
<1>3. Above(p) \subseteq Running
  BY <1>2 DEF Above
<1>4. \A q \in Above(p) : procs.parent[q] \in Above(p) \cup {NoPid}
  BY <1>1 DEF Above
<1> QED
  BY <1>3, <1>4 DEF Above

LEMMA TreeNext ==
  ASSUME Kernel, history \in HistoryType, Tree, [AttributionNext]_attributionVars
  PROVE  Tree'
<1>1. ASSUME UNCHANGED event, Moment
      PROVE  Tree'
  BY <1>1 DEF Tree, Raised, Moment
<1>2. ASSUME NEW p \in Pids, NEW h \in Hosts, Raise(p, h)
      PROVE  Tree'
  <2>1. p \in Running \ {ReaperPid, SupervisorPid} /\ event'.pid = p
    BY <1>2 DEF Raise
  <2>2. /\ history'.procs = procs /\ history'.elders = Above(p) \cup {ReaperPid}
    BY <1>2, RaiseHistory
  <2>3. /\ p \in Above(p) /\ Above(p) \subseteq Pids
        /\ \A q \in Above(p) : procs.parent[q] \in Above(p) \cup {NoPid}
    BY <2>1, AboveIsClosed DEF Running, Alive
  <2>4. \A s \in SUBSET Pids :
          p \in s /\ (\A r \in s : procs.parent[r] \in s \cup {NoPid}) => Above(p) \subseteq s
    BY DEF Above
  <2>5. /\ procs.program[ReaperPid] = "init" /\ procs.parent[ReaperPid] = NoPid
        /\ procs.parent[SupervisorPid] = ReaperPid /\ ReaperPid \in Pids
    BY AttributionAssumption DEF Kernel
  <2> QED
    BY <2>1, <2>2, <2>3, <2>4, <2>5 DEF Tree
<1> QED
  BY <1>1, <1>2, ForkHistory, ExecuteHistory, ExitHistory, AttributionCases
     DEF ForkProcess, Execute, Exit, Reap, Change, Begin, ReadParent, ReadCmdline, attributionVars, Moment

LEMMA StillNext ==
  ASSUME Kernel, history \in HistoryType, Tree, Still, [AttributionNext]_attributionVars
  PROVE  Still'
<1> USE DEF Still, Running, Alive, Moment, Raised
<1>0. history.elders \in SUBSET Pids
  BY DEF HistoryType
<1>1. ASSUME NEW p \in Pids, NEW q \in Pids, ForkProcess(p, q)
      PROVE  Still'
  <2>1. UNCHANGED event
    BY <1>1 DEF ForkProcess, Change
  <2> QED
    BY <1>0, <1>1, <2>1, ForkEffect, ForkHistory DEF Others
<1>2. ASSUME NEW p \in Pids, NEW g \in Programs, Execute(p, g)
      PROVE  Still'
  <2>1. UNCHANGED event
    BY <1>2 DEF Execute, Change
  <2>2. history'.disturbed = {} => history.disturbed = {} /\ p \notin history.elders
    BY <1>2, ExecuteHistory
  <2>3. /\ procs'.parent = procs.parent /\ procs'.exited = procs.exited /\ Others(p)
        /\ history'.procs = history.procs /\ history'.elders = history.elders
    BY <1>2, ExecuteEffect, ExecuteHistory
  <2> QED
    BY <1>0, <2>1, <2>2, <2>3 DEF Others
<1>3. ASSUME NEW p \in Pids, Exit(p)
      PROVE  Still'
  <2>1. UNCHANGED event
    BY <1>3 DEF Exit, Change
  <2>2. history'.disturbed = {} => history.disturbed = {} /\ p \notin history.elders
    BY <1>3, ExitHistory
  <2>3. Raised => \A q \in history.elders : history.procs.parent[q] \in history.elders \cup {NoPid}
    BY DEF Tree
  <2> QED
    BY <1>0, <1>3, <2>1, <2>2, <2>3, ExitEffect, ExitHistory, AttributionAssumption
<1>4. ASSUME NEW p \in Pids, Reap(p)
      PROVE  Still'
  <2>1. UNCHANGED <<event, history>>
    BY <1>4 DEF Reap, Change
  <2> QED
    BY <1>0, <1>4, <2>1, ReapEffect DEF Others
<1>5. ASSUME NEW p \in Pids, NEW h \in Hosts, Raise(p, h)
      PROVE  Still'
  <2>1. p \in Running /\ UNCHANGED procs
    BY <1>5 DEF Raise
  <2>2. history'.procs = procs /\ history'.elders = Above(p) \cup {ReaperPid}
    BY <1>5, RaiseHistory
  <2>3. Above(p) \cup {ReaperPid} \subseteq Running
    BY <2>1, AboveIsClosed, AttributionAssumption DEF Kernel
  <2> QED
    BY <2>1, <2>2, <2>3
<1>6. CASE UNCHANGED <<procs, event, history>>
  BY <1>6
<1> QED
  BY <1>1, <1>2, <1>3, <1>4, <1>5, <1>6, AttributionCases DEF Begin, ReadParent, ReadCmdline, attributionVars

LEMMA FamilyNext ==
  ASSUME Kernel, history \in HistoryType, Tree, Family, [AttributionNext]_attributionVars
  PROVE  Family'
<1> USE DEF Family, Moment, Raised
<1>0. history.elders \in SUBSET Pids /\ (Raised => ReaperPid \in history.elders)
  BY DEF HistoryType, Tree
<1>1. ASSUME NEW p \in Pids, NEW q \in Pids, ForkProcess(p, q)
      PROVE  Family'
  <2>1. UNCHANGED event
    BY <1>1 DEF ForkProcess, Change
  <2> QED
    BY <1>0, <1>1, <2>1, ForkEffect, ForkHistory DEF Others
<1>2. ASSUME NEW p \in Pids, NEW g \in Programs, Execute(p, g)
      PROVE  Family'
  <2>1. UNCHANGED event
    BY <1>2 DEF Execute, Change
  <2>2. /\ procs'.parent = procs.parent /\ procs'.program[p] = g /\ Others(p)
        /\ history'.elders = history.elders /\ history'.reused = history.reused
    BY <1>2, ExecuteEffect, ExecuteHistory
  <2>3. history'.ran = IF p \in history.elders THEN history.ran \cup {g} ELSE history.ran
    BY <1>2, ExecuteHistory
  <2> QED
    BY <1>0, <2>1, <2>2, <2>3 DEF Others
<1>3. ASSUME NEW p \in Pids, Exit(p)
      PROVE  Family'
  <2>1. UNCHANGED event
    BY <1>3 DEF Exit, Change
  <2> QED
    BY <1>0, <1>3, <2>1, ExitEffect, ExitHistory
<1>4. ASSUME NEW p \in Pids, Reap(p)
      PROVE  Family'
  <2>1. UNCHANGED <<event, history>>
    BY <1>4 DEF Reap, Change
  <2> QED
    BY <1>0, <1>4, <2>1, ReapEffect DEF Others
<1>5. ASSUME NEW p \in Pids, NEW h \in Hosts, Raise(p, h)
      PROVE  Family'
  <2>1. p \in Running /\ UNCHANGED procs
    BY <1>5 DEF Raise
  <2>2. /\ history'.elders = Above(p) \cup {ReaperPid}
        /\ history'.ran = {procs.program[q] : q \in Above(p) \cup {ReaperPid}}
    BY <1>5, RaiseHistory
  <2>3. /\ \A q \in Above(p) : procs.parent[q] \in Above(p) \cup {NoPid}
        /\ procs.parent[ReaperPid] = NoPid
    BY <2>1, AboveIsClosed DEF Kernel, Running, Alive
  <2> QED
    BY <2>1, <2>2, <2>3
<1>6. CASE UNCHANGED <<procs, event, history>>
  BY <1>6
<1> QED
  BY <1>1, <1>2, <1>3, <1>4, <1>5, <1>6, AttributionCases DEF Begin, ReadParent, ReadCmdline, attributionVars

(* The steps of the walk.                                                    *)
LEMMA BeginEffect ==
  ASSUME WalkShape, Begin
  PROVE  /\ UNCHANGED <<procs, event, history>> /\ walk.at = "waiting" /\ Raised
         /\ \/ /\ event.pid \in Alive
               /\ walk' = [at |-> "parent", chain |-> <<Link(event.pid)>>, next |-> walk.next]
            \/ /\ event.pid \notin Alive
               /\ walk' = [at |-> "done", chain |-> walk.chain, next |-> walk.next]
BY DEF WalkShape, WalkType, Begin, Raised

LEMMA WalkFields ==
  ASSUME WalkShape, NEW p
  PROVE  /\ [walk EXCEPT !.at = "done"] = [at |-> "done", chain |-> walk.chain, next |-> walk.next]
         /\ [walk EXCEPT !.at = "cmdline", !.next = p] = [at |-> "cmdline", chain |-> walk.chain, next |-> p]
<1>1. PICK s : s = Seq(Links)
  OBVIOUS
<1>2. walk \in [at : {"waiting", "parent", "cmdline", "done"}, chain : s, next : Pids \cup {NoPid}]
  BY <1>1 DEF WalkShape, WalkType
<1>3. walk = [at |-> walk.at, chain |-> walk.chain, next |-> walk.next]
  BY <1>2
<1>4. [walk EXCEPT !.at = "done"] = [at |-> "done", chain |-> walk.chain, next |-> walk.next]
  BY <1>3
<1>5. [walk EXCEPT !.at = "cmdline", !.next = p] = [at |-> "cmdline", chain |-> walk.chain, next |-> p]
  <2>1. PICK w : w = [walk EXCEPT !.at = "cmdline"]
    OBVIOUS
  <2>2. w = [at |-> "cmdline", chain |-> walk.chain, next |-> walk.next]
    BY <1>3, <2>1
  <2>3. [w EXCEPT !.next = p] = [at |-> "cmdline", chain |-> walk.chain, next |-> p]
    BY <2>2
  <2> QED
    BY <2>1, <2>3, Zenon
<1> QED
  BY <1>4, <1>5

LEMMA ParentEffect ==
  ASSUME WalkShape, ReadParent
  PROVE  LET p == procs.parent[walk.chain[Len(walk.chain)].pid]
         IN /\ UNCHANGED <<procs, event, history>> /\ walk.at = "parent"
            /\ \/ /\ Len(walk.chain) > MaxDepth \/ p \in {SupervisorPid, NoPid}
                  /\ walk' = [at |-> "done", chain |-> walk.chain, next |-> walk.next]
               \/ /\ ~(Len(walk.chain) > MaxDepth) /\ p \notin {SupervisorPid, NoPid}
                  /\ walk' = [at |-> "cmdline", chain |-> walk.chain, next |-> p]
<1>1. PICK p : p = procs.parent[walk.chain[Len(walk.chain)].pid]
  OBVIOUS
<1>2. /\ walk.at = "parent" /\ UNCHANGED <<procs, event, history>>
      /\ walk' = IF Len(walk.chain) > MaxDepth \/ p \in {SupervisorPid, NoPid}
                 THEN [walk EXCEPT !.at = "done"] ELSE [walk EXCEPT !.at = "cmdline", !.next = p]
  BY <1>1 DEF ReadParent, Stops
<1>3. /\ [walk EXCEPT !.at = "done"] = [at |-> "done", chain |-> walk.chain, next |-> walk.next]
      /\ [walk EXCEPT !.at = "cmdline", !.next = p] = [at |-> "cmdline", chain |-> walk.chain, next |-> p]
  BY WalkFields
<1> QED
  BY <1>1, <1>2, <1>3

LEMMA CmdlineEffect ==
  ASSUME WalkShape, ReadCmdline
  PROVE  /\ UNCHANGED <<procs, event, history>> /\ walk.at = "cmdline"
         /\ \/ /\ walk.next \in Alive
               /\ walk' = [at |-> "parent", chain |-> Append(walk.chain, Link(walk.next)), next |-> walk.next]
            \/ /\ walk.next \notin Alive
               /\ walk' = [at |-> "done", chain |-> walk.chain, next |-> walk.next]
BY DEF WalkShape, WalkType, ReadCmdline

LEMMA LinksMade ==
  ASSUME Kernel, NEW p \in Alive
  PROVE  Link(p) \in Links /\ Link(p).pid = p /\ Link(p).program = procs.program[p] /\ Link(p).program # Gone
BY DEF Link, Links, Kernel, Alive

LEMMA WalkShapeNext ==
  ASSUME Kernel, WalkShape, [AttributionNext]_attributionVars
  PROVE  WalkShape'
<1>0. walk.chain \in Seq(Links) /\ walk.next \in Pids \cup {NoPid} /\ Alive \subseteq Pids
  BY DEF WalkShape, WalkType, Alive
<1>1. CASE Begin
  <2>1. CASE event.pid \in Alive
    <3>1. PICK l : l = Link(event.pid)
      OBVIOUS
    <3>2. l \in Links
      BY <2>1, <3>1, LinksMade
    <3>3. <<l>> \in Seq(Links) /\ <<l>> # <<>>
      BY <3>2
    <3>4. Raised' /\ walk' = [at |-> "parent", chain |-> <<l>>, next |-> walk.next]
      BY <1>1, <2>1, <3>1, BeginEffect DEF Raised
    <3> QED
      BY <1>0, <3>3, <3>4 DEF WalkShape, WalkType
  <2>2. CASE event.pid \notin Alive
    <3>1. Raised' /\ walk' = [at |-> "done", chain |-> walk.chain, next |-> walk.next]
      BY <1>1, <2>2, BeginEffect DEF Raised
    <3> QED
      BY <1>0, <3>1 DEF WalkShape, WalkType
  <2> QED
    BY <2>1, <2>2
<1>2. CASE ReadParent
  <2>1. PICK p : p = procs.parent[walk.chain[Len(walk.chain)].pid]
    OBVIOUS
  <2>2. walk.chain # <<>> /\ UNCHANGED <<procs, event, history>> /\ Raised
    BY <1>2, ParentEffect DEF WalkShape
  <2>3. walk.chain[Len(walk.chain)] \in Links
    BY <1>0, <2>2
  <2>4. p \in Pids \cup {NoPid}
    BY <2>1, <2>3 DEF Links, Kernel
  <2>5. \/ walk' = [at |-> "done", chain |-> walk.chain, next |-> walk.next]
        \/ p # NoPid /\ walk' = [at |-> "cmdline", chain |-> walk.chain, next |-> p]
    BY <1>2, <2>1, ParentEffect
  <2> QED
    BY <1>0, <2>2, <2>4, <2>5 DEF WalkShape, WalkType, Raised
<1>3. CASE ReadCmdline
  <2>1. UNCHANGED event /\ Raised
    BY <1>3, CmdlineEffect DEF WalkShape
  <2>2. CASE walk.next \in Alive
    <3>1. PICK l : l = Link(walk.next)
      OBVIOUS
    <3>2. l \in Links
      BY <2>2, <3>1, LinksMade
    <3>3. Append(walk.chain, l) \in Seq(Links) /\ Append(walk.chain, l) # <<>>
      BY <1>0, <3>2
    <3>4. PICK c : c = Append(walk.chain, l)
      OBVIOUS
    <3>5. walk' = [at |-> "parent", chain |-> c, next |-> walk.next]
      BY <1>3, <2>2, <3>1, <3>4, CmdlineEffect
    <3> QED
      BY <1>0, <2>1, <3>3, <3>4, <3>5 DEF WalkShape, WalkType, Raised
  <2>3. CASE walk.next \notin Alive
    <3>1. walk' = [at |-> "done", chain |-> walk.chain, next |-> walk.next]
      BY <1>3, <2>3, CmdlineEffect
    <3> QED
      BY <1>0, <2>1, <3>1 DEF WalkShape, WalkType, Raised
  <2> QED
    BY <2>2, <2>3
<1>4. ASSUME NEW p \in Pids, NEW h \in Hosts, Raise(p, h)
      PROVE  WalkShape'
  <2>1. ~Raised /\ UNCHANGED walk
    BY <1>4 DEF Raise, Raised
  <2> QED
    BY <2>1 DEF WalkShape
<1>5. CASE UNCHANGED <<event, walk>>
  BY <1>5 DEF WalkShape, Raised
<1> QED
  BY <1>1, <1>2, <1>3, <1>4, <1>5, AttributionCases DEF ForkProcess, Execute, Exit, Reap, Change, attributionVars

LEMMA OfEldersNext ==
  ASSUME Kernel, history \in HistoryType, Tree, Family, WalkShape, OfElders, [AttributionNext]_attributionVars
  PROVE  OfElders'
<1>0. walk.chain \in Seq(Links) /\ Len(walk.chain) \in Nat /\ Alive \subseteq Pids
  BY DEF WalkShape, WalkType, Alive
<1>1. CASE Begin
  <2>1. /\ UNCHANGED <<procs, event, history>> /\ Raised /\ walk.chain = <<>>
    BY <1>1, BeginEffect DEF WalkShape
  <2>2. CASE event.pid \in Alive
    <3>1. PICK l : l = Link(event.pid)
      OBVIOUS
    <3>2. l.pid = event.pid /\ l.program = procs.program[event.pid] /\ l.program # Gone
      BY <2>2, <3>1, LinksMade
    <3>3. walk'.chain = <<l>> /\ walk'.at = "parent"
      BY <1>1, <2>2, <3>1, BeginEffect
    <3>4. ~history.reused => event.pid \in history.elders /\ l.program \in history.ran
      BY <2>1, <3>2 DEF Tree, Family
    <3> QED
      BY <2>1, <3>2, <3>3, <3>4 DEF OfElders
  <2>3. CASE event.pid \notin Alive
    <3>1. walk'.chain = <<>> /\ walk'.at = "done"
      BY <1>1, <2>1, <2>3, BeginEffect
    <3> QED
      BY <2>1, <3>1 DEF OfElders
  <2> QED
    BY <2>2, <2>3
<1>2. CASE ReadParent
  <2>1. PICK p : p = procs.parent[walk.chain[Len(walk.chain)].pid]
    OBVIOUS
  <2>2. walk.chain # <<>> /\ UNCHANGED <<procs, event, history>> /\ Raised
    BY <1>2, ParentEffect DEF WalkShape
  <2>3. Len(walk.chain) \in 1 .. Len(walk.chain)
    BY <1>0, <2>2
  <2>4. ~history.reused => p \in history.elders \cup {NoPid}
    BY <2>1, <2>2, <2>3 DEF OfElders, Family
  <2>5. /\ walk'.chain = walk.chain
        /\ walk'.at = "done" \/ (p # NoPid /\ walk'.at = "cmdline" /\ walk'.next = p)
    BY <1>2, <2>1, ParentEffect
  <2> QED
    BY <2>2, <2>4, <2>5 DEF OfElders
<1>3. CASE ReadCmdline
  <2>1. UNCHANGED <<procs, event, history>> /\ Raised /\ walk.at = "cmdline"
    BY <1>3, CmdlineEffect DEF WalkShape
  <2>2. CASE walk.next \in Alive
    <3>1. PICK l : l = Link(walk.next)
      OBVIOUS
    <3>2. l \in Links /\ l.pid = walk.next /\ l.program = procs.program[walk.next] /\ l.program # Gone
      BY <2>2, <3>1, LinksMade
    <3>3. walk'.chain = Append(walk.chain, l) /\ walk'.at = "parent"
      BY <1>3, <2>2, <3>1, CmdlineEffect
    <3>4. ~history.reused => l.pid \in history.elders /\ l.program \in history.ran
      BY <2>1, <3>2 DEF OfElders, Family
    <3>5. \A k \in 1 .. Len(walk'.chain) :
            walk'.chain[k] = l \/ (k \in 1 .. Len(walk.chain) /\ walk'.chain[k] = walk.chain[k])
      BY <1>0, <3>2, <3>3
    <3> QED
      BY <2>1, <3>3, <3>4, <3>5 DEF OfElders
  <2>3. CASE walk.next \notin Alive
    <3>1. walk'.chain = walk.chain /\ walk'.at = "done"
      BY <1>3, <2>3, CmdlineEffect
    <3> QED
      BY <2>1, <3>1 DEF OfElders
  <2> QED
    BY <2>2, <2>3
<1>4. ASSUME NEW p \in Pids, NEW h \in Hosts, Raise(p, h)
      PROVE  OfElders'
  <2>1. walk.at = "waiting" /\ walk.chain = <<>> /\ UNCHANGED walk
    BY <1>4 DEF Raise, Raised, WalkShape
  <2> QED
    BY <2>1 DEF OfElders
<1>5. ASSUME UNCHANGED walk, Moment, history'.reused = FALSE => history.reused = FALSE,
             history.ran \subseteq history'.ran, history' \in HistoryType
      PROVE  OfElders'
  BY <1>5 DEF OfElders, Moment, HistoryType
<1>6. ASSUME NEW p \in Pids, NEW q \in Pids, ForkProcess(p, q)
      PROVE  OfElders'
  <2>1. UNCHANGED walk
    BY <1>6 DEF ForkProcess, Change
  <2>2. history'.reused = FALSE => history.reused = FALSE
    BY <1>6, ForkHistory DEF HistoryType
  <2> QED
    BY <1>5, <1>6, <2>1, <2>2, ForkHistory
<1>7. ASSUME NEW p \in Pids, NEW g \in Programs, Execute(p, g)
      PROVE  OfElders'
  <2>1. UNCHANGED walk
    BY <1>7 DEF Execute, Change
  <2> QED
    BY <1>5, <1>7, <2>1, ExecuteHistory
<1>8. ASSUME NEW p \in Pids, Exit(p)
      PROVE  OfElders'
  <2>1. UNCHANGED walk
    BY <1>8 DEF Exit, Change
  <2> QED
    BY <1>5, <1>8, <2>1, ExitHistory
<1>9. CASE UNCHANGED <<walk, history>>
  BY <1>9 DEF OfElders
<1> QED
  BY <1>1, <1>2, <1>3, <1>4, <1>6, <1>7, <1>8, <1>9, AttributionCases DEF Reap, Change, attributionVars

LEMMA ChainThenNext ==
  ASSUME Kernel, history \in HistoryType, Tree, Still, WalkShape, ChainThen, [AttributionNext]_attributionVars
  PROVE  ChainThen'
<1>0. /\ walk.chain \in Seq(Links) /\ Len(walk.chain) \in Nat /\ MaxDepth \in Nat
      /\ walk.at # "waiting" => Raised
  BY AttributionAssumption DEF WalkShape, WalkType
<1>1. CASE Begin
  <2> SUFFICES ASSUME history'.disturbed = {}
               PROVE  ChainThen'
    BY DEF ChainThen
  <2>1. UNCHANGED <<procs, event, history>> /\ Raised
    BY <1>1, BeginEffect
  <2>2. /\ event.pid \in history.elders /\ event.pid \in Alive
        /\ procs.program[event.pid] = history.procs.program[event.pid]
    BY <2>1 DEF Tree, Still, Running
  <2>3. PICK l : l = Link(event.pid)
    OBVIOUS
  <2>4. l.pid = event.pid /\ l.program = procs.program[event.pid]
    BY <2>2, <2>3, LinksMade
  <2>5. walk'.chain = <<l>> /\ walk'.at = "parent"
    BY <1>1, <2>2, <2>3, BeginEffect
  <2>6. Along(walk'.chain) /\ UNCHANGED <<event, history>>
    <3>1. Along(<<l>>)
      BY <1>0, <2>1, <2>2, <2>4 DEF Along
    <3> QED
      BY <2>1, <2>5, <3>1
  <2>7. Along(walk.chain)'
    BY <2>6 DEF Along
  <2> QED
    BY <2>5, <2>7 DEF ChainThen
<1>2. CASE ReadParent
  <2> SUFFICES ASSUME history'.disturbed = {}
               PROVE  ChainThen'
    BY DEF ChainThen
  <2>1. PICK p : p = procs.parent[walk.chain[Len(walk.chain)].pid]
    OBVIOUS
  <2>2. UNCHANGED <<procs, event, history>> /\ Raised /\ walk.at = "parent"
    BY <1>0, <1>2, ParentEffect
  <2>3. Len(walk.chain) \in 1 .. Len(walk.chain) /\ Len(walk.chain) <= MaxDepth + 1
    BY <1>0, <2>2 DEF ChainThen, Along
  <2>4. p = UpFrom(walk.chain) /\ Along(walk.chain)
    BY <2>1, <2>2, <2>3 DEF ChainThen, Still, Along, UpFrom
  <2>5. /\ walk'.chain = walk.chain
        /\ \/ walk'.at = "done" /\ (Len(walk.chain) > MaxDepth \/ p \in {SupervisorPid, NoPid})
           \/ /\ walk'.at = "cmdline" /\ walk'.next = p
              /\ ~(Len(walk.chain) > MaxDepth) /\ p \notin {SupervisorPid, NoPid}
    BY <1>2, <2>1, ParentEffect
  <2>6. Along(walk.chain)' /\ UpFrom(walk.chain)' = p
    BY <2>2, <2>4, <2>5 DEF Along, UpFrom
  <2>7. /\ walk'.at = "done" => Len(walk.chain) = MaxDepth + 1 \/ p \in {SupervisorPid, NoPid}
        /\ walk'.at = "cmdline" => walk'.next = p /\ p \notin {SupervisorPid, NoPid} /\ Len(walk.chain) <= MaxDepth
    BY <1>0, <2>3, <2>5
  <2> QED
    BY <2>5, <2>6, <2>7 DEF ChainThen
<1>3. CASE ReadCmdline
  <2> SUFFICES ASSUME history'.disturbed = {}
               PROVE  ChainThen'
    BY DEF ChainThen
  <2>1. UNCHANGED <<procs, event, history>> /\ Raised /\ walk.at = "cmdline"
    BY <1>0, <1>3, CmdlineEffect
  <2>2. /\ walk.next = UpFrom(walk.chain) /\ walk.next \notin {SupervisorPid, NoPid}
        /\ Len(walk.chain) <= MaxDepth /\ Along(walk.chain)
        /\ walk.chain[Len(walk.chain)].pid \in history.elders
    BY <1>0, <2>1 DEF ChainThen, Along
  <2>3. /\ walk.next \in history.elders /\ walk.next \in Alive
        /\ procs.program[walk.next] = history.procs.program[walk.next]
    BY <2>1, <2>2 DEF Tree, Still, Running, UpFrom
  <2>4. PICK l : l = Link(walk.next)
    OBVIOUS
  <2>5. l \in Links /\ l.pid = walk.next /\ l.program = procs.program[walk.next]
    BY <2>3, <2>4, LinksMade
  <2>6. walk'.chain = Append(walk.chain, l) /\ walk'.at = "parent"
    BY <1>3, <2>3, <2>4, CmdlineEffect
  <2>7. Along(walk'.chain)
    BY <1>0, <2>2, <2>3, <2>5, <2>6, AlongGoesOn
  <2>8. Along(walk.chain)'
    BY <2>1, <2>7 DEF Along
  <2> QED
    BY <2>6, <2>8 DEF ChainThen
<1>4. ASSUME UNCHANGED <<event, walk>>, Moment, history'.disturbed = {} => history.disturbed = {}
      PROVE  ChainThen'
  BY <1>4 DEF ChainThen, Moment, Along, UpFrom
<1>5. ASSUME NEW p \in Pids, NEW h \in Hosts, Raise(p, h)
      PROVE  ChainThen'
  <2>1. walk.at = "waiting" /\ UNCHANGED walk
    BY <1>5 DEF Raise, Raised, WalkShape
  <2> QED
    BY <2>1 DEF ChainThen
<1>6. ASSUME NEW p \in Pids, NEW q \in Pids, ForkProcess(p, q)
      PROVE  ChainThen'
  BY <1>4, <1>6, ForkHistory DEF ForkProcess, Change
<1>7. ASSUME NEW p \in Pids, NEW g \in Programs, Execute(p, g)
      PROVE  ChainThen'
  <2>1. history'.disturbed = {} => history.disturbed = {}
    BY <1>7, ExecuteHistory
  <2> QED
    BY <1>4, <1>7, <2>1, ExecuteHistory DEF Execute, Change
<1>8. ASSUME NEW p \in Pids, Exit(p)
      PROVE  ChainThen'
  <2>1. history'.disturbed = {} => history.disturbed = {}
    BY <1>8, ExitHistory
  <2> QED
    BY <1>4, <1>8, <2>1, ExitHistory DEF Exit, Change
<1>9. CASE UNCHANGED <<event, walk, history>>
  BY <1>9 DEF ChainThen, Along, UpFrom
<1> QED
  BY <1>1, <1>2, <1>3, <1>5, <1>6, <1>7, <1>8, <1>9, AttributionCases DEF Reap, Change, attributionVars

(* What the three parts of the property follow from.                         *)
AttributionInv ==
  Kernel /\ history \in HistoryType /\ Tree /\ Still /\ Family /\ WalkShape /\ OfElders /\ ChainThen

LEMMA AttributionBegins == AttributionInit => AttributionInv
<1> SUFFICES ASSUME AttributionInit
             PROVE  AttributionInv
  OBVIOUS
<1> USE AttributionAssumption
<1>1. /\ procs.program = [p \in Pids |-> CASE p = ReaperPid -> "init"
                                            [] p = SupervisorPid -> "sakimori"
                                            [] p = CommandPid -> Launched
                                            [] OTHER -> Gone]
      /\ procs.parent = [p \in Pids |-> CASE p = SupervisorPid -> ReaperPid
                                           [] p = CommandPid -> SupervisorPid
                                           [] OTHER -> NoPid]
      /\ procs.exited = {} /\ procs = [program |-> procs.program, parent |-> procs.parent, exited |-> {}]
  BY DEF AttributionInit
<1>2. /\ procs.program \in [Pids -> AnyProgram] /\ procs.parent \in [Pids -> Pids \cup {NoPid}]
      /\ procs.program[ReaperPid] = "init" /\ procs.program[SupervisorPid] = "sakimori"
      /\ procs.parent[ReaperPid] = NoPid /\ procs.parent[SupervisorPid] = ReaperPid
      /\ procs.program[CommandPid] = Launched
      /\ \A q \in Pids : procs.parent[q] \in {NoPid, ReaperPid, SupervisorPid}
  BY <1>1 DEF AnyProgram
<1>3. Kernel /\ procs \in ProcType
  <2>1. procs \in ProcType
    BY <1>1, <1>2 DEF ProcType
  <2>2. {ReaperPid, SupervisorPid} \subseteq Running
    BY <1>1, <1>2 DEF Running, Alive
  <2> QED
    BY <1>1, <1>2, <2>1, <2>2 DEF Kernel, ProcType
<1>4. ~Raised
  BY DEF AttributionInit, Raised
<1>5. history \in HistoryType /\ history.disturbed = {}
  BY <1>3 DEF AttributionInit, HistoryType
<1>6. walk = [at |-> "waiting", chain |-> <<>>, next |-> NoPid]
  BY DEF AttributionInit
<1>7. WalkShape
  BY <1>4, <1>6 DEF WalkShape, WalkType
<1> QED
  BY <1>3, <1>4, <1>5, <1>6, <1>7 DEF AttributionInv, Tree, Still, Family, OfElders, ChainThen

LEMMA TripwireByChain ==
  ASSUME AttributionInv
  PROVE  TripwireFires
<1> SUFFICES ASSUME walk.at = "done", history.disturbed = {}, IsSecret(event.host), Len(walk.chain) <= MaxDepth
             PROVE  Blamed # {} <=> \E q \in history.elders \ {ReaperPid, SupervisorPid} :
                                      history.procs.program[q] \in Managers
  BY DEF TripwireFires, Hit
<1> DEFINE c == walk.chain
           n == Len(c)
           up == history.procs.parent
           ran == history.procs.program
<1>0. Raised /\ n \in Nat /\ n \in 1 .. n
  BY DEF AttributionInv, WalkShape, WalkType, ChainThen, Along
<1>1. /\ event.pid = c[1].pid /\ event.pid \in history.elders \ {ReaperPid, SupervisorPid}
      /\ history.elders \subseteq Pids /\ ran[ReaperPid] = "init"
      /\ up[ReaperPid] = NoPid /\ up[SupervisorPid] = ReaperPid
  BY <1>0 DEF AttributionInv, Tree, ChainThen, Along
<1>2. /\ \A k \in 1 .. n : c[k].pid \in history.elders /\ c[k].program = ran[c[k].pid]
      /\ \A k \in 1 .. n - 1 : c[k + 1].pid = up[c[k].pid] /\ up[c[k].pid] # SupervisorPid
      /\ up[c[n].pid] \in {SupervisorPid, NoPid}
  BY <1>0, AttributionAssumption DEF AttributionInv, ChainThen, Along, UpFrom
<1>3. \A k \in 1 .. n : c[k].pid # SupervisorPid
  <2> SUFFICES ASSUME NEW k \in 1 .. n, c[k].pid = SupervisorPid
               PROVE  FALSE
    OBVIOUS
  <2>1. k # 1
    BY <1>1
  <2>2. k - 1 \in 1 .. n - 1 /\ (k - 1) + 1 = k
    BY <1>0, <2>1
  <2> QED
    BY <1>2, <2>2
<1>4. ASSUME NEW k \in Blamed
      PROVE  \E q \in history.elders \ {ReaperPid, SupervisorPid} : ran[q] \in Managers
  <2>1. k \in 1 .. n /\ c[k].program \in Managers
    BY DEF Blamed, AttributionInv, WalkShape, WalkType
  <2> QED
    BY <1>1, <1>2, <1>3, <2>1, AttributionAssumption
<1>5. ASSUME NEW q \in history.elders \ {ReaperPid, SupervisorPid}, ran[q] \in Managers
      PROVE  Blamed # {}
  <2> DEFINE s == {c[k].pid : k \in 1 .. n} \cup {SupervisorPid, ReaperPid}
  <2>1. s \in SUBSET Pids /\ event.pid \in s /\ ReaperPid \in s
    BY <1>0, <1>1, <1>2, AttributionAssumption
  <2>2. \A k \in 1 .. n : up[c[k].pid] \in s \cup {NoPid}
    <3> SUFFICES ASSUME NEW k \in 1 .. n
                 PROVE  up[c[k].pid] \in s \cup {NoPid}
      OBVIOUS
    <3>1. CASE k = n
      BY <1>2, <3>1
    <3>2. CASE k # n
      <4>1. k \in 1 .. n - 1 /\ k + 1 \in 1 .. n
        BY <1>0, <3>2
      <4> QED
        BY <1>2, <4>1
    <3> QED
      BY <3>1, <3>2
  <2>3. \A r \in s : up[r] \in s \cup {NoPid}
    BY <1>1, <2>2
  <2> HIDE DEF s
  <2>4. history.elders \subseteq s
    BY <1>0, <2>1, <2>3 DEF AttributionInv, Tree
  <2>5. PICK k \in 1 .. n : q = c[k].pid
    BY <1>5, <2>4 DEF s
  <2> DEFINE t == {j \in 1 .. n : c[j].program \in Managers}
  <2>6. t \in SUBSET Nat /\ k \in t
    BY <1>0, <1>2, <1>5, <2>5
  <2> HIDE DEF t
  <2>7. PICK x \in t : \A y \in t : x <= y
    BY <2>6, LeastOf
  <2>8. x \in 1 .. n /\ c[x].program \in Managers /\ \A j \in 1 .. x - 1 : j \in 1 .. n /\ j \notin t
    BY <1>0, <2>6, <2>7 DEF t
  <2>9. \A j \in 1 .. x - 1 : c[j].program \notin Managers
    BY <2>8 DEF t
  <2>10. x \in DOMAIN walk.chain
    BY <2>8 DEF AttributionInv, WalkShape, WalkType
  <2> QED
    BY <2>8, <2>9, <2>10 DEF Blamed
<1> QED
  BY <1>4, <1>5

LEMMA AttributionFollows == AttributionInv => AttributionHolds
<1> SUFFICES ASSUME AttributionInv
             PROVE  AttributionHolds
  OBVIOUS
<1>1. DOMAIN walk.chain = 1 .. Len(walk.chain)
  BY DEF AttributionInv, WalkShape, WalkType
<1>2. BlamesAnElder
  BY <1>1 DEF AttributionInv, OfElders, BlamesAnElder, Blamed
<1>3. FollowsTheTree
  BY DEF AttributionInv, ChainThen, FollowsTheTree, Along, UpFrom
<1> QED
  BY <1>2, <1>3, TripwireByChain DEF AttributionHolds

(* Whatever the processes do while an event waits, nobody is blamed for what *)
(* others did, the chain of ancestors that hold still is the one there was,  *)
(* and the tripwire fires just when one of them is a manager (attribution.rs,*)
(* cloud_secrets.rs): the property that supervised_run checks.               *)
THEOREM AttributionIsRight == AttributionSpec => []AttributionHolds
<1>1. AttributionInit => AttributionInv
  BY AttributionBegins
<1>2. AttributionInv /\ [AttributionNext]_attributionVars => AttributionInv'
  BY KernelNext, HistoryNext, TreeNext, StillNext, FamilyNext, WalkShapeNext, OfEldersNext, ChainThenNext
     DEF AttributionInv
<1>3. AttributionInv => AttributionHolds
  BY AttributionFollows
<1> QED
  BY <1>1, <1>2, <1>3, PTL DEF AttributionSpec
=============================================================================
