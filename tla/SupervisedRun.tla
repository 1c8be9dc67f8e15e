--------------------------- MODULE SupervisedRun ---------------------------
(* `sakimori run`: snapshots, start of the supervisor, the child in its      *)
(* cgroup, shutdown, report and exit code, over the event pipeline.          *)
EXTENDS EventPipeline, Snapshots

CONSTANTS
  Child,          \* the supervised command, a process of Inside
  WorkspaceFiles, ExtensionFiles,
  States,         \* what can be at a path
  InitialTree,
  ExitCodes,      \* the codes the command may end with
  Options,        \* command lines, each with a bound on events and on writes
  MaxFaults       \* bound

Files == WorkspaceFiles \cup ExtensionFiles

ASSUME RunAssumption ==
  /\ Child \in Inside
  /\ InitialTree \in [Files -> States]
  /\ States \subseteq [kind : STRING, size : Nat, data : STRING \ {Unhashed}]
  /\ 0 \in ExitCodes /\ ExitCodes \subseteq Nat
  /\ Options \subseteq [workspace : BOOLEAN, extensions : BOOLEAN, events : Nat, writes : Nat]
  /\ MaxFaults \in Nat

VARIABLES
  stage,        \* where run_supervised is
  opts,         \* --snapshot-workspace, --snapshot-extensions, and the bounds
  tree,         \* the files
  base,         \* baselines: [workspace |-> ..., extensions |-> ...], <<>> if none
  found,        \* what IOC scans found: [baseline, workspace, extensions]
  drift,        \* differences: [workspace, extensions], NoDiff if none was made
  reads,        \* the files that the snapshot or scan under way has read so far
  cgroup,       \* "none", "made", "removed", "busy" (rmdir failed)
  childCode,    \* how the command ended; Pending while it runs
  exit,         \* how sakimori ended; Pending before
  final,        \* the counter of denials as copied by shutdown
  \* History:
  writes, faults,
  gone,         \* parts of the run that failed
  copied,       \* as of the copy: denied events recorded, records unread, and
                \* whether nothing of the command was left
  asOf,         \* the files as the snapshots after the run found them
  scanned       \* what the scans after the run read of them

seenVars == <<found, drift, reads, asOf, scanned>>
runVars == <<stage, opts, tree, base, found, drift, reads, cgroup, childCode, exit,
             final, writes, faults, gone, copied, asOf, scanned>>
vars == <<pipeVars, runVars>>

Pending == -1
NothingRead == [p \in {} |-> {}]
Part(s, area) == [p \in area |-> s[p]]
AfterStages == {"after", "extensions after", "extension scan", "scan", "report", "decide"}
Stages == {"baseline", "extensions", "cgroup", "attach", "populate", "spawn", "child",
           "window", "stopping", "after", "extensions after", "extension scan", "scan",
          "report", "decide", "done"}

(* Policy::validate: block mode refuses a deny list longer than the slots.   *)
Accepted == mode = "block" => Len(FileDeny) <= MaxSlots

Fail(part) == faults < MaxFaults /\ faults' = faults + 1 /\ gone' = gone \cup {part}
Fine == UNCHANGED <<faults, gone>>

(* Every return ends the process, and dropping the supervisor removes the    *)
(* cgroup unless a task is left in it.                                       *)
DropCgroup ==
  cgroup' = CASE cgroup = "made" -> IF Inside \cap alive = {} THEN "removed" ELSE "busy"
              [] OTHER -> cgroup
End(code) == stage' = "done" /\ exit' = code /\ hooks' = {}

-----------------------------------------------------------------------------
(* Wrong variants of definitions below.                                      *)

\* Go on without programs in block mode too.
LoadFailsOpen ==
  /\ stage \in {"attach", "populate"} /\ Fail("load")
  /\ stage' = "spawn" /\ hooks' = {} /\ UNCHANGED <<exit, cgroup>>
  /\ UNCHANGED <<mode, lacks, slots, ring, drain, stop, statVars, alive, historyVars,
                 opts, tree, base, seenVars, childCode, final, writes, copied>>

-----------------------------------------------------------------------------
(* Before the command.                                                       *)

(* A baseline that was asked for and cannot be taken ends the run.           *)
TakeBaseline ==
  /\ stage = "baseline"
  /\ \/ /\ opts.workspace
        /\ base' = [base EXCEPT !.workspace = <<Take(Part(tree, WorkspaceFiles))>>]
        /\ stage' = "extensions" /\ Fine /\ UNCHANGED <<exit, hooks>>
     \/ /\ ~opts.workspace
        /\ stage' = "extensions" /\ Fine /\ UNCHANGED <<base, exit, hooks>>
     \/ /\ opts.workspace /\ Fail("baseline")
        /\ End(1) /\ UNCHANGED base
  /\ UNCHANGED <<mode, lacks, slots, ring, drain, stop, statVars, alive, historyVars,
                 opts, tree, seenVars, cgroup, childCode, final, writes, copied>>

(* The extensions need a safe home; their baseline and the scan of what was  *)
(* there before may fail each on its own.                                    *)
TakeExtensions ==
  /\ stage = "extensions"
  /\ \/ /\ ~opts.extensions
        /\ stage' = "cgroup" /\ Fine /\ UNCHANGED <<base, found, exit, hooks>>
     \/ /\ opts.extensions /\ Fail("home") /\ End(1) /\ UNCHANGED <<base, found>>
     \/ /\ opts.extensions /\ stage' = "cgroup" /\ UNCHANGED <<exit, hooks>>
        /\ \E snapped, looked \in BOOLEAN :
             /\ base' = IF snapped THEN [base EXCEPT !.extensions =
                                           <<Take(Part(tree, ExtensionFiles))>>]
                        ELSE base
             /\ found' = IF looked
                         THEN LET here == Part(tree, ExtensionFiles)
                              IN [found EXCEPT !.baseline =
                                    Scan(here, DOMAIN Take(here).files)]
                         ELSE found
             /\ IF snapped /\ looked THEN Fine
                ELSE Fail(IF snapped THEN "extension scan" ELSE "extension baseline")
  /\ UNCHANGED <<mode, lacks, slots, ring, drain, stop, statVars, alive, historyVars,
                 opts, tree, drift, reads, cgroup, childCode, final, writes, copied, asOf, scanned>>

(* Cgroup::create: without one the network programs are not attached.        *)
MakeCgroup ==
  /\ stage = "cgroup"
  /\ \/ cgroup' = "made" /\ Fine
     \/ UNCHANGED cgroup /\ Fail("cgroup")
  /\ stage' = "attach"
  /\ UNCHANGED <<pipeVars, opts, tree, base, seenVars, childCode, exit, final,
                 writes, copied>>

(* load_bpf and Enforcer::attach: the settings are written, then the programs *)
(* are attached.  One that the object does not have is passed over.          *)
Attach ==
  /\ stage = "attach"
  /\ hooks' = (Tracepoints \cup (IF cgroup = "made" THEN ConnectHooks ELSE {})) \ lacks
  /\ stage' = "populate"
  /\ UNCHANGED <<mode, lacks, slots, ring, drain, stop, statVars, alive, historyVars,
                 opts, tree, base, seenVars, cgroup, childCode, exit, final,
                 writes, faults, gone, copied>>

(* The maps are filled last; only then is there a task that reads the ring.  *)
(* Without the map for the deny list there is nothing to fill, and without   *)
(* the ring the task ends at once.                                           *)
Populate ==
  /\ stage = "populate"
  /\ slots' = IF "FILE_DENY_PREFIX" \in lacks THEN slots ELSE SlotsOf(FileDeny)
  /\ drain' = IF "EVENTS" \in lacks THEN "ended" ELSE "reading"
  /\ stage' = "spawn"
  /\ UNCHANGED <<mode, lacks, hooks, ring, stop, statVars, alive, historyVars,
                 opts, tree, base, seenVars, cgroup, childCode, exit, final,
                 writes, faults, gone, copied>>

(* Anything that fails on the way: block mode refuses to go on, audit mode   *)
(* goes on without programs (the object is dropped, which detaches them).    *)
LoadFails ==
  /\ stage \in {"attach", "populate"} /\ Fail("load")
  /\ IF mode = "block"
     THEN End(1) /\ DropCgroup
     ELSE stage' = "spawn" /\ hooks' = {} /\ UNCHANGED <<exit, cgroup>>
  /\ UNCHANGED <<mode, lacks, slots, ring, drain, stop, statVars, alive, historyVars,
                 opts, tree, base, seenVars, childCode, final, writes, copied>>

(* run_child: the child enrols itself into the cgroup before it executes;    *)
(* when that or the exec fails the run ends.                                 *)
SpawnChild ==
  /\ stage = "spawn"
  /\ \/ alive' = alive \cup {Child} /\ stage' = "child" /\ Fine
        /\ UNCHANGED <<exit, hooks, cgroup>>
     \/ Fail("spawn") /\ End(1) /\ DropCgroup /\ UNCHANGED alive
  /\ UNCHANGED <<mode, lacks, slots, ring, drain, stop, statVars, historyVars,
                 opts, tree, base, seenVars, childCode, final, writes, copied>>

-----------------------------------------------------------------------------
(* While the command runs, and what it leaves behind.                        *)

Fork ==
  /\ Child \in alive
  /\ \E p \in Inside \ (alive \cup {Child}) : alive' = alive \cup {p}
  /\ UNCHANGED <<mode, lacks, hooks, slots, ring, drain, stop, statVars, historyVars, runVars>>

WriteFile ==
  /\ stage # "done" /\ writes < opts.writes /\ Inside \cap alive # {}
  /\ \E p \in Files, s \in States :
       s # tree[p] /\ tree' = [tree EXCEPT ![p] = s]
  /\ writes' = writes + 1
  /\ UNCHANGED <<pipeVars, stage, opts, base, seenVars, cgroup, childCode, exit,
                 final, faults, gone, copied>>

Exits(p) ==
  /\ p \in alive /\ stage # "done"
  /\ alive' = alive \ {p}
  /\ IF p = Child THEN \E c \in ExitCodes : childCode' = c ELSE UNCHANGED childCode
  /\ UNCHANGED <<mode, lacks, hooks, slots, ring, drain, stop, statVars, historyVars,
                 stage, opts, tree, base, seenVars, cgroup, exit, final,
                 writes, faults, gone, copied>>

(* wait: a child that was killed has no code, which counts as 1.             *)
ChildWaited ==
  /\ stage = "child" /\ Child \notin alive
  /\ childCode' = IF childCode = Pending THEN 1 ELSE childCode
  /\ stage' = "window"
  /\ UNCHANGED <<pipeVars, opts, tree, base, seenVars, cgroup, exit, final,
                 writes, faults, gone, copied>>

-----------------------------------------------------------------------------
(* shutdown and what follows.                                                *)

SetStop ==
  /\ stage = "window"
  /\ stop' = TRUE /\ stage' = "stopping"
  /\ UNCHANGED <<mode, lacks, hooks, slots, ring, drain, statVars, alive, historyVars,
                 opts, tree, base, seenVars, cgroup, childCode, exit, final,
                 writes, faults, gone, copied>>

FlaggedTotal == flagged["exec"] + flagged["connect"] + flagged["open"]

(* The second wait is over: the counters are copied, however far the drain   *)
(* task has got, and the supervisor is dropped.                              *)
CopyStats ==
  /\ stage = "stopping"
  /\ final' = denied
  /\ copied' = [flagged |-> FlaggedTotal, unread |-> Len(ring), alone |-> Inside \cap alive = {}]
  /\ DropCgroup
  /\ stage' = "after"
  /\ UNCHANGED <<pipeVars, opts, tree, base, seenVars, childCode, exit,
                 writes, faults, gone>>

(* The object goes with the last of its users, which is the drain task.      *)
Detach ==
  /\ stage \in AfterStages /\ drain = "ended" /\ hooks # {}
  /\ hooks' = {}
  /\ UNCHANGED <<mode, lacks, slots, ring, drain, stop, statVars, alive, historyVars, runVars>>

(* What is left of the command may change a file at any time; each is read   *)
(* once by a snapshot, and once more by a scan if it differs.                *)
Differing(d) == d.added \cup d.modified
ToRead ==
  CASE stage = "after" /\ base.workspace # <<>> -> Walked(WorkspaceFiles)
    [] stage = "extensions after" /\ base.extensions # <<>> -> Walked(ExtensionFiles)
    [] stage = "extension scan" -> Differing(drift.extensions)
    [] stage = "scan" -> Differing(drift.workspace)
    [] OTHER -> {}

ReadFile ==
  /\ \E p \in ToRead \ DOMAIN reads :
       reads' = [q \in DOMAIN reads \cup {p} |-> IF q = p THEN tree[p] ELSE reads[q]]
  /\ UNCHANGED <<pipeVars, stage, opts, tree, base, found, drift, cgroup, childCode, exit,
                 final, writes, faults, gone, copied, asOf, scanned>>

AllRead == DOMAIN reads = ToRead

(* The snapshot after the run and its difference.  If it fails there is none *)
(* and the run goes on; then it awaits the names of the addresses.           *)
TakeAfter ==
  /\ stage = "after"
  /\ \/ /\ base.workspace # <<>> /\ AllRead
        /\ drift' = [drift EXCEPT !.workspace = Diff(base.workspace[1], Take(reads))]
        /\ asOf' = [asOf EXCEPT !.workspace = reads]
        /\ Fine
     \/ base.workspace # <<>> /\ Fail("after") /\ UNCHANGED <<drift, asOf>>
     \/ base.workspace = <<>> /\ Fine /\ UNCHANGED <<drift, asOf>>
  /\ reads' = NothingRead
  /\ stage' = IF base.extensions # <<>> THEN "extensions after"
              ELSE IF base.workspace # <<>> THEN "scan" ELSE "report"
  /\ UNCHANGED <<pipeVars, opts, tree, base, found, cgroup, childCode, exit, final,
                 writes, copied, scanned>>

(* drift_extensions: the same for the extensions, with a scan of its own.    *)
TakeExtensionsAfter ==
  /\ stage = "extensions after"
  /\ \/ /\ AllRead
        /\ drift' = [drift EXCEPT !.extensions = Diff(base.extensions[1], Take(reads))]
        /\ asOf' = [asOf EXCEPT !.extensions = reads]
        /\ Fine
     \/ Fail("extension drift") /\ UNCHANGED <<drift, asOf>>
  /\ reads' = NothingRead /\ stage' = "extension scan"
  /\ UNCHANGED <<pipeVars, opts, tree, base, found, cgroup, childCode, exit, final,
                 writes, copied, scanned>>

ScanExtensions ==
  /\ stage = "extension scan" /\ AllRead
  /\ found' = [found EXCEPT !.extensions = Scan(reads, DOMAIN reads)]
  /\ scanned' = [scanned EXCEPT !.extensions = reads]
  /\ reads' = NothingRead
  /\ stage' = IF base.workspace # <<>> THEN "scan" ELSE "report"
  /\ UNCHANGED <<pipeVars, opts, tree, base, drift, cgroup, childCode, exit, final,
                 writes, faults, gone, copied, asOf>>

(* The files of the workspace that differ are read a second time, last.      *)
ScanWorkspace ==
  /\ stage = "scan" /\ AllRead
  /\ found' = [found EXCEPT !.workspace = Scan(reads, DOMAIN reads)]
  /\ scanned' = [scanned EXCEPT !.workspace = reads]
  /\ reads' = NothingRead /\ stage' = "report"
  /\ UNCHANGED <<pipeVars, opts, tree, base, drift, cgroup, childCode, exit, final,
                 writes, faults, gone, copied, asOf>>

(* A log that cannot be written ends the run with an error.                  *)
WriteReport ==
  /\ stage = "report"
  /\ \/ stage' = "decide" /\ Fine /\ UNCHANGED <<exit, hooks>>
     \/ Fail("report") /\ End(1)
  /\ UNCHANGED <<mode, lacks, slots, ring, drain, stop, statVars, alive, historyVars,
                 opts, tree, base, seenVars, cgroup, childCode, final, writes, copied>>

(* The checks in the order of the code; each ends the process with 1.        *)
Verdict ==
  CASE final > 0 /\ mode = "block" -> 1
    [] drift.workspace # NoDiff /\ mode = "block" -> 1
    [] "high" \in found.workspace -> 1
    [] drift.extensions # NoDiff /\ mode = "block" -> 1
    [] "high" \in found.extensions \cup found.baseline -> 1
    [] OTHER -> childCode

Decide ==
  /\ stage = "decide"
  /\ End(Verdict)
  /\ UNCHANGED <<mode, lacks, slots, ring, drain, stop, statVars, alive, historyVars,
                 opts, tree, base, seenVars, cgroup, childCode, final, writes,
                 faults, gone, copied>>

-----------------------------------------------------------------------------
Init ==
  /\ PipelineInit /\ Accepted
  /\ stage = "baseline"
  /\ opts \in Options
  /\ tree = InitialTree
  /\ base = [workspace |-> <<>>, extensions |-> <<>>]
  /\ found = [baseline |-> {}, workspace |-> {}, extensions |-> {}]
  /\ drift = [workspace |-> NoDiff, extensions |-> NoDiff] /\ reads = NothingRead
  /\ cgroup = "none" /\ childCode = Pending /\ exit = Pending /\ final = 0
  /\ writes = 0 /\ faults = 0 /\ gone = {}
  /\ copied = [flagged |-> 0, unread |-> 0, alone |-> FALSE]
  /\ asOf = [workspace |-> NothingRead, extensions |-> NothingRead]
  /\ scanned = [workspace |-> NothingRead, extensions |-> NothingRead]

Pipeline ==
  /\ stage # "done"
  /\ (recorded + missed < opts.events /\ Hook) \/ Drain
  /\ UNCHANGED runVars

Main ==
  \/ TakeBaseline \/ TakeExtensions \/ MakeCgroup \/ Attach \/ Populate \/ LoadFails
  \/ SpawnChild \/ ChildWaited \/ SetStop \/ CopyStats
  \/ ReadFile \/ TakeAfter \/ TakeExtensionsAfter \/ ScanExtensions \/ ScanWorkspace
  \/ WriteReport \/ Decide

Next ==
  \/ Main \/ Pipeline \/ Fork \/ WriteFile \/ Detach
  \/ \E p \in Inside : Exits(p)

Spec == Init /\ [][Next]_vars

-----------------------------------------------------------------------------
(* Properties.                                                               *)

(* The type of every variable.                                               *)
TypeOK ==
  /\ PipelineTypeOK
  /\ stage \in Stages
  /\ opts \in Options
  /\ tree \in [Files -> States]
  /\ cgroup \in {"none", "made", "removed", "busy"}
  /\ childCode \in ExitCodes \cup {Pending, 1}
  /\ exit \in ExitCodes \cup {Pending, 1}
  /\ final \in Nat /\ writes \in 0 .. opts.writes /\ faults \in 0 .. MaxFaults
  /\ copied \in [flagged : Nat, unread : 0 .. RingCap, alone : BOOLEAN]

(* At the caps of Stats a denied event is never displaced, and one that is   *)
(* not kept found no sample it could displace: all of its kind are denied    *)
(* and at the cap, or all of them are and the buffer is full.                *)
DeniedSurface ==
  LET flaggedSeen(k) ==
        flagged[k] - Cardinality({i \in DOMAIN ring :
                       ring[i].kind = k /\ ring[i].from # Supervisor /\ Denied(ring[i])})
  IN \A k \in Kinds :
       \/ keptDenied[k] = flaggedSeen(k)
       \/ keptAllowed[k] = 0 /\ keptDenied[k] >= PerKindCap
       \/ TotalKept >= TotalCap /\ \A v \in Kinds : keptAllowed[v] = 0

(* In block mode the command never runs without every program of the object *)
(* attached, but those for the network when there is no cgroup, the whole    *)
(* deny list in the kernel, entries cut to the length of a slot, and a task  *)
(* that drains the ring.  Excepted is what the object does not have: a       *)
(* program or a map that it lacks is passed over in block mode too.          *)
BlockRunsProtected ==
  mode = "block" /\ Child \in alive =>
    /\ hooks = (Tracepoints \cup (IF cgroup = "none" THEN {} ELSE ConnectHooks)) \ lacks
    /\ "FILE_DENY_PREFIX" \in lacks \/ (slots = SlotsOf(FileDeny) /\ DOMAIN slots = DOMAIN FileDeny)
    /\ "EVENTS" \in lacks \/ drain \notin {"off", "ended"}

(* A difference no snapshot shows: nothing to record on either side, or two  *)
(* files over the limit that have the same size.                             *)
Invisible(a, b) ==
  \/ a.kind \notin {"file", "link"} /\ b.kind \notin {"file", "link"}
  \/ a.kind = "file" /\ b.kind = "file" /\ a.size = b.size /\ a.size > MaxFileBytes

Changed(area) ==
  {p \in Walked(DOMAIN area) :
     area[p] # InitialTree[p] /\ ~Invisible(InitialTree[p], area[p])}

Severe(p, state) == \E r \in Rules : r.severity = "high" /\ Indicates(r, p, state)

\* Of the files t, read again as s where they differed.
Worse(t, s) ==
  \E p \in Changed(t) :
     mode = "block" \/ (t[p].kind \in {"file", "link"} /\ Severe(p, s[p]))

\* Every file was read, and if nothing of the command was left, as it is.
ReadAsIs(t, s, area) ==
  /\ DOMAIN t = Walked(area)
  /\ copied.alone => t = Part(tree, Walked(area)) /\ s = Part(tree, DOMAIN s)

AlreadyBad ==
  \E p \in Walked(ExtensionFiles) :
     InitialTree[p].kind \in {"file", "link"} /\ Severe(p, InitialTree[p])

(* What a run that ends with 0 has shown. The command ended with 0. In block *)
(* mode no denied event had been recorded when the counters were copied,     *)
(* unless records were still unread. No file under a snapshot that was asked *)
(* for and could be taken had changed so that one can see it, in block mode; *)
(* in any mode none that the catalog lists as severe had, nor, if the        *)
(* extensions could be scanned, was one there before. This is so of the      *)
(* files as they are, unless a process of the command outlived it: that may  *)
(* change a file after it was read, or between the snapshot and the scan.    *)
PassMeansClean ==
  exit = 0 =>
    /\ childCode = 0
    /\ mode = "block" => copied.flagged = 0 \/ copied.unread > 0
    /\ opts.workspace =>
         \/ "after" \in gone
         \/ /\ ReadAsIs(asOf.workspace, scanned.workspace, WorkspaceFiles)
            /\ ~Worse(asOf.workspace, scanned.workspace)
    /\ opts.extensions =>
         \/ gone \cap {"extension baseline", "extension scan", "extension drift"} # {}
         \/ /\ ReadAsIs(asOf.extensions, scanned.extensions, ExtensionFiles)
            /\ ~Worse(asOf.extensions, scanned.extensions) /\ ~AlreadyBad

(* A command that ends with 0 is failed for a reason that exists: a step     *)
(* that had to succeed did not, or one of the conditions above is broken.    *)
FailHasReason ==
  stage = "done" /\ exit # 0 /\ childCode = 0 =>
    \/ "report" \in gone
    \/ mode = "block" /\ copied.flagged > 0
    \/ opts.workspace /\ Worse(asOf.workspace, scanned.workspace)
    \/ opts.extensions /\ (Worse(asOf.extensions, scanned.extensions) \/ AlreadyBad)

(* The exit code says neither more nor less than what has happened: a pass   *)
(* is clean, and a failure has a reason.                                     *)
ExitCodeExplained == PassMeansClean /\ FailHasReason
=============================================================================
