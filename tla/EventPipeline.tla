--------------------------- MODULE EventPipeline ---------------------------
(* From the hooks in the kernel to the counters of the report: the hooks on  *)
(* execve, openat and connect write records into a bounded ring, a task      *)
(* drains it, adds the verdicts of user space and merges each event into     *)
(* `Stats`, which keeps a bounded number of samples.                         *)
(* Samples are counted by kind and verdict; which of several alike is the    *)
(* oldest tells no property apart.                                           *)
EXTENDS Integers, Sequences, FiniteSets, FiniteSetsExt, SequencesExt

CONSTANTS
  Inside,       \* processes of the supervised tree
  Outside,      \* other processes of the machine
  Supervisor,   \* sakimori itself
  Paths,        \* what is opened: sequences of characters
  Names,        \* what is executed
  FileDeny,     \* policy.file.deny, a sequence of patterns
  FileAllow,    \* policy.file.allow, a set of patterns
  FileDefault,  \* policy.file.default: "allow" or "deny"
  DenyExec,     \* policy.process.deny_exec, a set of names
  PrefixLen,    \* FILE_DENY_PREFIX_LEN
  MaxSlots,     \* FILE_DENY_MAX_ENTRIES
  RingCap,      \* records the ring has room for
  PerKindCap, TotalCap,
  Objects       \* what the object that SAKIMORI_BPF_OBJ names may lack: {} for this build's

Kinds == {"exec", "connect", "open"}
Tracepoints == {"sakimori_execve", "sakimori_openat"}
ConnectHooks == {"sakimori_connect4", "sakimori_connect6"}
Maps == {"SETTINGS", "EVENTS", "FILE_DENY_PREFIX"}

ASSUME PipelineAssumption ==
  /\ Supervisor \notin Inside \cup Outside /\ Inside \cap Outside = {}
  /\ PrefixLen \in Nat /\ MaxSlots \in Nat /\ RingCap \in Nat
  /\ PerKindCap \in Nat /\ TotalCap \in Nat
  /\ FileDeny \in Seq(Seq(STRING)) /\ Paths \subseteq Seq(STRING)
  /\ Objects \subseteq SUBSET (Tracepoints \cup ConnectHooks \cup Maps)

VARIABLES
  mode,         \* "audit" or "block", as written to SETTINGS
  lacks,        \* the programs and maps the object that is loaded does not have
  hooks,        \* the programs that are attached
  slots,        \* FILE_DENY_PREFIX
  ring,         \* EVENTS
  drain,        \* the drain task: "off", "reading", "checking", "asleep", "ended"
  stop,         \* its stop flag
  observed, denied, lost,      \* the counters of Stats
  keptDenied, keptAllowed,     \* its samples, by kind
  alive,        \* processes that run
  \* History:
  recorded,     \* records written to the ring
  flagged,      \* denied events among them, by kind, as the report defines denied
  missed,       \* records the ring had no room for
  killed        \* [by |-> path] of the processes the hook has killed

pipeVars == <<mode, lacks, hooks, slots, ring, drain, stop, observed, denied, lost,
              keptDenied, keptAllowed, alive, recorded, flagged, missed, killed>>
statVars == <<observed, denied, lost, keptDenied, keptAllowed>>
historyVars == <<recorded, flagged, missed, killed>>

Event == [kind : Kinds \cup {"unknown"}, from : Inside \cup Outside \cup {Supervisor},
          what : Paths \cup Names \cup {"allow", "deny"}, denied : BOOLEAN]

-----------------------------------------------------------------------------
(* Verdicts.                                                                 *)

(* prefix_match: a prefix that ends at the end, or at a directory.           *)
PrefixMatch(path, pattern) ==
  /\ IsPrefix(pattern, path)
  /\ \/ Len(path) = Len(pattern)
     \/ path[Len(pattern) + 1] = "/"
     \/ pattern # <<>> /\ Last(pattern) = "/"

(* FileMatcher::is_denied: an empty path is never denied, deny before allow. *)
FileDenied(path) ==
  /\ path # <<>>
  /\ \/ \E i \in DOMAIN FileDeny : PrefixMatch(path, FileDeny[i])
     \/ FileDefault = "deny" /\ \A a \in FileAllow : ~PrefixMatch(path, a)

(* populate_file_maps: the first entries, each cut to the length of a slot.  *)
SlotsOf(list) ==
  [i \in 1 .. Min({Len(list), MaxSlots}) |->
     SubSeq(list[i], 1, Min({Len(list[i]), PrefixLen}))]

(* file_deny_matches on what bpf_probe_read_user_str_bytes copied, whose     *)
(* buffer has the length of a slot and ends with a NUL.                      *)
KernelDenied(path) ==
  LET read == SubSeq(path, 1, Min({Len(path), PrefixLen - 1}))
  IN \E i \in DOMAIN slots : slots[i] # <<>> /\ IsPrefix(slots[i], read)

(* The verdict an event carries once `ingest` has added that of user space.  *)
Denied(e) ==
  \/ e.denied
  \/ e.kind = "open" /\ FileDenied(e.what)
  \/ e.kind = "exec" /\ e.what \in DenyExec

-----------------------------------------------------------------------------
(* The hooks.                                                                *)

(* A record is reserved and submitted, or there is no ring or no room in it  *)
(* and it is gone.                                                           *)
Emit(e) ==
  IF "EVENTS" \notin lacks /\ Len(ring) < RingCap
  THEN /\ ring' = Append(ring, e)
       /\ recorded' = recorded + 1
       /\ flagged' = IF e.from # Supervisor /\ e.kind # "unknown" /\ Denied(e)
                     THEN [flagged EXCEPT ![e.kind] = @ + 1] ELSE flagged
       /\ UNCHANGED missed
  ELSE /\ missed' = missed + 1
       /\ UNCHANGED <<ring, recorded, flagged>>

(* Tracepoints fire for every process of the machine.                        *)
Execve(p) ==
  /\ "sakimori_execve" \in hooks /\ p \in alive
  /\ \E n \in Names : Emit([kind |-> "exec", from |-> p, what |-> n, denied |-> FALSE])
  /\ UNCHANGED <<mode, lacks, hooks, slots, drain, stop, statVars, alive, killed>>

(* In block mode the hook kills whoever opens a path that matches a slot; an *)
(* object without SETTINGS is not told the mode.                             *)
Openat(p) ==
  /\ "sakimori_openat" \in hooks /\ p \in alive
  /\ \E path \in Paths :
       /\ Emit([kind |-> "open", from |-> p, what |-> path, denied |-> KernelDenied(path)])
       /\ IF KernelDenied(path) /\ mode = "block" /\ "SETTINGS" \notin lacks
          THEN /\ alive' = alive \ {p}
               /\ killed' = killed \cup {path}
          ELSE UNCHANGED <<alive, killed>>
  /\ UNCHANGED <<mode, lacks, hooks, slots, drain, stop, statVars>>

(* The connect programs see the cgroup only; Egress models their lookup.     *)
Connect(p) ==
  /\ ConnectHooks \cap hooks # {} /\ p \in Inside \cap alive
  /\ \E v \in {"allow", "deny"} :
       Emit([kind |-> "connect", from |-> p, what |-> v, denied |-> v = "deny"])
  /\ UNCHANGED <<mode, lacks, hooks, slots, drain, stop, statVars, alive, killed>>

(* A record of a kind this build does not know: SAKIMORI_BPF_OBJ names the   *)
(* object file of another.                                                   *)
UnknownRecord(p) ==
  /\ Tracepoints \cap hooks # {} /\ p \in alive
  /\ Emit([kind |-> "unknown", from |-> p, what |-> "allow", denied |-> FALSE])
  /\ UNCHANGED <<mode, lacks, hooks, slots, drain, stop, statVars, alive, killed>>

(* Attribution reads /proc, which the open hook sees like any other open.    *)
OwnOpen ==
  /\ "sakimori_openat" \in hooks /\ drain = "reading"
  /\ \E path \in Paths :
       /\ ~KernelDenied(path)
       /\ Emit([kind |-> "open", from |-> Supervisor, what |-> path, denied |-> FALSE])
  /\ UNCHANGED <<mode, lacks, hooks, slots, drain, stop, statVars, alive, killed>>

-----------------------------------------------------------------------------
(* The drain task and Stats::ingest.                                         *)

KeptOf(k) == keptDenied[k] + keptAllowed[k]
TotalKept == KeptOf("exec") + KeptOf("connect") + KeptOf("open")
KindRoom(k) == KeptOf(k) < PerKindCap
TotalRoom == TotalKept < TotalCap

(* A wrong variant of the next definition.                                  *)

\* Do not look at other kinds when the total is full.
VictimsOfKind(k) == IF keptAllowed[k] > 0 THEN {k} ELSE {}

(* Whom a denied event displaces: a sample of its kind that is not denied,   *)
(* or of any kind if it is the total that is full.                           *)
Victims(k) ==
  IF keptAllowed[k] > 0 THEN {k}
  ELSE IF TotalRoom THEN {} ELSE {v \in Kinds : keptAllowed[v] > 0}

(* Stats::ingest of an event of kind k with verdict d.                       *)
Keep(k, d) ==
  IF KindRoom(k) /\ TotalRoom
  THEN IF d THEN /\ keptDenied' = [keptDenied EXCEPT ![k] = @ + 1]
                 /\ UNCHANGED keptAllowed
            ELSE /\ keptAllowed' = [keptAllowed EXCEPT ![k] = @ + 1]
                 /\ UNCHANGED keptDenied
  ELSE IF d /\ Victims(k) # {}
  THEN \E v \in Victims(k) :
         /\ keptAllowed' = [keptAllowed EXCEPT ![v] = @ - 1]
         /\ keptDenied' = [keptDenied EXCEPT ![k] = @ + 1]
  ELSE UNCHANGED <<keptDenied, keptAllowed>>

(* loader::ingest: what cannot be decoded is lost, what sakimori did itself  *)
(* is dropped, everything else is tagged and counted.                        *)
Ingest(e) ==
  CASE e.kind = "unknown" ->
         /\ lost' = lost + 1
         /\ UNCHANGED <<observed, denied, keptDenied, keptAllowed>>
    [] e.kind # "unknown" /\ e.from = Supervisor -> UNCHANGED statVars
    [] OTHER ->
         /\ observed' = observed + 1
         /\ denied' = IF Denied(e) THEN denied + 1 ELSE denied
         /\ Keep(e.kind, Denied(e))
         /\ UNCHANGED lost

DrainNext ==
  /\ drain = "reading" /\ ring # <<>>
  /\ Ingest(Head(ring))
  /\ ring' = Tail(ring)
  /\ UNCHANGED <<mode, lacks, hooks, slots, drain, stop, alive, historyVars>>

DrainEmpty ==
  /\ drain = "reading" /\ ring = <<>>
  /\ drain' = "checking"
  /\ UNCHANGED <<mode, lacks, hooks, slots, ring, stop, statVars, alive, historyVars>>

DrainCheck ==
  /\ drain = "checking"
  /\ drain' = IF stop THEN "ended" ELSE "asleep"
  /\ UNCHANGED <<mode, lacks, hooks, slots, ring, stop, statVars, alive, historyVars>>

DrainWake ==
  /\ drain = "asleep"
  /\ drain' = "reading"
  /\ UNCHANGED <<mode, lacks, hooks, slots, ring, stop, statVars, alive, historyVars>>

Hook ==
  \/ \E p \in Inside \cup Outside :
       Execve(p) \/ Openat(p) \/ Connect(p) \/ UnknownRecord(p)
  \/ OwnOpen
Drain == DrainNext \/ DrainEmpty \/ DrainCheck \/ DrainWake

-----------------------------------------------------------------------------
PipelineInit ==
  /\ mode \in {"audit", "block"} /\ lacks \in Objects
  /\ hooks = {} /\ slots = <<>> /\ ring = <<>> /\ drain = "off" /\ stop = FALSE
  /\ observed = 0 /\ denied = 0 /\ lost = 0
  /\ keptDenied = [k \in Kinds |-> 0] /\ keptAllowed = [k \in Kinds |-> 0]
  /\ alive = Outside
  /\ recorded = 0 /\ flagged = [k \in Kinds |-> 0] /\ missed = 0 /\ killed = {}

PipelineTypeOK ==
  /\ mode \in {"audit", "block"}
  /\ lacks \in Objects /\ hooks \subseteq Tracepoints \cup ConnectHooks
  /\ slots \in Seq(Seq(STRING))
  /\ ring \in Seq(Event) /\ Len(ring) <= RingCap
  /\ drain \in {"off", "reading", "checking", "asleep", "ended"}
  /\ stop \in BOOLEAN
  /\ observed \in Nat /\ denied \in Nat /\ lost \in Nat
  /\ keptDenied \in [Kinds -> Nat] /\ keptAllowed \in [Kinds -> Nat]
  /\ alive \subseteq Inside \cup Outside
  /\ recorded \in Nat /\ flagged \in [Kinds -> Nat] /\ missed \in Nat
  /\ killed \subseteq Paths
=============================================================================
