---------------------------- MODULE Attribution -----------------------------
(* Which package manager an event of a supervised run comes from: a walk up  *)
(* /proc from the event's process (attribution.rs), made when the drain gets *)
(* to the event, while the processes go on forking, executing and exiting;   *)
(* and the connections that the report tells apart by it (cloud_secrets.rs). *)
EXTENDS Integers, Sequences

CONSTANTS
  Pids,
  ReaperPid,    \* pid 1, that orphans are given to
  SupervisorPid,
  CommandPid,   \* the process that it starts, and what that runs at first
  Launched,
  Programs,     \* argv[0]s, that the command's processes run
  Managers,     \* the ones that from_argv0 knows
  MaxDepth,     \* MAX_CHAIN_DEPTH
  Hosts,        \* where a connection goes to, in labels
  Secrets,      \* CLOUD_SECRET_IPS, CLOUD_SECRET_HOSTS
  NoPid,
  Gone,         \* the program of a pid without a process
  MaxChanges    \* bound on what the processes do

ASSUME AttributionAssumption ==
  /\ {ReaperPid, SupervisorPid, CommandPid} \subseteq Pids /\ NoPid \notin Pids
  /\ ReaperPid # SupervisorPid /\ ReaperPid # CommandPid /\ CommandPid # SupervisorPid
  /\ Managers \subseteq Programs /\ Launched \in Programs /\ Gone \notin Programs \cup {"init", "sakimori"}
  /\ {"init", "sakimori"} \cap Managers = {}   \* from_argv0 knows neither
  /\ MaxDepth \in Nat /\ MaxChanges \in Nat

VARIABLES
  procs,        \* the processes: [program, parent, exited], exited and not reaped
  event,        \* what is in the ring: [pid, host]
  walk,         \* the drain: [at, chain, next]
  changes,      \* number of changes so far
  history       \* [procs, elders, ran, disturbed, reused]

(* history: the processes when the event was raised; the event's own and its *)
(* ancestors; the programs these ran then or since, those that exited or     *)
(* executed something since, and whether another process got a pid of theirs.*)
attributionVars == <<procs, event, walk, changes, history>>

Alive == {p \in Pids : procs.program[p] # Gone}
Running == Alive \ procs.exited
NoEvent == [pid |-> NoPid, host |-> <<>>]
Link(p) == [pid |-> p, program |-> procs.program[p]]

-----------------------------------------------------------------------------
(* Wrong variants of definitions below.                                      *)

\* A walk that takes the supervisor for an ancestor like the others.
EndsAtInit(p) == p = NoPid

-----------------------------------------------------------------------------
(* The processes.  A fork is a copy until it executes; what an exited        *)
(* process leaves behind is given to pid 1; a pid can be used again.         *)
Change == walk.at # "done" /\ changes < MaxChanges /\ changes' = changes + 1 /\ UNCHANGED <<event, walk>>

Disturb(p) ==
  IF p \in history.elders THEN [history EXCEPT !.disturbed = @ \cup {p}] ELSE history

ForkProcess(p, q) ==
  /\ Change /\ p \in Running /\ q \in Pids \ Alive
  /\ procs' = [procs EXCEPT !.program[q] = procs.program[p], !.parent[q] = p]
  /\ history' = [history EXCEPT !.reused = @ \/ q \in history.elders]

Execute(p, g) ==
  /\ Change /\ p \in Running \ {ReaperPid, SupervisorPid} /\ g # procs.program[p]
  /\ procs' = [procs EXCEPT !.program[p] = g]
  /\ history' = [Disturb(p) EXCEPT !.ran = IF p \in history.elders THEN @ \cup {g} ELSE @]

Exit(p) ==
  /\ Change /\ p \in Running \ {ReaperPid, SupervisorPid}
  /\ procs' = [procs EXCEPT !.exited = @ \cup {p},
                            !.parent = [q \in Pids |-> IF @[q] = p THEN ReaperPid ELSE @[q]]]
  /\ history' = Disturb(p)

Reap(p) ==
  /\ Change /\ p \in procs.exited
  /\ procs' = [procs EXCEPT !.exited = @ \ {p}, !.program[p] = Gone, !.parent[p] = NoPid]
  /\ UNCHANGED history

-----------------------------------------------------------------------------
(* An event goes into the ring, and the drain takes it out later.            *)
Above(p) ==
  {q \in Pids : \A s \in SUBSET Pids :
     p \in s /\ (\A r \in s : procs.parent[r] \in s \cup {NoPid}) => q \in s}

Raise(p, h) ==
  /\ event = NoEvent /\ p \in Running \ {ReaperPid, SupervisorPid}
  /\ event' = [pid |-> p, host |-> h]
  /\ LET elders == Above(p) \cup {ReaperPid}
     IN history' = [procs |-> procs, elders |-> elders, ran |-> {procs.program[q] : q \in elders},
                    disturbed |-> {}, reused |-> FALSE]
  /\ UNCHANGED <<procs, walk, changes>>

Stops(p) == p \in {SupervisorPid, NoPid}

\* cmdline of the event's process: without it there is no attribution.
Begin ==
  /\ walk.at = "waiting" /\ event # NoEvent
  /\ walk' = IF event.pid \in Alive
             THEN [walk EXCEPT !.at = "parent", !.chain = <<Link(event.pid)>>]
             ELSE [walk EXCEPT !.at = "done"]
  /\ UNCHANGED <<procs, event, changes, history>>

\* A process that is gone by now has no parent either.
ReadParent ==
  /\ walk.at = "parent"
  /\ LET p == procs.parent[walk.chain[Len(walk.chain)].pid]
     IN walk' = IF Len(walk.chain) > MaxDepth \/ Stops(p) THEN [walk EXCEPT !.at = "done"]
                ELSE [walk EXCEPT !.at = "cmdline", !.next = p]
  /\ UNCHANGED <<procs, event, changes, history>>

ReadCmdline ==
  /\ walk.at = "cmdline"
  /\ walk' = IF walk.next \in Alive
             THEN [walk EXCEPT !.at = "parent", !.chain = Append(@, Link(walk.next))]
             ELSE [walk EXCEPT !.at = "done"]
  /\ UNCHANGED <<procs, event, changes, history>>

AttributionInit ==
  /\ procs = [program |-> [p \in Pids |-> CASE p = ReaperPid -> "init"
                                             [] p = SupervisorPid -> "sakimori"
                                             [] p = CommandPid -> Launched
                                             [] OTHER -> Gone],
              parent |-> [p \in Pids |-> CASE p = SupervisorPid -> ReaperPid
                                            [] p = CommandPid -> SupervisorPid
                                            [] OTHER -> NoPid],
              exited |-> {}]
  /\ event = NoEvent /\ changes = 0
  /\ walk = [at |-> "waiting", chain |-> <<>>, next |-> NoPid]
  /\ history = [procs |-> procs, elders |-> {}, ran |-> {}, disturbed |-> {}, reused |-> FALSE]

AttributionNext ==
  \/ \E p, q \in Pids : ForkProcess(p, q)
  \/ \E p \in Pids, g \in Programs : Execute(p, g)
  \/ \E p \in Pids : Exit(p) \/ Reap(p)
  \/ \E p \in Pids, h \in Hosts : Raise(p, h)
  \/ Begin \/ ReadParent \/ ReadCmdline

AttributionSpec == AttributionInit /\ [][AttributionNext]_attributionVars

-----------------------------------------------------------------------------
(* package_manager and root_argv: the first of the chain that is one.        *)
Blamed == {k \in DOMAIN walk.chain :
             walk.chain[k].program \in Managers /\ \A j \in 1 .. k - 1 : walk.chain[j].program \notin Managers}

\* classify_target: an address or a name, or a name under it.
IsSecret(h) ==
  \E s \in Secrets : Len(h) >= Len(s) /\ \A k \in DOMAIN s : h[Len(h) - Len(s) + k] = s[k]

(* scan_events: the report's "cloud-secret egress attempt".                  *)
Hit == walk.at = "done" /\ IsSecret(event.host) /\ Blamed # {}

(* Nobody is blamed for what others did: the manager named, and by the       *)
(* report a connection's, is a program that the event's process or one of    *)
(* its ancestors ran, when the event was raised or since; as long as no      *)
(* other process got a pid of theirs.                                        *)
BlamesAnElder == ~history.reused => \A k \in Blamed : walk.chain[k].program \in history.ran

(* If no ancestor has exited or executed a program since the event, the      *)
(* chain is the one there was at the event, from its process up to the       *)
(* supervisor or to the depth that is the limit, whatever other processes do.*)
FollowsTheTree ==
  walk.at = "done" /\ history.disturbed = {} =>
    LET c == walk.chain
        parentThen(k) == history.procs.parent[c[k].pid]
    IN /\ Len(c) >= 1 /\ c[1].pid = event.pid
       /\ \A k \in 1 .. Len(c) - 1 : c[k + 1].pid = parentThen(k) /\ parentThen(k) # SupervisorPid
       /\ \A k \in 1 .. Len(c) : c[k].program = history.procs.program[c[k].pid]
       /\ parentThen(Len(c)) \in {SupervisorPid, NoPid} \/ Len(c) = MaxDepth + 1

(* A manager's process that holds still while the event waits is found: a    *)
(* connection to where credentials are is then reported as its attempt.      *)
TripwireFires ==
  walk.at = "done" /\ history.disturbed = {} /\ IsSecret(event.host) /\ Len(walk.chain) <= MaxDepth =>
    (Hit <=> \E q \in history.elders \ {ReaperPid, SupervisorPid} : history.procs.program[q] \in Managers)

AttributionHolds == BlamesAnElder /\ FollowsTheTree /\ TripwireFires
=============================================================================
