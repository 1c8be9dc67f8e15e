----------------------------- MODULE WindowsRun -----------------------------
(* A supervised run on Windows (win.rs, firewall.rs).  What policy denies of *)
(* the network becomes rules of the machine's firewall, for the child's      *)
(* program; a trace tells of what the machine does, each event some time     *)
(* after it.  When the child has ended the run waits for the rest of them,   *)
(* for so long and no longer.  Time is counted in polls of that wait.        *)
EXTENDS Integers, FiniteSets

CONSTANTS
  RemoteAddrs,  \* of the network
  DestPorts,
  DenyRules,    \* network.deny: [kind, covers, ports], all ports if there are none
  DrainDeadline,\* the wait with a policy on programs: 5 s
  DrainFixed,   \* and without one: 1.5 s
  MaxLatency,   \* external: how late the trace tells of an event, 1 to 2 s
  ChildCodes,
  MaxTraced,    \* bound on the events
  MaxMishaps    \* bound on the commands that fail and the events that are lost

ASSUME WindowsAssumption ==
  /\ DenyRules \subseteq
       [kind : {"address", "block", "name"}, covers : SUBSET RemoteAddrs, ports : SUBSET DestPorts]
  /\ DrainDeadline \in Nat /\ DrainFixed \in Nat /\ MaxLatency \in Nat /\ MaxLatency < DrainDeadline
  /\ ChildCodes \subseteq Nat /\ MaxTraced \in Nat /\ MaxMishaps \in Nat

VARIABLES
  settings,     \* [mode, exec]: whether process.deny names anything
  phase,
  tags,         \* denied_addrs
  unapplied,    \* the deny rules that the firewall has not been given yet
  fence,        \* the firewall's rules for the child's program: [addrs, ports]
  child,        \* Unset, Runs, or its exit code
  trace,        \* the events not told yet: [id, denied, age]
  deniedTold,   \* the number of denied events told
  waited,       \* polls since the child's end
  runExit,
  traced,       \* number of events so far, and of mishaps
  mishaps,
  passed,       \* history: connections of the child's program that got through: [addr, port, proto, id]
  missing,      \* history: of each deny rule, addresses that the firewall has no rule for
  owed,         \* history: the denied events before the child's end, and the events untold
  untold,
  unremoved     \* history: whether the command that removes the rules failed

stepVars == <<settings, phase, unapplied, fence, child, waited, runExit>>
windowsVars ==
  <<settings, phase, tags, unapplied, fence, child, trace, deniedTold, waited, runExit, traced, mishaps,
    passed, missing, owed, untold, unremoved>>

Unset == -2
Runs == -1

Protocols == {"tcp", "udp"}

-----------------------------------------------------------------------------
(* Wrong variants of definitions below.                                      *)

\* The wait without a policy on programs is the only one.
FixedLimit == DrainFixed

-----------------------------------------------------------------------------
(* resolve_rule: what a rule stands for now.  A name's addresses are asked   *)
(* for each time, and may be fewer or none.                                  *)
Lookups(r) == IF r.kind = "name" THEN SUBSET r.covers ELSE {r.covers}

(* The text of a block is no address, so that it tags nothing.               *)
TagLookups(r) == IF r.kind = "block" THEN {{}} ELSE Lookups(r)

\* Rules are added one address at a time, a block as one.
AddedOf(r, answers) == IF r.kind = "name" THEN SUBSET answers ELSE {{}, answers}

(* add_block_rule: a rule with ports has to name a protocol, and names TCP.  *)
Blocked(a, p, proto) ==
  \E f \in fence : a \in f.addrs /\ (f.ports = {} \/ (proto = "tcp" /\ p \in f.ports))

-----------------------------------------------------------------------------
(* run.  An error returns from it, and drops the guard, which removes the    *)
(* rules, and does not look at whether that failed; the end of the run exits *)
(* from the process, which drops nothing.                                    *)
RulesRemoved == fence' = {} /\ UNCHANGED <<mishaps, unremoved>>

RulesLinger ==
  /\ mishaps < MaxMishaps /\ mishaps' = mishaps + 1
  /\ fence' \in SUBSET fence /\ unremoved' = TRUE

EndsInError == phase' = "failed" /\ runExit' = 1 /\ (RulesRemoved \/ RulesLinger)

StartTrace(answers) ==
  /\ phase = "starting" /\ \A r \in DenyRules : answers[r] \in TagLookups(r)
  /\ tags' = UNION {answers[r] : r \in DenyRules}
  /\ phase' = IF settings.mode = "block" THEN "fencing" ELSE "spawning"
  /\ UNCHANGED <<settings, unapplied, fence, child, trace, deniedTold, waited, runExit, traced, mishaps,
                 passed, missing, owed, untold, unremoved>>

StartFails ==
  /\ phase = "starting" /\ EndsInError
  /\ UNCHANGED <<settings, tags, unapplied, child, trace, deniedTold, waited, traced,
                 passed, missing, owed, untold>>

(* FirewallGuard::apply: a rule that cannot be added is a warning.           *)
AddRule(r, answers, added) ==
  /\ phase = "fencing" /\ r \in unapplied /\ answers \in Lookups(r) /\ added \in AddedOf(r, answers)
  /\ added # answers => mishaps < MaxMishaps
  /\ mishaps' = IF added # answers THEN mishaps + 1 ELSE mishaps
  /\ fence' = fence \cup {[addrs |-> added, ports |-> r.ports]}
  /\ missing' = [missing EXCEPT ![r] = r.covers \ added]
  /\ unapplied' = unapplied \ {r}
  /\ UNCHANGED <<settings, phase, tags, child, trace, deniedTold, waited, runExit, traced, passed, owed, untold, unremoved>>

Fenced ==
  /\ phase = "fencing" /\ unapplied = {} /\ phase' = "spawning"
  /\ UNCHANGED <<settings, tags, unapplied, fence, child, trace, deniedTold, waited, runExit, traced,
                 mishaps, passed, missing, owed, untold, unremoved>>

Spawn ==
  /\ phase = "spawning" /\ phase' = "running" /\ child' = Runs
  /\ UNCHANGED <<settings, tags, unapplied, fence, trace, deniedTold, waited, runExit, traced, mishaps,
                 passed, missing, owed, untold, unremoved>>

SpawnFails ==
  /\ phase = "spawning" /\ EndsInError
  /\ UNCHANGED <<settings, tags, unapplied, child, trace, deniedTold, waited, traced,
                 passed, missing, owed, untold>>

ChildEnds(code) ==
  /\ phase = "running" /\ phase' = "draining" /\ child' = code
  /\ UNCHANGED <<settings, tags, unapplied, fence, trace, deniedTold, waited, runExit, traced, mishaps,
                 passed, missing, owed, untold, unremoved>>

-----------------------------------------------------------------------------
(* The machine.  The trace is of all its processes.                          *)
Happens(isDenied) ==
  /\ traced < MaxTraced /\ traced' = traced + 1
  /\ trace' = trace \cup {[id |-> traced, denied |-> isDenied, age |-> 0]}
  /\ owed' = IF isDenied /\ child = Runs THEN owed \cup {traced} ELSE owed

\* A program, a file, or another program's connection; by anybody at any time.
Activity(isDenied) ==
  /\ phase \in {"fencing", "spawning", "running", "draining"} /\ Happens(isDenied)
  /\ UNCHANGED <<stepVars, tags, deniedTold, mishaps, passed, missing, untold, unremoved>>

\* The child's program connects or sends, which the trace tells of if it gets through.
ChildConnects(a, p, proto) ==
  /\ phase = "running" /\ ~Blocked(a, p, proto)
  /\ Happens(a \in tags)
  /\ passed' = passed \cup {[addr |-> a, port |-> p, proto |-> proto, id |-> traced]}
  /\ UNCHANGED <<stepVars, tags, deniedTold, mishaps, missing, untold, unremoved>>

(* The handlers of the events, in the trace's own thread.                    *)
Tell(e) ==
  /\ e \in trace /\ phase \notin {"exited", "failed"}
  /\ trace' = trace \ {e}
  /\ deniedTold' = IF e.denied THEN deniedTold + 1 ELSE deniedTold
  /\ UNCHANGED <<stepVars, tags, traced, mishaps, passed, missing, owed, untold, unremoved>>

Lose(e) ==
  /\ e \in trace /\ phase \notin {"exited", "failed"}
  /\ mishaps < MaxMishaps /\ mishaps' = mishaps + 1
  /\ trace' = trace \ {e} /\ untold' = untold \cup {e.id}
  /\ UNCHANGED <<stepVars, tags, deniedTold, traced, passed, missing, owed, unremoved>>

-----------------------------------------------------------------------------
(* The wait: without a policy on programs of a fixed time, with one until an *)
(* event was denied, or the deadline.                                        *)
Limit == IF settings.exec THEN DrainDeadline ELSE DrainFixed

Poll ==
  /\ phase = "draining" /\ waited < Limit
  /\ \A e \in trace : e.age < MaxLatency
  /\ waited' = waited + 1
  /\ trace' = {[e EXCEPT !.age = @ + 1] : e \in trace}
  /\ phase' = IF (settings.exec /\ deniedTold > 0) \/ waited + 1 = Limit THEN "reporting" ELSE "draining"
  /\ UNCHANGED <<settings, tags, unapplied, fence, child, deniedTold, runExit, traced, mishaps,
                 passed, missing, owed, untold, unremoved>>

Report ==
  /\ phase = "reporting" /\ phase' = "exited"
  /\ runExit' = IF deniedTold > 0 /\ settings.mode = "block" THEN 1 ELSE child
  /\ UNCHANGED <<settings, tags, unapplied, fence, child, trace, deniedTold, waited, traced, mishaps,
                 passed, missing, owed, untold, unremoved>>

ReportFails ==
  /\ phase = "reporting" /\ EndsInError
  /\ UNCHANGED <<settings, tags, unapplied, child, trace, deniedTold, waited, traced,
                 passed, missing, owed, untold>>

WindowsInit ==
  /\ settings \in [mode : {"audit", "block"}, exec : BOOLEAN]
  /\ phase = "starting" /\ tags = {} /\ unapplied = DenyRules /\ fence = {} /\ child = Unset
  /\ trace = {} /\ deniedTold = 0 /\ waited = 0 /\ runExit = Unset /\ traced = 0 /\ mishaps = 0
  /\ passed = {} /\ missing = [r \in DenyRules |-> {}] /\ owed = {} /\ untold = {}
  /\ unremoved = FALSE

WindowsNext ==
  \/ /\ phase = "starting"
     /\ \E answers \in [DenyRules -> SUBSET RemoteAddrs] : StartTrace(answers)
  \/ /\ phase = "fencing"
     /\ \E r \in DenyRules, answers, added \in SUBSET RemoteAddrs : AddRule(r, answers, added)
  \/ StartFails \/ Fenced \/ Spawn \/ SpawnFails
  \/ \E code \in ChildCodes : ChildEnds(code)
  \/ \E isDenied \in BOOLEAN : Activity(isDenied)
  \/ \E a \in RemoteAddrs, p \in DestPorts, proto \in Protocols : ChildConnects(a, p, proto)
  \/ \E e \in trace : Tell(e) \/ Lose(e)
  \/ Poll \/ Report \/ ReportFails

WindowsSpec == WindowsInit /\ [][WindowsNext]_windowsVars

-----------------------------------------------------------------------------
Matches(r, c) == c.addr \in r.covers /\ (r.ports = {} \/ c.port \in r.ports)

(* In block mode a connection of the child's program to what policy denies   *)
(* gets through only if the firewall was not given the rule, because adding  *)
(* it failed or the name had another address when it was asked for, or if it *)
(* is no TCP and the rule has ports, which the firewall is told of for TCP.  *)
DeniedIsFenced ==
  settings.mode = "block" =>
    \A c \in passed : \A r \in DenyRules :
      Matches(r, c) => c.addr \in missing[r] \/ (r.ports # {} /\ c.proto # "tcp")

(* In block mode, with a policy on programs, the run fails if anything       *)
(* denied happened while the child ran, though the trace is late to tell; so *)
(* it does for a connection to an address that policy denies in so many      *)
(* words, which got past the firewall.  It fails for nothing else.           *)
DeniedFailsRun ==
  phase = "exited" =>
    /\ settings.mode = "block" /\ settings.exec =>
         /\ owed \subseteq untold \/ runExit = 1
         /\ \A c \in passed : \A r \in DenyRules :
              r.kind = "address" /\ Matches(r, c) => c.id \in untold \/ runExit = 1
    /\ runExit # child => settings.mode = "block" /\ deniedTold > 0

(* The firewall's rules are gone after a run that ended in an error, unless  *)
(* the command that removes them failed, and are all left after one that     *)
(* ended by itself.                                                          *)
RulesAfterwards ==
  /\ phase = "failed" => fence = {} \/ unremoved
  /\ phase = "exited" /\ settings.mode = "block" =>
       \A r \in DenyRules : \E f \in fence : f.ports = r.ports /\ r.covers \ missing[r] = f.addrs

WindowsHolds == DeniedIsFenced /\ DeniedFailsRun /\ RulesAfterwards
=============================================================================
