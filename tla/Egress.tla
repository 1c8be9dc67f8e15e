------------------------------- MODULE Egress -------------------------------
(* What a supervised process may connect to: the network rules of a policy   *)
(* are resolved at startup and written into an eBPF map (enforcer.rs,        *)
(* resolve.rs), a task resolves them again every --dns-refresh-interval and  *)
(* adds what is new (resolve_refresh.rs), and the connect hooks look each    *)
(* address up (sakimori-ebpf).  One address family; its map is a variable.   *)
EXTENDS Integers, FiniteSets

CONSTANTS
  Addrs, Hosts,
  Fixed,         \* the targets that are addresses or CIDRs
  Rules,         \* network.allow and network.deny
  Ports, AnyPort,
  Capacity,      \* BPF_NET_MAP_CAPACITY
  Configs,       \* network.default, mode and whether there is a refresh
  MaxRotations,  \* bound: changes of the DNS
  MaxFaults      \* bound: lookups and map updates that fail

Verdicts  == {"allow", "deny"}
Endpoints == Addrs \X Ports
Keys      == [ep : Endpoints, verdict : Verdicts]
Rule      == [verdict : Verdicts, host : Hosts, ports : (SUBSET Ports) \ {{}}]
Config    == [default : Verdicts, mode : {"audit", "block"}, refresh : BOOLEAN]

ASSUME RuleAssumption ==
  /\ Rules \subseteq Rule /\ Configs \subseteq Config
  /\ Fixed \subseteq Hosts /\ AnyPort \in Ports
ASSUME BoundAssumption ==
  Capacity \in Nat /\ MaxRotations \in Nat /\ MaxFaults \in Nat

VARIABLES
  network,
  dns,         \* what the resolver answers for each target
  entries,     \* the map: "none" where there is no entry
  seen,        \* the endpoints the refresh has written or found in the map
  phase,       \* where the startup or the refresh loop is
  todo,        \* the rules the pass at work has still to resolve
  queue,       \* the endpoints of the last rule it has still to look at
  answers,     \* the last answer to each rule
  stop, woken, \* StopHandle: how far stop() is, and whether it woke the loop
  yielded,     \* history: all the answers to each rule
  rotations, faults

loopVars == <<todo, queue>>
stopVars == <<stop, woken>>
egressVars == <<network, dns, entries, seen, phase, loopVars, answers, stopVars,
                yielded, rotations, faults>>

BetweenPasses == {"top", "select", "checked", "waiting", "done"}
Running == BetweenPasses \cup {"refreshing"}

KeysOf(r, addrs) == [ep : addrs \X r.ports, verdict : {r.verdict}]
NoEntries == [e \in Endpoints |-> "none"]
Full == Cardinality({e \in Endpoints : entries[e] # "none"}) >= Capacity

Fault == faults < MaxFaults /\ faults' = faults + 1

(* The rules are gone through in order, those that allow before those that   *)
(* deny.                                                                     *)
NextRule(r) ==
  /\ r \in todo
  /\ r.verdict = "deny" => \A s \in todo : s.verdict = "deny"

(* Resolver::expand.                                                         *)
Expand(r) ==
  /\ answers' = [answers EXCEPT ![r] = dns[r.host]]
  /\ yielded' = [yielded EXCEPT ![r] = @ \cup dns[r.host]]

-----------------------------------------------------------------------------
(* Wrong variants of definitions below.                                      *)

\* Keep a key whose update failed in seen.
KeepSeen(k) ==
  /\ phase = "refreshing"
  /\ k \in queue \ seen
  /\ (entries[k.ep] = "none" /\ Full /\ UNCHANGED faults) \/ Fault
  /\ queue' = queue \ {k}
  /\ seen' = seen \cup {k}
  /\ UNCHANGED <<network, dns, entries, phase, todo, answers, stopVars,
                 yielded, rotations>>

\* Resolve both buckets as rules that allow.
AllAllowed(r) == [ep : dns[r.host] \X r.ports, verdict : {"allow"}]

\* Wait for the wake-up without a look at the flag.
NeverStopped == FALSE

-----------------------------------------------------------------------------
EgressInit ==
  /\ network \in Configs
  /\ dns \in [Hosts -> (SUBSET Addrs) \ {{}}]
  /\ entries = NoEntries
  /\ seen = {}
  /\ phase = "resolving"
  /\ todo = Rules
  /\ queue = {}
  /\ answers = [r \in Rules |-> {}]
  /\ stop = "no" /\ woken = FALSE
  /\ yielded = [r \in Rules |-> {}]
  /\ rotations = 0 /\ faults = 0

Rotate(h) ==
  /\ h \notin Fixed
  /\ rotations < MaxRotations
  /\ rotations' = rotations + 1
  /\ \E addrs \in (SUBSET Addrs) \ {{}} : dns' = [dns EXCEPT ![h] = addrs]
  /\ UNCHANGED <<network, entries, seen, phase, loopVars, answers, stopVars,
                 yielded, faults>>

(* -- startup: populate_network_maps --------------------------------------- *)

ResolveFirst(r) ==
  /\ phase = "resolving"
  /\ NextRule(r)
  /\ todo' = todo \ {r}
  /\ Expand(r)
  /\ UNCHANGED <<network, dns, entries, seen, phase, queue, stopVars,
                 rotations, faults>>

(* A rule that cannot be resolved is left out.                               *)
ResolveFirstFails(r) ==
  /\ phase = "resolving"
  /\ NextRule(r) /\ r.host \notin Fixed
  /\ Fault
  /\ todo' = todo \ {r}
  /\ UNCHANGED <<network, dns, entries, seen, phase, queue, answers, stopVars,
                 yielded,
                 rotations>>

(* endpoint_counts counts an endpoint as often as rules yield it.            *)
Counted == {c \in Rules \X Endpoints : c[2] \in answers[c[1]] \X c[1].ports}
TooMany == Cardinality(Counted) > Capacity

(* Block mode does not run without its programs, audit mode does.            *)
AttachFails ==
  /\ phase = "resolving" /\ todo = {}
  /\ (TooMany /\ UNCHANGED faults) \/ Fault
  /\ phase' = IF network.mode = "block" THEN "refused" ELSE "passthrough"
  /\ UNCHANGED <<network, dns, entries, seen, loopVars, answers, stopVars,
                 yielded, rotations>>

YieldedBy(verdict, e) ==
  \E r \in Rules : r.verdict = verdict /\ e \in answers[r] \X r.ports

(* Those that deny are written last.                                         *)
Written ==
  [e \in Endpoints |->
     CASE YieldedBy("deny", e) -> "deny"
       [] YieldedBy("allow", e) /\ ~YieldedBy("deny", e) -> "allow"
       [] OTHER -> "none"]

(* prime_seen with current_bpf_entries.                                      *)
Primed(written) == {k \in Keys : written[k.ep] = k.verdict}

Populate ==
  /\ phase = "resolving" /\ todo = {} /\ ~TooMany
  /\ entries' = Written
  /\ seen' = Primed(Written)
  /\ phase' = IF network.refresh THEN "top" ELSE "done"
  /\ UNCHANGED <<network, dns, loopVars, answers, stopVars, yielded,
                 rotations, faults>>

(* -- RefreshLoop::run ----------------------------------------------------- *)

IsStopped == stop # "no"

LoopTop ==
  /\ phase = "top"
  /\ phase' = IF IsStopped THEN "done" ELSE "select"
  /\ UNCHANGED <<network, dns, entries, seen, loopVars, answers, stopVars,
                 yielded,
                 rotations, faults>>

(* StopHandle::notified looks at the flag again before it registers: a       *)
(* wake-up between the two is lost.                                          *)
CheckFlag ==
  /\ phase = "select"
  /\ phase' = IF IsStopped THEN "done" ELSE "checked"
  /\ UNCHANGED <<network, dns, entries, seen, loopVars, answers, stopVars,
                 yielded,
                 rotations, faults>>

Register ==
  /\ phase = "checked"
  /\ phase' = "waiting"
  /\ UNCHANGED <<network, dns, entries, seen, loopVars, answers, stopVars,
                 yielded,
                 rotations, faults>>

Woken ==
  /\ phase = "waiting" /\ woken
  /\ phase' = "done"
  /\ UNCHANGED <<network, dns, entries, seen, loopVars, answers, stopVars,
                 yielded,
                 rotations, faults>>

(* The interval is over; select! may take this branch even when the wake-up  *)
(* has come.                                                                 *)
BeginPass ==
  /\ phase = "waiting"
  /\ phase' = "refreshing"
  /\ todo' = Rules
  /\ woken' = FALSE
  /\ UNCHANGED <<network, dns, entries, seen, queue, answers, stop, yielded,
                 rotations,
                 faults>>

EndPass ==
  /\ phase = "refreshing" /\ todo = {} /\ queue = {}
  /\ phase' = "top"
  /\ UNCHANGED <<network, dns, entries, seen, loopVars, answers, stopVars,
                 yielded,
                 rotations, faults>>

(* -- refresh_once --------------------------------------------------------- *)

Queued(r) == KeysOf(r, dns[r.host])

RefreshResolve(r) ==
  /\ phase = "refreshing" /\ queue = {}
  /\ NextRule(r)
  /\ todo' = todo \ {r}
  /\ Expand(r)
  /\ queue' = Queued(r)
  /\ UNCHANGED <<network, dns, entries, seen, phase, stopVars, rotations,
                 faults>>

RefreshResolveFails(r) ==
  /\ phase = "refreshing" /\ queue = {}
  /\ NextRule(r) /\ r.host \notin Fixed
  /\ Fault
  /\ todo' = todo \ {r}
  /\ UNCHANGED <<network, dns, entries, seen, phase, queue, answers, stopVars,
                 yielded,
                 rotations>>

Skip(k) ==
  /\ phase = "refreshing"
  /\ k \in queue \cap seen
  /\ queue' = queue \ {k}
  /\ UNCHANGED <<network, dns, entries, seen, phase, todo, answers, stopVars,
                 yielded,
                 rotations, faults>>

Insert(k) ==
  /\ phase = "refreshing"
  /\ k \in queue \ seen
  /\ entries[k.ep] # "none" \/ ~Full
  /\ entries' = [entries EXCEPT ![k.ep] = k.verdict]
  /\ seen' = seen \cup {k}
  /\ queue' = queue \ {k}
  /\ UNCHANGED <<network, dns, phase, todo, answers, stopVars, yielded,
                 rotations, faults>>

(* The map is full or the kernel has no memory; seen is rolled back.         *)
InsertFails(k) ==
  /\ phase = "refreshing"
  /\ k \in queue \ seen
  /\ (entries[k.ep] = "none" /\ Full /\ UNCHANGED faults) \/ Fault
  /\ queue' = queue \ {k}
  /\ UNCHANGED <<network, dns, entries, seen, phase, todo, answers, stopVars,
                 yielded,
                 rotations>>

(* -- StopHandle::stop ----------------------------------------------------- *)

StopFlag ==
  /\ phase \in Running /\ network.refresh /\ stop = "no"
  /\ stop' = "flagged"
  /\ UNCHANGED <<network, dns, entries, seen, phase, loopVars, answers, woken,
                 yielded,
                 rotations, faults>>

(* notify_waiters reaches only who is registered.                            *)
StopNotify ==
  /\ stop = "flagged"
  /\ stop' = "sent"
  /\ woken' = (phase = "waiting")
  /\ UNCHANGED <<network, dns, entries, seen, phase, loopVars, answers, yielded,
                 rotations, faults>>

(* -- sakimori_connect4 and sakimori_connect6 ------------------------------ *)

(* What the hook decides on a connect to port p of a.                        *)
Lookup(a, p) ==
  IF entries[<<a, p>>] # "none" THEN entries[<<a, p>>]
  ELSE IF entries[<<a, AnyPort>>] # "none" THEN entries[<<a, AnyPort>>]
  ELSE network.default

-----------------------------------------------------------------------------
Startup ==
  \/ \E r \in Rules : ResolveFirst(r) \/ ResolveFirstFails(r)
  \/ AttachFails \/ Populate
RefreshPass ==
  \/ \E r \in Rules : RefreshResolve(r) \/ RefreshResolveFails(r)
  \/ \E k \in Keys : Skip(k) \/ Insert(k) \/ InsertFails(k)
Loop ==
  LoopTop \/ CheckFlag \/ Register \/ Woken \/ BeginPass \/ RefreshPass \/ EndPass

EgressNext ==
  \/ \E h \in Hosts : Rotate(h)
  \/ Startup \/ Loop \/ StopFlag \/ StopNotify

(* The tasks are scheduled, the interval ends, lookups time out, and stop()  *)
(* is not interrupted.                                                       *)
EgressSpec ==
  /\ EgressInit /\ [][EgressNext]_egressVars
  /\ WF_egressVars(Startup) /\ WF_egressVars(Loop) /\ WF_egressVars(StopNotify)

-----------------------------------------------------------------------------
EgressTypeOK ==
  /\ network \in Configs
  /\ dns \in [Hosts -> SUBSET Addrs]
  /\ entries \in [Endpoints -> Verdicts \cup {"none"}]
  /\ seen \in SUBSET Keys
  /\ phase \in Running \cup {"resolving", "refused", "passthrough"}
  /\ todo \in SUBSET Rules
  /\ queue \in SUBSET Keys
  /\ answers \in [Rules -> SUBSET Addrs]
  /\ stop \in {"no", "flagged", "sent"}
  /\ woken \in BOOLEAN
  /\ yielded \in [Rules -> SUBSET Addrs]
  /\ rotations \in 0 .. MaxRotations
  /\ faults \in 0 .. MaxFaults

(* What the refresh takes for written is written, and what is in the map it  *)
(* knows: a failed update is tried again, and prime_seen leaves nothing to   *)
(* be written twice (resolve_refresh.rs, "a later tick retries").            *)
SeenMirrorsMap ==
  /\ \A k \in seen : entries[k.ep] # "none"
  /\ \A e \in Endpoints :
       entries[e] # "none" => [ep |-> e, verdict |-> entries[e]] \in seen

(* A connect is decided by the default, or by a rule that has yielded the    *)
(* address, for its port or for any port.                                    *)
VerdictJustified ==
  \A a \in Addrs, p \in Ports :
    phase \in Running /\ Lookup(a, p) # network.default =>
      \E r \in Rules :
        /\ r.verdict = Lookup(a, p)
        /\ r.ports \cap {p, AnyPort} # {} /\ a \in yielded[r]

(* An address that a rule denies stays denied, whatever the DNS answers      *)
(* later, as long as no rule that allows yields it too                       *)
(* (resolve_refresh.rs, "Additive only").                                    *)
AllowsNowhere(a) == \A r \in Rules : r.verdict = "allow" => a \notin yielded[r]
DenySticks ==
  \A k \in seen :
    k.verdict = "deny" /\ AllowsNowhere(k.ep[1])
      => \A p \in Ports : k.ep[2] \in {p, AnyPort} => Lookup(k.ep[1], p) = "deny"

(* The kernel's verdicts are those of the rules, of both kinds.              *)
RulesHold == VerdictJustified /\ DenySticks

(* The map is what the refresh takes it for, and what the rules ask for.     *)
MapHolds == SeenMirrorsMap /\ RulesHold

(* An address the DNS keeps giving for a rule gets into the map, though      *)
(* lookups and updates fail, unless the map is full: what rotation brings is *)
(* not refused for long (resolve_refresh.rs, "Problem").                     *)
AnswersReachMap ==
  \A r \in Rules, a \in Addrs :
    network.refresh /\ a \in dns[r.host]
      ~> \/ (\A p \in r.ports : entries[<<a, p>>] # "none") \/ Full
         \/ a \notin dns[r.host] \/ IsStopped \/ phase \in {"refused", "passthrough"}

(* stop() ends the loop wherever it is, also when its wake-up is lost        *)
(* (resolve_refresh.rs, StopHandle).                                         *)
StopEnds == stop # "no" ~> phase = "done"
=============================================================================
