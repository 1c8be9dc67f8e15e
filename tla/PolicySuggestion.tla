-------------------------- MODULE PolicySuggestion --------------------------
(* From an audited run to a policy for the same run in block mode:           *)
(* `run --mode audit --log`, `policy suggest`, `run -p --mode block`         *)
(* (suggest.rs with stats.rs, resolve_hostnames.rs and report.rs before it,  *)
(* and resolve.rs, matcher.rs and policy.rs after it).                       *)
EXTENDS Integers, Sequences, FiniteSets, SequencesExt

CONSTANTS
  Addrs,         \* addresses the build connects to
  Ports, AnyPort,  \* AnyPort is 0: a connect may use it, a rule means any by it
  Ptr,           \* [Addrs -> the name a reverse lookup answers, or NoName]
  Answers,       \* [names -> addresses a lookup answers]
  NoName,
  Opened,        \* paths the build opens: sequences of characters
  SampleCap,     \* PER_KIND_CAP
  MaxRuns, MaxEvents  \* bounds: audited runs that append to one log, samples in all;
                 \* events end with the first that finds no room

ASSUME SuggestAssumption ==
  /\ AnyPort \in Ports /\ SampleCap \in Nat /\ MaxRuns \in Nat /\ MaxEvents \in Nat
  /\ Addrs \cap DOMAIN Answers = {} /\ NoName \notin Addrs \cup DOMAIN Answers
  /\ Ptr \in [Addrs -> DOMAIN Answers \cup {NoName}] /\ Opened \subseteq Seq(STRING)

VARIABLES
  connects, opens,   \* samples of the audited run, a sequence for each kind
  log,               \* the samples in the file, as it has grown
  policy,            \* the suggestion, once it is written
  seen,              \* history: every connect and open of all audited runs
  dropped            \* history: an event found no room among the samples

suggestVars == <<connects, opens, log, policy, seen, dropped>>
Unsuggested == [made |-> FALSE]

-----------------------------------------------------------------------------
(* Wrong variants of definitions below.                                      *)

\* A target keeps the last of its ports.
LastPort(samples, t) ==
  {Last(SelectSeq(samples, LAMBDA s : s.target = t)).port}

-----------------------------------------------------------------------------
(* The audited run.                                                          *)

Auditing ==
  /\ ~policy.made /\ ~dropped /\ Len(log.runs) < MaxRuns
  /\ Len(connects) + Len(opens) + Len(log.connects) + Len(log.opens) < MaxEvents

(* Stats::ingest: an audited run without a policy denies nothing, so what    *)
(* finds no room is dropped.                                                 *)
Sampled(samples, e) ==
  IF Len(samples) < SampleCap THEN Append(samples, e) ELSE samples

AuditConnect(a, p) ==
  /\ Auditing
  /\ connects' = Sampled(connects, [addr |-> a, port |-> p])
  /\ seen' = [seen EXCEPT !.connects = @ \cup {<<a, p>>}]
  /\ dropped' = (dropped \/ Len(connects) >= SampleCap)
  /\ UNCHANGED <<opens, log, policy>>

AuditOpen(path) ==
  /\ Auditing
  /\ opens' = Sampled(opens, path)
  /\ seen' = [seen EXCEPT !.opens = @ \cup {path}]
  /\ dropped' = (dropped \/ Len(opens) >= SampleCap)
  /\ UNCHANGED <<connects, log, policy>>

(* resolve_hostnames::resolve stamps the name of a reverse lookup that has   *)
(* answered in time on every connect to the address, and report::write       *)
(* appends the samples to the log.                                           *)
EndAudit ==
  /\ ~policy.made /\ Len(log.runs) < MaxRuns
  /\ \E answered \in SUBSET {s.addr : s \in ToSet(connects)} :
       LET Target(a) == IF a \in answered /\ Ptr[a] # NoName THEN Ptr[a] ELSE a
           stamped == [i \in DOMAIN connects |->
                         [target |-> Target(connects[i].addr), port |-> connects[i].port]]
       IN log' = [runs |-> Append(log.runs, Len(connects)),
                  connects |-> log.connects \o stamped, opens |-> log.opens \o opens]
  /\ connects' = <<>> /\ opens' = <<>>
  /\ UNCHANGED <<policy, seen, dropped>>

-----------------------------------------------------------------------------
(* suggest_from_log, suggest_from_samples.                                   *)

(* The ports seen with a target, in a rule of its own.                       *)
PortsOf(samples, t) ==
  {s.port : s \in {x \in ToSet(samples) : x.target = t}}

(* parent_dir: up to the last slash, which it keeps; what has none stays.    *)
ParentDir(path) ==
  IF \E i \in DOMAIN path : path[i] = "/"
  THEN SubSeq(path, 1, Max({i \in DOMAIN path : path[i] = "/"}))
  ELSE path

SuggestPolicy ==
  /\ ~policy.made /\ log.runs # <<>> /\ connects = <<>> /\ opens = <<>>
  /\ policy' =
       [made |-> TRUE,
        allow |-> {[target |-> t, ports |-> PortsOf(log.connects, t)] :
                     t \in {s.target : s \in ToSet(log.connects)}},
        dirs |-> {ParentDir(p) : p \in ToSet(log.opens) \ {<<>>}}]
  /\ UNCHANGED <<connects, opens, log, seen, dropped>>

-----------------------------------------------------------------------------
(* The run in block mode.                                                    *)

(* Resolver::expand: an address is itself, a name what it resolves to.       *)
Resolve(t) == IF t \in Addrs THEN {t} ELSE Answers[t]

(* What the network maps allow, with network.default: deny.                  *)
Allowed(a, p) ==
  \E r \in policy.allow : a \in Resolve(r.target) /\ {p, AnyPort} \cap r.ports # {}

(* prefix_match of matcher.rs.                                               *)
Under(path, dir) ==
  /\ IsPrefix(dir, path)
  /\ \/ Len(path) = Len(dir)
     \/ path[Len(dir) + 1] = "/"
     \/ dir # <<>> /\ Last(dir) = "/"

SuggestInit ==
  /\ connects = <<>> /\ opens = <<>>
  /\ log = [runs |-> <<>>, connects |-> <<>>, opens |-> <<>>]
  /\ policy = Unsuggested
  /\ seen = [connects |-> {}, opens |-> {}] /\ dropped = FALSE

SuggestNext ==
  \/ \E a \in Addrs, p \in Ports : AuditConnect(a, p)
  \/ \E path \in Opened : AuditOpen(path)
  \/ EndAudit
  \/ SuggestPolicy

SuggestSpec == SuggestInit /\ [][SuggestNext]_suggestVars

-----------------------------------------------------------------------------
(* A name the reverse lookup answers leads back to the address.              *)
Confirmed(a) == Ptr[a] # NoName => a \in Answers[Ptr[a]]

(* What the audited runs have done, the suggested policy lets them do again, *)
(* as far as the samples had room and reverse lookups lead back: the         *)
(* connects under network.default deny, the opens also when file.default is  *)
(* turned to deny.                                                           *)
RerunPasses ==
  policy.made /\ ~dropped =>
    \A c \in seen.connects : Confirmed(c[1]) => Allowed(c[1], c[2])

(* The same for files.                                                       *)
OpensCovered ==
  policy.made /\ ~dropped =>
    \A path \in seen.opens \ {<<>>} : \E d \in policy.dirs : Under(path, d)

(* The suggestion opens no port of an address that the audited runs have not *)
(* used with an address of the same name, but for the port 0, by which a     *)
(* rule means all.                                                           *)
SuggestionIsTight ==
  policy.made =>
    \A a \in Addrs, p \in Ports \ {AnyPort} :
      (Allowed(a, p) /\ \A r \in policy.allow : AnyPort \notin r.ports) =>
        \E c \in seen.connects :
          /\ c[2] = p
          /\ c[1] = a \/ (Ptr[c[1]] # NoName /\ a \in Answers[Ptr[c[1]]])

(* The suggested policy is wide enough for the audited runs, and no wider    *)
(* than their ports (suggest.rs).                                            *)
SuggestionFits == RerunPasses /\ OpensCovered /\ SuggestionIsTight
=============================================================================
