----------------------------- MODULE DepsWatch -----------------------------
(* `sakimori deps watch`: a process that scans a workspace for lockfiles,    *)
(* subscribes to file events, debounces them, checks what has settled and    *)
(* notifies, reverts or asks; beside package managers that write the         *)
(* lockfiles and a `deps check` that shares the cache of publish dates.      *)
EXTENDS DepsCheck

CONSTANTS
  Lockfiles,    \* paths with a known file name below the roots
  Hidden,       \* those in directories the scan skips
  Locks,        \* what a package manager leaves there
  LockOf,       \* lock |-> its format and entries
  Garbled, Gone,
  AtStart,      \* path |-> content when the watcher is first started
  InHead,       \* path |-> content in HEAD, or Untracked
  Untracked,
  Torn,         \* a cache file that does not parse
  Window,       \* debounce time in ticks of the clock
  Horizon,      \* bound on the time that matters for ages
  MaxWrites, MaxFaults, MaxChecks   \* bounds

Contents == Locks \cup {Garbled, Gone}

ASSUME WatchAssumption ==
  /\ Hidden \subseteq Lockfiles /\ Lockfiles # {}
  /\ Garbled \notin Locks /\ Gone \notin Locks /\ Garbled # Gone
  /\ AtStart \in [Lockfiles -> Contents]
  /\ InHead \in [Lockfiles -> Locks \cup {Untracked}] /\ Untracked \notin Contents
  /\ \A ks \in SUBSET Packages : Torn \notin [ks -> Nat]
  /\ {Window, Horizon, MaxWrites, MaxFaults, MaxChecks} \subseteq Nat
  /\ \A c \in Locks : Listed(LockOf[c]) \subseteq Packages

(* The packages that a check of this lock asks for.                          *)
WantedIn == [c \in Locks |-> Wanted(LockOf[c])]

VARIABLES
  action,    \* --action: "notify", "prompt" or "revert"
  disk,      \* the lockfiles
  now,       \* the time, for ages
  stage,     \* where the watcher is
  found,     \* what the initial scan has found
  inbox,     \* paths with events not yet polled
  pending,   \* Debouncer: path |-> ticks since its last touch, or Idle
  settled,   \* paths of this tick that are still to be checked
  job,       \* the check that runs: [path, content, at, dates]
  fate,      \* history: path |-> what became of its last change
  dates,     \* the cache file
  cli,       \* a `deps check`: [stage, wanted, at, dates, exit]
  writes, faults, checks   \* bounded counters

vars == <<action, disk, now, stage, found, inbox, pending, settled, job, fate, dates, cli,
          writes, faults, checks>>

Idle == -1

(* A change is unread until a check has read it. After that the check runs,  *)
(* finds nothing too young, finds nothing too young among what the registry  *)
(* knew, or tells the user. A change is forgotten when an error ends the     *)
(* tick, missed when no event is seen, and skipped where the scan does not   *)
(* look.                                                                     *)
Open == {"unread", "checking"}
Told == {"unanswered", "notified", "forgotten", "missed", "skipped"}
Fates == Open \cup Told \cup {"clean"}

Stages == {"scan", "subscribe", "poll", "next", "lookup", "truncate", "write", "handle",
           "notify", "ended"}
Subscribed == stage \notin {"scan", "subscribe", "ended"}

(* Opening a cache file that is missing, empty or cut short.                 *)
Opened == IF dates = Torn THEN NoDates ELSE dates

-----------------------------------------------------------------------------
(* Wrong variants of definitions below.                                      *)

\* Make a new table for what has just been touched.
TouchedOnly(got) == [l \in Lockfiles |-> IF l \in got THEN 0 ELSE Idle]

\* Do not look at what is there already.
SeedNothing ==
  /\ stage = "subscribe"
  /\ pending' = [l \in Lockfiles |-> Idle]
  /\ stage' = "poll"
  /\ UNCHANGED <<action, disk, now, found, inbox, settled, job, fate, dates, cli,
                 writes, faults, checks>>

-----------------------------------------------------------------------------
(* Whatever fails costs one of MaxFaults.                                    *)
Fault == faults < MaxFaults /\ faults' = faults + 1

(* A lockfile changes: the watcher, once it is subscribed, gets an event.    *)
Changed(l, c) ==
  /\ disk' = [disk EXCEPT ![l] = c]
  /\ inbox' = IF Subscribed THEN inbox \cup {l} ELSE inbox
  /\ fate' = [fate EXCEPT ![l] =
                CASE stage = "scan" /\ l \in Hidden -> "skipped"
                  [] stage = "subscribe" /\ l \notin found -> "missed"
                  [] OTHER -> "unread"]

(* A package manager, or git, writes, removes or half-writes a lockfile.     *)
Write(l, c) ==
  /\ writes < MaxWrites /\ writes' = writes + 1
  /\ c # disk[l]
  /\ Changed(l, c)
  /\ UNCHANGED <<action, now, stage, found, pending, settled, job, dates, cli, faults, checks>>

Age ==
  /\ now < Horizon /\ now' = now + 1
  /\ UNCHANGED <<action, disk, stage, found, inbox, pending, settled, job, fate, dates, cli,
                 writes, faults, checks>>

(* The time that counts for the debouncer.                                   *)
Tick ==
  /\ \E l \in Lockfiles : pending[l] \in 0 .. Window - 1
  /\ pending' = [l \in Lockfiles |-> IF pending[l] \in 0 .. Window - 1
                                     THEN pending[l] + 1 ELSE pending[l]]
  /\ UNCHANGED <<action, disk, now, stage, found, inbox, settled, job, fate, dates, cli,
                 writes, faults, checks>>

(* The queue of events in the kernel runs over.                              *)
Overflow ==
  /\ inbox # {} /\ Fault
  /\ inbox' = {}
  /\ fate' = [l \in Lockfiles |->
                IF l \in inbox /\ fate[l] = "unread" /\ pending[l] = Idle /\ l \notin settled
                THEN "missed" ELSE fate[l]]
  /\ UNCHANGED <<action, disk, now, stage, found, pending, settled, job, dates, cli,
                 writes, checks>>

-----------------------------------------------------------------------------
(* run_watch: the scan comes first, then the subscription; what was found is *)
(* touched so that it settles like a change.                                 *)
Scan ==
  /\ stage = "scan"
  /\ found' = {l \in Lockfiles \ Hidden : disk[l] # Gone}
  /\ stage' = "subscribe"
  /\ UNCHANGED <<action, disk, now, inbox, pending, settled, job, fate, dates, cli,
                 writes, faults, checks>>

Subscribe ==
  /\ stage = "subscribe"
  /\ pending' = [l \in Lockfiles |-> IF l \in found THEN 0 ELSE Idle]
  /\ stage' = "poll"
  /\ UNCHANGED <<action, disk, now, found, inbox, settled, job, fate, dates, cli,
                 writes, faults, checks>>

SubscribeFails ==
  /\ stage = "subscribe" /\ Fault
  /\ stage' = "ended"
  /\ UNCHANGED <<action, disk, now, found, inbox, pending, settled, job, fate, dates, cli,
                 writes, checks>>

(* Debouncer: touch what was polled, drain what has settled.                 *)
Touched(got) == [l \in Lockfiles |-> IF l \in got THEN 0 ELSE pending[l]]
Drained(p) == {l \in Lockfiles : p[l] >= Window}

(* tick_once up to its loop. An error among the events leaves those behind   *)
(* it for the next poll.                                                     *)
Poll ==
  /\ stage = "poll"
  /\ \E got \in SUBSET inbox :
       /\ \/ got = inbox /\ UNCHANGED faults
          \/ got # inbox /\ Fault
       /\ LET touched == Touched(got)
              drained == Drained(touched) \ {l \in Lockfiles : touched[l] = Idle}
          IN /\ settled' = drained
             /\ pending' = [l \in Lockfiles |-> IF l \in drained THEN Idle ELSE touched[l]]
       /\ inbox' = inbox \ got
  /\ stage' = "next"
  /\ UNCHANGED <<action, disk, now, found, job, fate, dates, cli, writes, checks>>

EndTick ==
  /\ stage = "next" /\ settled = {}
  /\ stage' = "poll"
  /\ UNCHANGED <<action, disk, now, found, inbox, pending, settled, job, fate, dates, cli,
                 writes, faults, checks>>

(* The check of l ends: what is said of it, unless it has changed meanwhile. *)
Verdict(l, v) == fate' = [fate EXCEPT ![l] = IF @ = "checking" THEN v ELSE @]

(* The ? of tick_once: the rest of what has settled is forgotten, but for    *)
(* what has an event in the queue.                                           *)
Forget(l) ==
  /\ fate' = [m \in Lockfiles |->
                IF \/ m = l /\ fate[m] \in Open /\ m \notin inbox
                   \/ m \in settled /\ fate[m] = "unread" /\ m \notin inbox
                THEN "forgotten" ELSE fate[m]]
  /\ settled' = {}
  /\ stage' = "poll"

(* check: parse the lockfile, open the cache and read the clock.             *)
StartCheck ==
  /\ stage = "next"
  /\ \E l \in settled :
       /\ disk[l] \in Locks
       /\ job' = [path |-> l, content |-> disk[l], at |-> now, dates |-> Opened]
       /\ fate' = [fate EXCEPT ![l] = "checking"]
       /\ settled' = settled \ {l}
  /\ stage' = "lookup"
  /\ UNCHANGED <<action, disk, now, found, inbox, pending, dates, cli, writes, faults, checks>>

(* The file is gone or does not parse, or the cache cannot be read.          *)
CheckFails ==
  /\ stage = "next"
  /\ \E l \in settled :
       /\ \/ disk[l] \in Locks /\ Fault
          \/ disk[l] \notin Locks /\ UNCHANGED faults
       /\ Forget(l)
  /\ UNCHANGED <<action, disk, now, found, inbox, pending, job, dates, cli, writes, checks>>

(* report.violations decides what follows the check.                         *)
Judged(known) ==
  IF Violations(WantedIn[job.content], known, job.at) # {}
  THEN stage' = "handle" /\ UNCHANGED fate
  ELSE /\ stage' = "next"
       /\ Verdict(job.path, IF Unanswered(WantedIn[job.content], known) = {}
                            THEN "clean" ELSE "unanswered")

(* The lookups, one after the other. Only what was added is saved.           *)
Lookup ==
  /\ stage = "lookup"
  /\ \E unknown \in SUBSET (WantedIn[job.content] \ Hits(WantedIn[job.content], job.dates)) :
       LET known == WithAnswers(WantedIn[job.content], job.dates, unknown) IN
         /\ \/ unknown = {} /\ UNCHANGED faults
            \/ unknown # {} /\ Fault
         /\ job' = [job EXCEPT !.dates = known]
         /\ IF known = job.dates THEN Judged(known)
            ELSE stage' = "truncate" /\ UNCHANGED fate
  /\ UNCHANGED <<action, disk, now, found, inbox, pending, settled, dates, cli, writes, checks>>

(* Cache::save: the file is truncated and then written. Over the longer text *)
(* of another writer the result does not parse.                              *)
Truncate ==
  /\ stage = "truncate"
  /\ dates' = Torn /\ stage' = "write"
  /\ UNCHANGED <<action, disk, now, found, inbox, pending, settled, job, fate, cli,
                 writes, faults, checks>>

Overwritten(new) == IF dates = Torn THEN {new} ELSE {new, Torn}

Save ==
  /\ stage = "write"
  /\ dates' \in Overwritten(job.dates)
  /\ Judged(job.dates)
  /\ UNCHANGED <<action, disk, now, found, inbox, pending, settled, job, cli,
                 writes, faults, checks>>

(* Then check fails, whatever it has found.                                  *)
SaveFails ==
  /\ stage \in {"truncate", "write"} /\ Fault
  /\ Forget(job.path)
  /\ UNCHANGED <<action, disk, now, found, inbox, pending, job, dates, cli, writes, checks>>

(* `git checkout HEAD -- <lockfile>` writes the file if it differs, and the  *)
(* watcher sees its own write as one more event.                             *)
Revert ==
  /\ stage = "handle" /\ action \in {"revert", "prompt"}
  /\ InHead[job.path] # Untracked
  /\ IF InHead[job.path] = disk[job.path] THEN UNCHANGED <<disk, inbox, fate>>
     ELSE Changed(job.path, InHead[job.path])
  /\ stage' = "notify"
  /\ UNCHANGED <<action, now, found, pending, settled, job, dates, cli, writes, faults, checks>>

(* NotifyOnly, "Keep" or no answer to the prompt, a lockfile git does not    *)
(* track, and whatever fails in git.                                         *)
LeaveAsIs ==
  /\ stage = "handle"
  /\ \/ action \in {"notify", "prompt"} \/ InHead[job.path] = Untracked
     \/ faults < MaxFaults
  /\ faults' = IF action = "revert" /\ InHead[job.path] # Untracked THEN faults + 1 ELSE faults
  /\ stage' = "notify"
  /\ UNCHANGED <<action, disk, now, found, inbox, pending, settled, job, fate, dates, cli,
                 writes, checks>>

Notify ==
  /\ stage = "notify"
  /\ Verdict(job.path, "notified")
  /\ stage' = "next"
  /\ UNCHANGED <<action, disk, now, found, inbox, pending, settled, job, dates, cli,
                 writes, faults, checks>>

NotifyFails ==
  /\ stage = "notify" /\ Fault
  /\ Forget(job.path)
  /\ UNCHANGED <<action, disk, now, found, inbox, pending, job, dates, cli, writes, checks>>

(* The watcher dies and is started again.                                    *)
Restart ==
  /\ Fault
  /\ stage' = "scan"
  /\ found' = {} /\ settled' = {} /\ inbox' = {}
  /\ pending' = [l \in Lockfiles |-> Idle]
  /\ fate' = [l \in Lockfiles |-> IF l \in Hidden THEN "skipped" ELSE "unread"]
  /\ UNCHANGED <<action, disk, now, job, dates, cli, writes, checks>>

-----------------------------------------------------------------------------
(* `sakimori deps check` on some lockfiles, another process.                 *)
CliOff == [stage |-> "off", wanted |-> {}, at |-> 0, dates |-> NoDates, exit |-> 0]

CliStart ==
  /\ cli.stage = "off" /\ checks < MaxChecks /\ checks' = checks + 1
  /\ \E ls \in (SUBSET Lockfiles) \ {{}} :
       cli' = IF \A l \in ls : disk[l] \in Locks
              THEN [stage |-> "lookup", wanted |-> UNION {WantedIn[disk[l]] : l \in ls},
                    at |-> now, dates |-> Opened, exit |-> 0]
              ELSE [CliOff EXCEPT !.stage = "done", !.exit = 1]
  /\ UNCHANGED <<action, disk, now, stage, found, inbox, pending, settled, job, fate, dates,
                 writes, faults>>

(* run: the exit code, with and without --fail-on-missing.                   *)
ExitCode(wanted, known, at, failOnMissing) ==
  IF \/ Violations(wanted, known, at) # {}
     \/ failOnMissing /\ Unanswered(wanted, known) # {}
  THEN 1 ELSE 0

CliLookup ==
  /\ cli.stage = "lookup"
  /\ \E unknown \in SUBSET (cli.wanted \ Hits(cli.wanted, cli.dates)), strict \in BOOLEAN :
       LET known == WithAnswers(cli.wanted, cli.dates, unknown) IN
         /\ \/ unknown = {} /\ UNCHANGED faults
            \/ unknown # {} /\ Fault
         /\ cli' = [cli EXCEPT !.dates = known,
                               !.exit = ExitCode(cli.wanted, known, cli.at, strict),
                               !.stage = IF known = cli.dates THEN "done" ELSE "truncate"]
  /\ UNCHANGED <<action, disk, now, stage, found, inbox, pending, settled, job, fate, dates,
                 writes, checks>>

CliTruncate ==
  /\ cli.stage = "truncate"
  /\ dates' = Torn /\ cli' = [cli EXCEPT !.stage = "write"]
  /\ UNCHANGED <<action, disk, now, stage, found, inbox, pending, settled, job, fate,
                 writes, faults, checks>>

CliSave ==
  /\ cli.stage = "write"
  /\ dates' \in Overwritten(cli.dates)
  /\ cli' = [cli EXCEPT !.stage = "done"]
  /\ UNCHANGED <<action, disk, now, stage, found, inbox, pending, settled, job, fate,
                 writes, faults, checks>>

CliSaveFails ==
  /\ cli.stage \in {"truncate", "write"} /\ Fault
  /\ cli' = [cli EXCEPT !.stage = "done", !.exit = 1]
  /\ UNCHANGED <<action, disk, now, stage, found, inbox, pending, settled, job, fate, dates,
                 writes, checks>>

-----------------------------------------------------------------------------
Init ==
  /\ action \in {"notify", "prompt", "revert"}
  /\ disk = AtStart /\ now = MinAge
  /\ stage = "scan" /\ found = {} /\ inbox = {} /\ settled = {}
  /\ pending = [l \in Lockfiles |-> Idle]
  /\ job = [path |-> CHOOSE l \in Lockfiles : TRUE, content |-> Gone, at |-> 0, dates |-> NoDates]
  /\ fate = [l \in Lockfiles |-> IF l \in Hidden THEN "skipped" ELSE "unread"]
  /\ dates = NoDates /\ cli = CliOff
  /\ writes = 0 /\ faults = 0 /\ checks = 0

Watcher ==
  \/ Scan \/ Subscribe \/ Poll \/ EndTick \/ StartCheck \/ CheckFails \/ Lookup \/ Truncate
  \/ Save \/ SaveFails \/ Revert \/ LeaveAsIs \/ Notify \/ NotifyFails
Cli == CliStart \/ CliLookup \/ CliTruncate \/ CliSave \/ CliSaveFails
PackageManager == \E l \in Lockfiles, c \in Contents : Write(l, c)

Next ==
  \/ Watcher \/ Cli \/ PackageManager \/ Age \/ Tick
  \/ Overflow \/ SubscribeFails \/ Restart

Spec == Init /\ [][Next]_vars

(* The watcher is run, its calls return (the registry client has timeouts,   *)
(* the prompt gives up), and the clock of the debouncer goes on.             *)
FairSpec == Spec /\ WF_vars(Watcher) /\ WF_vars(Tick)

-----------------------------------------------------------------------------
TypeOK ==
  /\ action \in {"notify", "prompt", "revert"}
  /\ disk \in [Lockfiles -> Contents] /\ now \in Nat
  /\ stage \in Stages
  /\ found \subseteq Lockfiles /\ inbox \subseteq Lockfiles /\ settled \subseteq Lockfiles
  /\ pending \in [Lockfiles -> {Idle} \cup 0 .. Window]
  /\ fate \in [Lockfiles -> Fates]
  /\ job.path \in Lockfiles /\ job.content \in Contents /\ job.at \in Nat
  /\ cli.wanted \subseteq Packages /\ cli.at \in Nat /\ cli.exit \in {0, 1}
  /\ writes \in Nat /\ faults \in Nat /\ checks \in Nat

(* A change of a lockfile is never lost in between: while it is unread it is *)
(* in the queue of events, in the debouncer, among what has settled, or      *)
(* about to be touched or found by the start of the watcher.                 *)
(* discover.rs:31, engine.rs:46, debounce.rs:27                              *)
OnItsWay ==
  \A l \in Lockfiles : fate[l] = "unread" /\ disk[l] # Gone =>
    \/ stage \in {"scan", "ended"}
    \/ stage = "subscribe" /\ l \in found
    \/ Subscribed /\ (l \in inbox \/ pending[l] # Idle \/ l \in settled)

Agrees(cache) ==
  \A k \in DOMAIN cache, p \in DOMAIN Published : KeyOf(p) = k => cache[k] = Published[p]

(* The cache, as a file and as each process has it, tells of every package   *)
(* what the registry tells, whatever two processes do to the file.           *)
(* cache.rs:22, cache.rs:53, deps/mod.rs:212                                 *)
CacheTrue == (dates # Torn => Agrees(dates)) /\ Agrees(job.dates) /\ Agrees(cli.dates)

(* A lockfile whose last change is settled as clean holds no package that is *)
(* too young, though it may have been written between two reads, and though  *)
(* the dates come from a cache another process has written.                  *)
(* engine.rs:58, deps/mod.rs:108                                             *)
CleanIsOld ==
  \A l \in Lockfiles : fate[l] = "clean" =>
    /\ disk[l] \in Locks
    /\ \A p \in WantedIn[disk[l]] : p \in DOMAIN Published /\ now - Published[p] >= MinAge

(* `deps check` passes only if all that it was to check is old enough or the *)
(* registry did not answer. deps/cli.rs:168                                  *)
ExitZeroMeansOld ==
  cli.stage = "done" /\ cli.exit = 0 =>
    \A p \in Hits(cli.wanted, cli.dates) : p \in DOMAIN Published /\ cli.at - Published[p] >= MinAge

(* What passes, in the watcher and in the command line, was old enough: a    *)
(* stale, torn or lost cache never makes a package older than it is.         *)
PassedIsOld == CacheTrue /\ CleanIsOld /\ ExitZeroMeansOld

TooYoungIn(l) ==
  disk[l] \in Locks /\ \E p \in WantedIn[disk[l]] \cap DOMAIN Published : now - Published[p] < MinAge

(* A lockfile with a package that is too young does not stay so unnoticed:   *)
(* it is changed or reverted, the package grows old, the user is told, or    *)
(* the change is one that an error, the scan or the registry has lost.       *)
(* engine.rs:46, action.rs:84                                                *)
YoungIsNoticed ==
  \A l \in Lockfiles :
    TooYoungIn(l) ~> (~TooYoungIn(l) \/ fate[l] \in Told \/ stage = "ended")
=============================================================================
