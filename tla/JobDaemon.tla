------------------------------ MODULE JobDaemon -----------------------------
(* A GitHub Actions job under sakimori: the daemon that observes it          *)
(* (crates/sakimori/src/daemon.rs, loader.rs), the event pipeline inside the *)
(* daemon, the pid file, `sakimori daemon stop`, and the job's pre, step and *)
(* post hooks that start and stop it and turn its report into the outcome of *)
(* the job (job/pre.js, job/post.js, job/stop/action.yml).                   *)
EXTENDS Naturals, Sequences, SequencesExt

CONSTANTS
  JobDaemons,   \* the daemon the pre hook spawns (one)
  OtherDaemons, \* daemons a step starts with the same --pid-file
  Earlier,      \* the daemon of an earlier job on this runner
  Modes,        \* audit, block
  NoPid,
  RingCap,      \* events the ring buffer holds
  MaxEvents,    \* bound: events while a daemon observes
  MaxCrashes    \* bound: daemons killed

Daemons == JobDaemons \cup OtherDaemons

ASSUME DaemonAssumption ==
  /\ Earlier \notin Daemons /\ NoPid \notin Daemons
  /\ JobDaemons \cap OtherDaemons = {}
  /\ \A x, y \in JobDaemons : x = y
ASSUME BoundAssumption ==
  Modes \subseteq {"audit", "block"} /\ RingCap \in Nat /\ MaxEvents \in Nat
    /\ MaxCrashes \in Nat

VARIABLES
  mode,      \* the mode input, which pre.js passes on and post.js reads
  pidFile,   \* the pid in it, or NoPid when there is no file
  log,       \* the JSON documents of the audit log, oldest first
  pc,        \* where each daemon is
  bpf,       \* its programs are attached to the cgroup of the job
  ring,      \* its ring buffer: TRUE is a denied event
  drain,     \* its drain task: waiting for a map, looping or ended
  denied,    \* it has counted a denied event
  term,      \* SIGTERM is pending
  stage,     \* where the job is
  env,       \* pre.js has exported the pid file and the log
  verdict,   \* the job's outcome so far
  spc,       \* where the job's current `daemon stop` is
  spid,      \* the pid it has read
  flagged,   \* history: a denied event was recorded: no, late (after the
             \* shutdown of the job's daemon began) or in time
  mishap,    \* history: whether a report or a part of one was lost, a stop
             \* timed out, and job/stop was used
  events, crashes

daemonVars == <<pc, bpf, ring, drain, denied, term>>
jobVars    == <<mode, stage, env, verdict>>
stopVars   == <<spc, spid>>
history    == <<flagged, mishap, events, crashes>>
vars == <<daemonVars, jobVars, stopVars, history, pidFile, log>>

Alive(p) == p \in Daemons /\ pc[p] \notin {"unborn", "dead"}
Doc(d, x) == [by |-> d, denied |-> x]

(* The kernel closes what a process held when it is gone.                    *)
Exit(d) ==
  /\ pc' = [pc EXCEPT ![d] = "dead"]
  /\ bpf' = [bpf EXCEPT ![d] = FALSE]

Goto(d, label) == pc' = [pc EXCEPT ![d] = label]

-----------------------------------------------------------------------------
(* Wrong variants of definitions below.                                      *)

\* Publish the pid before the programs are attached.
CheckThenPublish(d) ==
  /\ pc[d] = "starting"
  /\ \/ Alive(pidFile) /\ Exit(d) /\ UNCHANGED pidFile
     \/ ~Alive(pidFile) /\ Goto(d, "attaching") /\ pidFile' = d /\ UNCHANGED bpf
  /\ UNCHANGED <<ring, drain, denied, term, jobVars, stopVars, history, log>>

\* Take the removal of the pid file for the end of the daemon.
PollPidFile ==
  /\ spc = "polling"
  /\ ~Alive(spid) \/ pidFile = NoPid
  /\ pidFile' = NoPid
  /\ spc' = "ok"
  /\ UNCHANGED <<daemonVars, jobVars, history, spid, log>>

\* Wait for the pid file without a deadline.
PreWaits == FALSE

\* Decide on the first document of an appended log.
FirstDocument == log[1]

-----------------------------------------------------------------------------
Init ==
  /\ mode \in Modes
  /\ pidFile = NoPid
  /\ log \in {<<>>, <<Doc(Earlier, TRUE)>>}
  /\ pc = [d \in Daemons |-> "unborn"]
  /\ bpf = [d \in Daemons |-> FALSE]
  /\ ring = [d \in Daemons |-> <<>>]
  /\ drain = [d \in Daemons |-> "none"]
  /\ denied = [d \in Daemons |-> FALSE]
  /\ term = [d \in Daemons |-> FALSE]
  /\ stage = "pre"
  /\ env = FALSE
  /\ verdict = "ok"
  /\ spc = "idle"
  /\ spid = NoPid
  /\ flagged = "no"
  /\ mishap = {}
  /\ events = 0
  /\ crashes = 0

(* -- the daemon ----------------------------------------------------------- *)

(* check_pidfile_unused: a live owner is respected, a stale file ignored.    *)
CheckPidFile(d) ==
  /\ pc[d] = "starting"
  /\ \/ Alive(pidFile) /\ Exit(d)
     \/ ~Alive(pidFile) /\ Goto(d, "attaching") /\ UNCHANGED bpf
  /\ UNCHANGED <<ring, drain, denied, term, jobVars, stopVars, history, pidFile, log>>

(* Supervisor::start_with_cgroup: attach, then spawn the drain task.         *)
Attach(d) ==
  /\ pc[d] = "attaching"
  /\ Goto(d, "publishing")
  /\ bpf' = [bpf EXCEPT ![d] = TRUE]
  /\ drain' = [drain EXCEPT ![d] = "looping"]
  /\ UNCHANGED <<ring, denied, term, jobVars, stopVars, history, pidFile, log>>

(* Without programs an audit goes on unobserved, a block refuses to run.     *)
AttachFails(d) ==
  /\ pc[d] = "attaching"
  /\ \/ mode = "block" /\ Exit(d)
     \/ mode = "audit" /\ Goto(d, "publishing") /\ UNCHANGED bpf
  /\ mishap' = mishap \cup {"loss"}
  /\ UNCHANGED <<ring, drain, denied, term, jobVars, stopVars, flagged, events,
                 crashes, pidFile, log>>

(* write_pidfile: tmp and rename, over whatever is there.                    *)
Publish(d) ==
  /\ pc[d] = "publishing"
  /\ pidFile' = d
  /\ Goto(d, "ready")
  /\ UNCHANGED <<bpf, ring, drain, denied, term, jobVars, stopVars, history, log>>

(* wait_for_shutdown installs the handlers and parks.                        *)
Park(d) ==
  /\ pc[d] = "ready" /\ ~term[d]
  /\ Goto(d, "parked")
  /\ UNCHANGED <<bpf, ring, drain, denied, term, jobVars, stopVars, history, pidFile, log>>

(* A signal before there is a handler has its default action.                *)
KilledEarly(d) ==
  /\ pc[d] = "ready" /\ term[d]
  /\ Exit(d)
  /\ mishap' = mishap \cup {"loss"}
  /\ UNCHANGED <<ring, drain, denied, term, jobVars, stopVars, flagged, events,
                 crashes, pidFile, log>>

Terminate(d) ==
  /\ pc[d] = "parked" /\ term[d]
  /\ Goto(d, "unlinking")
  /\ UNCHANGED <<bpf, ring, drain, denied, term, jobVars, stopVars, history, pidFile, log>>

(* The pid file goes first, whoever it names by now.                         *)
Unlink(d) ==
  /\ pc[d] = "unlinking"
  /\ pidFile' = NoPid
  /\ Goto(d, "window")
  /\ UNCHANGED <<bpf, ring, drain, denied, term, jobVars, stopVars, history, log>>

(* Supervisor::shutdown: 50 ms, the stop flag, 50 ms, a copy of the stats.   *)
(* Nothing waits for the drain task: a window that is too short loses what   *)
(* it has not drained, since what it does later reaches nobody.              *)
RaiseStop(d) ==
  /\ pc[d] = "window"
  /\ Goto(d, "stopped")
  /\ UNCHANGED <<bpf, ring, drain, denied, term, jobVars, stopVars, history, pidFile, log>>

Snapshot(d) ==
  /\ pc[d] = "stopped"
  /\ Goto(d, "reporting")
  /\ bpf' = [bpf EXCEPT ![d] = FALSE]
  /\ drain' = [drain EXCEPT ![d] = "ended"]
  /\ mishap' = IF drain[d] = "looping" THEN mishap \cup {"loss"} ELSE mishap
  /\ UNCHANGED <<ring, denied, term, jobVars, stopVars, flagged, events, crashes,
                 pidFile, log>>

(* report::write appends one document; the exit code reaches nobody.         *)
Report(d) ==
  /\ pc[d] = "reporting"
  /\ Exit(d)
  /\ log' = Append(log, Doc(d, denied[d]))
  /\ UNCHANGED <<ring, drain, denied, term, jobVars, stopVars, history, pidFile>>

ReportFails(d) ==
  /\ pc[d] = "reporting"
  /\ Exit(d)
  /\ mishap' = mishap \cup {"loss"}
  /\ UNCHANGED <<ring, drain, denied, term, jobVars, stopVars, flagged, events,
                 crashes, pidFile, log>>

Crash(d) ==
  /\ crashes < MaxCrashes /\ Alive(d)
  /\ crashes' = crashes + 1
  /\ Exit(d)
  /\ mishap' = mishap \cup {"loss"}
  /\ UNCHANGED <<ring, drain, denied, term, jobVars, stopVars, flagged, events,
                 pidFile, log>>

(* -- the event pipeline --------------------------------------------------- *)

(* The kernel program of every attached daemon reserves a record; when there *)
(* is no room the event is not reported, and nothing counts it.              *)
Event(x) ==
  /\ stage # "ended" /\ events < MaxEvents
  /\ \E d \in Daemons : bpf[d]
  /\ events' = events + 1
  /\ LET hears == {d \in Daemons : bpf[d]}
         room == {d \in hears : Len(ring[d]) < RingCap}
     IN /\ ring' = [d \in Daemons |->
                      IF d \in room THEN Append(ring[d], x) ELSE ring[d]]
        /\ mishap' = IF room = hears THEN mishap ELSE mishap \cup {"loss"}
        /\ flagged' = IF x /\ \E d \in room \cap JobDaemons : pc[d] \in {"ready", "parked"}
                      THEN "in time"
                      ELSE IF x /\ room # {} /\ flagged = "no" THEN "late" ELSE flagged
  /\ UNCHANGED <<pc, bpf, drain, denied, term, jobVars, stopVars, crashes, pidFile, log>>

(* spawn_ringbuf_drain: one record, ingest and Stats::ingest.                *)
Drain(d) ==
  /\ Alive(d) /\ drain[d] = "looping" /\ ring[d] # <<>>
  /\ denied' = [denied EXCEPT ![d] = @ \/ Head(ring[d])]
  /\ ring' = [ring EXCEPT ![d] = Tail(@)]
  /\ UNCHANGED <<pc, bpf, drain, term, jobVars, stopVars, history, pidFile, log>>

(* The flag is only looked at once the ring is empty.                        *)
DrainEnds(d) ==
  /\ Alive(d) /\ drain[d] = "looping" /\ ring[d] = <<>> /\ pc[d] = "stopped"
  /\ drain' = [drain EXCEPT ![d] = "ended"]
  /\ UNCHANGED <<pc, bpf, ring, denied, term, jobVars, stopVars, history, pidFile, log>>

(* -- sakimori daemon stop, run by the job --------------------------------- *)

(* A missing file means there is nothing to do.                              *)
StopReads ==
  /\ spc = "reading"
  /\ spid' = pidFile
  /\ spc' = IF pidFile = NoPid THEN "ok" ELSE "checking"
  /\ UNCHANGED <<daemonVars, jobVars, history, pidFile, log>>

StopFindsDead ==
  /\ spc = "checking" /\ ~Alive(spid)
  /\ pidFile' = NoPid
  /\ spc' = "ok"
  /\ UNCHANGED <<daemonVars, jobVars, history, spid, log>>

StopFindsAlive ==
  /\ spc = "checking" /\ Alive(spid)
  /\ spc' = "signalling"
  /\ UNCHANGED <<daemonVars, jobVars, history, spid, pidFile, log>>

(* send_sigterm: a daemon that is gone by now is an error.                   *)
StopSignals ==
  /\ spc = "signalling"
  /\ term' = [d \in Daemons |-> term[d] \/ (d = spid /\ Alive(d))]
  /\ spc' = IF Alive(spid) THEN "polling" ELSE "failed"
  /\ UNCHANGED <<pc, bpf, ring, drain, denied, jobVars, history, spid, pidFile, log>>

(* Every 100 ms; the file is removed once more when the daemon is gone.      *)
StopPolls ==
  /\ spc = "polling" /\ ~Alive(spid)
  /\ pidFile' = NoPid
  /\ spc' = "ok"
  /\ UNCHANGED <<daemonVars, jobVars, history, spid, log>>

StopTimesOut ==
  /\ spc = "polling" /\ Alive(spid)
  /\ spc' = "failed"
  /\ mishap' = mishap \cup {"timeout"}
  /\ UNCHANGED <<daemonVars, jobVars, flagged, events, crashes, spid, pidFile, log>>

(* -- the job -------------------------------------------------------------- *)

Advance(s) == stage' = s /\ UNCHANGED <<mode, daemonVars, history, log>>

(* pre.js spawns the daemon and polls for the pid file.                      *)
PreSpawns(d) ==
  /\ stage = "pre" /\ pc[d] = "unborn"
  /\ Goto(d, "starting")
  /\ UNCHANGED <<bpf, ring, drain, denied, term, jobVars, stopVars, history, pidFile, log>>

PreReady ==
  /\ stage = "pre" /\ pidFile # NoPid
  /\ env' = TRUE
  /\ Advance("steps")
  /\ UNCHANGED <<verdict, stopVars, pidFile>>

(* 20 s are over; the daemon is not killed.                                  *)
PreTimesOut ==
  /\ stage = "pre" /\ pidFile = NoPid
  /\ \E d \in JobDaemons : pc[d] # "unborn"
  /\ stage' = "post" /\ verdict' = "fail"
  /\ mishap' = mishap \cup {"loss"}
  /\ UNCHANGED <<mode, env, daemonVars, stopVars, flagged, events, crashes, pidFile, log>>

StepStarts(d) ==
  /\ stage = "steps" /\ pc[d] = "unborn"
  /\ Goto(d, "starting")
  /\ UNCHANGED <<bpf, ring, drain, denied, term, jobVars, stopVars, history, pidFile, log>>

(* job/stop: a step of the job, before its artifacts are uploaded.           *)
StopStep ==
  /\ stage = "steps" /\ spc = "idle"
  /\ pidFile # NoPid
  /\ spc' = "reading"
  /\ stage' = "stopStep"
  /\ mishap' = mishap \cup {"job/stop"}
  /\ UNCHANGED <<mode, env, verdict, daemonVars, flagged, events, crashes, spid, pidFile, log>>

StopStepEnds ==
  /\ stage = "stopStep" /\ spc \in {"ok", "failed"}
  /\ spc' = "idle"
  /\ verdict' = IF spc = "failed" THEN "fail" ELSE verdict
  /\ Advance(IF spc = "failed" THEN "post" ELSE "steps")
  /\ UNCHANGED <<env, spid, pidFile>>

StepsEnd ==
  /\ stage = "steps"
  /\ Advance("post")
  /\ UNCHANGED <<env, verdict, stopVars, pidFile>>

(* post.js: no pid file, nothing to do; the environment may lack its name.   *)
PostFindsNothing ==
  /\ stage = "post" /\ (~env \/ pidFile = NoPid)
  /\ Advance("ended")
  /\ UNCHANGED <<env, verdict, stopVars, pidFile>>

PostStops ==
  /\ stage = "post" /\ env /\ pidFile # NoPid
  /\ spc' = "reading"
  /\ Advance("stopping")
  /\ UNCHANGED <<env, verdict, spid, pidFile>>

(* The last document of the appended log decides.                            *)
Decisive == Last(log)

PostDecides ==
  /\ stage = "stopping" /\ spc \in {"ok", "failed"}
  /\ spc' = "idle"
  /\ verdict' = IF \/ spc = "failed"
                   \/ mode = "block" /\ log # <<>> /\ Decisive.denied
                  THEN "fail" ELSE verdict
  /\ Advance("ended")
  /\ UNCHANGED <<env, spid, pidFile>>

JobEnded == stage = "ended" /\ UNCHANGED vars

DaemonStep(d) ==
  \/ CheckPidFile(d) \/ Attach(d) \/ AttachFails(d) \/ Publish(d) \/ Park(d)
  \/ KilledEarly(d) \/ Terminate(d) \/ Unlink(d) \/ RaiseStop(d) \/ Snapshot(d)
  \/ Report(d) \/ ReportFails(d)
DrainStep(d) == Drain(d) \/ DrainEnds(d)
StopProcess == StopReads \/ StopFindsDead \/ StopFindsAlive \/ StopSignals \/ StopPolls
JobStep ==
  \/ \E d \in JobDaemons : PreSpawns(d)
  \/ PreReady \/ StopStepEnds \/ StepsEnd
  \/ PostFindsNothing \/ PostStops \/ PostDecides

Next ==
  \/ \E d \in Daemons : DaemonStep(d) \/ DrainStep(d) \/ Crash(d)
  \/ \E d \in OtherDaemons : StepStarts(d)
  \/ \E x \in BOOLEAN : Event(x)
  \/ StopProcess \/ StopTimesOut
  \/ JobStep \/ PreTimesOut \/ StopStep
  \/ JobEnded

(* The runner runs its steps to their end, a daemon and its drain task are   *)
(* scheduled, and a deadline that is reached is noticed.                     *)
Spec ==
  /\ Init /\ [][Next]_vars
  /\ WF_vars(JobStep) /\ WF_vars(PreTimesOut) /\ WF_vars(StopProcess)
  /\ \A d \in Daemons : WF_vars(DaemonStep(d)) /\ WF_vars(DrainStep(d))

-----------------------------------------------------------------------------
TypeOK ==
  /\ mode \in Modes
  /\ pidFile \in Daemons \cup {NoPid}
  /\ log \in Seq([by : Daemons \cup {Earlier}, denied : BOOLEAN])
  /\ pc \in [Daemons -> {"unborn", "starting", "attaching", "publishing", "ready",
                         "parked", "unlinking", "window", "stopped", "reporting", "dead"}]
  /\ bpf \in [Daemons -> BOOLEAN]
  /\ ring \in [Daemons -> Seq(BOOLEAN)] /\ \A d \in Daemons : Len(ring[d]) <= RingCap
  /\ drain \in [Daemons -> {"none", "looping", "ended"}]
  /\ denied \in [Daemons -> BOOLEAN]
  /\ term \in [Daemons -> BOOLEAN]
  /\ stage \in {"pre", "steps", "stopStep", "post", "stopping", "ended"}
  /\ env \in BOOLEAN
  /\ verdict \in {"ok", "fail"}
  /\ spc \in {"idle", "reading", "checking", "signalling", "polling", "ok", "failed"}
  /\ spid \in Daemons \cup {NoPid}
  /\ flagged \in {"no", "late", "in time"} /\ mishap \subseteq {"loss", "timeout", "job/stop"}
  /\ events \in 0 .. MaxEvents /\ crashes \in 0 .. MaxCrashes

(* Whoever sees the pid file of a live daemon in block mode is being         *)
(* observed (daemon.rs, "if it's there, we're ready").                       *)
ReadyMeansAttached ==
  \A d \in Daemons :
    mode = "block" /\ pidFile = d /\ Alive(d) => bpf[d]

(* In block mode a denied event that was recorded before the shutdown fails  *)
(* the job, and without one it does not fail, whatever an earlier job left   *)
(* in the log, as long as nothing is lost on the way and the job does not    *)
(* stop the daemon itself (post.js, block-mode failure detection).           *)
VerdictOfEvents ==
  stage = "ended" /\ mode = "block" /\ mishap = {} =>
    /\ flagged = "in time" => verdict = "fail"
    /\ verdict = "fail" => flagged # "no"

(* A `daemon stop` that gave up while the daemon was still writing fails the *)
(* job, in either mode and whoever had run it: no hook goes on to decide on  *)
(* a document of an earlier job (daemon.rs:451, post.js:68).                 *)
TimeoutFails == stage = "ended" /\ "timeout" \in mishap => verdict = "fail"

(* What has happened decides the job: a denied event, or a stop that did not *)
(* end in time, and not what the log holds besides (post.js).                *)
VerdictExact == VerdictOfEvents /\ TimeoutFails

(* VerdictOfEvents without its last condition, which pre.js:353 and          *)
(* post.js:48 do not have: "post.js needs these to decide whether to fail    *)
(* the job when the daemon flagged denied events in block mode".             *)
FlaggedFailsJob ==
  stage = "ended" /\ mode = "block" /\ flagged = "in time" /\ mishap \subseteq {"job/stop"}
    => verdict = "fail"

(* A `daemon stop` that signalled a daemon and reports success has waited    *)
(* for its report, not only for its pid file to go.                          *)
StopWaitsForReport ==
  spc = "ok" /\ spid # NoPid /\ mishap \subseteq {"job/stop"}
    => ~Alive(spid) /\ \E i \in DOMAIN log : log[i].by = spid

(* The job leaves no daemon of its own behind once it got ready, unless the  *)
(* stop timed out.                                                           *)
NoOrphan ==
  stage = "ended" /\ env /\ "timeout" \notin mishap
    => \A d \in JobDaemons : ~Alive(d)

(* A stop that succeeds, and the end of the job, mean that the daemon is     *)
(* gone: the first with its report, the second whatever became of it.        *)
(* daemon.rs:179, daemon.rs:451                                              *)
StopMeansGone == StopWaitsForReport /\ NoOrphan

(* The job ends, whatever happens to the daemon.                             *)
JobEnds == <>(stage = "ended")
=============================================================================
