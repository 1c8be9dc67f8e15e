----------------------------- MODULE JobProofs ------------------------------
(* Proofs about the job on a CI runner: JobDaemon for any number of daemons, *)
(* events and crashes and any ring, WorkflowAudit for any workflows, tags    *)
(* and CODEOWNERS, and CacheVerification for any lockfiles and stores.       *)
EXTENDS JobDaemon, WorkflowAudit, CacheVerification, SequenceTheorems, WellFoundedInduction, TLAPS

-----------------------------------------------------------------------------
(* The inductive invariant.  The first part holds whatever goes wrong.       *)

Published == {"ready", "parked", "unlinking", "window", "stopped", "reporting", "dead"}
Holding == {"ready", "parked", "unlinking"}
Leaving == {"window", "stopped", "reporting"}

\* Who is named was there, and who is named by the file has not removed it.
Named ==
  \A d \in Daemons :
    /\ pidFile = d => pc[d] \in Holding \cup {"dead"}
    /\ spid = d => pc[d] \in Published

\* A daemon that blocks observes from its publication to the end.
Observing ==
  mode = "block" =>
    \A d \in Daemons : pc[d] \in {"publishing", "window", "stopped"} \cup Holding => bpf[d]

\* It ends because it was told to.
Told == \A d \in Daemons : pc[d] \in {"unlinking"} \cup Leaving => term[d]

\* The stop command runs within two stages, both after the pre hook.
Stages ==
  /\ spc # "idle" => stage \in {"stopStep", "stopping"}
  /\ stage \in {"steps", "stopStep", "stopping"} => env
  /\ stage = "pre" => ~env
  /\ ~env => /\ \A d \in Daemons : ~term[d]
             /\ \A o \in OtherDaemons : pc[o] = "unborn"

\* A stop that timed out has failed the job, or is about to.
TimedOut == "timeout" \in mishap => verdict = "fail" \/ spc = "failed"

StopEndsDead == spc = "ok" /\ spid # NoPid => ~Alive(spid)

\* The job's daemon keeps the file until it leaves, and keeps others out.
Kept ==
  /\ env => JobDaemons # {}
  /\ \A d \in JobDaemons :
       /\ env => pc[d] \in Published
       /\ env /\ pc[d] \in Holding => pidFile = d
       /\ spc \in {"checking", "signalling", "polling"} => spid = d \/ pc[d] \notin Holding
       /\ \A o \in OtherDaemons :
            pc[o] \notin {"unborn", "starting", "dead"} => pc[d] \notin Holding

\* Until a stop times out, the job's daemon is waited for once it is told to end.
Awaited ==
  env /\ "timeout" \notin mishap =>
    \A d \in JobDaemons : Alive(d) =>
      /\ term[d] => spc = "polling" /\ spid = d
      /\ spc \notin {"ok", "failed"} /\ stage # "ended"

(* The second part is about jobs in which no report is lost: a daemon that is*)
(* named in the file is alive, one that a stop has waited for has reported.  *)
Reported ==
  mishap \subseteq {"job/stop"} =>
    \A d \in Daemons :
      /\ pidFile = d => pc[d] # "dead"
      /\ spid = d /\ pc[d] = "dead" => \E i \in DOMAIN log : log[i].by = d

(* The third is about jobs in which nothing has gone wrong.                  *)
Heard(d) == drain[d] = "looping" /\ pc[d] \notin {"reporting", "dead"} /\ \E i \in DOMAIN ring[d] : ring[d][i]

Draining ==
  \A d \in Daemons :
    /\ pc[d] \in {"unborn", "starting", "attaching"} => ~bpf[d] /\ drain[d] = "none"
    /\ pc[d] \in {"publishing", "window"} \cup Holding /\ bpf[d] => drain[d] = "looping"

Recorded ==
  \A d \in Daemons : denied[d] \/ (\E i \in DOMAIN ring[d] : ring[d][i]) => flagged # "no"

\* The job takes its course, and only its own daemon is told to end.
Course ==
  mishap = {} =>
    /\ stage # "stopStep" /\ spc # "failed"
    /\ stage \in {"post", "ended"} => env
    /\ stage # "ended" => verdict = "ok"
    /\ \A d \in Daemons : term[d] => d \in JobDaemons

\* A denied event that was recorded in time is counted or will be.
Heeded ==
  mishap = {} /\ flagged = "in time" => \A d \in JobDaemons : denied[d] \/ Heard(d)

\* The stop deals with the job's daemon, whose document is the last one.
Waited ==
  mishap = {} =>
    \A d \in JobDaemons :
      /\ spc \in {"checking", "signalling", "polling", "ok"} => spid = d
      /\ env /\ pc[d] = "dead" =>
           /\ spc \in {"polling", "ok"} \/ stage = "ended"
           /\ log # <<>> /\ Last(log) = Doc(d, denied[d])

IInv ==
  /\ TypeOK /\ Named /\ Observing /\ Told /\ Stages /\ StopEndsDead /\ Kept /\ Awaited
  /\ Reported /\ Draining /\ Recorded /\ Course /\ Heeded /\ Waited /\ VerdictOfEvents
  /\ TimedOut

-----------------------------------------------------------------------------
(* The steps *)

LEMMA StepCases ==
  ASSUME [Next]_vars
  PROVE  \/ \E d \in Daemons :
              \/ CheckPidFile(d) \/ Attach(d) \/ AttachFails(d) \/ Publish(d) \/ Park(d)
              \/ KilledEarly(d) \/ Terminate(d) \/ Unlink(d) \/ RaiseStop(d) \/ Snapshot(d)
              \/ Report(d) \/ ReportFails(d) \/ Drain(d) \/ DrainEnds(d) \/ Crash(d)
         \/ \E d \in JobDaemons : PreSpawns(d)
         \/ \E d \in OtherDaemons : StepStarts(d)
         \/ \E x \in BOOLEAN : Event(x)
         \/ StopReads \/ StopFindsDead \/ StopFindsAlive \/ StopSignals \/ StopPolls
         \/ StopTimesOut
         \/ PreReady \/ PreTimesOut \/ StopStep \/ StopStepEnds \/ StepsEnd
         \/ PostFindsNothing \/ PostStops \/ PostDecides
         \/ UNCHANGED vars
BY DEF Next, DaemonStep, DrainStep, StopProcess, JobStep, JobEnded

-----------------------------------------------------------------------------
(* Type correctness *)

Flags ==
  /\ bpf \in [Daemons -> BOOLEAN] /\ denied \in [Daemons -> BOOLEAN]
  /\ term \in [Daemons -> BOOLEAN] /\ env \in BOOLEAN

Control ==
  /\ mode \in Modes
  /\ pidFile \in Daemons \cup {NoPid} /\ spid \in Daemons \cup {NoPid}
  /\ pc \in [Daemons -> {"unborn", "starting", "attaching", "publishing", "ready", "parked",
                         "unlinking", "window", "stopped", "reporting", "dead"}]
  /\ drain \in [Daemons -> {"none", "looping", "ended"}]
  /\ stage \in {"pre", "steps", "stopStep", "post", "stopping", "ended"}
  /\ verdict \in {"ok", "fail"}
  /\ spc \in {"idle", "reading", "checking", "signalling", "polling", "ok", "failed"}
  /\ flagged \in {"no", "late", "in time"} /\ mishap \subseteq {"loss", "timeout", "job/stop"}

Docs == [by : Daemons \cup {Earlier}, denied : BOOLEAN]
Data ==
  /\ log \in Seq(Docs)
  /\ ring \in [Daemons -> Seq(BOOLEAN)] /\ \A d \in Daemons : Len(ring[d]) <= RingCap

Counts == events \in 0 .. MaxEvents /\ crashes \in 0 .. MaxCrashes

LEMMA TypeParts == TypeOK <=> Flags /\ Control /\ Data /\ Counts
BY DEF TypeOK, Flags, Control, Data, Docs, Counts

LEMMA OneOrNone == ASSUME NEW S, NEW x \in S PROVE <<>> \in Seq(S) /\ <<x>> \in Seq(S)
OBVIOUS

LEMMA TypeInit == Init => TypeOK
<1> SUFFICES ASSUME Init PROVE TypeOK
  OBVIOUS
<1>1. log \in Seq(Docs)
  <2>1. Doc(Earlier, TRUE) \in Docs
    BY DEF Doc, Docs
  <2>2. <<>> \in Seq(Docs) /\ <<Doc(Earlier, TRUE)>> \in Seq(Docs)
    BY <2>1, OneOrNone
  <2>3. log \in {<<>>, <<Doc(Earlier, TRUE)>>}
    BY DEF Init
  <2> QED
    BY <2>2, <2>3, Zenon
<1>2. ring \in [Daemons -> Seq(BOOLEAN)] /\ \A d \in Daemons : Len(ring[d]) <= RingCap
  <2>1. <<>> \in Seq(BOOLEAN) /\ Len(<<>>) <= RingCap
    BY BoundAssumption
  <2>2. ring = [d \in Daemons |-> <<>>]
    BY DEF Init
  <2>3. ring \in [Daemons -> Seq(BOOLEAN)]
    BY <2>1, <2>2, Zenon
  <2>4. \A d \in Daemons : ring[d] = <<>>
    BY <2>2, Zenon
  <2> QED
    BY <2>1, <2>3, <2>4
<1>3. Counts
  BY BoundAssumption DEF Init, Counts
<1>4. Flags
  BY DEF Init, Flags
<1>5. Control
  BY DEF Init, Control
<1> QED
  BY <1>1, <1>2, <1>3, <1>4, <1>5, TypeParts DEF Data

LEMMA FlagsNext == Flags /\ [Next]_vars => Flags'
<1> SUFFICES ASSUME Flags, [Next]_vars PROVE Flags'
  OBVIOUS
<1> USE DEF Flags, daemonVars, jobVars, stopVars, history, Goto, Exit, Advance
<1>1. ASSUME NEW d \in Daemons,
             CheckPidFile(d) \/ Attach(d) \/ AttachFails(d) \/ Publish(d) \/ Park(d)
             \/ KilledEarly(d) \/ Terminate(d) \/ Unlink(d) \/ RaiseStop(d) \/ Snapshot(d)
      PROVE  Flags'
  BY <1>1, Zenon DEF CheckPidFile, Attach, AttachFails, Publish, Park, KilledEarly, Terminate, Unlink,
              RaiseStop, Snapshot
<1>2. ASSUME NEW d \in Daemons,
             Report(d) \/ ReportFails(d) \/ DrainEnds(d) \/ Crash(d) \/ PreSpawns(d) \/ StepStarts(d)
      PROVE  Flags'
  BY <1>2 DEF Report, ReportFails, DrainEnds, Crash, PreSpawns, StepStarts
<1>3. ASSUME NEW d \in Daemons, Drain(d) PROVE Flags'
  <2>1. (denied[d] \/ Head(ring[d])) \in BOOLEAN
    OBVIOUS
  <2> QED
    BY <1>3, <2>1, Zenon DEF Drain
<1>4. CASE StopSignals
  BY <1>4, Zenon DEF StopSignals
<1>5. CASE \E x \in BOOLEAN : Event(x)
  BY <1>5 DEF Event
<1>6. CASE StopReads \/ StopFindsDead \/ StopFindsAlive \/ StopPolls \/ StopTimesOut
  BY <1>6 DEF StopReads, StopFindsDead, StopFindsAlive, StopPolls, StopTimesOut
<1>7. CASE PreReady \/ PreTimesOut \/ StopStep \/ StopStepEnds \/ StepsEnd
           \/ PostFindsNothing \/ PostStops \/ PostDecides
  BY <1>7 DEF PreReady, PreTimesOut, StopStep, StopStepEnds, StepsEnd, PostFindsNothing,
              PostStops, PostDecides
<1>8. CASE UNCHANGED vars
  BY <1>8 DEF vars
<1> HIDE DEF Flags, daemonVars, jobVars, stopVars, history, Goto, Exit, Advance
<1> QED
  BY <1>1, <1>2, <1>3, <1>4, <1>5, <1>6, <1>7, <1>8, StepCases DEF Daemons

LEMMA ControlNext == Control /\ [Next]_vars => Control'
<1> SUFFICES ASSUME Control, [Next]_vars PROVE Control'
  OBVIOUS
<1> USE DEF Control, daemonVars, jobVars, stopVars, history, Goto, Exit, Advance
<1>1. ASSUME NEW d \in Daemons, CheckPidFile(d) PROVE Control'
  BY <1>1, ZenonT(60) DEF CheckPidFile
<1>2. ASSUME NEW d \in Daemons, Attach(d) PROVE Control'
  BY <1>2 DEF Attach
<1>3. ASSUME NEW d \in Daemons, AttachFails(d) PROVE Control'
  BY <1>3, ZenonT(60) DEF AttachFails
<1>4. ASSUME NEW d \in Daemons, Publish(d) PROVE Control'
  BY <1>4 DEF Publish
<1>5. ASSUME NEW d \in Daemons, Park(d) PROVE Control'
  BY <1>5 DEF Park
<1>6. ASSUME NEW d \in Daemons, KilledEarly(d) PROVE Control'
  BY <1>6 DEF KilledEarly
<1>7. ASSUME NEW d \in Daemons, Terminate(d) PROVE Control'
  BY <1>7 DEF Terminate
<1>8. ASSUME NEW d \in Daemons, Unlink(d) PROVE Control'
  BY <1>8 DEF Unlink
<1>9. ASSUME NEW d \in Daemons, RaiseStop(d) PROVE Control'
  BY <1>9 DEF RaiseStop
<1>10. ASSUME NEW d \in Daemons, Snapshot(d) PROVE Control'
  BY <1>10 DEF Snapshot
<1>11. ASSUME NEW d \in Daemons, Report(d) PROVE Control'
  BY <1>11 DEF Report
<1>12. ASSUME NEW d \in Daemons, ReportFails(d) PROVE Control'
  BY <1>12 DEF ReportFails
<1>13. ASSUME NEW d \in Daemons, Drain(d) PROVE Control'
  BY <1>13 DEF Drain
<1>14. ASSUME NEW d \in Daemons, DrainEnds(d) PROVE Control'
  BY <1>14 DEF DrainEnds
<1>15. ASSUME NEW d \in Daemons, Crash(d) PROVE Control'
  BY <1>15 DEF Crash
<1>16. ASSUME NEW d \in Daemons, PreSpawns(d) PROVE Control'
  BY <1>16 DEF PreSpawns
<1>17. ASSUME NEW d \in Daemons, StepStarts(d) PROVE Control'
  BY <1>17 DEF StepStarts
<1>24. ASSUME NEW x \in BOOLEAN, Event(x) PROVE Control'
  <2>1. flagged' \in {"no", "late", "in time"}
    BY <1>24 DEF Event
  <2>2. mishap' \subseteq {"loss", "timeout", "job/stop"}
    BY <1>24 DEF Event
  <2> QED
    BY <1>24, <2>1, <2>2 DEF Event
<1>26. CASE StopReads \/ StopFindsDead \/ StopFindsAlive \/ StopSignals \/ StopPolls \/ StopTimesOut
  BY <1>26 DEF StopReads, StopFindsDead, StopFindsAlive, StopSignals, StopPolls, StopTimesOut
<1>27. CASE PreReady \/ PreTimesOut \/ StopStep \/ StopStepEnds \/ StepsEnd
           \/ PostFindsNothing \/ PostStops \/ PostDecides
  BY <1>27 DEF PreReady, PreTimesOut, StopStep, StopStepEnds, StepsEnd, PostFindsNothing,
              PostStops, PostDecides
<1>28. CASE UNCHANGED vars
  BY <1>28 DEF vars
<1> HIDE DEF Control, daemonVars, jobVars, stopVars, history, Goto, Exit, Advance
<1> QED
  BY <1>1, <1>2, <1>3, <1>4, <1>5, <1>6, <1>7, <1>8, <1>9,
     <1>10, <1>11, <1>12, <1>13, <1>14, <1>15, <1>16, <1>17,
     <1>24, <1>26, <1>27, <1>28, StepCases DEF Daemons

\* Who writes the log and the rings.
LEMMA DataSteps ==
  ASSUME [Next]_vars
  PROVE  \/ \E d \in Daemons : Report(d)
         \/ \E d \in Daemons : Drain(d)
         \/ \E x \in BOOLEAN : Event(x)
         \/ UNCHANGED <<log, ring>>
<1> USE DEF daemonVars, jobVars, stopVars, history, Advance
<1>1. ASSUME NEW d \in Daemons,
             CheckPidFile(d) \/ Attach(d) \/ AttachFails(d) \/ Publish(d) \/ Park(d)
             \/ KilledEarly(d) \/ Terminate(d) \/ Unlink(d) \/ RaiseStop(d) \/ Snapshot(d)
             \/ ReportFails(d) \/ DrainEnds(d) \/ Crash(d) \/ PreSpawns(d) \/ StepStarts(d)
      PROVE  UNCHANGED <<log, ring>>
  BY <1>1 DEF CheckPidFile, Attach, AttachFails, Publish, Park, KilledEarly, Terminate, Unlink,
              RaiseStop, Snapshot, ReportFails, DrainEnds, Crash, PreSpawns, StepStarts
<1>2. CASE StopReads \/ StopFindsDead \/ StopFindsAlive \/ StopSignals \/ StopPolls \/ StopTimesOut
  BY <1>2 DEF StopReads, StopFindsDead, StopFindsAlive, StopSignals, StopPolls, StopTimesOut
<1>3. CASE PreReady \/ PreTimesOut \/ StopStep \/ StopStepEnds \/ StepsEnd
           \/ PostFindsNothing \/ PostStops \/ PostDecides
  BY <1>3 DEF PreReady, PreTimesOut, StopStep, StopStepEnds, StepsEnd, PostFindsNothing,
              PostStops, PostDecides
<1>4. CASE UNCHANGED vars
  BY <1>4 DEF vars
<1> HIDE DEF daemonVars, jobVars, stopVars, history, Advance
<1> QED
  BY <1>1, <1>2, <1>3, <1>4, StepCases DEF Daemons

LEMMA EventRing ==
  ASSUME Data, NEW x \in BOOLEAN, Event(x)
  PROVE  /\ Data'
         /\ \A d \in Daemons :
              ring'[d] = IF bpf[d] /\ Len(ring[d]) < RingCap THEN Append(ring[d], x) ELSE ring[d]
<1>1. \A d \in Daemons : ring[d] \in Seq(BOOLEAN)
  BY DEF Data
<1>2. \A d \in Daemons : Append(ring[d], x) \in Seq(BOOLEAN)
  BY <1>1
<1>3. \A d \in Daemons : Len(Append(ring[d], x)) = Len(ring[d]) + 1 /\ Len(ring[d]) \in Nat
  BY <1>1
<1>4. ring' = [d \in Daemons |-> IF bpf[d] /\ Len(ring[d]) < RingCap
                                 THEN Append(ring[d], x) ELSE ring[d]]
  BY DEF Event
<1>5. ring' \in [Daemons -> Seq(BOOLEAN)]
  BY <1>1, <1>2, <1>4, Zenon
<1>6. \A d \in Daemons : Len(ring[d]) <= RingCap
  BY DEF Data
<1>7. \A d \in Daemons : Len(ring'[d]) <= RingCap
  <2> TAKE d \in Daemons
  <2>1. CASE bpf[d] /\ Len(ring[d]) < RingCap
    <3>1. ring'[d] = Append(ring[d], x)
      BY <1>4, <2>1, Zenon
    <3> QED
      BY <1>3, <2>1, <3>1, BoundAssumption
  <2>2. CASE ~(bpf[d] /\ Len(ring[d]) < RingCap)
    <3>1. ring'[d] = ring[d]
      BY <1>4, <2>2, Zenon
    <3> QED
      BY <1>6, <3>1
  <2> QED
    BY <2>1, <2>2
<1>8. log' = log
  BY DEF Event
<1> QED
  BY <1>4, <1>5, <1>7, <1>8 DEF Data, Docs

LEMMA DrainRing ==
  ASSUME Data, NEW d \in Daemons, Drain(d)
  PROVE  /\ Data'
         /\ ring[d] \in Seq(BOOLEAN) /\ ring[d] # <<>> /\ ring'[d] = Tail(ring[d])
         /\ \A e \in Daemons \ {d} : ring'[e] = ring[e]
<1>1. ring[d] \in Seq(BOOLEAN) /\ ring[d] # <<>> /\ Len(ring[d]) <= RingCap
  BY DEF Data, Drain
<1>2. Tail(ring[d]) \in Seq(BOOLEAN) /\ Len(Tail(ring[d])) <= RingCap
  <2>1. Tail(ring[d]) \in Seq(BOOLEAN) /\ Len(Tail(ring[d])) = Len(ring[d]) - 1
    BY <1>1, HeadTailProperties
  <2>2. Len(ring[d]) \in Nat
    BY <1>1
  <2> QED
    BY <1>1, <2>1, <2>2, BoundAssumption
<1>3. ring \in [Daemons -> Seq(BOOLEAN)] /\ ring' = [ring EXCEPT ![d] = Tail(@)]
  BY DEF Data, Drain
<1>4. ring' \in [Daemons -> Seq(BOOLEAN)] /\ ring'[d] = Tail(ring[d])
      /\ \A e \in Daemons \ {d} : ring'[e] = ring[e]
  BY <1>2, <1>3
<1>5. \A e \in Daemons : Len(ring'[e]) <= RingCap
  BY <1>2, <1>4 DEF Data
<1>6. log' = log
  BY DEF Drain
<1> QED
  BY <1>1, <1>4, <1>5, <1>6 DEF Data, Docs

LEMMA DataNext == Flags /\ Data /\ [Next]_vars => Data'
<1> SUFFICES ASSUME Flags, Data, [Next]_vars PROVE Data'
  OBVIOUS
<1>1. ASSUME NEW d \in Daemons, Report(d) PROVE Data'
  <2>1. Doc(d, denied[d]) \in Docs
    BY DEF Doc, Docs, Flags
  <2>2. log' = Append(log, Doc(d, denied[d])) /\ ring' = ring
    BY <1>1 DEF Report
  <2> QED
    BY <2>1, <2>2 DEF Data, Docs
<1>2. CASE UNCHANGED <<log, ring>>
  BY <1>2 DEF Data, Docs
<1> QED
  BY <1>1, <1>2, DataSteps, EventRing, DrainRing

LEMMA CountsNext == Counts /\ [Next]_vars => Counts'
<1> SUFFICES ASSUME Counts, [Next]_vars PROVE Counts'
  OBVIOUS
<1> USE BoundAssumption DEF Counts, daemonVars, jobVars, stopVars, history, Advance
<1>1. ASSUME NEW d \in Daemons,
             CheckPidFile(d) \/ Attach(d) \/ AttachFails(d) \/ Publish(d) \/ Park(d)
             \/ KilledEarly(d) \/ Terminate(d) \/ Unlink(d) \/ RaiseStop(d) \/ Snapshot(d)
             \/ Report(d) \/ ReportFails(d) \/ Drain(d) \/ DrainEnds(d) \/ PreSpawns(d) \/ StepStarts(d)
      PROVE  Counts'
  BY <1>1 DEF CheckPidFile, Attach, AttachFails, Publish, Park, KilledEarly, Terminate, Unlink,
              RaiseStop, Snapshot, Report, ReportFails, Drain, DrainEnds, PreSpawns, StepStarts
<1>2. ASSUME NEW d \in Daemons, Crash(d) PROVE Counts'
  BY <1>2 DEF Crash
<1>3. ASSUME NEW x \in BOOLEAN, Event(x) PROVE Counts'
  <2>1. events < MaxEvents /\ events' = events + 1 /\ crashes' = crashes
    BY <1>3, Zenon DEF Event
  <2> QED
    BY <2>1
<1>4. CASE StopReads \/ StopFindsDead \/ StopFindsAlive \/ StopSignals \/ StopPolls \/ StopTimesOut
  BY <1>4 DEF StopReads, StopFindsDead, StopFindsAlive, StopSignals, StopPolls, StopTimesOut
<1>5. CASE PreReady \/ PreTimesOut \/ StopStep \/ StopStepEnds \/ StepsEnd
           \/ PostFindsNothing \/ PostStops \/ PostDecides
  BY <1>5 DEF PreReady, PreTimesOut, StopStep, StopStepEnds, StepsEnd, PostFindsNothing,
              PostStops, PostDecides
<1>6. CASE UNCHANGED vars
  BY <1>6 DEF vars
<1> HIDE DEF Counts, daemonVars, jobVars, stopVars, history, Advance
<1> QED
  BY <1>1, <1>2, <1>3, <1>4, <1>5, <1>6, StepCases DEF Daemons

LEMMA TypeNext == TypeOK /\ [Next]_vars => TypeOK'
BY TypeParts, FlagsNext, ControlNext, DataNext, CountsNext, PTL

(* Types.                                                                    *)
THEOREM TypeCorrect == Spec => []TypeOK
<1>1. TypeOK /\ [Next]_vars => TypeOK'
  BY TypeNext
<1> QED
  BY <1>1, TypeInit, PTL DEF Spec

-----------------------------------------------------------------------------
(* The invariant holds whatever goes wrong. *)

LEMMA NamedNext == Control /\ Named /\ [Next]_vars => Named'
<1> SUFFICES ASSUME Control, Named, [Next]_vars
             PROVE  Named'
  OBVIOUS
<1> USE DEF Control, Named, Published, Holding, Daemons, daemonVars, jobVars, stopVars, history,
            Goto, Exit, Advance
<1>1. ASSUME NEW d \in Daemons, Drain(d) \/ DrainEnds(d)
      PROVE  Named'
  BY <1>1, DaemonAssumption DEF Drain, DrainEnds
<1>2. ASSUME NEW d \in Daemons, KilledEarly(d) \/ Report(d) \/ ReportFails(d) \/ Crash(d)
      PROVE  Named'
  BY <1>2, DaemonAssumption DEF KilledEarly, Report, ReportFails, Crash
<1>3. ASSUME NEW d \in Daemons, PreSpawns(d) \/ StepStarts(d)
      PROVE  Named'
  BY <1>3, DaemonAssumption DEF PreSpawns, StepStarts
<1>4. CASE StopTimesOut \/ PreReady \/ PreTimesOut \/ StopStep \/ StopStepEnds \/ StepsEnd \/
           PostFindsNothing \/ PostStops \/ PostDecides
  BY <1>4, DaemonAssumption DEF StopTimesOut, PreReady, PreTimesOut, StopStep, StopStepEnds,
                                StepsEnd, PostFindsNothing, PostStops, PostDecides
<1>5. ASSUME NEW d \in Daemons, CheckPidFile(d) PROVE Named'
  BY <1>5, DaemonAssumption DEF CheckPidFile
<1>6. ASSUME NEW d \in Daemons, Attach(d) PROVE Named'
  BY <1>6, DaemonAssumption DEF Attach
<1>7. ASSUME NEW d \in Daemons, AttachFails(d) PROVE Named'
  BY <1>7, DaemonAssumption DEF AttachFails
<1>8. ASSUME NEW d \in Daemons, Publish(d) PROVE Named'
  BY <1>8, DaemonAssumption DEF Publish
<1>9. ASSUME NEW d \in Daemons, Park(d) PROVE Named'
  BY <1>9, DaemonAssumption DEF Park
<1>10. ASSUME NEW d \in Daemons, Terminate(d) PROVE Named'
  BY <1>10, DaemonAssumption DEF Terminate
<1>11. ASSUME NEW d \in Daemons, Unlink(d) PROVE Named'
  BY <1>11, DaemonAssumption DEF Unlink
<1>12. ASSUME NEW d \in Daemons, RaiseStop(d) PROVE Named'
  BY <1>12, DaemonAssumption DEF RaiseStop
<1>13. ASSUME NEW d \in Daemons, Snapshot(d) PROVE Named'
  BY <1>13, DaemonAssumption DEF Snapshot
<1>14. ASSUME NEW x \in BOOLEAN, Event(x) PROVE Named'
  BY <1>14, DaemonAssumption DEF Event
<1>15. CASE StopReads
  BY <1>15, DaemonAssumption DEF StopReads
<1>16. CASE StopFindsDead
  BY <1>16, DaemonAssumption DEF StopFindsDead
<1>17. CASE StopFindsAlive
  BY <1>17, DaemonAssumption DEF StopFindsAlive
<1>18. CASE StopSignals
  BY <1>18, DaemonAssumption DEF StopSignals
<1>19. CASE StopPolls
  BY <1>19, DaemonAssumption DEF StopPolls
<1>20. CASE UNCHANGED vars
  BY <1>20, DaemonAssumption DEF vars
<1> HIDE DEF Control, Named, Published, Holding, Daemons, daemonVars, jobVars, stopVars,
             history, Goto, Exit, Advance
<1> QED
  BY <1>1, <1>2, <1>3, <1>4, <1>5, <1>6, <1>7, <1>8, <1>9, <1>10, <1>11, <1>12, <1>13,
     <1>14, <1>15, <1>16, <1>17, <1>18, <1>19, <1>20, StepCases DEF Daemons

LEMMA ObservingNext == Control /\ Flags /\ Observing /\ [Next]_vars => Observing'
<1> SUFFICES ASSUME Control, Flags, Observing, [Next]_vars
             PROVE  Observing'
  OBVIOUS
<1> USE DEF Control, Flags, Observing, Published, Holding, daemonVars, jobVars, stopVars,
            history, Goto, Exit, Advance
<1>1. ASSUME NEW d \in Daemons, Drain(d) \/ DrainEnds(d)
      PROVE  Observing'
  BY <1>1 DEF Drain, DrainEnds
<1>2. ASSUME NEW d \in Daemons, KilledEarly(d) \/ Report(d) \/ ReportFails(d) \/ Crash(d)
      PROVE  Observing'
  BY <1>2 DEF KilledEarly, Report, ReportFails, Crash
<1>3. ASSUME NEW d \in Daemons, PreSpawns(d) \/ StepStarts(d)
      PROVE  Observing'
  BY <1>3 DEF PreSpawns, StepStarts
<1>4. CASE StopReads \/ StopFindsDead \/ StopFindsAlive \/ StopSignals \/ StopPolls \/
           StopTimesOut \/ PreReady \/ PreTimesOut \/ StopStep \/ StopStepEnds \/ StepsEnd \/
           PostFindsNothing \/ PostStops \/ PostDecides
  BY <1>4 DEF StopReads, StopFindsDead, StopFindsAlive, StopSignals, StopPolls, StopTimesOut,
              PreReady, PreTimesOut, StopStep, StopStepEnds, StepsEnd, PostFindsNothing,
              PostStops, PostDecides
<1>5. ASSUME NEW d \in Daemons, CheckPidFile(d) PROVE Observing'
  BY <1>5, ZenonT(60) DEF CheckPidFile
<1>6. ASSUME NEW d \in Daemons, Attach(d) PROVE Observing'
  BY <1>6 DEF Attach
<1>7. ASSUME NEW d \in Daemons, AttachFails(d) PROVE Observing'
  BY <1>7 DEF AttachFails
<1>8. ASSUME NEW d \in Daemons, Publish(d) PROVE Observing'
  BY <1>8 DEF Publish
<1>9. ASSUME NEW d \in Daemons, Park(d) PROVE Observing'
  BY <1>9 DEF Park
<1>10. ASSUME NEW d \in Daemons, Terminate(d) PROVE Observing'
  BY <1>10 DEF Terminate
<1>11. ASSUME NEW d \in Daemons, Unlink(d) PROVE Observing'
  BY <1>11 DEF Unlink
<1>12. ASSUME NEW d \in Daemons, RaiseStop(d) PROVE Observing'
  BY <1>12 DEF RaiseStop
<1>13. ASSUME NEW d \in Daemons, Snapshot(d) PROVE Observing'
  BY <1>13 DEF Snapshot
<1>14. ASSUME NEW x \in BOOLEAN, Event(x) PROVE Observing'
  BY <1>14 DEF Event
<1>15. CASE UNCHANGED vars
  BY <1>15 DEF vars
<1> HIDE DEF Control, Flags, Observing, Published, Holding, daemonVars, jobVars, stopVars,
             history, Goto, Exit, Advance
<1> QED
  BY <1>1, <1>2, <1>3, <1>4, <1>5, <1>6, <1>7, <1>8, <1>9, <1>10, <1>11, <1>12, <1>13,
     <1>14, <1>15, StepCases DEF Daemons

LEMMA ToldNext == Control /\ Flags /\ Told /\ [Next]_vars => Told'
<1> SUFFICES ASSUME Control, Flags, Told, [Next]_vars
             PROVE  Told'
  OBVIOUS
<1> USE DEF Control, Flags, Told, Leaving, daemonVars, jobVars, stopVars, history, Goto, Exit,
            Advance
<1>1. ASSUME NEW d \in Daemons, Drain(d) \/ DrainEnds(d)
      PROVE  Told'
  BY <1>1 DEF Drain, DrainEnds
<1>2. ASSUME NEW d \in Daemons, KilledEarly(d) \/ Report(d) \/ ReportFails(d) \/ Crash(d)
      PROVE  Told'
  BY <1>2 DEF KilledEarly, Report, ReportFails, Crash
<1>3. ASSUME NEW d \in Daemons, PreSpawns(d) \/ StepStarts(d)
      PROVE  Told'
  BY <1>3 DEF PreSpawns, StepStarts
<1>4. CASE StopReads \/ StopFindsDead \/ StopFindsAlive \/ StopPolls \/ StopTimesOut \/
           PreReady \/ PreTimesOut \/ StopStep \/ StopStepEnds \/ StepsEnd \/
           PostFindsNothing \/ PostStops \/ PostDecides
  BY <1>4 DEF StopReads, StopFindsDead, StopFindsAlive, StopPolls, StopTimesOut, PreReady,
              PreTimesOut, StopStep, StopStepEnds, StepsEnd, PostFindsNothing, PostStops,
              PostDecides
<1>5. ASSUME NEW d \in Daemons, CheckPidFile(d) PROVE Told'
  BY <1>5 DEF CheckPidFile
<1>6. ASSUME NEW d \in Daemons, Attach(d) PROVE Told'
  BY <1>6 DEF Attach
<1>7. ASSUME NEW d \in Daemons, AttachFails(d) PROVE Told'
  BY <1>7 DEF AttachFails
<1>8. ASSUME NEW d \in Daemons, Publish(d) PROVE Told'
  BY <1>8 DEF Publish
<1>9. ASSUME NEW d \in Daemons, Park(d) PROVE Told'
  BY <1>9 DEF Park
<1>10. ASSUME NEW d \in Daemons, Terminate(d) PROVE Told'
  BY <1>10 DEF Terminate
<1>11. ASSUME NEW d \in Daemons, Unlink(d) PROVE Told'
  BY <1>11 DEF Unlink
<1>12. ASSUME NEW d \in Daemons, RaiseStop(d) PROVE Told'
  BY <1>12 DEF RaiseStop
<1>13. ASSUME NEW d \in Daemons, Snapshot(d) PROVE Told'
  BY <1>13 DEF Snapshot
<1>14. ASSUME NEW x \in BOOLEAN, Event(x) PROVE Told'
  BY <1>14 DEF Event
<1>15. CASE StopSignals
  BY <1>15 DEF StopSignals
<1>16. CASE UNCHANGED vars
  BY <1>16 DEF vars
<1> HIDE DEF Control, Flags, Told, Leaving, daemonVars, jobVars, stopVars, history, Goto, Exit,
             Advance
<1> QED
  BY <1>1, <1>2, <1>3, <1>4, <1>5, <1>6, <1>7, <1>8, <1>9, <1>10, <1>11, <1>12, <1>13,
     <1>14, <1>15, <1>16, StepCases DEF Daemons

LEMMA StagesNext == Control /\ Flags /\ Named /\ Stages /\ [Next]_vars => Stages'
<1> SUFFICES ASSUME Control, Flags, Named, Stages, [Next]_vars
             PROVE  Stages'
  OBVIOUS
<1> USE DEF Control, Flags, Stages, Alive, Daemons, daemonVars, jobVars, stopVars, history,
            Goto, Exit, Advance
<1>1. ASSUME NEW d \in Daemons, CheckPidFile(d) PROVE Stages'
  BY <1>1, DaemonAssumption DEF CheckPidFile
<1>2. ASSUME NEW d \in Daemons, Attach(d) PROVE Stages'
  BY <1>2, DaemonAssumption DEF Attach
<1>3. ASSUME NEW d \in Daemons, AttachFails(d) PROVE Stages'
  BY <1>3, DaemonAssumption DEF AttachFails
<1>4. ASSUME NEW d \in Daemons, Publish(d) PROVE Stages'
  BY <1>4, DaemonAssumption DEF Publish
<1>5. ASSUME NEW d \in Daemons, Park(d) PROVE Stages'
  BY <1>5, DaemonAssumption DEF Park
<1>6. ASSUME NEW d \in Daemons, KilledEarly(d) PROVE Stages'
  BY <1>6, DaemonAssumption DEF KilledEarly
<1>7. ASSUME NEW d \in Daemons, Terminate(d) PROVE Stages'
  BY <1>7, DaemonAssumption DEF Terminate
<1>8. ASSUME NEW d \in Daemons, Unlink(d) PROVE Stages'
  BY <1>8, DaemonAssumption DEF Unlink
<1>9. ASSUME NEW d \in Daemons, RaiseStop(d) PROVE Stages'
  BY <1>9, DaemonAssumption DEF RaiseStop
<1>10. ASSUME NEW d \in Daemons, Snapshot(d) PROVE Stages'
  BY <1>10, DaemonAssumption DEF Snapshot
<1>11. ASSUME NEW d \in Daemons, Report(d) PROVE Stages'
  BY <1>11, DaemonAssumption DEF Report
<1>12. ASSUME NEW d \in Daemons, ReportFails(d) PROVE Stages'
  BY <1>12, DaemonAssumption DEF ReportFails
<1>13. ASSUME NEW d \in Daemons, Drain(d) PROVE Stages'
  BY <1>13, DaemonAssumption DEF Drain
<1>14. ASSUME NEW d \in Daemons, DrainEnds(d) PROVE Stages'
  BY <1>14, DaemonAssumption DEF DrainEnds
<1>15. ASSUME NEW d \in Daemons, Crash(d) PROVE Stages'
  BY <1>15, DaemonAssumption DEF Crash
<1>16. ASSUME NEW d \in JobDaemons, PreSpawns(d) PROVE Stages'
  <2>1. \A o \in OtherDaemons : o # d
    BY DaemonAssumption, ZenonT(60)
  <2> QED
    BY <1>16, <2>1 DEF PreSpawns
<1>17. ASSUME NEW d \in OtherDaemons, StepStarts(d) PROVE Stages'
  BY <1>17, DaemonAssumption DEF StepStarts
<1>18. ASSUME NEW x \in BOOLEAN, Event(x) PROVE Stages'
  BY <1>18, DaemonAssumption DEF Event
<1>19. CASE StopReads
  BY <1>19, DaemonAssumption DEF StopReads
<1>20. CASE StopFindsDead
  BY <1>20, DaemonAssumption DEF StopFindsDead
<1>21. CASE StopFindsAlive
  BY <1>21, DaemonAssumption DEF StopFindsAlive
<1>22. CASE StopSignals
  BY <1>22, DaemonAssumption DEF StopSignals
<1>23. CASE StopPolls
  BY <1>23, DaemonAssumption DEF StopPolls
<1>24. CASE StopTimesOut
  BY <1>24, DaemonAssumption DEF StopTimesOut
<1>25. CASE PreReady
  BY <1>25, DaemonAssumption DEF PreReady
<1>26. CASE PreTimesOut
  BY <1>26, DaemonAssumption DEF PreTimesOut
<1>27. CASE StopStep
  BY <1>27, DaemonAssumption DEF StopStep
<1>28. CASE StopStepEnds
  BY <1>28, DaemonAssumption DEF StopStepEnds
<1>29. CASE StepsEnd
  BY <1>29, DaemonAssumption DEF StepsEnd
<1>30. CASE PostFindsNothing
  BY <1>30, DaemonAssumption DEF PostFindsNothing
<1>31. CASE PostStops
  BY <1>31, DaemonAssumption DEF PostStops
<1>32. CASE PostDecides
  BY <1>32, DaemonAssumption DEF PostDecides
<1>33. CASE UNCHANGED vars
  BY <1>33, DaemonAssumption DEF vars
<1> HIDE DEF Control, Flags, Stages, Alive, Daemons, daemonVars, jobVars, stopVars, history,
             Goto, Exit, Advance
<1> QED
  BY <1>1, <1>2, <1>3, <1>4, <1>5, <1>6, <1>7, <1>8, <1>9, <1>10, <1>11, <1>12, <1>13,
     <1>14, <1>15, <1>16, <1>17, <1>18, <1>19, <1>20, <1>21, <1>22, <1>23, <1>24, <1>25, <1>26,
     <1>27, <1>28, <1>29, <1>30, <1>31, <1>32, <1>33, StepCases DEF Daemons

LEMMA TimedOutNext == Stages /\ TimedOut /\ [Next]_vars => TimedOut'
<1> SUFFICES ASSUME Stages, TimedOut, [Next]_vars
             PROVE  TimedOut'
  OBVIOUS
<1> USE DEF Stages, TimedOut, daemonVars, jobVars, stopVars, history, Advance
<1>1. ASSUME NEW d \in Daemons,
             \/ CheckPidFile(d) \/ Attach(d) \/ AttachFails(d) \/ Publish(d) \/ Park(d)
             \/ KilledEarly(d) \/ Terminate(d) \/ Unlink(d) \/ RaiseStop(d) \/ Snapshot(d)
             \/ Report(d) \/ ReportFails(d) \/ Drain(d) \/ DrainEnds(d) \/ Crash(d)
      PROVE  TimedOut'
  <2>1. CASE CheckPidFile(d) \/ Attach(d) \/ Publish(d) \/ Park(d) \/ Terminate(d) \/ Unlink(d)
    BY <2>1 DEF CheckPidFile, Attach, Publish, Park, Terminate, Unlink
  <2>2. CASE AttachFails(d) \/ KilledEarly(d)
    BY <2>2 DEF AttachFails, KilledEarly
  <2>3. CASE RaiseStop(d) \/ Snapshot(d)
    BY <2>3 DEF RaiseStop, Snapshot
  <2>4. CASE Report(d) \/ ReportFails(d)
    BY <2>4 DEF Report, ReportFails
  <2>5. CASE DrainEnds(d) \/ Crash(d)
    BY <2>5 DEF DrainEnds, Crash
  <2>6. CASE Drain(d)
    <3>1. UNCHANGED <<mishap, verdict, spc>>
      BY <2>6, Zenon DEF Drain
    <3> QED
      BY <3>1
  <2> QED
    BY <1>1, <2>1, <2>2, <2>3, <2>4, <2>5, <2>6, Zenon
<1>2. ASSUME NEW d \in Daemons, PreSpawns(d) \/ StepStarts(d)
      PROVE  TimedOut'
  BY <1>2 DEF PreSpawns, StepStarts
<1>3. ASSUME NEW x \in BOOLEAN, Event(x) PROVE TimedOut'
  BY <1>3 DEF Event
<1>4. CASE StopReads \/ StopFindsDead \/ StopFindsAlive \/ StopSignals \/ StopPolls \/ StopTimesOut
  BY <1>4 DEF StopReads, StopFindsDead, StopFindsAlive, StopSignals, StopPolls, StopTimesOut
<1>5. CASE PreReady \/ PreTimesOut \/ StopStep \/ StopStepEnds \/ StepsEnd
  BY <1>5 DEF PreReady, PreTimesOut, StopStep, StopStepEnds, StepsEnd
<1>6. CASE PostFindsNothing \/ PostStops \/ PostDecides
  BY <1>6 DEF PostFindsNothing, PostStops, PostDecides
<1>7. CASE UNCHANGED vars
  BY <1>7 DEF vars
<1> HIDE DEF Stages, TimedOut, daemonVars, jobVars, stopVars, history, Advance
<1> QED
  BY <1>1, <1>2, <1>3, <1>4, <1>5, <1>6, <1>7, StepCases DEF Daemons

LEMMA StopEndsDeadNext == Control /\ Named /\ StopEndsDead /\ [Next]_vars => StopEndsDead'
<1> SUFFICES ASSUME Control, Named, StopEndsDead, [Next]_vars
             PROVE  StopEndsDead'
  OBVIOUS
<1> USE DEF Control, Named, StopEndsDead, Published, Holding, Alive, Daemons, daemonVars,
            jobVars, stopVars, history, Goto, Exit, Advance
<1>1. ASSUME NEW d \in Daemons, Drain(d) \/ DrainEnds(d)
      PROVE  StopEndsDead'
  BY <1>1, DaemonAssumption DEF Drain, DrainEnds
<1>2. ASSUME NEW d \in Daemons, KilledEarly(d) \/ Report(d) \/ ReportFails(d) \/ Crash(d)
      PROVE  StopEndsDead'
  BY <1>2, DaemonAssumption, ZenonT(60) DEF KilledEarly, Report, ReportFails, Crash
<1>3. ASSUME NEW d \in Daemons, PreSpawns(d) \/ StepStarts(d)
      PROVE  StopEndsDead'
  BY <1>3, DaemonAssumption, ZenonT(60) DEF PreSpawns, StepStarts
<1>4. ASSUME NEW d \in Daemons, CheckPidFile(d) PROVE StopEndsDead'
  BY <1>4, DaemonAssumption DEF CheckPidFile
<1>5. ASSUME NEW d \in Daemons, Attach(d) PROVE StopEndsDead'
  BY <1>5, DaemonAssumption DEF Attach
<1>6. ASSUME NEW d \in Daemons, AttachFails(d) PROVE StopEndsDead'
  BY <1>6, DaemonAssumption DEF AttachFails
<1>7. ASSUME NEW d \in Daemons, Publish(d) PROVE StopEndsDead'
  BY <1>7, DaemonAssumption DEF Publish
<1>8. ASSUME NEW d \in Daemons, Park(d) PROVE StopEndsDead'
  BY <1>8, DaemonAssumption DEF Park
<1>9. ASSUME NEW d \in Daemons, Terminate(d) PROVE StopEndsDead'
  BY <1>9, DaemonAssumption DEF Terminate
<1>10. ASSUME NEW d \in Daemons, Unlink(d) PROVE StopEndsDead'
  BY <1>10, DaemonAssumption DEF Unlink
<1>11. ASSUME NEW d \in Daemons, RaiseStop(d) PROVE StopEndsDead'
  BY <1>11, DaemonAssumption DEF RaiseStop
<1>12. ASSUME NEW d \in Daemons, Snapshot(d) PROVE StopEndsDead'
  BY <1>12, DaemonAssumption DEF Snapshot
<1>13. ASSUME NEW x \in BOOLEAN, Event(x) PROVE StopEndsDead'
  BY <1>13, DaemonAssumption DEF Event
<1>14. CASE StopReads
  BY <1>14, DaemonAssumption DEF StopReads
<1>15. CASE StopFindsDead
  BY <1>15, DaemonAssumption DEF StopFindsDead
<1>16. CASE StopFindsAlive
  BY <1>16, DaemonAssumption DEF StopFindsAlive
<1>17. CASE StopSignals
  BY <1>17, DaemonAssumption DEF StopSignals
<1>18. CASE StopPolls
  BY <1>18, DaemonAssumption DEF StopPolls
<1>19. CASE StopTimesOut
  BY <1>19, DaemonAssumption DEF StopTimesOut
<1>20. CASE PreReady
  BY <1>20, DaemonAssumption DEF PreReady
<1>21. CASE PreTimesOut
  BY <1>21, DaemonAssumption DEF PreTimesOut
<1>22. CASE StopStep
  BY <1>22, DaemonAssumption DEF StopStep
<1>23. CASE StopStepEnds
  BY <1>23, DaemonAssumption DEF StopStepEnds
<1>24. CASE StepsEnd
  BY <1>24, DaemonAssumption DEF StepsEnd
<1>25. CASE PostFindsNothing
  BY <1>25, DaemonAssumption DEF PostFindsNothing
<1>26. CASE PostStops
  BY <1>26, DaemonAssumption DEF PostStops
<1>27. CASE PostDecides
  BY <1>27, DaemonAssumption DEF PostDecides
<1>28. CASE UNCHANGED vars
  BY <1>28, DaemonAssumption DEF vars
<1> HIDE DEF Control, Named, StopEndsDead, Published, Holding, Alive, Daemons, daemonVars,
             jobVars, stopVars, history, Goto, Exit, Advance
<1> QED
  BY <1>1, <1>2, <1>3, <1>4, <1>5, <1>6, <1>7, <1>8, <1>9, <1>10, <1>11, <1>12, <1>13,
     <1>14, <1>15, <1>16, <1>17, <1>18, <1>19, <1>20, <1>21, <1>22, <1>23, <1>24, <1>25, <1>26,
     <1>27, <1>28, StepCases DEF Daemons

LEMMA KeptNext == Control /\ Named /\ Stages /\ Kept /\ [Next]_vars => Kept'
<1> SUFFICES ASSUME Control, Named, Stages, Kept, [Next]_vars
             PROVE  Kept'
  OBVIOUS
<1> USE DEF Control, Named, Stages, Kept, Published, Holding, Alive, Daemons, daemonVars,
            jobVars, stopVars, history, Goto, Exit, Advance
<1>1. ASSUME NEW d \in Daemons, CheckPidFile(d) PROVE Kept'
  <2>1. CASE pc' = [pc EXCEPT ![d] = "dead"]
    BY <1>1, <2>1, DaemonAssumption DEF CheckPidFile
  <2>2. CASE pc' = [pc EXCEPT ![d] = "attaching"] /\ ~Alive(pidFile)
    <3>1. ASSUME NEW e \in JobDaemons PROVE d \in OtherDaemons => pc[e] \notin Holding
      BY <1>1, <2>2 DEF CheckPidFile
    <3> QED
      BY <1>1, <2>2, <3>1, DaemonAssumption DEF CheckPidFile
  <2> QED
    BY <1>1, <2>1, <2>2 DEF CheckPidFile
<1>2. ASSUME NEW d \in Daemons, Attach(d) PROVE Kept'
  BY <1>2, DaemonAssumption DEF Attach
<1>3. ASSUME NEW d \in Daemons, AttachFails(d) PROVE Kept'
  <2>1. CASE pc' = [pc EXCEPT ![d] = "dead"]
    BY <1>3, <2>1, DaemonAssumption DEF AttachFails
  <2>2. CASE pc' = [pc EXCEPT ![d] = "publishing"]
    BY <1>3, <2>2, DaemonAssumption DEF AttachFails
  <2> QED
    BY <1>3, <2>1, <2>2 DEF AttachFails
<1>4. ASSUME NEW d \in Daemons, Publish(d) PROVE Kept'
  BY <1>4, DaemonAssumption DEF Publish
<1>5. ASSUME NEW d \in Daemons, Park(d) PROVE Kept'
  BY <1>5, DaemonAssumption DEF Park
<1>6. ASSUME NEW d \in Daemons, KilledEarly(d) PROVE Kept'
  BY <1>6, DaemonAssumption DEF KilledEarly
<1>7. ASSUME NEW d \in Daemons, Terminate(d) PROVE Kept'
  BY <1>7, DaemonAssumption DEF Terminate
<1>8. ASSUME NEW d \in Daemons, Unlink(d) PROVE Kept'
  BY <1>8, DaemonAssumption DEF Unlink
<1>9. ASSUME NEW d \in Daemons, RaiseStop(d) PROVE Kept'
  BY <1>9, DaemonAssumption DEF RaiseStop
<1>10. ASSUME NEW d \in Daemons, Snapshot(d) PROVE Kept'
  BY <1>10, DaemonAssumption DEF Snapshot
<1>11. ASSUME NEW d \in Daemons, Report(d) PROVE Kept'
  BY <1>11, DaemonAssumption DEF Report
<1>12. ASSUME NEW d \in Daemons, ReportFails(d) PROVE Kept'
  BY <1>12, DaemonAssumption DEF ReportFails
<1>13. ASSUME NEW d \in Daemons, Drain(d) PROVE Kept'
  BY <1>13, DaemonAssumption DEF Drain
<1>14. ASSUME NEW d \in Daemons, DrainEnds(d) PROVE Kept'
  BY <1>14, DaemonAssumption DEF DrainEnds
<1>15. ASSUME NEW d \in Daemons, Crash(d) PROVE Kept'
  BY <1>15, DaemonAssumption DEF Crash
<1>16. ASSUME NEW d \in JobDaemons, PreSpawns(d) PROVE Kept'
  BY <1>16, DaemonAssumption DEF PreSpawns
<1>17. ASSUME NEW d \in OtherDaemons, StepStarts(d) PROVE Kept'
  BY <1>17, DaemonAssumption DEF StepStarts
<1>18. ASSUME NEW x \in BOOLEAN, Event(x) PROVE Kept'
  BY <1>18, DaemonAssumption DEF Event
<1>19. CASE StopReads
  BY <1>19, DaemonAssumption DEF StopReads
<1>20. CASE StopFindsDead
  BY <1>20, DaemonAssumption DEF StopFindsDead
<1>21. CASE StopFindsAlive
  BY <1>21, DaemonAssumption DEF StopFindsAlive
<1>22. CASE StopSignals
  BY <1>22, DaemonAssumption DEF StopSignals
<1>23. CASE StopPolls
  BY <1>23, DaemonAssumption DEF StopPolls
<1>24. CASE StopTimesOut
  BY <1>24, DaemonAssumption DEF StopTimesOut
<1>25. CASE PreReady
  BY <1>25, DaemonAssumption DEF PreReady
<1>26. CASE PreTimesOut
  BY <1>26, DaemonAssumption DEF PreTimesOut
<1>27. CASE StopStep
  BY <1>27, DaemonAssumption DEF StopStep
<1>28. CASE StopStepEnds
  BY <1>28, DaemonAssumption DEF StopStepEnds
<1>29. CASE StepsEnd
  BY <1>29, DaemonAssumption DEF StepsEnd
<1>30. CASE PostFindsNothing
  BY <1>30, DaemonAssumption DEF PostFindsNothing
<1>31. CASE PostStops
  BY <1>31, DaemonAssumption DEF PostStops
<1>32. CASE PostDecides
  BY <1>32, DaemonAssumption DEF PostDecides
<1>33. CASE UNCHANGED vars
  BY <1>33, DaemonAssumption DEF vars
<1> HIDE DEF Control, Named, Stages, Kept, Published, Holding, Alive, Daemons, daemonVars,
             jobVars, stopVars, history, Goto, Exit, Advance
<1> QED
  BY <1>1, <1>2, <1>3, <1>4, <1>5, <1>6, <1>7, <1>8, <1>9, <1>10, <1>11, <1>12, <1>13,
     <1>14, <1>15, <1>16, <1>17, <1>18, <1>19, <1>20, <1>21, <1>22, <1>23, <1>24, <1>25, <1>26,
     <1>27, <1>28, <1>29, <1>30, <1>31, <1>32, <1>33, StepCases DEF Daemons

LEMMA AwaitedNext == Control /\ Flags /\ Named /\ Told /\ Stages /\ Kept /\ Awaited /\
                     [Next]_vars => Awaited'
<1> SUFFICES ASSUME Control, Flags, Named, Told, Stages, Kept, Awaited, [Next]_vars
             PROVE  Awaited'
  OBVIOUS
<1> USE DEF Control, Flags, Told, Stages, Kept, Awaited, Published, Holding, Leaving, Alive,
            Daemons, daemonVars, jobVars, stopVars, history, Goto, Exit, Advance
<1>1. ASSUME NEW d \in Daemons, CheckPidFile(d) PROVE Awaited'
  BY <1>1, DaemonAssumption, ZenonT(60) DEF CheckPidFile
<1>2. ASSUME NEW d \in Daemons, Attach(d) PROVE Awaited'
  BY <1>2, DaemonAssumption DEF Attach
<1>3. ASSUME NEW d \in Daemons, AttachFails(d) PROVE Awaited'
  BY <1>3, DaemonAssumption DEF AttachFails
<1>4. ASSUME NEW d \in Daemons, Publish(d) PROVE Awaited'
  BY <1>4, DaemonAssumption DEF Publish
<1>5. ASSUME NEW d \in Daemons, Park(d) PROVE Awaited'
  BY <1>5, DaemonAssumption DEF Park
<1>6. ASSUME NEW d \in Daemons, KilledEarly(d) PROVE Awaited'
  BY <1>6, DaemonAssumption DEF KilledEarly
<1>7. ASSUME NEW d \in Daemons, Terminate(d) PROVE Awaited'
  BY <1>7, DaemonAssumption DEF Terminate
<1>8. ASSUME NEW d \in Daemons, Unlink(d) PROVE Awaited'
  BY <1>8, DaemonAssumption DEF Unlink
<1>9. ASSUME NEW d \in Daemons, RaiseStop(d) PROVE Awaited'
  BY <1>9, DaemonAssumption DEF RaiseStop
<1>10. ASSUME NEW d \in Daemons, Snapshot(d) PROVE Awaited'
  BY <1>10, DaemonAssumption DEF Snapshot
<1>11. ASSUME NEW d \in Daemons, Report(d) PROVE Awaited'
  BY <1>11, DaemonAssumption DEF Report
<1>12. ASSUME NEW d \in Daemons, ReportFails(d) PROVE Awaited'
  BY <1>12, DaemonAssumption DEF ReportFails
<1>13. ASSUME NEW d \in Daemons, Drain(d) PROVE Awaited'
  BY <1>13, DaemonAssumption DEF Drain
<1>14. ASSUME NEW d \in Daemons, DrainEnds(d) PROVE Awaited'
  BY <1>14, DaemonAssumption DEF DrainEnds
<1>15. ASSUME NEW d \in Daemons, Crash(d) PROVE Awaited'
  BY <1>15, DaemonAssumption DEF Crash
<1>16. ASSUME NEW d \in JobDaemons, PreSpawns(d) PROVE Awaited'
  BY <1>16, DaemonAssumption DEF PreSpawns
<1>17. ASSUME NEW d \in OtherDaemons, StepStarts(d) PROVE Awaited'
  BY <1>17, DaemonAssumption DEF StepStarts
<1>18. ASSUME NEW x \in BOOLEAN, Event(x) PROVE Awaited'
  BY <1>18, DaemonAssumption DEF Event
<1>19. CASE StopReads
  <2>1. ASSUME NEW d \in JobDaemons, env, pidFile = NoPid, "timeout" \notin mishap PROVE ~Alive(d)
    BY <1>19, <2>1, DaemonAssumption, ZenonT(60) DEF StopReads
  <2> QED
    BY <1>19, <2>1, DaemonAssumption DEF StopReads
<1>20. CASE StopFindsDead
  BY <1>20, DaemonAssumption, ZenonT(60) DEF StopFindsDead
<1>21. CASE StopFindsAlive
  BY <1>21, DaemonAssumption DEF StopFindsAlive
<1>22. CASE StopSignals
  <2>1. ASSUME NEW d \in JobDaemons, env, "timeout" \notin mishap, Alive(d) PROVE spid = d /\ ~term[d]
    BY <1>22, <2>1, DaemonAssumption DEF StopSignals
  <2>2. \A d \in Daemons : term'[d] = (term[d] \/ (d = spid /\ Alive(d)))
    BY <1>22, Zenon DEF StopSignals
  <2>3. UNCHANGED <<pc, env, mishap, stage, spid>> /\ spc' = IF Alive(spid) THEN "polling" ELSE "failed"
    BY <1>22 DEF StopSignals
  <2>4. spc = "signalling"
    BY <1>22 DEF StopSignals
  <2>5. stage # "ended"
    BY <2>4
  <2>6. ASSUME NEW d \in JobDaemons, env, "timeout" \notin mishap, Alive(d)
        PROVE  spc' = "polling" /\ spid' = d
    BY <2>1, <2>3, <2>6
  <2> QED
    BY <2>3, <2>5, <2>6
<1>23. CASE StopPolls
  BY <1>23, DaemonAssumption, ZenonT(60) DEF StopPolls
<1>24. CASE StopTimesOut
  BY <1>24, DaemonAssumption DEF StopTimesOut
<1>25. CASE PreReady
  BY <1>25, DaemonAssumption DEF PreReady
<1>26. CASE PreTimesOut
  BY <1>26, DaemonAssumption DEF PreTimesOut
<1>27. CASE StopStep
  BY <1>27, DaemonAssumption DEF StopStep
<1>28. CASE StopStepEnds
  BY <1>28, DaemonAssumption DEF StopStepEnds
<1>29. CASE StepsEnd
  BY <1>29, DaemonAssumption DEF StepsEnd
<1>30. CASE PostFindsNothing
  <2>1. ASSUME NEW d \in JobDaemons, env, "timeout" \notin mishap PROVE ~Alive(d)
    <3>1. d # NoPid /\ pidFile = NoPid /\ spc = "idle"
      BY <1>30, <2>1, DaemonAssumption DEF PostFindsNothing
    <3>2. pc[d] \notin Holding
      BY <2>1, <3>1
    <3>3. ~(Alive(d) /\ pc[d] \in Leaving)
      BY <2>1, <3>1
    <3> QED
      BY <2>1, <3>2, <3>3
  <2> QED
    BY <1>30, <2>1, DaemonAssumption DEF PostFindsNothing
<1>31. CASE PostStops
  BY <1>31, DaemonAssumption DEF PostStops
<1>32. CASE PostDecides
  BY <1>32, DaemonAssumption DEF PostDecides
<1>33. CASE UNCHANGED vars
  BY <1>33, DaemonAssumption DEF vars
<1> HIDE DEF Control, Flags, Told, Stages, Kept, Awaited, Published, Holding, Leaving, Alive,
             Daemons, daemonVars, jobVars, stopVars, history, Goto, Exit, Advance
<1> QED
  BY <1>1, <1>2, <1>3, <1>4, <1>5, <1>6, <1>7, <1>8, <1>9, <1>10, <1>11, <1>12, <1>13,
     <1>14, <1>15, <1>16, <1>17, <1>18, <1>19, <1>20, <1>21, <1>22, <1>23, <1>24, <1>25, <1>26,
     <1>27, <1>28, <1>29, <1>30, <1>31, <1>32, <1>33, StepCases DEF Daemons

-----------------------------------------------------------------------------
(* The invariant holds while no report is lost. *)

LEMMA ReportLog ==
  ASSUME Flags, Data, NEW d \in Daemons, Report(d)
  PROVE  /\ \A i \in DOMAIN log : i \in DOMAIN log' /\ log'[i] = log[i]
         /\ \E i \in DOMAIN log' : log'[i].by = d
         /\ log' # <<>> /\ Last(log') = Doc(d, denied[d])
<1>1. Doc(d, denied[d]) \in Docs
  BY DEF Doc, Docs, Flags
<1>2. log \in Seq(Docs)
  BY DEF Data
<1>3. log' = Append(log, Doc(d, denied[d]))
  BY DEF Report
<1> DEFINE doc == Doc(d, denied[d])
<1>4. doc.by = d
  BY DEF Doc
<1> HIDE DEF doc
<1>5. doc \in Docs /\ log' = Append(log, doc)
  BY <1>1, <1>3 DEF doc
<1>6. /\ Len(log) \in Nat /\ Len(log') = Len(log) + 1 /\ log' # <<>>
      /\ DOMAIN log = 1 .. Len(log) /\ DOMAIN log' = 1 .. Len(log')
      /\ \A i \in 1 .. Len(log) : log'[i] = log[i]
      /\ log'[Len(log')] = doc
  BY <1>2, <1>5
<1>7. Last(log') = doc
  BY <1>6 DEF Last
<1> QED
  BY <1>4, <1>6, <1>7 DEF doc

LEMMA ReportedNext == Control /\ Flags /\ Data /\ Named /\ Reported /\ [Next]_vars => Reported'
<1> SUFFICES ASSUME Control, Flags, Data, Named, Reported, [Next]_vars
             PROVE  Reported'
  OBVIOUS
<1> USE DEF Control, Named, Reported, Published, Holding, Alive, daemonVars, jobVars, stopVars,
            history, Goto, Exit, Advance
<1>1. ASSUME NEW d \in Daemons, CheckPidFile(d) PROVE Reported'
  BY <1>1, DaemonAssumption, ZenonT(60) DEF CheckPidFile
<1>2. ASSUME NEW d \in Daemons, Attach(d) PROVE Reported'
  BY <1>2, DaemonAssumption DEF Attach
<1>3. ASSUME NEW d \in Daemons, AttachFails(d) PROVE Reported'
  BY <1>3, DaemonAssumption DEF AttachFails
<1>4. ASSUME NEW d \in Daemons, Publish(d) PROVE Reported'
  BY <1>4, DaemonAssumption DEF Publish
<1>5. ASSUME NEW d \in Daemons, Park(d) PROVE Reported'
  BY <1>5, DaemonAssumption DEF Park
<1>6. ASSUME NEW d \in Daemons, KilledEarly(d) PROVE Reported'
  BY <1>6, DaemonAssumption DEF KilledEarly
<1>7. ASSUME NEW d \in Daemons, Terminate(d) PROVE Reported'
  BY <1>7, DaemonAssumption DEF Terminate
<1>8. ASSUME NEW d \in Daemons, Unlink(d) PROVE Reported'
  BY <1>8, DaemonAssumption, ZenonT(60) DEF Unlink
<1>9. ASSUME NEW d \in Daemons, RaiseStop(d) PROVE Reported'
  BY <1>9, DaemonAssumption DEF RaiseStop
<1>10. ASSUME NEW d \in Daemons, Snapshot(d) PROVE Reported'
  BY <1>10, DaemonAssumption DEF Snapshot
<1>11. ASSUME NEW d \in Daemons, Report(d) PROVE Reported'
  <2>1. pidFile # d
    BY <1>11 DEF Report
  <2>2. UNCHANGED <<pidFile, spid, mishap>> /\ pc' = [pc EXCEPT ![d] = "dead"]
    BY <1>11 DEF Report
  <2>3. \A i \in DOMAIN log : i \in DOMAIN log' /\ log'[i] = log[i]
    BY <1>11, ReportLog
  <2>4. \E i \in DOMAIN log' : log'[i].by = d
    BY <1>11, ReportLog
  <2>5. ASSUME NEW e \in Daemons, e # d PROVE pc'[e] = pc[e]
    <3>1. e \in DOMAIN pc
      BY Zenon
    <3> HIDE DEF Control, Flags, Data, Named, Reported
    <3> QED
      BY <2>2, <2>5, <3>1
  <2>6. pc'[d] = "dead"
    BY <2>2
  <2>7. \A e \in Daemons : (\E i \in DOMAIN log : log[i].by = e) => \E i \in DOMAIN log' : log'[i].by = e
    BY <2>3, Zenon
  <2> QED
    BY <2>1, <2>2, <2>4, <2>5, <2>6, <2>7
<1>12. ASSUME NEW d \in Daemons, ReportFails(d) PROVE Reported'
  BY <1>12, DaemonAssumption DEF ReportFails
<1>13. ASSUME NEW d \in Daemons, Drain(d) PROVE Reported'
  BY <1>13, DaemonAssumption DEF Drain
<1>14. ASSUME NEW d \in Daemons, DrainEnds(d) PROVE Reported'
  BY <1>14, DaemonAssumption DEF DrainEnds
<1>15. ASSUME NEW d \in Daemons, Crash(d) PROVE Reported'
  BY <1>15, DaemonAssumption DEF Crash
<1>16. ASSUME NEW d \in JobDaemons, PreSpawns(d) PROVE Reported'
  BY <1>16, DaemonAssumption DEF PreSpawns
<1>17. ASSUME NEW d \in OtherDaemons, StepStarts(d) PROVE Reported'
  BY <1>17, DaemonAssumption DEF StepStarts
<1>18. ASSUME NEW x \in BOOLEAN, Event(x) PROVE Reported'
  BY <1>18, DaemonAssumption DEF Event
<1>19. CASE StopReads
  BY <1>19, DaemonAssumption DEF StopReads
<1>20. CASE StopFindsDead
  BY <1>20, DaemonAssumption DEF StopFindsDead
<1>21. CASE StopFindsAlive
  BY <1>21, DaemonAssumption DEF StopFindsAlive
<1>22. CASE StopSignals
  BY <1>22, DaemonAssumption DEF StopSignals
<1>23. CASE StopPolls
  BY <1>23, DaemonAssumption DEF StopPolls
<1>24. CASE StopTimesOut
  BY <1>24, DaemonAssumption DEF StopTimesOut
<1>25. CASE PreReady
  BY <1>25, DaemonAssumption DEF PreReady
<1>26. CASE PreTimesOut
  BY <1>26, DaemonAssumption DEF PreTimesOut
<1>27. CASE StopStep
  BY <1>27, DaemonAssumption DEF StopStep
<1>28. CASE StopStepEnds
  BY <1>28, DaemonAssumption DEF StopStepEnds
<1>29. CASE StepsEnd
  BY <1>29, DaemonAssumption DEF StepsEnd
<1>30. CASE PostFindsNothing
  BY <1>30, DaemonAssumption DEF PostFindsNothing
<1>31. CASE PostStops
  BY <1>31, DaemonAssumption DEF PostStops
<1>32. CASE PostDecides
  BY <1>32, DaemonAssumption DEF PostDecides
<1>33. CASE UNCHANGED vars
  BY <1>33, DaemonAssumption DEF vars
<1> HIDE DEF Control, Named, Reported, Published, Holding, Alive, daemonVars, jobVars, stopVars,
             history, Goto, Exit, Advance
<1> QED
  BY <1>1, <1>2, <1>3, <1>4, <1>5, <1>6, <1>7, <1>8, <1>9, <1>10, <1>11, <1>12, <1>13,
     <1>14, <1>15, <1>16, <1>17, <1>18, <1>19, <1>20, <1>21, <1>22, <1>23, <1>24, <1>25, <1>26,
     <1>27, <1>28, <1>29, <1>30, <1>31, <1>32, <1>33, StepCases DEF Daemons

-----------------------------------------------------------------------------
(* The invariant holds while nothing goes wrong. *)

LEMMA DrainingNext == Control /\ Flags /\ Draining /\ [Next]_vars => Draining'
<1> SUFFICES ASSUME Control, Flags, Draining, [Next]_vars
             PROVE  Draining'
  OBVIOUS
<1> USE DEF Control, Flags, Draining, Holding, Alive, daemonVars, jobVars, stopVars, history,
            Goto, Exit, Advance
<1>1. ASSUME NEW d \in Daemons, KilledEarly(d) \/ Report(d) \/ ReportFails(d) \/ Crash(d)
      PROVE  Draining'
  BY <1>1, ZenonT(60) DEF KilledEarly, Report, ReportFails, Crash
<1>2. ASSUME NEW d \in Daemons, PreSpawns(d) \/ StepStarts(d)
      PROVE  Draining'
  BY <1>2, ZenonT(60) DEF PreSpawns, StepStarts
<1>3. CASE StopReads \/ StopFindsDead \/ StopFindsAlive \/ StopSignals \/ StopPolls \/
           StopTimesOut \/ PreReady \/ PreTimesOut \/ StopStep \/ StopStepEnds \/ StepsEnd \/
           PostFindsNothing \/ PostStops \/ PostDecides
  BY <1>3 DEF StopReads, StopFindsDead, StopFindsAlive, StopSignals, StopPolls, StopTimesOut,
              PreReady, PreTimesOut, StopStep, StopStepEnds, StepsEnd, PostFindsNothing,
              PostStops, PostDecides
<1>4. ASSUME NEW d \in Daemons, CheckPidFile(d) PROVE Draining'
  BY <1>4, ZenonT(60) DEF CheckPidFile
<1>5. ASSUME NEW d \in Daemons, Attach(d) PROVE Draining'
  BY <1>5 DEF Attach
<1>6. ASSUME NEW d \in Daemons, AttachFails(d) PROVE Draining'
  BY <1>6, ZenonT(60) DEF AttachFails
<1>7. ASSUME NEW d \in Daemons, Publish(d) PROVE Draining'
  BY <1>7 DEF Publish
<1>8. ASSUME NEW d \in Daemons, Park(d) PROVE Draining'
  BY <1>8 DEF Park
<1>9. ASSUME NEW d \in Daemons, Terminate(d) PROVE Draining'
  BY <1>9 DEF Terminate
<1>10. ASSUME NEW d \in Daemons, Unlink(d) PROVE Draining'
  BY <1>10 DEF Unlink
<1>11. ASSUME NEW d \in Daemons, RaiseStop(d) PROVE Draining'
  BY <1>11 DEF RaiseStop
<1>12. ASSUME NEW d \in Daemons, Snapshot(d) PROVE Draining'
  BY <1>12 DEF Snapshot
<1>13. ASSUME NEW d \in Daemons, Drain(d) PROVE Draining'
  BY <1>13 DEF Drain
<1>14. ASSUME NEW d \in Daemons, DrainEnds(d) PROVE Draining'
  BY <1>14 DEF DrainEnds
<1>15. ASSUME NEW x \in BOOLEAN, Event(x) PROVE Draining'
  BY <1>15 DEF Event
<1>16. CASE UNCHANGED vars
  BY <1>16 DEF vars
<1> HIDE DEF Control, Flags, Draining, Holding, Alive, daemonVars, jobVars, stopVars, history,
             Goto, Exit, Advance
<1> QED
  BY <1>1, <1>2, <1>3, <1>4, <1>5, <1>6, <1>7, <1>8, <1>9, <1>10, <1>11, <1>12, <1>13,
     <1>14, <1>15, <1>16, StepCases DEF Daemons

LEMMA EmptyDomain == \A i : i \notin DOMAIN <<>>
<1>1. DOMAIN <<>> = 1 .. 0
  BY EmptySeq, LenProperties
<1>2. \A i \in 1 .. 0 : FALSE
  OBVIOUS
<1> QED
  BY <1>1, <1>2, Zenon

LEMMA Nobody == \A d \in JobDaemons : d # NoPid
BY DaemonAssumption DEF Daemons

LEMMA Appended ==
  ASSUME NEW s \in Seq(BOOLEAN), NEW x \in BOOLEAN, NEW i \in DOMAIN Append(s, x)
  PROVE  (i \in DOMAIN s /\ Append(s, x)[i] = s[i]) \/ (i = Len(s) + 1 /\ Append(s, x)[i] = x)
<1> DEFINE t == Append(s, x)
<1>1. t \in Seq(BOOLEAN) /\ Len(t) = Len(s) + 1
  BY AppendProperties
<1>2. (\A j \in 1 .. Len(s) : t[j] = s[j]) /\ t[Len(s) + 1] = x
  BY AppendProperties
<1>3. DOMAIN s = 1 .. Len(s) /\ DOMAIN t = 1 .. Len(t) /\ Len(s) \in Nat
  BY <1>1, LenProperties
<1> HIDE DEF t
<1>4. i \in DOMAIN t
  BY DEF t
<1>5. i \in 1 .. Len(s) \/ i = Len(s) + 1
  BY <1>1, <1>3, <1>4
<1>6. (i \in DOMAIN s /\ t[i] = s[i]) \/ (i = Len(s) + 1 /\ t[i] = x)
  BY <1>2, <1>3, <1>5, Zenon
<1> QED
  BY <1>6 DEF t

LEMMA HeadOrTail ==
  ASSUME NEW s \in Seq(BOOLEAN), s # <<>>
  PROVE  (\E i \in DOMAIN s : s[i]) <=> Head(s) \/ \E i \in DOMAIN Tail(s) : Tail(s)[i]
<1> DEFINE t == Tail(s)
<1>1. t \in Seq(BOOLEAN) /\ Len(t) = Len(s) - 1 /\ \A i \in 1 .. Len(t) : t[i] = s[i + 1]
  BY HeadTailProperties
<1>2. DOMAIN s = 1 .. Len(s) /\ DOMAIN t = 1 .. Len(t) /\ Len(s) \in Nat /\ Len(t) \in Nat
  BY <1>1, LenProperties
<1>3. Head(s) = s[1]
  BY SMT
<1> HIDE DEF t
<1>4. \A i \in DOMAIN s : i = 1 \/ (i - 1 \in DOMAIN t /\ (i - 1) + 1 = i)
  BY <1>1, <1>2
<1>5. 1 \in DOMAIN s /\ \A i \in DOMAIN t : i + 1 \in DOMAIN s
  BY <1>1, <1>2
<1>6. \A i \in DOMAIN t : t[i] = s[i + 1]
  BY <1>1, <1>2, Zenon
<1>7. (\E i \in DOMAIN s : s[i]) => s[1] \/ \E i \in DOMAIN t : t[i]
  BY <1>4, <1>6, Zenon
<1>8. s[1] \/ (\E i \in DOMAIN t : t[i]) => \E i \in DOMAIN s : s[i]
  BY <1>5, <1>6, Zenon
<1> QED
  BY <1>3, <1>7, <1>8, Zenon DEF t

LEMMA RecordedNext == Flags /\ Data /\ Recorded /\ [Next]_vars => Recorded'
<1> SUFFICES ASSUME Flags, Data, Recorded, [Next]_vars
             PROVE  Recorded'
  OBVIOUS
<1> USE DEF Recorded, daemonVars, jobVars, stopVars, history, Goto, Exit, Advance
<1>1. ASSUME NEW d \in Daemons, CheckPidFile(d) \/ Attach(d) \/ AttachFails(d) \/ Publish(d) \/
                                Park(d) \/ KilledEarly(d) \/ Terminate(d) \/ Unlink(d) \/
                                RaiseStop(d) \/ Snapshot(d) \/ Report(d) \/ ReportFails(d) \/
                                DrainEnds(d) \/ Crash(d) \/ PreSpawns(d) \/ StepStarts(d)
      PROVE  Recorded'
  BY <1>1 DEF CheckPidFile, Attach, AttachFails, Publish, Park, KilledEarly, Terminate, Unlink,
              RaiseStop, Snapshot, Report, ReportFails, DrainEnds, Crash, PreSpawns, StepStarts
<1>2. CASE StopReads \/ StopFindsDead \/ StopFindsAlive \/ StopSignals \/ StopPolls \/
           StopTimesOut \/ PreReady \/ PreTimesOut \/ StopStep \/ StopStepEnds \/ StepsEnd \/
           PostFindsNothing \/ PostStops \/ PostDecides
  BY <1>2 DEF StopReads, StopFindsDead, StopFindsAlive, StopSignals, StopPolls, StopTimesOut,
              PreReady, PreTimesOut, StopStep, StopStepEnds, StepsEnd, PostFindsNothing,
              PostStops, PostDecides
<1>3. ASSUME NEW d \in Daemons, Drain(d) PROVE Recorded'
  <2>1. /\ ring[d] \in Seq(BOOLEAN) /\ ring[d] # <<>> /\ ring'[d] = Tail(ring[d])
        /\ \A e \in Daemons \ {d} : ring'[e] = ring[e]
    BY <1>3, DrainRing, Zenon
  <2>2. (\E i \in DOMAIN ring[d] : ring[d][i])
          <=> Head(ring[d]) \/ \E i \in DOMAIN ring'[d] : ring'[d][i]
    <3>1. (\E i \in DOMAIN ring[d] : ring[d][i])
            <=> Head(ring[d]) \/ \E i \in DOMAIN Tail(ring[d]) : Tail(ring[d])[i]
      BY <2>1, HeadOrTail
    <3> QED
      BY <2>1, <3>1, Zenon
  <2>3. /\ denied'[d] = (denied[d] \/ Head(ring[d])) /\ flagged' = flagged
        /\ \A e \in Daemons \ {d} : denied'[e] = denied[e]
    BY <1>3, Zenon DEF Drain, Flags, history
  <2> QED
    BY <2>1, <2>2, <2>3, Zenon DEF Recorded
<1>4. ASSUME NEW x \in BOOLEAN, Event(x) PROVE Recorded'
  <2>1. ASSUME NEW d \in Daemons,
               denied'[d] \/ \E i \in DOMAIN ring'[d] : ring'[d][i]
        PROVE  flagged' # "no"
    <3>1. denied' = denied
      BY <1>4 DEF Event
    <3>2. CASE denied[d] \/ \E i \in DOMAIN ring[d] : ring[d][i]
      <4>1. flagged # "no"
        BY <3>2
      <4> QED
        BY <1>4, <4>1 DEF Event
    <3>3. CASE ~(denied[d] \/ \E i \in DOMAIN ring[d] : ring[d][i])
      <4>1. ring'[d] # ring[d]
        BY <2>1, <3>1, <3>3, Zenon
      <4>2. ring[d] \in Seq(BOOLEAN)
        BY DEF Data
      <4>3. bpf[d] /\ Len(ring[d]) < RingCap /\ ring'[d] = Append(ring[d], x)
        BY <1>4, <4>1, EventRing, Zenon
      <4>4. PICK i \in DOMAIN ring'[d] : ring'[d][i]
        BY <2>1, <3>1, <3>3, Zenon
      <4>5. \/ i \in DOMAIN ring[d] /\ ring'[d][i] = ring[d][i]
            \/ ring'[d][i] = x
        BY <4>2, <4>3, <4>4, Appended, Zenon
      <4>6. x
        BY <3>3, <4>4, <4>5, Zenon
      <4> QED
        BY <1>4, <4>3, <4>6, Zenon DEF Event
    <3> QED
      BY <3>2, <3>3, Zenon
  <2> QED
    BY <2>1, Zenon DEF Recorded
<1>5. CASE UNCHANGED vars
  BY <1>5 DEF vars
<1> HIDE DEF Recorded, daemonVars, jobVars, stopVars, history, Goto, Exit, Advance
<1> QED
  BY <1>1, <1>2, <1>3, <1>4, <1>5, StepCases DEF Daemons

LEMMA CourseNext == Control /\ Flags /\ Stages /\ Kept /\ Waited /\ Course /\ [Next]_vars => Course'
<1> SUFFICES ASSUME Control, Flags, Stages, Kept, Waited, Course, [Next]_vars
             PROVE  Course'
  OBVIOUS
<1> USE DEF Control, Flags, Stages, Kept, Waited, Course, daemonVars, jobVars, stopVars,
            history, Goto, Exit, Advance
<1>1. ASSUME NEW d \in Daemons, CheckPidFile(d) \/ Attach(d) \/ Publish(d) \/ Park(d) \/
                                Terminate(d) \/ Unlink(d) \/ RaiseStop(d) \/ Report(d) \/
                                Drain(d) \/ DrainEnds(d)
      PROVE  Course'
  BY <1>1 DEF CheckPidFile, Attach, Publish, Park, Terminate, Unlink, RaiseStop, Report, Drain,
              DrainEnds
<1>2. ASSUME NEW d \in Daemons, AttachFails(d) \/ KilledEarly(d) \/ Snapshot(d) \/
                                ReportFails(d) \/ Crash(d)
      PROVE  Course'
  BY <1>2, ZenonT(60) DEF AttachFails, KilledEarly, Snapshot, ReportFails, Crash
<1>3. ASSUME NEW d \in Daemons, PreSpawns(d) \/ StepStarts(d)
      PROVE  Course'
  BY <1>3, ZenonT(60) DEF PreSpawns, StepStarts
<1>4. ASSUME NEW x \in BOOLEAN, Event(x) PROVE Course'
  BY <1>4 DEF Event
<1>5. CASE StopReads
  BY <1>5 DEF StopReads
<1>6. CASE StopFindsDead
  BY <1>6 DEF StopFindsDead
<1>7. CASE StopFindsAlive
  BY <1>7 DEF StopFindsAlive
<1>8. CASE StopSignals
  <2>1. UNCHANGED <<mishap, stage, env, verdict>>
    BY <1>8 DEF StopSignals
  <2>2. \A d \in Daemons : term'[d] = (term[d] \/ (d = spid /\ Alive(d)))
    BY <1>8, Zenon DEF StopSignals
  <2>3. ASSUME mishap = {} PROVE spid \in JobDaemons /\ Alive(spid)
    <3>1. stage = "stopping" /\ env /\ spc = "signalling"
      BY <1>8, <2>3 DEF StopSignals
    <3>2. PICK d \in JobDaemons : spid = d /\ pc[d] # "dead" /\ pc[d] \in Published
      BY <2>3, <3>1
    <3> QED
      BY <3>2 DEF Alive, Daemons, Published
  <2>4. spc' = IF Alive(spid) THEN "polling" ELSE "failed"
    BY <1>8 DEF StopSignals
  <2>5. ASSUME mishap = {} PROVE spc' # "failed"
    BY <2>3, <2>4, <2>5
  <2>6. ASSUME mishap = {}, NEW d \in Daemons, term'[d] PROVE d \in JobDaemons
    BY <2>2, <2>3, <2>6
  <2> QED
    BY <2>1, <2>5, <2>6
<1>9. CASE StopPolls
  BY <1>9 DEF StopPolls
<1>10. CASE StopTimesOut
  BY <1>10 DEF StopTimesOut
<1>11. CASE PreReady
  BY <1>11 DEF PreReady
<1>12. CASE PreTimesOut
  BY <1>12 DEF PreTimesOut
<1>13. CASE StopStep
  BY <1>13 DEF StopStep
<1>14. CASE StopStepEnds
  BY <1>14 DEF StopStepEnds
<1>15. CASE StepsEnd
  BY <1>15 DEF StepsEnd
<1>16. CASE PostFindsNothing
  BY <1>16 DEF PostFindsNothing
<1>17. CASE PostStops
  BY <1>17 DEF PostStops
<1>18. CASE PostDecides
  BY <1>18 DEF PostDecides
<1>19. CASE UNCHANGED vars
  BY <1>19 DEF vars
<1> HIDE DEF Control, Flags, Stages, Kept, Waited, Course, daemonVars, jobVars, stopVars,
             history, Goto, Exit, Advance
<1> QED
  BY <1>1, <1>2, <1>3, <1>4, <1>5, <1>6, <1>7, <1>8, <1>9, <1>10, <1>11, <1>12, <1>13,
     <1>14, <1>15, <1>16, <1>17, <1>18, <1>19, StepCases DEF Daemons

LEMMA Appends ==
  ASSUME NEW s \in Seq(BOOLEAN), NEW x \in BOOLEAN
  PROVE  /\ \A i \in DOMAIN s : i \in DOMAIN Append(s, x) /\ Append(s, x)[i] = s[i]
         /\ \E i \in DOMAIN Append(s, x) : Append(s, x)[i] = x
<1> DEFINE t == Append(s, x)
<1>1. t \in Seq(BOOLEAN) /\ Len(t) = Len(s) + 1
  BY AppendProperties
<1>2. (\A j \in 1 .. Len(s) : t[j] = s[j]) /\ t[Len(s) + 1] = x
  BY AppendProperties
<1>3. DOMAIN s = 1 .. Len(s) /\ DOMAIN t = 1 .. Len(t) /\ Len(s) \in Nat
  BY <1>1, LenProperties
<1> HIDE DEF t
<1>4. Len(s) + 1 \in DOMAIN t /\ \A i \in DOMAIN s : i \in DOMAIN t
  BY <1>1, <1>3
<1>5. \A i \in DOMAIN s : i \in DOMAIN t /\ t[i] = s[i]
  BY <1>2, <1>3, <1>4, Zenon
<1>6. \E i \in DOMAIN t : t[i] = x
  BY <1>2, <1>4, Zenon
<1> QED
  BY <1>5, <1>6 DEF t

LEMMA HeededNext == Control /\ Flags /\ Data /\ Draining /\ Heeded /\ [Next]_vars => Heeded'
<1> SUFFICES ASSUME Control, Flags, Data, Draining, Heeded, [Next]_vars
             PROVE  Heeded'
  OBVIOUS
<1> USE DEF Control, Flags, Draining, Heeded, Heard, Holding, Daemons, daemonVars, jobVars,
            stopVars, history, Goto, Exit, Advance
<1>1. ASSUME NEW d \in Daemons, AttachFails(d) \/ KilledEarly(d) \/ ReportFails(d) \/ Crash(d)
      PROVE  Heeded'
  BY <1>1 DEF AttachFails, KilledEarly, ReportFails, Crash
<1>2. CASE StopReads \/ StopFindsDead \/ StopFindsAlive \/ StopSignals \/ StopPolls \/
           StopTimesOut \/ PreReady \/ PreTimesOut \/ StopStep \/ StopStepEnds \/ StepsEnd \/
           PostFindsNothing \/ PostStops \/ PostDecides
  BY <1>2 DEF StopReads, StopFindsDead, StopFindsAlive, StopSignals, StopPolls, StopTimesOut,
              PreReady, PreTimesOut, StopStep, StopStepEnds, StepsEnd, PostFindsNothing,
              PostStops, PostDecides
<1>3. ASSUME NEW d \in Daemons, CheckPidFile(d) PROVE Heeded'
  BY <1>3 DEF CheckPidFile
<1>4. ASSUME NEW d \in Daemons, Attach(d) PROVE Heeded'
  BY <1>4 DEF Attach
<1>5. ASSUME NEW d \in Daemons, Publish(d) PROVE Heeded'
  BY <1>5 DEF Publish
<1>6. ASSUME NEW d \in Daemons, Park(d) PROVE Heeded'
  BY <1>6 DEF Park
<1>7. ASSUME NEW d \in Daemons, Terminate(d) PROVE Heeded'
  BY <1>7 DEF Terminate
<1>8. ASSUME NEW d \in Daemons, Unlink(d) PROVE Heeded'
  BY <1>8 DEF Unlink
<1>9. ASSUME NEW d \in Daemons, RaiseStop(d) PROVE Heeded'
  BY <1>9 DEF RaiseStop
<1>10. ASSUME NEW d \in Daemons, Snapshot(d) PROVE Heeded'
  BY <1>10 DEF Snapshot
<1>11. ASSUME NEW d \in Daemons, Report(d) PROVE Heeded'
  BY <1>11 DEF Report
<1>12. ASSUME NEW d \in Daemons, Drain(d) PROVE Heeded'
  <2>1. /\ ring[d] \in Seq(BOOLEAN) /\ ring[d] # <<>> /\ ring'[d] = Tail(ring[d])
        /\ \A e \in Daemons \ {d} : ring'[e] = ring[e]
    BY <1>12, DrainRing, Zenon
  <2>2. (\E i \in DOMAIN ring[d] : ring[d][i])
          => Head(ring[d]) \/ \E i \in DOMAIN Tail(ring[d]) : Tail(ring[d])[i]
    BY <2>1, HeadOrTail
  <2>3. /\ denied'[d] = (denied[d] \/ Head(ring[d])) /\ pc' = pc /\ drain' = drain
        /\ mishap' = mishap /\ flagged' = flagged
        /\ \A e \in Daemons \ {d} : denied'[e] = denied[e]
    BY <1>12, Zenon DEF Drain, Flags, history
  <2> HIDE DEF Control, Flags, Draining, Heeded, Holding, Daemons
  <2>4. denied[d] \/ Heard(d) => (denied[d] \/ Heard(d))'
    <3>1. CASE denied[d] \/ Head(ring[d])
      BY <2>3, <3>1
    <3>2. CASE ~(denied[d] \/ Head(ring[d]))
      BY <2>1, <2>2, <2>3, <3>2 DEF Heard
    <3> QED
      BY <3>1, <3>2, Zenon
  <2>5. ASSUME NEW e \in JobDaemons, e # d, denied[e] \/ Heard(e) PROVE (denied[e] \/ Heard(e))'
    BY <2>1, <2>3, <2>5 DEF Heard, Daemons
  <2> QED
    BY <2>3, <2>4, <2>5, Zenon DEF Heeded
<1>13. ASSUME NEW d \in Daemons, DrainEnds(d) PROVE Heeded'
  <2>1. ~Heard(d)
    <3>1. ring[d] = <<>>
      BY <1>13, Zenon DEF DrainEnds
    <3> QED
      BY <3>1, EmptyDomain, Zenon DEF Heard
  <2>2. /\ UNCHANGED <<denied, ring, pc, mishap, flagged>>
        /\ \A e \in Daemons : e # d => drain'[e] = drain[e]
    BY <1>13 DEF DrainEnds
  <2> QED
    BY <2>1, <2>2
<1>14. ASSUME NEW d \in JobDaemons, PreSpawns(d) PROVE Heeded'
  BY <1>14 DEF PreSpawns
<1>15. ASSUME NEW d \in OtherDaemons, StepStarts(d) PROVE Heeded'
  BY <1>15 DEF StepStarts
<1>16. ASSUME NEW x \in BOOLEAN, Event(x) PROVE Heeded'
  <2> SUFFICES ASSUME mishap' = {}, flagged' = "in time", NEW d \in JobDaemons
               PROVE  (denied[d] \/ Heard(d))'
    OBVIOUS
  <2> HIDE DEF Control, Flags, Draining, Heeded, Heard, Holding, Daemons
  <2>1. d \in Daemons /\ ring[d] \in Seq(BOOLEAN)
    BY DEF Daemons, Data
  <2>2. denied' = denied /\ drain' = drain /\ pc' = pc /\ mishap = {}
    BY <1>16, Zenon DEF Event
  <2>3. ring'[d] = IF bpf[d] /\ Len(ring[d]) < RingCap THEN Append(ring[d], x) ELSE ring[d]
    BY <1>16, <2>1, EventRing, Zenon
  <2>4. \A i \in DOMAIN ring[d] : i \in DOMAIN Append(ring[d], x) /\ Append(ring[d], x)[i] = ring[d][i]
    BY <2>1, Appends
  <2>5. CASE flagged = "in time"
    <3>1. denied[d] \/ Heard(d)
      BY <2>2, <2>5, Zenon DEF Heeded
    <3>2. Heard(d) => Heard(d)'
      BY <2>2, <2>3, <2>4, Zenon DEF Heard
    <3> QED
      BY <2>2, <3>1, <3>2, Zenon
  <2>6. CASE flagged # "in time"
    <3>1. x /\ bpf[d] /\ Len(ring[d]) < RingCap /\ pc[d] \in {"ready", "parked"}
      <4>1. x /\ \E e \in {e \in {e \in Daemons : bpf[e]} : Len(ring[e]) < RingCap} \cap JobDaemons :
                   pc[e] \in {"ready", "parked"}
        BY <1>16, <2>6, Zenon DEF Event
      <4>2. \A e \in JobDaemons : e = d
        BY DaemonAssumption
      <4> QED
        BY <4>1, <4>2, Zenon
    <3>2. drain[d] = "looping"
      BY <2>1, <3>1 DEF Draining, Holding
    <3>3. \E i \in DOMAIN Append(ring[d], x) : Append(ring[d], x)[i] = x
      BY <2>1, Appends
    <3>4. ring'[d] = Append(ring[d], x)
      BY <2>3, <3>1, Zenon
    <3>5. \E i \in DOMAIN ring'[d] : ring'[d][i]
      BY <3>1, <3>3, <3>4, Zenon
    <3>6. pc'[d] \notin {"reporting", "dead"} /\ drain'[d] = "looping"
      BY <2>2, <3>1, <3>2
    <3> QED
      BY <3>5, <3>6, Zenon DEF Heard
  <2> QED
    BY <2>5, <2>6, Zenon
<1>17. CASE UNCHANGED vars
  BY <1>17 DEF vars
<1> HIDE DEF Control, Flags, Draining, Heeded, Heard, Holding, Daemons, daemonVars, jobVars,
             stopVars, history, Goto, Exit, Advance
<1> QED
  BY <1>1, <1>2, <1>3, <1>4, <1>5, <1>6, <1>7, <1>8, <1>9, <1>10, <1>11, <1>12, <1>13,
     <1>14, <1>15, <1>16, <1>17, StepCases DEF Daemons

LEMMA WaitedNext == Control /\ Flags /\ Data /\ Named /\ Told /\ Stages /\ Kept /\ Awaited /\
                    Reported /\ Course /\ Waited /\ [Next]_vars => Waited'
<1> SUFFICES ASSUME Control, Flags, Data, Named, Told, Stages, Kept, Awaited, Reported, Course,
                    Waited, [Next]_vars
             PROVE  Waited'
  OBVIOUS
<1> USE DEF Control, Flags, Named, Told, Stages, Kept, Awaited, Reported, Course, Waited,
            Published, Holding, Leaving, Alive, Daemons, daemonVars, jobVars, stopVars, history,
            Goto, Exit, Advance
<1>1. ASSUME NEW d \in Daemons, AttachFails(d) \/ KilledEarly(d) \/ ReportFails(d) \/ Crash(d)
      PROVE  Waited'
  BY <1>1, DaemonAssumption DEF AttachFails, KilledEarly, ReportFails, Crash
<1>2. ASSUME NEW d \in Daemons, CheckPidFile(d) PROVE Waited'
  BY <1>2, DaemonAssumption, ZenonT(60) DEF CheckPidFile
<1>3. ASSUME NEW d \in Daemons, Attach(d) PROVE Waited'
  BY <1>3, DaemonAssumption DEF Attach
<1>4. ASSUME NEW d \in Daemons, Publish(d) PROVE Waited'
  BY <1>4, DaemonAssumption DEF Publish
<1>5. ASSUME NEW d \in Daemons, Park(d) PROVE Waited'
  BY <1>5, DaemonAssumption DEF Park
<1>6. ASSUME NEW d \in Daemons, Terminate(d) PROVE Waited'
  BY <1>6, DaemonAssumption DEF Terminate
<1>7. ASSUME NEW d \in Daemons, Unlink(d) PROVE Waited'
  BY <1>7, DaemonAssumption DEF Unlink
<1>8. ASSUME NEW d \in Daemons, RaiseStop(d) PROVE Waited'
  BY <1>8, DaemonAssumption DEF RaiseStop
<1>9. ASSUME NEW d \in Daemons, Snapshot(d) PROVE Waited'
  BY <1>9, DaemonAssumption DEF Snapshot
<1>10. ASSUME NEW d \in Daemons, Report(d) PROVE Waited'
  <2> SUFFICES ASSUME mishap = {}, NEW e \in JobDaemons
               PROVE  /\ spc' \in {"checking", "signalling", "polling", "ok"} => spid' = e
                      /\ env' /\ pc'[e] = "dead" =>
                           /\ spc' \in {"polling", "ok"} \/ stage' = "ended"
                           /\ log' # <<>> /\ Last(log') = Doc(e, denied'[e])
    BY <1>10 DEF Report
  <2>1. UNCHANGED <<spc, spid, env, stage, denied>>
    BY <1>10 DEF Report
  <2>2. pc[d] = "reporting" /\ term[d]
    BY <1>10 DEF Report
  <2>3. d = e
    BY <2>2, DaemonAssumption
  <2>4. env => spc = "polling"
    BY <2>2, <2>3
  <2>5. log' # <<>> /\ Last(log') = Doc(d, denied[d])
    BY <1>10, ReportLog
  <2> QED
    BY <2>1, <2>3, <2>4, <2>5
<1>11. ASSUME NEW d \in Daemons, Drain(d) PROVE Waited'
  <2>1. pc[d] # "dead" /\ UNCHANGED <<pc, mishap, spc, spid, env, stage, log>>
    BY <1>11 DEF Drain
  <2>2. \A e \in JobDaemons : e # d => denied'[e] = denied[e]
    BY <1>11 DEF Drain
  <2>3. pc' = pc /\ mishap' = mishap /\ spc' = spc /\ spid' = spid /\ env' = env
        /\ stage' = stage /\ log' = log
    BY <2>1
  <2> HIDE DEF Control, Flags, Named, Told, Stages, Kept, Awaited, Reported, Course, Waited
  <2>4. \A e \in JobDaemons : pc[e] = "dead" => denied'[e] = denied[e]
    BY <2>1, <2>2, Zenon
  <2> SUFFICES ASSUME mishap = {}, NEW e \in JobDaemons
               PROVE  /\ spc \in {"checking", "signalling", "polling", "ok"} => spid = e
                      /\ env /\ pc[e] = "dead" =>
                           /\ spc \in {"polling", "ok"} \/ stage = "ended"
                           /\ log # <<>> /\ Last(log) = Doc(e, denied'[e])
    BY <2>3, Zenon DEF Waited
  <2> QED
    BY <2>4, Zenon DEF Waited
<1>12. ASSUME NEW d \in Daemons, DrainEnds(d) PROVE Waited'
  BY <1>12, DaemonAssumption DEF DrainEnds
<1>13. ASSUME NEW d \in JobDaemons, PreSpawns(d) PROVE Waited'
  BY <1>13, DaemonAssumption DEF PreSpawns
<1>14. ASSUME NEW d \in OtherDaemons, StepStarts(d) PROVE Waited'
  BY <1>14, DaemonAssumption DEF StepStarts
<1>15. ASSUME NEW x \in BOOLEAN, Event(x) PROVE Waited'
  BY <1>15, DaemonAssumption DEF Event
<1>16. CASE StopReads
  <2> SUFFICES ASSUME mishap = {}, NEW d \in JobDaemons
               PROVE  spid' = d /\ (env /\ pc[d] = "dead" => FALSE)
    BY <1>16 DEF StopReads
  <2>1. stage = "stopping" /\ env /\ spc = "reading" /\ spid' = pidFile
    BY <1>16 DEF StopReads
  <2>2. pc[d] # "dead" /\ pc[d] \in Published
    BY <2>1
  <2>3. pc[d] \in Holding
    BY <2>1, <2>2
  <2> QED
    BY <2>1, <2>2, <2>3
<1>17. CASE StopFindsDead
  BY <1>17, DaemonAssumption DEF StopFindsDead
<1>18. CASE StopFindsAlive
  BY <1>18, DaemonAssumption DEF StopFindsAlive
<1>19. CASE StopSignals
  BY <1>19, DaemonAssumption DEF StopSignals
<1>20. CASE StopPolls
  BY <1>20, DaemonAssumption DEF StopPolls
<1>21. CASE StopTimesOut
  BY <1>21, DaemonAssumption DEF StopTimesOut
<1>22. CASE PreReady
  <2>1. pidFile \in JobDaemons
    BY <1>22 DEF PreReady
  <2>2. ASSUME mishap = {} PROVE pc[pidFile] # "dead"
    BY <2>1, <2>2
  <2>3. \A d \in JobDaemons : d = pidFile
    BY <2>1, DaemonAssumption
  <2>4. spc = "idle"
    BY <1>22 DEF PreReady
  <2> QED
    BY <1>22, <2>2, <2>3, <2>4 DEF PreReady
<1>23. CASE PreTimesOut
  BY <1>23, DaemonAssumption DEF PreTimesOut
<1>24. CASE StopStep
  BY <1>24, DaemonAssumption DEF StopStep
<1>25. CASE StopStepEnds
  BY <1>25, DaemonAssumption DEF StopStepEnds
<1>26. CASE StepsEnd
  BY <1>26, DaemonAssumption DEF StepsEnd
<1>27. CASE PostFindsNothing
  BY <1>27, DaemonAssumption DEF PostFindsNothing
<1>28. CASE PostStops
  BY <1>28, DaemonAssumption DEF PostStops
<1>29. CASE PostDecides
  BY <1>29, DaemonAssumption DEF PostDecides
<1>30. CASE UNCHANGED vars
  BY <1>30, DaemonAssumption DEF vars
<1> HIDE DEF Control, Flags, Named, Told, Stages, Kept, Awaited, Reported, Course, Waited,
             Published, Holding, Leaving, Alive, Daemons, daemonVars, jobVars, stopVars,
             history, Goto, Exit, Advance
<1> QED
  BY <1>1, <1>2, <1>3, <1>4, <1>5, <1>6, <1>7, <1>8, <1>9, <1>10, <1>11, <1>12, <1>13,
     <1>14, <1>15, <1>16, <1>17, <1>18, <1>19, <1>20, <1>21, <1>22, <1>23, <1>24, <1>25, <1>26,
     <1>27, <1>28, <1>29, <1>30, StepCases DEF Daemons

LEMMA VerdictOfEventsNext == Control /\ Flags /\ Told /\ Stages /\ StopEndsDead /\ Kept /\
                          Awaited /\ Recorded /\ Course /\ Heeded /\ Waited /\ VerdictOfEvents /\
                          [Next]_vars => VerdictOfEvents'
<1> SUFFICES ASSUME Control, Flags, Told, Stages, StopEndsDead, Kept, Awaited, Recorded, Course,
                    Heeded, Waited, VerdictOfEvents, [Next]_vars
             PROVE  VerdictOfEvents'
  OBVIOUS
<1> USE DEF Control, Flags, Told, Stages, StopEndsDead, Kept, Awaited, Course, Heeded, Waited,
            VerdictOfEvents, Heard, Published, Holding, Leaving, Alive, Daemons, daemonVars,
            jobVars, stopVars, history, Goto, Exit, Advance
<1>1. ASSUME NEW d \in Daemons, CheckPidFile(d) \/ Attach(d) \/ Publish(d) \/ Park(d) \/
                                Terminate(d) \/ Unlink(d) \/ RaiseStop(d) \/ Report(d) \/
                                Drain(d) \/ DrainEnds(d)
      PROVE  VerdictOfEvents'
  BY <1>1 DEF CheckPidFile, Attach, Publish, Park, Terminate, Unlink, RaiseStop, Report, Drain,
              DrainEnds
<1>2. ASSUME NEW d \in Daemons, AttachFails(d) \/ KilledEarly(d) \/ Snapshot(d) \/
                                ReportFails(d) \/ Crash(d)
      PROVE  VerdictOfEvents'
  BY <1>2 DEF AttachFails, KilledEarly, Snapshot, ReportFails, Crash
<1>3. ASSUME NEW d \in Daemons, PreSpawns(d) \/ StepStarts(d)
      PROVE  VerdictOfEvents'
  BY <1>3 DEF PreSpawns, StepStarts
<1>4. ASSUME NEW x \in BOOLEAN, Event(x) PROVE VerdictOfEvents'
  BY <1>4 DEF Event
<1>5. CASE StopReads
  BY <1>5 DEF StopReads
<1>6. CASE StopFindsDead
  BY <1>6 DEF StopFindsDead
<1>7. CASE StopFindsAlive
  BY <1>7 DEF StopFindsAlive
<1>8. CASE StopSignals
  BY <1>8 DEF StopSignals
<1>9. CASE StopPolls
  BY <1>9 DEF StopPolls
<1>10. CASE StopTimesOut
  BY <1>10 DEF StopTimesOut
<1>11. CASE PreReady
  BY <1>11 DEF PreReady
<1>12. CASE PreTimesOut
  BY <1>12 DEF PreTimesOut
<1>13. CASE StopStep
  BY <1>13 DEF StopStep
<1>14. CASE StopStepEnds
  BY <1>14 DEF StopStepEnds
<1>15. CASE StepsEnd
  BY <1>15 DEF StepsEnd
<1>16. CASE PostFindsNothing
  <2> SUFFICES ASSUME mishap = {} PROVE FALSE
    BY <1>16 DEF PostFindsNothing
  <2>1. env /\ spc = "idle" /\ pidFile = NoPid
    BY <1>16 DEF PostFindsNothing
  <2>2. PICK d \in JobDaemons : pc[d] \in Published /\ d # NoPid
    <3>1. PICK d \in JobDaemons : TRUE
      BY <2>1
    <3>2. pc[d] \in Published
      BY <2>1
    <3>3. d # NoPid
      BY Nobody, Zenon
    <3> QED
      BY <3>2, <3>3
  <2>3. pc[d] # "dead" /\ pc[d] \notin Holding
    BY <1>16, <2>1, <2>2 DEF PostFindsNothing
  <2>4. term[d]
    BY <2>2, <2>3
  <2> QED
    BY <2>1, <2>3, <2>4
<1>17. CASE PostStops
  BY <1>17 DEF PostStops
<1>18. CASE PostDecides
  <2> SUFFICES ASSUME mode = "block", mishap = {}
               PROVE  /\ flagged = "in time" => verdict' = "fail"
                      /\ verdict' = "fail" => flagged # "no"
    BY <1>18 DEF PostDecides
  <2>1. env /\ spc = "ok" /\ verdict = "ok"
    BY <1>18 DEF PostDecides
  <2>2. PICK d \in JobDaemons : spid = d
    BY <2>1
  <2>3. pc[d] = "dead"
    BY <2>1, <2>2, DaemonAssumption
  <2>4. log # <<>> /\ Decisive = Doc(d, denied[d])
    BY <2>1, <2>3 DEF Decisive
  <2>5. verdict' = IF denied[d] THEN "fail" ELSE "ok"
    BY <1>18, <2>1, <2>4 DEF PostDecides, Doc
  <2>6. flagged = "in time" => denied[d]
    BY <2>3
  <2>7. denied[d] => flagged # "no"
    BY DEF Recorded
  <2> QED
    BY <2>5, <2>6, <2>7
<1>19. CASE UNCHANGED vars
  BY <1>19 DEF vars
<1> HIDE DEF Control, Flags, Told, Stages, StopEndsDead, Kept, Awaited, Course, Heeded, Waited,
             VerdictOfEvents, Heard, Published, Holding, Leaving, Alive, Daemons, daemonVars,
             jobVars, stopVars, history, Goto, Exit, Advance
<1> QED
  BY <1>1, <1>2, <1>3, <1>4, <1>5, <1>6, <1>7, <1>8, <1>9, <1>10, <1>11, <1>12, <1>13,
     <1>14, <1>15, <1>16, <1>17, <1>18, <1>19, StepCases DEF Daemons

-----------------------------------------------------------------------------
(* The theorems *)

LEMMA InitInvariant == Init => IInv
<1> SUFFICES ASSUME Init PROVE IInv
  OBVIOUS
<1>1. TypeOK
  BY TypeInit
<1>2. /\ \A d \in Daemons : pc[d] = "unborn" /\ d # NoPid
      /\ \A d \in Daemons : ~bpf[d] /\ drain[d] = "none" /\ ~term[d] /\ ~denied[d] /\ ring[d] = <<>>
  BY DaemonAssumption, Zenon DEF Init
<1>3. Named /\ Observing /\ Told /\ Stages /\ StopEndsDead
  BY <1>2 DEF Init, Named, Observing, Told, Stages, StopEndsDead, Published, Holding, Leaving, Daemons
<1>4. Kept /\ Awaited /\ Reported /\ Draining
  BY <1>2 DEF Init, Kept, Awaited, Alive, Reported, Draining, Published, Holding, Leaving, Daemons
<1>5. Recorded
  BY <1>2, EmptyDomain, Zenon DEF Recorded
<1>6. Course
  BY <1>2, Zenon DEF Init, Course
<1>7. Heeded /\ Waited /\ VerdictOfEvents /\ TimedOut
  BY DEF Init, Heeded, Waited, VerdictOfEvents, TimedOut
<1> QED
  BY <1>1, <1>3, <1>4, <1>5, <1>6, <1>7 DEF IInv

(* What a daemon, the stop command and the job know of each other.           *)
THEOREM JobInvariant == Spec => []IInv
<1>1. IInv /\ [Next]_vars => IInv'
  <2> SUFFICES ASSUME IInv, [Next]_vars PROVE IInv'
    OBVIOUS
  <2>1. Flags /\ Control /\ Data /\ Counts
    BY TypeParts DEF IInv
  <2>2. TypeOK' /\ Named' /\ Observing' /\ Told' /\ Stages'
    BY <2>1, TypeNext, NamedNext, ObservingNext, ToldNext, StagesNext DEF IInv
  <2>3. StopEndsDead' /\ Kept' /\ Awaited' /\ Reported'
    BY <2>1, StopEndsDeadNext, KeptNext, AwaitedNext, ReportedNext DEF IInv
  <2>4. Draining' /\ Recorded' /\ Course' /\ Heeded'
    BY <2>1, DrainingNext, RecordedNext, CourseNext, HeededNext DEF IInv
  <2>5. Waited' /\ VerdictOfEvents' /\ TimedOut'
    BY <2>1, WaitedNext, VerdictOfEventsNext, TimedOutNext DEF IInv
  <2> QED
    BY <2>2, <2>3, <2>4, <2>5 DEF IInv
<1> QED
  BY <1>1, InitInvariant, PTL DEF Spec

(* The pid file of a live daemon in block mode means that its programs are   *)
(* attached (daemon.rs: attach, then publish).                               *)
THEOREM ReadyIsAttached == Spec => []ReadyMeansAttached
<1>1. IInv => ReadyMeansAttached
  BY DEF IInv, TypeOK, Named, Observing, ReadyMeansAttached, Alive, Holding
<1> QED
  BY <1>1, JobInvariant, PTL

(* A stop that reports success has waited for the report (daemon.rs,         *)
(* stop polls the process and not the pid file).                             *)
THEOREM StopIsPatient == Spec => []StopWaitsForReport
<1>1. IInv => StopWaitsForReport
  <2> SUFFICES ASSUME IInv, spc = "ok", spid # NoPid, mishap \subseteq {"job/stop"}
               PROVE  ~Alive(spid) /\ \E i \in DOMAIN log : log[i].by = spid
    BY DEF StopWaitsForReport
  <2>1. spid \in Daemons /\ ~Alive(spid)
    BY DEF IInv, TypeOK, StopEndsDead
  <2>2. pc[spid] = "dead"
    BY <2>1 DEF IInv, Named, Alive, Published
  <2> QED
    BY <2>1, <2>2 DEF IInv, Reported
<1> QED
  BY <1>1, JobInvariant, PTL

(* A job that got its daemon ready leaves none behind unless a stop timed    *)
(* out (post.js stops whom the pid file names).                              *)
THEOREM JobLeavesNoOrphan == Spec => []NoOrphan
<1>1. IInv => NoOrphan
  BY DEF IInv, Awaited, NoOrphan
<1> QED
  BY <1>1, JobInvariant, PTL

(* When nothing goes wrong the outcome of a blocking job is what its daemon  *)
(* recorded (post.js reads the last document of the log), and a stop that    *)
(* timed out fails any job (post.js:68).                                     *)
THEOREM OutcomeIsExact == Spec => []VerdictExact
<1>1. IInv => VerdictExact
  BY DEF IInv, VerdictExact, TimeoutFails, TimedOut, Stages
<1> QED
  BY <1>1, JobInvariant, PTL

(* A stop or a job that has ended leaves no daemon (daemon.rs, StopDaemon).  *)
THEOREM StoppedIsGone == Spec => []StopMeansGone
<1> QED
  BY StopIsPatient, JobLeavesNoOrphan, PTL DEF StopMeansGone

-----------------------------------------------------------------------------
(* The audit of workflows.                                                   *)

(* A set of positions has a least one.                                       *)
LEMMA LeastPosition ==
  ASSUME NEW T \in SUBSET Nat, T # {}
  PROVE  \E x \in T : \A y \in T : x <= y
<1>1. IsWellFoundedOn(OpToRel(<, Nat), Nat)
  BY NatLessThanWellFounded
<1>2. PICK x \in T : \A y \in T : ~ (<<y, x>> \in OpToRel(<, Nat))
  BY <1>1, WFMin
<1>3. \A y \in T : <<y, x>> \in OpToRel(<, Nat) <=> y < x
  BY DEF OpToRel
<1>4. \A y \in T : ~(y < x) /\ y \in Nat /\ x \in Nat
  BY <1>2, <1>3
<1>5. \A y \in T : x <= y
  BY <1>4
<1> QED BY <1>5

AuditShape ==
  /\ audit = [cmd |-> audit.cmd, strict |-> audit.strict, resolve |-> audit.resolve,
              strictOwners |-> audit.strictOwners, answers |-> audit.answers, exit |-> audit.exit]
  /\ audit.cmd \in {Nil, "files", "repo"} /\ audit.exit \in {Nil, 0, 1}
  /\ audit.cmd = Nil => audit.answers = <<>> /\ audit.exit = Nil
  /\ audit.cmd # Nil => repo # Nil

AnswersKnown ==
  /\ \A p \in DOMAIN audit.answers : audit.answers[p] # Nil /\ RefAt(p) \in Refs
  /\ audit.cmd # Nil /\ audit.exit = Nil => \A r \in Refs : target[r] \in held[r]

\* What has run is what the audited files say.
RanAsWritten ==
  /\ ~FilesBlock(audit.cmd, repo, audit.strict)
  /\ DOMAIN ran = DOMAIN repo.files
  /\ \A f \in DOMAIN repo.files :
       /\ DOMAIN ran[f] = DOMAIN repo.files[f].steps
       /\ \A i \in DOMAIN ran[f] :
            repo.files[f].steps[i].ref = Nil => ran[f][i] = Nil

AuditInv ==
  /\ repo \in Repositories \cup {Nil}
  /\ target \in [Refs -> Commits] /\ DOMAIN held = Refs
  /\ AuditShape /\ AnswersKnown /\ SuggestedIsHeld
  /\ audit.exit = 0 => RanAsWritten

(* The steps of a workflow, at their positions.                              *)
LEMMA StepsAre ==
  ASSUME NEW r \in Repositories, NEW f \in DOMAIN r.files
  PROVE  /\ r.files[f] \in Workflow
         /\ \A i \in DOMAIN r.files[f].steps : r.files[f].steps[i] \in Step
         /\ DOMAIN r.files \subseteq Nat /\ DOMAIN r.files[f].steps \subseteq Nat
<1>1. r.files \in Seq(Workflow)
  BY RepositoriesAssumption DEF Repository
<1>2. r.files[f] \in Workflow
  BY <1>1
<1>3. r.files[f].steps \in Seq(Step)
  BY <1>2 DEF Workflow
<1> QED BY <1>1, <1>2, <1>3

(* Before a repository is checked out.                                       *)
LEMMA AuditInitInv ==
  ASSUME AuditInit
  PROVE  AuditInv
<1>1. target \in [Refs -> Commits] /\ DOMAIN held = Refs /\ repo = Nil
  BY AuditAssumption DEF AuditInit
<1>2. audit.cmd = Nil /\ audit.answers = <<>> /\ audit.exit = Nil /\ AuditShape
  BY DEF AuditInit, NoAudit, AuditShape
<1>3. DOMAIN audit.answers = {}
  BY <1>2
<1>4. Nil # 0
  BY AuditAssumption
<1> QED BY <1>1, <1>2, <1>3, <1>4 DEF AuditInv, AnswersKnown, SuggestedIsHeld

(* A checkout decides what the later steps are about.                        *)
LEMMA CheckOutStep ==
  ASSUME AuditInv, CheckOutRepo
  PROVE  AuditInv'
<1>1. /\ repo = Nil /\ repo' \in Repositories /\ target' = target /\ audit' = audit /\ held' = held
  BY DEF CheckOutRepo
<1>2. audit.cmd = Nil /\ audit.answers = <<>> /\ audit.exit = Nil
  BY <1>1 DEF AuditInv, AuditShape
<1>3. DOMAIN audit.answers = {}
  BY <1>2
<1>4. Nil # 0
  BY AuditAssumption
<1> QED BY <1>1, <1>2, <1>3, <1>4, RepositoriesAssumption DEF AuditInv, AuditShape, AnswersKnown, SuggestedIsHeld

(* A command begins with no answers, and holds what the tags point at.       *)
LEMMA BeginStep ==
  ASSUME AuditInv, NEW cmd \in {"files", "repo"}, NEW strict, NEW resolve, NEW owners, NEW args,
         args = [cmd |-> cmd, strict |-> strict, resolve |-> resolve, strictOwners |-> owners,
                 answers |-> <<>>, exit |-> Nil],
         Begin(args)
  PROVE  AuditInv'
<1>1. /\ repo # Nil /\ repo' = repo /\ target' = target /\ ran' = ran
      /\ held' = [r \in Refs |-> {target[r]}]
  BY DEF Begin
<1>2. PICK x \in {1, Nil} : audit' = [args EXCEPT !.exit = x]
  BY DEF Begin
<1>3. audit' = [cmd |-> cmd, strict |-> strict, resolve |-> resolve, strictOwners |-> owners,
                answers |-> <<>>, exit |-> x]
  BY <1>2
<1>4. cmd # Nil /\ x # 0
  BY AuditAssumption
<1>5. AuditShape' /\ audit'.answers = <<>> /\ audit'.exit # 0
  BY <1>1, <1>3, <1>4 DEF AuditShape
<1>6. DOMAIN audit'.answers = {}
  BY <1>5
<1>7. AnswersKnown' /\ SuggestedIsHeld'
  BY <1>1, <1>6 DEF AnswersKnown, SuggestedIsHeld
<1> QED BY <1>1, <1>5, <1>7 DEF AuditInv

(* Both commands begin: `audit` of files, `audit-repo` of a repository.      *)
LEMMA BeginsAre ==
  ASSUME AuditInv, NEW strict, NEW flag, BeginAudit(strict, flag) \/ BeginAuditRepo(strict, flag)
  PROVE  AuditInv'
<1>1. CASE BeginAudit(strict, flag)
  <2>1. PICK args : args = [NoAudit EXCEPT !.cmd = "files", !.strict = strict, !.resolve = flag]
    OBVIOUS
  <2>2. args = [cmd |-> "files", strict |-> strict, resolve |-> flag, strictOwners |-> FALSE,
                answers |-> <<>>, exit |-> Nil]
    BY <2>1 DEF NoAudit
  <2>3. Begin([NoAudit EXCEPT !.cmd = "files", !.strict = strict, !.resolve = flag])
    BY <1>1, Zenon DEF BeginAudit
  <2>4. Begin(args)
    BY <2>1, <2>3
  <2> QED BY <2>2, <2>4, BeginStep
<1>2. CASE BeginAuditRepo(strict, flag)
  <2>1. PICK args : args = [NoAudit EXCEPT !.cmd = "repo", !.strict = strict, !.strictOwners = flag]
    OBVIOUS
  <2>2. args = [cmd |-> "repo", strict |-> strict, resolve |-> FALSE, strictOwners |-> flag,
                answers |-> <<>>, exit |-> Nil]
    BY <2>1 DEF NoAudit
  <2>3. Begin([NoAudit EXCEPT !.cmd = "repo", !.strict = strict, !.strictOwners = flag])
    BY <1>2, Zenon DEF BeginAuditRepo
  <2>4. Begin(args)
    BY <2>1, <2>3
  <2> QED BY <2>2, <2>4, BeginStep
<1> QED BY <1>1, <1>2

(* What is looked up next is the reference of an action in an audited file.  *)
LEMMA UnresolvedAre ==
  ASSUME repo \in Repositories, NEW p \in Unresolved
  PROVE  p \in Nat \X Nat /\ RefAt(p) \in Refs /\ p \notin DOMAIN audit.answers
<1>1. PICK f \in Audited(audit.cmd, repo) :
        \E i \in DOMAIN repo.files[f].steps : p = <<f, i>> /\ repo.files[f].steps[i].uses = "action"
  BY DEF Unresolved
<1>2. PICK i \in DOMAIN repo.files[f].steps : p = <<f, i>> /\ repo.files[f].steps[i].uses = "action"
  BY <1>1
<1>3. f \in DOMAIN repo.files
  BY DEF Audited
<1>4. repo.files[f].steps[i] \in Step /\ f \in Nat /\ i \in Nat
  BY <1>3, StepsAre
<1>5. repo.files[f].steps[i].ref \in Refs
  BY <1>2, <1>4 DEF Step
<1>6. p[1] = f /\ p[2] = i
  BY <1>2
<1>7. RefAt(p) = repo.files[f].steps[i].ref
  BY <1>6, Zenon DEF RefAt
<1>8. p \notin DOMAIN audit.answers
  BY DEF Unresolved
<1> QED BY <1>2, <1>4, <1>5, <1>7, <1>8

(* What is asked next is still unresolved, while anything is.                *)
LEMMA NextIsUnresolved ==
  ASSUME repo \in Repositories, Unresolved # {}
  PROVE  NextAsked \in Unresolved
<1>1. \A x \in Unresolved : x[1] \in Nat /\ x[2] \in Nat
  BY UnresolvedAre
<1>2. PICK F : F = {x[1] : x \in Unresolved}
  OBVIOUS
<1>3. PICK f \in F : \A g \in F : f <= g
  BY <1>1, <1>2, LeastPosition
<1>4. PICK I : I = {x[2] : x \in {y \in Unresolved : y[1] = f}}
  OBVIOUS
<1>5. I \in SUBSET Nat /\ I # {}
  BY <1>1, <1>2, <1>3, <1>4
<1>6. PICK i \in I : \A j \in I : i <= j
  BY <1>5, LeastPosition
<1>7. PICK x \in Unresolved : x[1] = f /\ x[2] = i
  BY <1>4, <1>6
<1>8. ASSUME NEW y \in Unresolved PROVE x[1] < y[1] \/ (x[1] = y[1] /\ x[2] <= y[2])
  <2>1. f <= y[1] /\ f \in Nat /\ y[1] \in Nat /\ x[1] = f
    BY <1>1, <1>2, <1>3, <1>7
  <2>2. y[1] = f => i <= y[2]
    BY <1>4, <1>6
  <2> QED BY <1>7, <2>1, <2>2
<1> QED BY <1>7, <1>8 DEF NextAsked

(* One lookup adds one answer, for a reference that had none.                *)
LEMMA LookupStep ==
  ASSUME AuditInv, Lookup
  PROVE  AuditInv'
<1>1. PICK p, known : p = NextAsked /\ known = Cached(audit.answers, p)
  OBVIOUS
<1>2. PICK a \in AnswersTo(p) :
        audit' = [audit EXCEPT !.answers = [q \in {p} \cup DOMAIN @ |-> IF q = p THEN a ELSE @[q]]]
  BY <1>1, Zenon DEF Lookup
<1>19. a \in IF known # Nil THEN {known} ELSE {target[RefAt(p)], Failed}
  BY <1>1 DEF AnswersTo
<1>3. /\ audit.cmd # Nil /\ audit.exit = Nil /\ Unresolved # {}
      /\ repo' = repo /\ target' = target /\ held' = held /\ ran' = ran
  BY DEF Lookup
<1>4. repo \in Repositories
  BY <1>3 DEF AuditInv, AuditShape
<1>5. p \in Unresolved
  BY <1>1, <1>3, <1>4, NextIsUnresolved
<1>6. RefAt(p) \in Refs /\ p \notin DOMAIN audit.answers
  BY <1>4, <1>5, UnresolvedAre
<1>7. PICK old, new : /\ old = audit.answers
                      /\ new = [q \in {p} \cup DOMAIN old |-> IF q = p THEN a ELSE old[q]]
  OBVIOUS
<1>8. audit' = [cmd |-> audit.cmd, strict |-> audit.strict, resolve |-> audit.resolve,
                strictOwners |-> audit.strictOwners, answers |-> new, exit |-> audit.exit]
  <2>1. audit = [cmd |-> audit.cmd, strict |-> audit.strict, resolve |-> audit.resolve,
                 strictOwners |-> audit.strictOwners, answers |-> old, exit |-> audit.exit]
    BY <1>7 DEF AuditInv, AuditShape
  <2>2. audit' = [audit EXCEPT !.answers = new]
    BY <1>2, <1>7
  <2> QED BY <2>1, <2>2
<1>9. AuditShape' /\ audit'.answers = new /\ audit'.exit = Nil /\ audit'.cmd = audit.cmd
  BY <1>3, <1>8 DEF AuditInv, AuditShape
<1>10. \A q \in DOMAIN old : old[q] # Nil /\ RefAt(q) \in Refs
  BY <1>7 DEF AuditInv, AnswersKnown
<1>11. \A q \in DOMAIN old : /\ old[q] # Failed => old[q] \in held[RefAt(q)]
                             /\ \A s \in DOMAIN old : q[1] = s[1] /\ RefAt(q) = RefAt(s) => old[q] = old[s]
  BY <1>7 DEF AuditInv, SuggestedIsHeld
<1>12. target[RefAt(p)] \in held[RefAt(p)] /\ target[RefAt(p)] \in Commits
  BY <1>3, <1>6 DEF AuditInv, AnswersKnown
<1>13. /\ a # Nil /\ (a # Failed => a \in held[RefAt(p)])
       /\ \A q \in DOMAIN old : q[1] = p[1] /\ RefAt(q) = RefAt(p) => old[q] = a
  <2>0. PICK same : same = {q \in DOMAIN old : q[1] = p[1] /\ RefAt(q) = RefAt(p)}
    OBVIOUS
  <2>4. known = Cached(old, p)
    BY <1>1, <1>7
  <2>5. Cached(old, p) = IF same = {} THEN Nil ELSE old[CHOOSE q \in same : TRUE]
    BY <2>0 DEF Cached
  <2>1. known = IF same = {} THEN Nil ELSE old[CHOOSE q \in same : TRUE]
    BY <2>4, <2>5
  <2>2. CASE same = {}
    <3>1. a \in {target[RefAt(p)], Failed}
      BY <1>19, <2>1, <2>2
    <3> QED BY <1>12, <2>0, <2>2, <3>1, AuditAssumption
  <2>3. CASE same # {}
    <3>1. PICK q \in same : known = old[q]
      BY <2>1, <2>3
    <3>2. a = old[q]
      BY <1>19, <1>10, <2>0, <3>1
    <3> QED BY <1>10, <1>11, <2>0, <3>1, <3>2
  <2> QED BY <2>2, <2>3
<1>14. \A q : RefAt(q)' = RefAt(q)
  BY <1>3 DEF RefAt
<1>15. DOMAIN new = {p} \cup DOMAIN old /\ new[p] = a /\ \A q \in DOMAIN old : new[q] = old[q]
  BY <1>6, <1>7
<1>16. AnswersKnown'
  <2>1. \A q \in DOMAIN new : new[q] # Nil /\ RefAt(q) \in Refs
    BY <1>6, <1>10, <1>13, <1>15
  <2>2. \A r \in Refs : target[r] \in held[r]
    BY <1>3 DEF AuditInv, AnswersKnown
  <2> QED BY <1>3, <1>9, <1>14, <2>1, <2>2 DEF AnswersKnown
<1>17. SuggestedIsHeld'
  <2>1. \A q \in DOMAIN new : /\ new[q] # Failed => new[q] \in held[RefAt(q)]
                              /\ \A s \in DOMAIN new : q[1] = s[1] /\ RefAt(q) = RefAt(s) => new[q] = new[s]
    BY <1>11, <1>13, <1>15
  <2> QED BY <1>3, <1>9, <1>14, <2>1 DEF SuggestedIsHeld
<1>18. Nil # 0
  BY AuditAssumption
<1> QED BY <1>3, <1>9, <1>16, <1>17, <1>18 DEF AuditInv

(* A command that ends with 0 found nothing that blocks.                     *)
LEMMA FinishStep ==
  ASSUME AuditInv, FinishAudit \/ FinishAuditRepo
  PROVE  AuditInv'
<1>1. PICK blocked \in BOOLEAN :
        /\ Finish(blocked)
        /\ ~blocked => ~FilesBlock(audit.cmd, repo, audit.strict)
        /\ audit.cmd \in {"files", "repo"}
  <2>1. CASE FinishAudit
    <3>1. PICK b \in BOOLEAN : b = FilesBlock("files", repo, audit.strict)
      BY Zenon DEF FilesBlock
    <3> QED BY <2>1, <3>1 DEF FinishAudit
  <2>2. CASE FinishAuditRepo
    <3>1. PICK b \in BOOLEAN :
            b = \/ FilesBlock("repo", repo, audit.strict)
                \/ audit.strictOwners /\ ~Owns(OwnersFile(repo), Example)
      BY Zenon
    <3> QED BY <2>2, <3>1 DEF FinishAuditRepo
  <2> QED BY <2>1, <2>2
<1>2. /\ audit.exit = Nil /\ ran' = Runs(repo)
      /\ audit' = [audit EXCEPT !.exit = IF blocked THEN 1 ELSE 0]
      /\ repo' = repo /\ target' = target /\ held' = held
  BY <1>1 DEF Finish
<1>3. audit.cmd # Nil /\ repo \in Repositories
  BY <1>1, AuditAssumption DEF AuditInv, AuditShape
<1>4. audit' = [cmd |-> audit.cmd, strict |-> audit.strict, resolve |-> audit.resolve,
                strictOwners |-> audit.strictOwners, answers |-> audit.answers,
                exit |-> IF blocked THEN 1 ELSE 0]
  BY <1>2 DEF AuditInv, AuditShape
<1>5. /\ AuditShape'
      /\ audit'.answers = audit.answers /\ audit'.exit = (IF blocked THEN 1 ELSE 0)
      /\ audit'.cmd = audit.cmd /\ audit'.strict = audit.strict
  BY <1>2, <1>3, <1>4 DEF AuditInv, AuditShape
<1>6. \A q : RefAt(q)' = RefAt(q)
  BY <1>2 DEF RefAt
<1>7. SuggestedIsHeld'
  BY <1>2, <1>5, <1>6 DEF AuditInv, SuggestedIsHeld
<1>8. AnswersKnown'
  BY <1>2, <1>5, <1>6, AuditAssumption DEF AuditInv, AnswersKnown
<1>9. ASSUME audit'.exit = 0 PROVE RanAsWritten'
  <2>1. ~FilesBlock(audit.cmd, repo, audit.strict)
    BY <1>1, <1>5, <1>9
  <2>2. ~FilesBlock(audit.cmd, repo, audit.strict)'
    BY <1>2, <1>5, <2>1 DEF FilesBlock, Audited
  <2>3. DOMAIN ran' = DOMAIN repo.files
    BY <1>2 DEF Runs
  <2>4. ASSUME NEW f \in DOMAIN repo.files
        PROVE  ran'[f] = [i \in DOMAIN repo.files[f].steps |->
                 IF repo.files[f].steps[i].ref # Nil
                 THEN target[repo.files[f].steps[i].ref] ELSE Nil]
    BY <1>2 DEF Runs
  <2>5. ASSUME NEW f \in DOMAIN repo.files
        PROVE  /\ DOMAIN ran'[f] = DOMAIN repo.files[f].steps
               /\ \A i \in DOMAIN ran'[f] :
                    repo.files[f].steps[i].ref = Nil => ran'[f][i] = Nil
    BY <2>4
  <2> QED BY <1>2, <2>2, <2>3, <2>5, Zenon DEF RanAsWritten
<1> QED BY <1>2, <1>5, <1>7, <1>8, <1>9 DEF AuditInv

(* A tag that moves has had one more commit.                                 *)
LEMMA MoveTagStep ==
  ASSUME AuditInv, NEW r \in Refs, NEW c \in Commits, MoveTag(r, c)
  PROVE  AuditInv'
<1>1. /\ repo' = repo /\ audit' = audit /\ ran' = ran
      /\ target' = [target EXCEPT ![r] = c]
      /\ held' = IF audit.exit = Nil THEN [held EXCEPT ![r] = @ \cup {c}] ELSE held
  BY DEF MoveTag
<1>2. target' \in [Refs -> Commits]
  BY <1>1 DEF AuditInv
<1>3. DOMAIN held' = Refs /\ \A t \in Refs : held[t] \subseteq held'[t]
  BY <1>1 DEF AuditInv
<1>4. audit.exit = Nil /\ audit.cmd # Nil => \A t \in Refs : target'[t] \in held'[t]
  <2>1. SUFFICES ASSUME audit.exit = Nil, audit.cmd # Nil, NEW t \in Refs
                 PROVE  target'[t] \in held'[t]
    OBVIOUS
  <2>2. target[t] \in held[t]
    BY <2>1 DEF AuditInv, AnswersKnown
  <2>3. target \in [Refs -> Commits] /\ DOMAIN held = Refs
    BY DEF AuditInv
  <2>4. CASE t = r
    BY <1>1, <2>1, <2>3, <2>4
  <2>5. CASE t # r
    BY <1>1, <2>1, <2>2, <2>3, <2>5
  <2> QED BY <2>4, <2>5
<1>5. \A q : RefAt(q)' = RefAt(q)
  BY <1>1 DEF RefAt
<1>6. AnswersKnown'
  BY <1>1, <1>4, <1>5 DEF AuditInv, AnswersKnown
<1>7. SuggestedIsHeld'
  <2>1. \A p \in DOMAIN audit.answers : RefAt(p) \in Refs
    BY DEF AuditInv, AnswersKnown
  <2> QED BY <1>1, <1>3, <1>5, <2>1 DEF AuditInv, SuggestedIsHeld
<1>8. AuditShape' /\ (audit'.exit = 0 => RanAsWritten')
  BY <1>1 DEF AuditInv, AuditShape, RanAsWritten, FilesBlock, Audited
<1> QED BY <1>1, <1>2, <1>3, <1>6, <1>7, <1>8 DEF AuditInv

(* AuditInv is inductive: one case for each action.                          *)
LEMMA AuditStep ==
  ASSUME AuditInv, [AuditNext]_auditVars
  PROVE  AuditInv'
<1>1. CASE CheckOutRepo
  BY <1>1, CheckOutStep
<1>2. CASE \E strict, resolve \in BOOLEAN : BeginAudit(strict, resolve)
  BY <1>2, BeginsAre
<1>3. CASE \E strict, strictOwners \in BOOLEAN : BeginAuditRepo(strict, strictOwners)
  BY <1>3, BeginsAre
<1>4. CASE Lookup
  BY <1>4, LookupStep
<1>5. CASE FinishAudit \/ FinishAuditRepo
  BY <1>5, FinishStep
<1>6. CASE \E r \in Refs, c \in Commits : MoveTag(r, c)
  BY <1>6, MoveTagStep
<1>7. CASE UNCHANGED auditVars
  BY <1>7 DEF auditVars, AuditInv, AuditShape, AnswersKnown, SuggestedIsHeld, RanAsWritten, FilesBlock,
              Audited, RefAt
<1> QED BY <1>1, <1>2, <1>3, <1>4, <1>5, <1>6, <1>7 DEF AuditNext

(* A step that runs something else is a step that does not block.            *)
LEMMA InvPinned ==
  ASSUME AuditInv
  PROVE  PassedIsPinned
<1>1. SUFFICES ASSUME audit.exit = 0, NEW p \in Changed
               PROVE  LET w == repo.files[p[1]]
                          s == w.steps[p[2]]
                      IN \/ audit.cmd = "repo" /\ ~w.listed
                         \/ s.uses \in {"local", "fixed", "container"}
                         \/ ~audit.strict /\ (s.uses \in {"image", "bare"} \/ s.ref \in FirstParty)
  BY DEF PassedIsPinned
<1>2. PICK f \in DOMAIN ran : \E i \in DOMAIN ran[f] : p = <<f, i>> /\ ran[f][i] # Runs(repo)[f][i]
  BY DEF Changed
<1>3. PICK i \in DOMAIN ran[f] : p = <<f, i>> /\ ran[f][i] # Runs(repo)[f][i]
  BY <1>2
<1>4. RanAsWritten /\ audit.cmd # Nil /\ repo \in Repositories
  BY <1>1, AuditAssumption DEF AuditInv, AuditShape
<1>5. PICK w, s : w = repo.files[f] /\ s = w.steps[i]
  OBVIOUS
<1>6. f \in DOMAIN repo.files /\ i \in DOMAIN w.steps
  BY <1>4, <1>5 DEF RanAsWritten
<1>7. s.uses \in {"local", "fixed", "action", "image", "bare", "container"}
  <2>1. SUFFICES ASSUME s.uses = "nothing" PROVE FALSE
    <3>1. s \in Step
      BY <1>4, <1>5, <1>6, StepsAre
    <3> QED BY <3>1 DEF Step
  <2>2. s.ref = Nil
    <3>1. s \in Step
      BY <1>4, <1>5, <1>6, StepsAre
    <3> QED BY <2>1, <3>1 DEF Step
  <2>3. ran[f][i] = Nil
    BY <1>4, <1>5, <1>6, <2>2 DEF RanAsWritten
  <2>4. Runs(repo)[f][i] = Nil
    BY <1>5, <1>6, <2>2 DEF Runs
  <2> QED BY <1>3, <2>3, <2>4
<1>8. CASE f \notin Audited(audit.cmd, repo)
  <2>1. audit.cmd = "repo" /\ ~w.listed
    BY <1>5, <1>6, <1>8 DEF Audited
  <2> QED BY <1>3, <1>5, <2>1
<1>9. CASE f \in Audited(audit.cmd, repo)
  <2>1. ~Blocks(s, audit.strict)
    BY <1>4, <1>5, <1>6, <1>9 DEF RanAsWritten, FilesBlock
  <2>2. \/ s.uses \in {"local", "fixed", "container"}
        \/ ~audit.strict /\ (s.uses \in {"image", "bare"} \/ s.ref \in FirstParty)
    <3>1. s.uses \in {"image", "bare"} \/ (s.uses = "action" /\ s.ref \in FirstParty) => Severity(s) = "warn"
      BY DEF Severity
    <3>2. s.uses = "action" /\ s.ref \notin FirstParty => Severity(s) = "error"
      BY DEF Severity
    <3>3. Severity(s) # "error" /\ (Severity(s) = "warn" => ~audit.strict)
      BY <2>1 DEF Blocks
    <3>4. CASE s.uses \in {"image", "bare"}
      BY <3>1, <3>3, <3>4
    <3>5. CASE s.uses = "action" /\ s.ref \in FirstParty
      BY <3>1, <3>3, <3>5
    <3>6. CASE s.uses = "action" /\ s.ref \notin FirstParty
      BY <3>2, <3>3, <3>6
    <3> QED BY <1>7, <3>4, <3>5, <3>6
  <2> QED BY <1>3, <1>5, <2>2
<1> QED BY <1>8, <1>9

(* Every event of a workflow that a fork can raise makes it privileged.      *)
LEMMA InvClean ==
  ASSUME AuditInv
  PROVE  PassedIsClean
<1>1. SUFFICES ASSUME audit.exit = 0, NEW f \in Audited(audit.cmd, repo), repo.files[f].on # Nil,
                      NEW event \in repo.files[f].on, NEW i \in DOMAIN repo.files[f].steps,
                      NEW s, s = repo.files[f].steps[i]
               PROVE  /\ s.uses = "nothing" \/ s.role = "script" => "leading" \notin s.text
                      /\ event \in {"pull_request_target", "workflow_run"} =>
                           /\ s.role # "cache" /\ <<s.role, s.input>> # <<"checkout", "head">>
                           /\ s.role = "setup" => s.input \in {"absent", "falsy"}
                           /\ s.role = "go" => s.input = "falsy"
  BY DEF PassedIsClean
<1>2. RanAsWritten /\ audit.cmd # Nil /\ repo \in Repositories /\ f \in DOMAIN repo.files
  BY <1>1, AuditAssumption DEF AuditInv, AuditShape, Audited
<1>3. WorkflowRules(repo.files[f]) = {}
  BY <1>1, <1>2 DEF RanAsWritten, FilesBlock
<1>4. s \in Step
  BY <1>1, <1>2, StepsAre
<1>5. ~TemplateInjection(s)
  BY <1>1, <1>3 DEF WorkflowRules
<1>6. ASSUME event \in {"pull_request_target", "workflow_run"}
      PROVE  ~CacheWriter(s) /\ ~UntrustedCheckout(s)
  <2>1. Privileged(repo.files[f])
    BY <1>1, <1>6 DEF Privileged
  <2> QED BY <1>1, <1>3, <2>1 DEF WorkflowRules
<1>7. s.uses = "nothing" => s.role = "other"
  BY <1>4 DEF Step
<1>8. s.uses = "nothing" \/ s.role = "script" => "leading" \notin s.text
  BY <1>5 DEF TemplateInjection
<1>9. ASSUME event \in {"pull_request_target", "workflow_run"}
      PROVE  /\ s.role # "cache" /\ <<s.role, s.input>> # <<"checkout", "head">>
             /\ s.role = "setup" => s.input \in {"absent", "falsy"}
             /\ s.role = "go" => s.input = "falsy"
  BY <1>6, <1>7, <1>9 DEF CacheWriter, UntrustedCheckout
<1> QED BY <1>8, <1>9

(* For any workflows, tags and CODEOWNERS: after an audit that exits 0, no   *)
(* tag or branch changes what a `uses:` it has read and has to block names,  *)
(* no event makes what it has audited expand a value of others or hand a fork the     *)
(* rights of the base, and a SHA that it suggests is one the tag has pointed *)
(* at, the same for each use of the tag (actions.rs).                        *)
THEOREM AuditSafe == AuditSpec => []AuditHolds
<1>1. AuditInit => AuditInv
  BY AuditInitInv
<1>2. AuditInv /\ [AuditNext]_auditVars => AuditInv'
  BY AuditStep
<1>3. AuditInv => AuditHolds
  BY InvPinned, InvClean DEF AuditHolds, AuditInv
<1> QED BY <1>1, <1>2, <1>3, PTL DEF AuditSpec

-----------------------------------------------------------------------------
(* The verification of a store.                                              *)

(* What the lockfile promises is a digest of a content.                      *)
Digest == [algo : {"sha512", "sha256"}, digest : Contents]

(* Min of a set of positions is one of them.                                 *)
LEMMA FirstPosition ==
  ASSUME NEW T \in SUBSET Nat, T # {}
  PROVE  Min(T) \in T
<1>1. PICK x \in T : \A y \in T : x <= y
  BY LeastPosition
<1> QED BY <1>1 DEF Min

(* A promise is one of the tokens of the entry's integrity.                  *)
LEMMA PromiseIsDigest ==
  ASSUME NEW l \in Lockfiles, NEW i \in Entries(l), NEW t, t = Promise(l.packages[i].integrity), t # None
  PROVE  t \in Digest
<1>1. PICK integrity : integrity = l.packages[i].integrity
  OBVIOUS
<1>2. integrity \in Seq(Token)
  <2>1. l \in Lockfile
    BY CacheAssumption
  <2>2. l.packages \in Seq(Package)
    BY <2>1 DEF Lockfile
  <2>3. i \in DOMAIN l.packages /\ l.packages[i].integrity # None
    BY DEF Entries
  <2>4. l.packages[i] \in Package
    BY <2>2, <2>3
  <2> QED BY <1>1, <2>3, <2>4 DEF Package
<1>3. PICK known : known = {j \in DOMAIN integrity : integrity[j].algo \in {"sha512", "sha256"}}
  OBVIOUS
<1>4. known # {} /\ integrity[Min(known)].digest # Bad /\ t = integrity[Min(known)]
  BY <1>1, <1>3 DEF Promise
<1>5. known \in SUBSET Nat
  BY <1>2, <1>3
<1>6. PICK j \in known : j = Min(known)
  BY <1>4, <1>5, FirstPosition
<1>7. t \in Token /\ t.algo \in {"sha512", "sha256"} /\ t.digest # Bad
  BY <1>2, <1>3, <1>4, <1>6
<1> QED BY <1>7 DEF Token, Digest

(* An integrity of one SHA-512 promises it.                                  *)
LEMMA PromiseOfFile ==
  ASSUME NEW c \in Contents
  PROVE  Promise(<<[algo |-> "sha512", digest |-> c]>>) = [algo |-> "sha512", digest |-> c]
<1>1. PICK t : t = [algo |-> "sha512", digest |-> c]
  OBVIOUS
<1>2. t.algo = "sha512" /\ t.digest = c
  BY <1>1
<1>3. PICK s : s = <<t>>
  OBVIOUS
<1>4. DOMAIN s = {1} /\ s[1] = t
  BY <1>3
<1>5. PICK known : known = {j \in DOMAIN s : s[j].algo \in {"sha512", "sha256"}}
  OBVIOUS
<1>6. known = {1}
  BY <1>2, <1>4, <1>5
<1>7. Min(known) \in known
  BY <1>6, FirstPosition
<1>8. Min(known) = 1
  BY <1>6, <1>7
<1>9. t.digest # Bad
  BY <1>2, CacheAssumption
<1>10. Promise(s) = IF known = {} \/ s[Min(known)].digest = Bad THEN None ELSE s[Min(known)]
  BY <1>5 DEF Promise
<1>11. Promise(s) = t
  BY <1>4, <1>6, <1>8, <1>9, <1>10
<1> QED BY <1>1, <1>3, <1>11

(* What is stored for an entry, for each of the three stores.                *)
LEMMA StoredNpm ==
  ASSUME NEW e, NEW r, NEW t, t = Promise(e.integrity)
  PROVE  Stored("npm", e, r) = {<< <<"content", t.algo, t.digest>>, t.digest>>}
  BY DEF Stored, NpmPath

(* What cargo stores of an entry: the .crate file.                           *)
LEMMA StoredCargo ==
  ASSUME NEW e, NEW r, NEW t, t = Promise(e.integrity)
  PROVE  Stored("cargo", e, r) = {<< <<r, e.name, None>>, t.digest>>}
  BY DEF Stored, CratePath

BlobOf(f) == << <<IF f.exec THEN "exec" ELSE "blob", f.content, None>>, f.content>>

(* What pnpm stores of an entry: an index and the files it names.            *)
LEMMA StoredPnpm ==
  ASSUME NEW e, NEW r, NEW t, t = Promise(e.integrity)
  PROVE  Stored("pnpm", e, r)
           = {<< <<"index", t.digest, None>>, IndexOf(t.digest)>>} \cup {BlobOf(f) : f \in ToSet(Files[t.digest])}
  BY DEF Stored, IndexPath, BlobPath, BlobOf

(* Any other lockfile is treated as one of pnpm.                             *)
LEMMA StoredOther ==
  ASSUME NEW kind, kind \notin {"npm", "cargo"}, NEW e, NEW r
  PROVE  Stored(kind, e, r) = Stored("pnpm", e, r)
  BY DEF Stored

(* What was published for path p is c.                                       *)
Genuine(l, p, c) ==
  \E i \in Entries(l), r \in Registries :
    /\ Promise(l.packages[i].integrity) # None
    /\ <<p, c>> \in Stored(l.kind, l.packages[i], r)

(* Two entries of a lockfile never expect two contents at one path.          *)
LEMMA GenuineIsOne ==
  ASSUME NEW l \in Lockfiles, NEW p, NEW c, NEW d, Genuine(l, p, c), Genuine(l, p, d)
  PROVE  c = d
<1>1. PICK i \in Entries(l), r \in Registries : <<p, c>> \in Stored(l.kind, l.packages[i], r)
  BY DEF Genuine
<1>2. PICK j \in Entries(l), s \in Registries : <<p, d>> \in Stored(l.kind, l.packages[j], s)
  BY DEF Genuine
<1>3. PICK x, y : x = l.packages[i] /\ y = l.packages[j]
  OBVIOUS
<1>4. PICK t, u : t = Promise(x.integrity) /\ u = Promise(y.integrity)
  OBVIOUS
<1>5. CASE l.kind = "npm"
  <2>1. /\ Stored("npm", x, r) = {<< <<"content", t.algo, t.digest>>, t.digest>>}
        /\ Stored("npm", y, s) = {<< <<"content", u.algo, u.digest>>, u.digest>>}
    BY <1>4, StoredNpm
  <2>2. /\ <<p, c>> \in {<< <<"content", t.algo, t.digest>>, t.digest>>}
        /\ <<p, d>> \in {<< <<"content", u.algo, u.digest>>, u.digest>>}
    BY <1>1, <1>2, <1>3, <1>5, <2>1
  <2> QED BY <2>2
<1>6. CASE l.kind = "cargo"
  <2>1. /\ Stored("cargo", x, r) = {<< <<r, x.name, None>>, t.digest>>}
        /\ Stored("cargo", y, s) = {<< <<s, y.name, None>>, u.digest>>}
    BY <1>4, StoredCargo
  <2>2. /\ <<p, c>> \in {<< <<r, x.name, None>>, t.digest>>}
        /\ <<p, d>> \in {<< <<s, y.name, None>>, u.digest>>}
    BY <1>1, <1>2, <1>3, <1>6, <2>1
  <2>3. x.name = y.name
    BY <2>2
  <2>4. i = j
    BY <1>3, <1>6, <2>3, NamesAssumption
  <2> QED BY <1>3, <1>4, <2>2, <2>4
<1>7. CASE l.kind \notin {"npm", "cargo"}
  <2>1. /\ Stored(l.kind, x, r) = Stored("pnpm", x, r)
        /\ Stored(l.kind, y, s) = Stored("pnpm", y, s)
    BY <1>7, StoredOther
  <2>2. /\ <<p, c>> \in {<< <<"index", t.digest, None>>, IndexOf(t.digest)>>}
                          \cup {BlobOf(f) : f \in ToSet(Files[t.digest])}
        /\ <<p, d>> \in {<< <<"index", u.digest, None>>, IndexOf(u.digest)>>}
                          \cup {BlobOf(f) : f \in ToSet(Files[u.digest])}
    BY <1>1, <1>2, <1>3, <1>4, <2>1, StoredPnpm
  <2>3. PICK m, n : m = IndexOf(t.digest) /\ n = IndexOf(u.digest) /\ (t.digest = u.digest => m = n)
    OBVIOUS
  <2>4. \/ p = <<"index", t.digest, None>> /\ c = m
        \/ \E f : p = <<IF f.exec THEN "exec" ELSE "blob", f.content, None>> /\ c = f.content
    BY <2>2, <2>3 DEF BlobOf
  <2>5. \/ p = <<"index", u.digest, None>> /\ d = n
        \/ \E f : p = <<IF f.exec THEN "exec" ELSE "blob", f.content, None>> /\ d = f.content
    BY <2>2, <2>3 DEF BlobOf
  <2>6. \A f : (IF f.exec THEN "exec" ELSE "blob") # "index"
    OBVIOUS
  <2> QED BY <2>3, <2>4, <2>5, <2>6
<1> QED BY <1>5, <1>6, <1>7

(* Once the store changes, an entry is held to what it read before.          *)
Holds(i, p, c) == disk[p] = c \/ <<i, p>> \in late

\* The files that are read for entry i of lockfile l.
Shape(l, i, files) ==
  LET e == l.packages[i]
      t == Promise(e.integrity)
  IN /\ t # None /\ l.kind \in Kinds
     /\ l.kind = "npm" => files = << [path |-> NpmPath(t), digest |-> t.digest] >>
     /\ l.kind = "pnpm" => files = Listed(IndexOf(t.digest))
     /\ l.kind = "cargo" =>
          \E r \in Registries : files = << [path |-> CratePath(r, e), digest |-> t.digest] >>

Promised(i) == Promise(lockfile.packages[i].integrity) # None

Vouched(i) ==
  \E files : Shape(lockfile, i, files) /\ \A k \in DOMAIN files : Holds(i, files[k].path, files[k].digest)

Blamed(i) ==
  \E r \in Registries : \E f \in Stored(lockfile.kind, lockfile.packages[i], r) :
    f[1] \in swapped \/ <<i, f[1]>> \in late

Justified(i, v) ==
  /\ i \in Entries(lockfile) /\ v \in Outcomes /\ lockfile.kind \in Kinds
  /\ v = "ok" => Vouched(i)
  /\ v = "mismatch" => Blamed(i)

\* The current entry: what has been read was as it should be.
Reading ==
  /\ Pending # {} /\ Shape(lockfile, Min(Pending), command.files)
  /\ command.next \in 1 .. Len(command.files)
  /\ \A k \in 1 .. (command.next - 1) :
       \/ \E m \in command.next .. Len(command.files) : command.files[m].path = command.files[k].path
       \/ Holds(Min(Pending), command.files[k].path, command.files[k].digest)

CommandInv ==
  /\ lockfile # None /\ DOMAIN command = {"sqlite", "verdicts", "files", "next", "exit"}
  /\ \A i \in DOMAIN command.verdicts : Justified(i, command.verdicts[i])
  /\ command.exit = None => lockfile.kind \in Kinds /\ (command.files # None => Reading)
  /\ command.exit # None => DOMAIN command.verdicts = {} \/ \E strict : command.exit = ExitCode(command.verdicts, strict)

StoreInv ==
  /\ lockfile \in Lockfiles \cup {None} /\ DOMAIN disk = Paths /\ swapped \subseteq Paths
  /\ lockfile = None => command = None /\ \A p \in Paths : disk[p] = None
  /\ \A p \in Paths \ swapped : disk[p] # None => Genuine(lockfile, p, disk[p])
  /\ \A p \in swapped :
       /\ disk[p] # None /\ ~Genuine(lockfile, p, disk[p])
       /\ p[1] = "index" => disk[p] \in {Garbage, Locked}

CacheInv == StoreInv /\ (command # None => CommandInv)

(* Nothing is at a position of the empty sequence.                           *)
LEMMA EmptyHasNoPosition ==
  DOMAIN <<>> = {}
  OBVIOUS

(* Nothing is stored before a lockfile is checked out.                       *)
LEMMA CacheInitInv ==
  ASSUME CacheInit
  PROVE  CacheInv
  BY DEF CacheInit, CacheInv, StoreInv

(* A lockfile is checked out once, before anything is fetched.               *)
LEMMA CacheCheckOut ==
  ASSUME CacheInv, NEW l \in Lockfiles, CheckOut(l)
  PROVE  CacheInv'
<1>1. /\ lockfile = None /\ lockfile' = l /\ disk' = disk /\ command' = command /\ swapped' = swapped
  BY DEF CheckOut
<1>2. command = None /\ \A p \in Paths : disk[p] = None
  BY <1>1 DEF CacheInv, StoreInv
<1>3. swapped = {}
  BY <1>2 DEF CacheInv, StoreInv
<1>4. lockfile' # None
  BY <1>1, CacheAssumption
<1> QED BY <1>1, <1>2, <1>3, <1>4 DEF CacheInv, StoreInv

(* The files of a package, at their positions.                               *)
LEMMA FilesAre ==
  ASSUME NEW c \in Contents, NEW j \in DOMAIN Files[c]
  PROVE  /\ j \in Nat /\ Files[c][j].content \in Contents /\ Files[c][j].exec \in BOOLEAN
<1>1. PICK s : s = Files[c]
  OBVIOUS
<1>2. PICK R : R = [content : Contents, exec : BOOLEAN]
  OBVIOUS
<1>3. s \in Seq(R)
  BY <1>1, <1>2, CacheAssumption
<1>4. j \in DOMAIN s
  BY <1>1
<1>5. s[j] \in R /\ j \in Nat
  BY <1>3, <1>4
<1> QED BY <1>1, <1>2, <1>5

(* npm's path of a digest is a path of the store.                            *)
LEMMA ContentPath ==
  ASSUME NEW t \in Digest
  PROVE  <<"content", t.algo, t.digest>> \in Paths
<1>1. PICK a, c : a = t.algo /\ c = t.digest
  OBVIOUS
<1>2. a \in {"sha512", "sha256"} /\ c \in Contents
  BY <1>1 DEF Digest
<1>3. <<"content", a, c>> \in Paths
  BY <1>2 DEF Paths
<1> QED BY <1>1, <1>3

(* So are pnpm's paths of an index and of a file, executable or not ...      *)
LEMMA IndexOrBlobPath ==
  ASSUME NEW c \in Contents
  PROVE  /\ <<"index", c, None>> \in Paths
         /\ \A x \in BOOLEAN : <<IF x THEN "exec" ELSE "blob", c, None>> \in Paths
  BY DEF Paths

(* ... and cargo's path of an entry.                                         *)
LEMMA CratePathIs ==
  ASSUME NEW l \in Lockfiles, NEW i \in Entries(l), NEW r \in Registries
  PROVE  <<r, l.packages[i].name, None>> \in Paths
<1>1. PICK n : n = l.packages[i].name
  OBVIOUS
<1>2. n \in CrateNames
  <2>1. PICK e : e = l.packages[i] /\ e \in ToSet(l.packages)
    BY DEF Entries, ToSet
  <2>2. n \in {p.name : p \in ToSet(l.packages)}
    BY <1>1, <2>1
  <2> QED BY <2>2, Zenon DEF CrateNames
<1>3. <<r, n, None>> \in Paths
  BY <1>2 DEF Paths
<1> QED BY <1>1, <1>3

(* What the package manager stores of a promised entry is what was           *)
(* published.                                                                *)
LEMMA StoredIsGenuine ==
  ASSUME NEW i \in Entries(lockfile), NEW r \in Registries, NEW p, NEW c,
         Promise(lockfile.packages[i].integrity) # None,
         <<p, c>> \in Stored(lockfile.kind, lockfile.packages[i], r)
  PROVE  Genuine(lockfile, p, c)
  BY DEF Genuine

(* The blobs of an index.                                                    *)
LEMMA BlobIs ==
  ASSUME NEW c \in Contents, NEW j \in DOMAIN Files[c], NEW f, f = Files[c][j]
  PROVE  /\ BlobOf(f) = << <<IF f.exec THEN "exec" ELSE "blob", f.content, None>>, f.content>>
         /\ <<IF f.exec THEN "exec" ELSE "blob", f.content, None>> \in Paths
         /\ f \in ToSet(Files[c])
<1>1. f.content \in Contents /\ f.exec \in BOOLEAN
  BY FilesAre
<1> QED BY <1>1, IndexOrBlobPath DEF BlobOf, ToSet

(* A file of an index is looked for where it is stored.                      *)
LEMMA ListedIs ==
  ASSUME NEW c \in Contents, NEW j \in DOMAIN Files[c], NEW f, f = Files[c][j]
  PROVE  /\ DOMAIN Listed(IndexOf(c)) = DOMAIN Files[c]
         /\ Listed(IndexOf(c))[j].path = <<IF f.exec THEN "exec" ELSE "blob", f.content, None>>
         /\ Listed(IndexOf(c))[j].digest = f.content
<1>1. PICK d, x : d = f.content /\ x = f.exec
  OBVIOUS
<1>2. d \in Contents
  BY <1>1, FilesAre
<1>3. PICK g : g = [integrity |-> <<[algo |-> "sha512", digest |-> d]>>, exec |-> x]
  OBVIOUS
<1>4. IndexOf(c)[j] = g /\ DOMAIN IndexOf(c) = DOMAIN Files[c]
  BY <1>1, <1>3 DEF IndexOf
<1>5. g.integrity = <<[algo |-> "sha512", digest |-> d]>> /\ g.exec = x
  BY <1>3
<1>6. PICK t : t = [algo |-> "sha512", digest |-> d]
  OBVIOUS
<1>7. Promise(g.integrity) = t
  BY <1>2, <1>5, <1>6, PromiseOfFile
<1>8. t.digest = d
  BY <1>6
<1>9. BlobPath(t, x) = <<IF x THEN "exec" ELSE "blob", d, None>>
  BY <1>8 DEF BlobPath
<1>10. PICK index : index = IndexOf(c)
  OBVIOUS
<1>11. /\ DOMAIN Listed(index) = DOMAIN index
       /\ Listed(index)[j].path = BlobPath(t, x) /\ Listed(index)[j].digest = t.digest
  BY <1>4, <1>5, <1>7, <1>10 DEF Listed
<1> QED BY <1>1, <1>4, <1>8, <1>9, <1>10, <1>11

(* What the files of an entry are: paths where its content is stored.        *)
LEMMA ShapeIs ==
  ASSUME NEW l \in Lockfiles, NEW i \in Entries(l), NEW files, Shape(l, i, files)
  PROVE  /\ DOMAIN files = 1 .. Len(files) /\ Len(files) \in Nat
         /\ \A k \in DOMAIN files :
              /\ files[k].path \in Paths
              /\ \E r \in Registries : <<files[k].path, files[k].digest>> \in Stored(l.kind, l.packages[i], r)
<1>1. PICK e, t : e = l.packages[i] /\ t = Promise(e.integrity)
  OBVIOUS
<1>2. /\ t # None /\ l.kind \in Kinds
      /\ l.kind = "npm" => files = << [path |-> NpmPath(t), digest |-> t.digest] >>
      /\ l.kind = "pnpm" => files = Listed(IndexOf(t.digest))
      /\ l.kind = "cargo" => \E r \in Registries : files = << [path |-> CratePath(r, e), digest |-> t.digest] >>
  BY <1>1, Zenon DEF Shape
<1>3. t \in Digest
  BY <1>1, <1>2, PromiseIsDigest
<1>4. PICK r0 \in Registries : TRUE
  BY CacheAssumption
<1>5. ASSUME NEW p, NEW d, files = << [path |-> p, digest |-> d] >>, p \in Paths,
             \E r \in Registries : <<p, d>> \in Stored(l.kind, e, r)
      PROVE  /\ DOMAIN files = 1 .. Len(files) /\ Len(files) \in Nat
             /\ \A k \in DOMAIN files :
                  /\ files[k].path \in Paths
                  /\ \E r \in Registries : <<files[k].path, files[k].digest>> \in Stored(l.kind, e, r)
  <2>1. PICK f : f = [path |-> p, digest |-> d]
    OBVIOUS
  <2>2. f.path = p /\ f.digest = d
    BY <2>1
  <2>3. files = <<f>>
    BY <1>5, <2>1
  <2>4. DOMAIN files = {1} /\ Len(files) = 1 /\ files[1] = f
    BY <2>3
  <2> QED BY <1>5, <2>2, <2>4
<1>6. CASE l.kind = "npm"
  <2>1. PICK p : p = <<"content", t.algo, t.digest>>
    OBVIOUS
  <2>2. p \in Paths /\ NpmPath(t) = p
    BY <1>3, <2>1, ContentPath DEF NpmPath
  <2>3. <<p, t.digest>> \in Stored(l.kind, e, r0)
    BY <1>1, <1>6, <2>1, StoredNpm
  <2> QED BY <1>1, <1>2, <1>4, <1>5, <1>6, <2>2, <2>3
<1>7. CASE l.kind = "cargo"
  <2>1. PICK r \in Registries : files = << [path |-> CratePath(r, e), digest |-> t.digest] >>
    BY <1>2, <1>7
  <2>2. PICK p : p = <<r, e.name, None>>
    OBVIOUS
  <2>3. p \in Paths /\ CratePath(r, e) = p
    BY <1>1, <2>2, CratePathIs DEF CratePath
  <2>4. <<p, t.digest>> \in Stored(l.kind, e, r)
    BY <1>1, <1>7, <2>2, StoredCargo
  <2> QED BY <1>1, <1>5, <2>1, <2>3, <2>4
<1>8. CASE l.kind = "pnpm"
  <2>1. PICK c : c = t.digest
    OBVIOUS
  <2>2. c \in Contents /\ files = Listed(IndexOf(c))
    BY <1>2, <1>3, <1>8, <2>1 DEF Digest
  <2>3. DOMAIN files = DOMAIN Files[c]
    BY <2>2 DEF Listed, IndexOf
  <2>4. DOMAIN Files[c] = 1 .. Len(Files[c]) /\ Len(Files[c]) \in Nat
    <3>1. PICK R, s : R = [content : Contents, exec : BOOLEAN] /\ s = Files[c]
      OBVIOUS
    <3>2. s \in Seq(R)
      BY <2>2, <3>1, CacheAssumption
    <3> QED BY <3>1, <3>2
  <2>5. Len(files) = Len(Files[c])
    BY <2>3, <2>4
  <2>6. ASSUME NEW k \in DOMAIN files
        PROVE  /\ files[k].path \in Paths
               /\ <<files[k].path, files[k].digest>> \in Stored(l.kind, e, r0)
    <3>1. PICK g : g = Files[c][k] /\ k \in DOMAIN Files[c]
      BY <2>3
    <3>2. PICK p : p = <<IF g.exec THEN "exec" ELSE "blob", g.content, None>>
      OBVIOUS
    <3>3. files[k].path = p /\ files[k].digest = g.content
      BY <2>2, <3>1, <3>2, ListedIs
    <3>4. BlobOf(g) = <<p, g.content>> /\ p \in Paths /\ g \in ToSet(Files[c])
      BY <2>2, <3>1, <3>2, BlobIs
    <3>5. <<p, g.content>> \in {BlobOf(h) : h \in ToSet(Files[c])}
      BY <3>4
    <3>6. <<p, g.content>> \in Stored("pnpm", e, r0)
      BY <1>1, <2>1, <3>5, StoredPnpm
    <3> QED BY <1>8, <3>3, <3>4, <3>6
  <2> QED BY <1>1, <1>4, <2>3, <2>4, <2>5, <2>6
<1> QED BY <1>2, <1>6, <1>7, <1>8 DEF Kinds

(* What a path holds is what was published there unless it was replaced.     *)
LEMMA ReplacedIsWrong ==
  ASSUME StoreInv, lockfile # None, NEW p \in Paths, NEW c, Genuine(lockfile, p, c)
  PROVE  /\ disk[p] # None /\ disk[p] # c => p \in swapped
         /\ p \in swapped => disk[p] # c
<1>1. lockfile \in Lockfiles
  BY DEF StoreInv
<1>2. ASSUME disk[p] # None, disk[p] # c, p \notin swapped PROVE FALSE
  <2>1. Genuine(lockfile, p, disk[p])
    BY <1>2 DEF StoreInv
  <2> QED BY <1>1, <1>2, <2>1, GenuineIsOne
<1> QED BY <1>2 DEF StoreInv

(* A change at one path leaves the verdicts and what the command is reading  *)
(* as good as they were.                                                     *)
LEMMA CommandChange ==
  ASSUME CacheInv, NEW p \in Paths, NoteChange(p), lockfile # None, lockfile' = lockfile,
         \A q \in Paths \ {p} : disk'[q] = disk[q], swapped \ {p} \subseteq swapped'
  PROVE  command' # None => CommandInv'
<1>1. SUFFICES ASSUME command' # None PROVE CommandInv'
  OBVIOUS
<1>2. /\ command # None /\ ~Ended /\ command' = command
      /\ late' = late \cup {<<i, p>> : i \in {j \in Entries(lockfile) : p \notin Unread(j)}}
  BY <1>1 DEF NoteChange, Ended
<1>3. CommandInv /\ command.exit = None /\ lockfile \in Lockfiles
  BY <1>2 DEF CacheInv, StoreInv, CommandInv, Ended
<1>4. \A i \in Entries(lockfile) : p \notin Unread(i) => <<i, p>> \in late'
  BY <1>2
<1>5. \A x : x \in late => x \in late'
  BY <1>2
<1>6. ASSUME NEW i \in DOMAIN command.verdicts PROVE Justified(i, command.verdicts[i])'
  <2>1. PICK v : v = command.verdicts[i]
    OBVIOUS
  <2>2. Justified(i, v)
    BY <1>3, <2>1 DEF CommandInv
  <2>3. <<i, p>> \in late'
    BY <1>4, <2>2 DEF Unread, Pending, Justified
  <2>4. ASSUME Vouched(i) PROVE Vouched(i)'
    <3>1. PICK files : Shape(lockfile, i, files) /\ \A k \in DOMAIN files : Holds(i, files[k].path, files[k].digest)
      BY <2>4 DEF Vouched
    <3>2. \A k \in DOMAIN files : files[k].path \in Paths
      BY <1>3, <2>2, <3>1, ShapeIs DEF Justified
    <3>3. \A k \in DOMAIN files : Holds(i, files[k].path, files[k].digest)'
      BY <1>5, <2>3, <3>1, <3>2 DEF Holds
    <3>4. Shape(lockfile, i, files)'
      BY <3>1 DEF Shape
    <3> QED BY <3>3, <3>4 DEF Vouched
  <2>5. ASSUME Blamed(i) PROVE Blamed(i)'
    <3>1. PICK r \in Registries : \E f \in Stored(lockfile.kind, lockfile.packages[i], r) :
            f[1] \in swapped \/ <<i, f[1]>> \in late
      BY <2>5 DEF Blamed
    <3>2. PICK f \in Stored(lockfile.kind, lockfile.packages[i], r) : f[1] \in swapped \/ <<i, f[1]>> \in late
      BY <3>1
    <3>3. f[1] \in swapped' \/ <<i, f[1]>> \in late'
      BY <1>5, <2>3, <3>2
    <3> QED BY <3>2, <3>3 DEF Blamed
  <2> QED BY <1>2, <2>1, <2>2, <2>4, <2>5 DEF Justified
<1>7. ASSUME command.files # None PROVE Reading'
  <2>1. PICK i, files, n : i = Min(Pending) /\ files = command.files /\ n = command.next
    OBVIOUS
  <2>2. /\ Pending # {} /\ Shape(lockfile, i, files) /\ n \in 1 .. Len(files)
        /\ \A k \in 1 .. (n - 1) : \/ \E m \in n .. Len(files) : files[m].path = files[k].path
                                   \/ Holds(i, files[k].path, files[k].digest)
    BY <1>3, <1>7, <2>1 DEF CommandInv, Reading
  <2>3. i \in Entries(lockfile) /\ i \in Pending
    <3>1. Pending \in SUBSET Nat
      BY <1>3, CacheAssumption DEF Pending, Entries, Lockfile
    <3>2. i \in Pending
      BY <2>1, <2>2, <3>1, FirstPosition
    <3> QED BY <3>2 DEF Pending
  <2>4. DOMAIN files = 1 .. Len(files) /\ Len(files) \in Nat /\ \A k \in DOMAIN files : files[k].path \in Paths
    BY <1>3, <2>2, <2>3, ShapeIs
  <2>5. ASSUME NEW k \in 1 .. (n - 1), Holds(i, files[k].path, files[k].digest),
               ~ \E m \in n .. Len(files) : files[m].path = files[k].path
        PROVE  Holds(i, files[k].path, files[k].digest)'
    <3>1. k \in DOMAIN files
      BY <2>2, <2>4
    <3>2. CASE files[k].path = p
      <4>1. p \notin Unread(i)
        BY <1>7, <2>1, <2>5, <3>2 DEF Unread
      <4> QED BY <1>4, <2>3, <3>2, <4>1 DEF Holds
    <3>3. CASE files[k].path # p
      BY <1>5, <2>4, <2>5, <3>1, <3>3 DEF Holds
    <3> QED BY <3>2, <3>3
  <2>6. Pending' = Pending /\ command'.files = files /\ command'.next = n
    BY <1>2, <2>1 DEF Pending
  <2>7. Shape(lockfile, i, files)'
    BY <2>2 DEF Shape
  <2>8. Min(Pending)' = i
    BY <2>1, <2>6
  <2> QED BY <2>2, <2>5, <2>6, <2>7, <2>8 DEF Reading
<1>8. /\ DOMAIN command' = {"sqlite", "verdicts", "files", "next", "exit"} /\ command'.exit = None
      /\ lockfile'.kind \in Kinds /\ lockfile' # None
  BY <1>2, <1>3 DEF CommandInv
<1> QED BY <1>2, <1>6, <1>7, <1>8 DEF CommandInv

(* A fetch writes a file that was published, where none was.                 *)
LEMMA CacheFetch ==
  ASSUME CacheInv, lockfile # None, NEW i \in Entries(lockfile), NEW r \in Registries,
         Fetch(lockfile.packages[i], r)
  PROVE  CacheInv'
<1>1. PICK f \in Stored(lockfile.kind, lockfile.packages[i], r) :
        disk[f[1]] = None /\ disk' = [disk EXCEPT ![f[1]] = f[2]] /\ NoteChange(f[1])
  BY DEF Fetch
<1>2. /\ lockfile' = lockfile /\ swapped' = swapped
      /\ Promise(lockfile.packages[i].integrity) # None
  BY DEF Fetch
<1>3. \E a, b : f = <<a, b>>
  BY DEF Stored
<1>4. PICK p, c : p = f[1] /\ c = f[2] /\ f = <<p, c>>
  BY <1>3
<1>5. Genuine(lockfile, p, c)
  BY <1>2, <1>4 DEF Genuine
<1>6. DOMAIN disk = Paths /\ DOMAIN disk' = Paths
  BY <1>1 DEF CacheInv, StoreInv
<1>7. CASE p \in Paths
  <2>1. disk'[p] = c /\ \A q \in Paths \ {p} : disk'[q] = disk[q]
    BY <1>1, <1>4, <1>6, <1>7
  <2>2. p \notin swapped
    BY <1>1, <1>4 DEF CacheInv, StoreInv
  <2>3. StoreInv'
    BY <1>2, <1>5, <1>6, <2>1, <2>2 DEF CacheInv, StoreInv
  <2>4. command' # None => CommandInv'
    BY <1>1, <1>2, <1>4, <1>7, <2>1, CommandChange
  <2> QED BY <2>3, <2>4 DEF CacheInv
<1>8. p \in Paths
  <2>1. PICK e, t : e = lockfile.packages[i] /\ t = Promise(e.integrity)
    OBVIOUS
  <2>2. t # None /\ lockfile \in Lockfiles
    BY <1>2, <2>1 DEF CacheInv, StoreInv
  <2>3. t \in Digest
    BY <2>1, <2>2, PromiseIsDigest
  <2>4. CASE lockfile.kind = "npm"
    <3>1. f = << <<"content", t.algo, t.digest>>, t.digest>>
      BY <2>1, <2>4, StoredNpm
    <3> QED BY <1>4, <2>3, <3>1, ContentPath
  <2>5. CASE lockfile.kind = "cargo"
    <3>1. f = << <<r, e.name, None>>, t.digest>>
      BY <2>1, <2>5, StoredCargo
    <3> QED BY <1>4, <2>1, <2>2, <3>1, CratePathIs
  <2>6. CASE lockfile.kind \notin {"npm", "cargo"}
    <3>1. f \in {<< <<"index", t.digest, None>>, IndexOf(t.digest)>>}
                  \cup {BlobOf(g) : g \in ToSet(Files[t.digest])}
      BY <2>1, <2>6, StoredOther, StoredPnpm
    <3>2. PICK d : d = t.digest /\ d \in Contents
      BY <2>3 DEF Digest
    <3>3. CASE f = << <<"index", d, None>>, IndexOf(d)>>
      BY <1>4, <3>2, <3>3, IndexOrBlobPath
    <3>4. CASE f \in {BlobOf(g) : g \in ToSet(Files[d])}
      <4>1. PICK g \in ToSet(Files[d]) : f = BlobOf(g)
        BY <3>4
      <4>2. PICK j \in DOMAIN Files[d] : g = Files[d][j]
        BY DEF ToSet
      <4>3. PICK q : q = <<IF g.exec THEN "exec" ELSE "blob", g.content, None>>
        OBVIOUS
      <4>4. BlobOf(g) = <<q, g.content>> /\ q \in Paths
        BY <3>2, <4>2, <4>3, BlobIs
      <4> QED BY <1>4, <4>1, <4>4
    <3> QED BY <3>1, <3>2, <3>3, <3>4
  <2> QED BY <2>4, <2>5, <2>6
<1> QED BY <1>7, <1>8

(* A lost file is not a replaced one.                                        *)
LEMMA CacheLose ==
  ASSUME CacheInv, lockfile # None, NEW p \in Paths, Lose(p)
  PROVE  CacheInv'
<1>1. /\ disk' = [disk EXCEPT ![p] = None] /\ swapped' = swapped \ {p} /\ lockfile' = lockfile /\ NoteChange(p)
  BY DEF Lose
<1>2. DOMAIN disk' = Paths /\ disk'[p] = None /\ \A q \in Paths \ {p} : disk'[q] = disk[q]
  BY <1>1 DEF CacheInv, StoreInv
<1>3. StoreInv'
  BY <1>1, <1>2 DEF CacheInv, StoreInv
<1>4. command' # None => CommandInv'
  BY <1>1, <1>2, CommandChange
<1> QED BY <1>3, <1>4 DEF CacheInv

(* A replaced file no longer holds what was published.                       *)
LEMMA CacheSwap ==
  ASSUME CacheInv, lockfile # None, NEW p \in Paths, NEW c \in Contents \cup {Garbage, Locked}, Swap(p, c)
  PROVE  CacheInv'
<1>1. /\ disk' = [disk EXCEPT ![p] = c] /\ swapped' = swapped \cup {p} /\ lockfile' = lockfile /\ NoteChange(p)
      /\ disk[p] # None /\ disk[p] # c /\ p \notin swapped /\ (p[1] = "index" => c \notin Contents)
  BY DEF Swap
<1>2. DOMAIN disk' = Paths /\ disk'[p] = c /\ \A q \in Paths \ {p} : disk'[q] = disk[q]
  BY <1>1 DEF CacheInv, StoreInv
<1>3. c # None
  BY CacheAssumption
<1>4. Genuine(lockfile, p, disk[p]) /\ lockfile \in Lockfiles
  BY <1>1 DEF CacheInv, StoreInv
<1>5. ~Genuine(lockfile, p, c)
  BY <1>1, <1>4, GenuineIsOne
<1>6. StoreInv'
  BY <1>1, <1>2, <1>3, <1>5 DEF CacheInv, StoreInv
<1>7. command' # None => CommandInv'
  BY <1>1, <1>2, CommandChange
<1> QED BY <1>6, <1>7 DEF CacheInv

(* The entries that are pending have a first one.                            *)
LEMMA FirstPending ==
  ASSUME CacheInv, lockfile # None, Pending # {}
  PROVE  Min(Pending) \in Pending /\ Min(Pending) \in Entries(lockfile) /\ lockfile \in Lockfiles
<1>1. lockfile \in Lockfiles
  BY DEF CacheInv, StoreInv
<1>2. Pending \in SUBSET Nat
  BY <1>1, CacheAssumption DEF Pending, Entries, Lockfile
<1>3. Min(Pending) \in Pending
  BY <1>2, FirstPosition
<1> QED BY <1>1, <1>3 DEF Pending

\* All that a step of the command leaves alone.
StoreSame ==
  lockfile' = lockfile /\ disk' = disk /\ sqlite' = sqlite /\ swapped' = swapped /\ late' = late

(* What was told of an entry stays so while the store does.                  *)
LEMMA ToldStays ==
  ASSUME StoreSame, NEW CONSTANT i, NEW CONSTANT v, Justified(i, v)
  PROVE  Justified(i, v)'
<1>1. \A j, p, c : Holds(j, p, c)' <=> Holds(j, p, c)
  BY DEF StoreSame, Holds
<1>2. Vouched(i)' <=> Vouched(i)
  BY <1>1 DEF StoreSame, Vouched, Shape
<1>3. Blamed(i)' <=> Blamed(i)
  BY DEF StoreSame, Blamed
<1> QED BY <1>2, <1>3 DEF Justified, StoreSame

(* The entry at hand is settled.                                             *)
LEMMA SettleStep ==
  ASSUME CacheInv, StoreSame, command # None, command.exit = None, Pending # {}, NEW v,
         Justified(Min(Pending), v), Settle(v)
  PROVE  CacheInv'
<1>1. CommandInv /\ DOMAIN command = {"sqlite", "verdicts", "files", "next", "exit"} /\ lockfile # None
  BY DEF CacheInv, CommandInv
<1>2. PICK i : i = Min(Pending)
  OBVIOUS
<1>3. PICK w : w = [j \in DOMAIN command.verdicts \cup {i} |->
                      IF j \in DOMAIN command.verdicts THEN command.verdicts[j] ELSE v]
  OBVIOUS
<1>4. command' = [command EXCEPT !.verdicts = w, !.files = None]
  BY <1>2, <1>3 DEF Settle
<1>5. /\ command'.verdicts = w /\ command'.files = None /\ command'.exit = None
      /\ DOMAIN command' = {"sqlite", "verdicts", "files", "next", "exit"}
  BY <1>1, <1>4
<1>6. \A j \in DOMAIN w : Justified(j, w[j])
  BY <1>1, <1>2, <1>3 DEF CommandInv
<1>7. \A j \in DOMAIN w : Justified(j, w[j])'
  BY <1>6, ToldStays
<1>8. CommandInv'
  BY <1>1, <1>5, <1>7 DEF CommandInv, StoreSame
<1>9. StoreInv'
  BY <1>1 DEF CacheInv, StoreInv, StoreSame
<1> QED BY <1>8, <1>9 DEF CacheInv

(* What can be said of an entry before a file of it is read.                 *)
LEMMA Unsaid ==
  ASSUME CacheInv, lockfile # None, Pending # {}, lockfile.kind \in Kinds, NEW v \in {"missing", "unsupported"}
  PROVE  Justified(Min(Pending), v)
  BY FirstPending DEF Justified, Outcomes

(* An entry is opened: what has no file is ok, else the first one is next.   *)
LEMMA ToReadStep ==
  ASSUME CacheInv, StoreSame, command # None, command.exit = None, Pending # {}, NEW files,
         Shape(lockfile, Min(Pending), files), ToRead(files)
  PROVE  CacheInv'
<1>1. /\ CommandInv /\ DOMAIN command = {"sqlite", "verdicts", "files", "next", "exit"} /\ lockfile # None
      /\ lockfile.kind \in Kinds
  BY DEF CacheInv, CommandInv, Shape
<1>2. Min(Pending) \in Entries(lockfile) /\ lockfile \in Lockfiles
  BY <1>1, FirstPending
<1>3. CASE Len(files) = 0
  <2>1. \A k \in DOMAIN files : Holds(Min(Pending), files[k].path, files[k].digest)
    <3>1. DOMAIN files = 1 .. Len(files)
      BY <1>2, ShapeIs
    <3>2. DOMAIN files = {}
      BY <1>3, <3>1
    <3> QED BY <3>2
  <2>2. Vouched(Min(Pending))
    BY <2>1 DEF Vouched
  <2>3. Justified(Min(Pending), "ok")
    BY <1>1, <1>2, <2>2 DEF Justified, Outcomes
  <2>4. Settle("ok")
    BY <1>3 DEF ToRead
  <2> QED BY <2>3, <2>4, SettleStep
<1>4. CASE Len(files) # 0
  <2>1. command' = [command EXCEPT !.files = files, !.next = 1]
    BY <1>4 DEF ToRead
  <2>2. /\ command'.verdicts = command.verdicts /\ command'.files = files /\ command'.next = 1
        /\ command'.exit = None /\ DOMAIN command' = {"sqlite", "verdicts", "files", "next", "exit"}
    BY <1>1, <2>1
  <2>3. Pending' = Pending
    BY <2>2 DEF Pending, StoreSame
  <2>4. 1 \in 1 .. Len(files)
    <3>1. DOMAIN files = 1 .. Len(files) /\ Len(files) \in Nat
      BY <1>2, ShapeIs
    <3>2. Len(files) # 0
      BY <1>4
    <3> QED BY <3>1, <3>2
  <2>5. Shape(lockfile, Min(Pending), files)'
    BY <2>3 DEF Shape, StoreSame
  <2>6. Reading'
    <3>1. \A k : k \notin 1 .. (1 - 1)
      OBVIOUS
    <3> QED BY <2>2, <2>3, <2>4, <2>5, <3>1 DEF Reading
  <2>7. PICK w : w = command.verdicts
    OBVIOUS
  <2>8. \A j \in DOMAIN w : Justified(j, w[j])
    BY <1>1, <2>7 DEF CommandInv
  <2>9. \A j \in DOMAIN w : Justified(j, w[j])'
    BY <2>8, ToldStays
  <2>10. CommandInv'
    BY <1>1, <2>2, <2>6, <2>7, <2>9 DEF CommandInv, StoreSame
  <2>11. StoreInv'
    BY <1>1 DEF CacheInv, StoreInv, StoreSame
  <2> QED BY <2>10, <2>11 DEF CacheInv
<1> QED BY <1>3, <1>4

(* An index that parses is the one of the tarball.                           *)
LEMMA IndexIsGenuine ==
  ASSUME StoreInv, lockfile # None, lockfile.kind = "pnpm", NEW i \in Entries(lockfile),
         NEW t, t = Promise(lockfile.packages[i].integrity), t # None,
         NEW index, index = disk[IndexPath(t)], index \notin {None, Garbage, Locked} \cup Contents
  PROVE  index = IndexOf(t.digest)
<1>1. lockfile \in Lockfiles
  BY DEF StoreInv
<1>2. t \in Digest
  BY <1>1, PromiseIsDigest
<1>3. PICK c : c = t.digest
  OBVIOUS
<1>4. c \in Contents
  BY <1>2, <1>3 DEF Digest
<1>5. PICK p : p = <<"index", c, None>>
  OBVIOUS
<1>6. p \in Paths /\ p[1] = "index" /\ IndexPath(t) = p
  BY <1>3, <1>4, <1>5, IndexOrBlobPath DEF IndexPath
<1>7. PICK all : all = IndexOf(c)
  OBVIOUS
<1>8. index = disk[p]
  BY <1>6
<1>10. p \notin swapped
  BY <1>6, <1>8 DEF StoreInv
<1>11. Genuine(lockfile, p, all)
  <2>1. PICK e, r : e = lockfile.packages[i] /\ r \in Registries
    BY CacheAssumption
  <2>2. <<p, all>> \in Stored("pnpm", e, r)
    <3>1. Stored("pnpm", e, r) = {<< <<"index", t.digest, None>>, IndexOf(t.digest)>>}
                                   \cup {BlobOf(f) : f \in ToSet(Files[t.digest])}
      BY <2>1, StoredPnpm
    <3>2. <<p, all>> = << <<"index", t.digest, None>>, IndexOf(t.digest)>>
      BY <1>3, <1>5, <1>7
    <3> QED BY <3>1, <3>2
  <2> QED BY <2>1, <2>2 DEF Genuine
<1>12. index = all
  BY <1>6, <1>8, <1>10, <1>11, ReplacedIsWrong
<1> QED BY <1>3, <1>7, <1>12

(* The next entry is opened.                                                 *)
LEMMA CacheOpen ==
  ASSUME CacheInv, lockfile # None, lockfile.kind \in Kinds, Open
  PROVE  CacheInv'
<1>1. command # None /\ command.exit = None /\ Pending # {} /\ StoreSame
  BY DEF Open, Running, StoreStays, StoreSame
<1>2. PICK i, e, t : i = Min(Pending) /\ e = lockfile.packages[i] /\ t = Promise(e.integrity)
  OBVIOUS
<1>3. i \in Entries(lockfile)
  BY <1>1, <1>2, FirstPending
<1>4. \/ Settle("unsupported")
      \/ t # None /\ lockfile.kind = "npm" /\ OpenNpm(t)
      \/ t # None /\ lockfile.kind = "pnpm" /\ OpenPnpm(disk[IndexPath(t)])
      \/ t # None /\ lockfile.kind = "cargo" /\ OpenCargo(e, t)
  BY <1>2 DEF Open
<1>5. CASE Settle("unsupported")
  BY <1>1, <1>5, SettleStep, Unsaid
<1>6. CASE Settle("missing")
  BY <1>1, <1>6, SettleStep, Unsaid
<1>7. CASE t # None /\ lockfile.kind = "npm" /\ OpenNpm(t)
  <2>1. PICK files : files = << [path |-> NpmPath(t), digest |-> t.digest] >>
    OBVIOUS
  <2>2. Shape(lockfile, i, files)
    BY <1>2, <1>7, <2>1 DEF Shape, Kinds
  <2>3. ToRead(files)
    BY <1>7, <2>1 DEF OpenNpm
  <2> QED BY <1>1, <1>2, <2>2, <2>3, ToReadStep
<1>8. CASE t # None /\ lockfile.kind = "pnpm" /\ OpenPnpm(disk[IndexPath(t)])
  <2>1. PICK index : index = disk[IndexPath(t)]
    OBVIOUS
  <2>2. \/ Settle("missing") \/ Settle("unsupported")
        \/ index \notin {None, Garbage, Locked} \cup Contents /\ ToRead(Listed(index))
    BY <1>8, <2>1 DEF OpenPnpm
  <2>3. CASE index \notin {None, Garbage, Locked} \cup Contents /\ ToRead(Listed(index))
    <3>1. index = IndexOf(t.digest)
      BY <1>2, <1>3, <1>8, <2>1, <2>3, IndexIsGenuine DEF CacheInv
    <3>2. PICK files : files = Listed(index)
      OBVIOUS
    <3>3. Shape(lockfile, i, files)
      BY <1>2, <1>8, <3>1, <3>2 DEF Shape, Kinds
    <3> QED BY <1>1, <1>2, <2>3, <3>2, <3>3, ToReadStep
  <2> QED BY <1>5, <1>6, <2>2, <2>3
<1>9. CASE t # None /\ lockfile.kind = "cargo" /\ OpenCargo(e, t)
  <2>1. \/ Settle("missing")
        \/ \E r \in Registries : ToRead(<< [path |-> CratePath(r, e), digest |-> t.digest] >>)
    BY <1>9 DEF OpenCargo
  <2>2. CASE \E r \in Registries : ToRead(<< [path |-> CratePath(r, e), digest |-> t.digest] >>)
    <3>1. PICK r \in Registries : ToRead(<< [path |-> CratePath(r, e), digest |-> t.digest] >>)
      BY <2>2
    <3>2. PICK files : files = << [path |-> CratePath(r, e), digest |-> t.digest] >>
      OBVIOUS
    <3>3. Shape(lockfile, i, files)
      BY <1>2, <1>9, <3>2 DEF Shape, Kinds
    <3>4. ToRead(files)
      BY <3>1, <3>2
    <3> QED BY <1>1, <1>2, <3>3, <3>4, ToReadStep
  <2> QED BY <1>6, <2>1, <2>2
<1> QED BY <1>4, <1>5, <1>7, <1>8, <1>9

(* What hashing the file at a path again says of it.                         *)
LEMMA RehashIs ==
  ASSUME NEW p, NEW d
  PROVE  /\ Rehash(p, d) \in Outcomes
         /\ Rehash(p, d) = "ok" => disk[p] = d
         /\ Rehash(p, d) = "mismatch" => disk[p] # None /\ disk[p] # d
  BY CacheAssumption DEF Rehash, Outcomes

(* A file is read and hashed.                                                *)
LEMMA CacheHash ==
  ASSUME CacheInv, HashNext
  PROVE  CacheInv'
<1>1. command # None /\ command.exit = None /\ command.files # None /\ StoreSame
  BY DEF HashNext, Running, StoreStays, StoreSame
<1>2. /\ CommandInv /\ Reading /\ DOMAIN command = {"sqlite", "verdicts", "files", "next", "exit"}
      /\ lockfile # None /\ Pending # {}
  BY <1>1 DEF CacheInv, CommandInv, Reading
<1>3. PICK i, files, n : i = Min(Pending) /\ files = command.files /\ n = command.next
  OBVIOUS
<1>4. /\ Shape(lockfile, i, files) /\ n \in 1 .. Len(files)
      /\ \A k \in 1 .. (n - 1) : \/ \E m \in n .. Len(files) : files[m].path = files[k].path
                                 \/ Holds(i, files[k].path, files[k].digest)
  BY <1>2, <1>3 DEF Reading
<1>5. i \in Entries(lockfile) /\ lockfile \in Lockfiles /\ lockfile.kind \in Kinds
  BY <1>2, <1>3, <1>4, FirstPending DEF Shape
<1>6. /\ DOMAIN files = 1 .. Len(files) /\ Len(files) \in Nat
      /\ \A k \in DOMAIN files :
           /\ files[k].path \in Paths
           /\ \E r \in Registries : <<files[k].path, files[k].digest>> \in Stored(lockfile.kind, lockfile.packages[i], r)
  BY <1>4, <1>5, ShapeIs
<1>7. PICK p, d : p = files[n].path /\ d = files[n].digest
  OBVIOUS
<1>8. PICK v : v = Rehash(p, d)
  OBVIOUS
<1>9. n \in DOMAIN files /\ n \in Nat
  BY <1>4, <1>6
<1>10. Promised(i)
  BY <1>4 DEF Shape, Promised
<1>11. /\ p \in Paths
       /\ \E r \in Registries : <<p, d>> \in Stored(lockfile.kind, lockfile.packages[i], r)
       /\ Genuine(lockfile, p, d)
  BY <1>5, <1>6, <1>7, <1>9, <1>10 DEF Genuine, Promised
\* With this file what was read up to it holds.
<1>12. ASSUME v = "ok", NEW k \in 1 .. n
       PROVE  \/ \E m \in (n + 1) .. Len(files) : files[m].path = files[k].path
              \/ Holds(i, files[k].path, files[k].digest)
  <2>1. disk[p] = d
    BY <1>8, <1>12, RehashIs
  <2>2. k \in DOMAIN files
    BY <1>4, <1>6
  <2>3. CASE files[k].path = p
    <3>1. PICK r \in Registries : <<p, files[k].digest>> \in Stored(lockfile.kind, lockfile.packages[i], r)
      BY <1>6, <2>2, <2>3
    <3>2. PICK c : c = files[k].digest
      OBVIOUS
    <3>3. Genuine(lockfile, p, c)
      BY <1>5, <1>10, <3>1, <3>2 DEF Genuine, Promised
    <3>4. c = d
      BY <1>5, <1>11, <3>3, GenuineIsOne
    <3> QED BY <2>1, <2>3, <3>2, <3>4 DEF Holds
  <2>4. CASE files[k].path # p
    <3>1. k # n
      BY <1>7, <2>4
    <3>2. k \in 1 .. (n - 1)
      BY <1>9, <3>1
    <3>3. CASE \E m \in n .. Len(files) : files[m].path = files[k].path
      <4>1. PICK m \in n .. Len(files) : files[m].path = files[k].path
        BY <3>3
      <4>2. m # n
        BY <1>7, <2>4, <4>1
      <4>3. m \in (n + 1) .. Len(files)
        BY <1>6, <1>9, <4>2
      <4> QED BY <4>1, <4>3
    <3> QED BY <1>4, <3>2, <3>3
  <2> QED BY <2>3, <2>4
<1>13. CASE v = "ok" /\ n < Len(files)
  <2>1. command' = [command EXCEPT !.next = n + 1]
    BY <1>3, <1>7, <1>8, <1>13, Zenon DEF HashNext
  <2>2. /\ command'.verdicts = command.verdicts /\ command'.files = files /\ command'.next = n + 1
        /\ command'.exit = None /\ DOMAIN command' = {"sqlite", "verdicts", "files", "next", "exit"}
    BY <1>1, <1>2, <1>3, <2>1
  <2>3. Pending' = Pending
    BY <1>1, <2>2 DEF Pending, StoreSame
  <2>4. n + 1 \in 1 .. Len(files) /\ (n + 1) - 1 = n
    BY <1>6, <1>9, <1>13
  <2>5. Shape(lockfile, i, files)'
    BY <1>1, <1>4 DEF Shape, StoreSame
  <2>6. Min(Pending)' = i
    BY <1>3, <2>3
  <2>7. ASSUME NEW k \in 1 .. n
        PROVE  \/ \E m \in (n + 1) .. Len(files) : files[m].path = files[k].path
               \/ Holds(i, files[k].path, files[k].digest)'
    <3>1. Holds(i, files[k].path, files[k].digest) => Holds(i, files[k].path, files[k].digest)'
      BY <1>1 DEF Holds, StoreSame
    <3> QED BY <1>12, <1>13, <3>1
  <2>8. Reading'
    BY <1>2, <2>2, <2>3, <2>4, <2>5, <2>6, <2>7 DEF Reading
  <2>9. PICK w : w = command.verdicts
    OBVIOUS
  <2>10. \A j \in DOMAIN w : Justified(j, w[j])
    BY <1>2, <2>9 DEF CommandInv
  <2>11. \A j \in DOMAIN w : Justified(j, w[j])'
    BY <1>1, <2>10, ToldStays
  <2>12. CommandInv'
    BY <1>1, <1>2, <1>5, <2>2, <2>8, <2>9, <2>11 DEF CommandInv, StoreSame
  <2>13. StoreInv'
    BY <1>1, <1>2 DEF CacheInv, StoreInv, StoreSame
  <2> QED BY <2>12, <2>13 DEF CacheInv
<1>14. CASE ~(v = "ok" /\ n < Len(files))
  <2>1. PICK w : w = IF v = "missing" /\ lockfile.kind = "cargo" THEN "unsupported" ELSE v
    OBVIOUS
  <2>2. Settle(w)
    BY <1>3, <1>7, <1>8, <1>14, <2>1, Zenon DEF HashNext
  <2>3. w \in Outcomes
    BY <1>8, <2>1, RehashIs DEF Outcomes
  <2>4. ASSUME w = "ok" PROVE Vouched(i)
    <3>1. v = "ok"
      BY <2>1, <2>4
    <3>2. n = Len(files)
      <4>1. PICK m : m = Len(files) /\ m \in Nat
        BY <1>6
      <4>2. n \in 1 .. m /\ ~(n < m)
        BY <1>4, <1>14, <3>1, <4>1
      <4>3. n = m
        BY <4>1, <4>2
      <4> QED BY <4>1, <4>3
    <3>3. ASSUME NEW k \in DOMAIN files PROVE Holds(i, files[k].path, files[k].digest)
      <4>1. k \in 1 .. n /\ \A m : m \notin (n + 1) .. Len(files)
        BY <1>6, <1>9, <3>2
      <4> QED BY <1>12, <3>1, <4>1
    <3> QED BY <1>4, <3>3 DEF Vouched
  <2>5. ASSUME w = "mismatch" PROVE Blamed(i)
    <3>1. v = "mismatch"
      BY <2>1, <2>5
    <3>2. disk[p] # None /\ disk[p] # d
      BY <1>8, <3>1, RehashIs
    <3>3. p \in swapped
      BY <1>2, <1>11, <3>2, ReplacedIsWrong DEF CacheInv
    <3>4. PICK r \in Registries : <<p, d>> \in Stored(lockfile.kind, lockfile.packages[i], r)
      BY <1>11
    <3>5. PICK f : f = <<p, d>>
      OBVIOUS
    <3>6. f[1] = p
      BY <3>5
    <3> QED BY <3>3, <3>4, <3>5, <3>6 DEF Blamed
  <2>6. Justified(i, w)
    BY <1>5, <2>3, <2>4, <2>5 DEF Justified
  <2> QED BY <1>1, <1>2, <1>3, <2>2, <2>6, SettleStep
<1> QED BY <1>13, <1>14

(* CacheInv is inductive: one case for each action.                          *)
LEMMA CacheStep ==
  ASSUME CacheInv, [CacheNext]_cacheVars
  PROVE  CacheInv'
<1>1. CASE \E l \in Lockfiles : CheckOut(l)
  BY <1>1, CacheCheckOut
<1>2. CASE lockfile # None /\ \E i \in Entries(lockfile), r \in Registries : Fetch(lockfile.packages[i], r)
  BY <1>2, CacheFetch
<1>3. CASE lockfile # None /\ \E p \in Paths : Lose(p)
  BY <1>3, CacheLose
<1>4. CASE lockfile # None /\ \E p \in Paths, c \in Contents \cup {Garbage, Locked} : Swap(p, c)
  BY <1>4, CacheSwap
<1>5. CASE (lockfile # None /\ Migrate) \/ UNCHANGED cacheVars
  <2>1. /\ lockfile' = lockfile /\ disk' = disk /\ swapped' = swapped /\ late' = late /\ command' = command
    BY <1>5 DEF Migrate, cacheVars
  <2>2. StoreInv'
    BY <2>1 DEF CacheInv, StoreInv
  <2>3. ASSUME command # None PROVE CommandInv'
    <3>1. CommandInv
      BY <2>3 DEF CacheInv
    <3>2. \A i, p, c : Holds(i, p, c)' <=> Holds(i, p, c)
      BY <2>1 DEF Holds
    <3>3. \A i : Vouched(i)' <=> Vouched(i)
      BY <2>1, <3>2 DEF Vouched, Shape
    <3>4. \A i : Blamed(i)' <=> Blamed(i)
      BY <2>1 DEF Blamed
    <3>5. \A i \in DOMAIN command.verdicts : Justified(i, command.verdicts[i])'
      BY <2>1, <3>1, <3>3, <3>4 DEF Justified, CommandInv
    <3>6. Pending' = Pending
      BY <2>1 DEF Pending
    <3>7. Reading => Reading'
      BY <2>1, <3>2, <3>6 DEF Reading, Shape
    <3> QED BY <2>1, <3>1, <3>5, <3>7 DEF CommandInv
  <2> QED BY <2>1, <2>2, <2>3 DEF CacheInv
<1>6. CASE lockfile # None /\ BeginVerify
  <2>1. PICK x : x = IF lockfile.kind \notin Kinds \/ ~lockfile.parses THEN 1 ELSE None
    OBVIOUS
  <2>2. command' = [sqlite |-> sqlite, verdicts |-> <<>>, files |-> None, next |-> 1, exit |-> x]
    BY <1>6, <2>1 DEF BeginVerify
  <2>3. /\ command'.verdicts = <<>> /\ command'.files = None /\ command'.exit = x
        /\ DOMAIN command' = {"sqlite", "verdicts", "files", "next", "exit"}
    BY <2>2
  <2>4. lockfile' = lockfile /\ disk' = disk /\ swapped' = swapped
    BY <1>6 DEF BeginVerify
  <2>5. DOMAIN command'.verdicts = {}
    BY <2>3, EmptyHasNoPosition
  <2>6. x = None => lockfile.kind \in Kinds
    BY <2>1, CacheAssumption
  <2>7. StoreInv'
    BY <1>6, <2>4 DEF CacheInv, StoreInv
  <2>8. CommandInv'
    BY <1>6, <2>3, <2>4, <2>5, <2>6 DEF CommandInv
  <2> QED BY <2>7, <2>8 DEF CacheInv
<1>7. CASE lockfile # None /\ Open
  <2>1. lockfile.kind \in Kinds
    BY <1>7 DEF CacheInv, CommandInv, Open, Running
  <2> QED BY <1>7, <2>1, CacheOpen
<1>8. CASE HashNext
  BY <1>8, CacheHash
<1>9. CASE lockfile # None /\ \E strict \in BOOLEAN : End(strict)
  <2>1. PICK strict \in BOOLEAN : End(strict)
    BY <1>9
  <2>2. command # None /\ command.exit = None /\ StoreSame
    BY <2>1 DEF End, Running, StoreStays, StoreSame
  <2>3. CommandInv /\ DOMAIN command = {"sqlite", "verdicts", "files", "next", "exit"}
    BY <2>2 DEF CacheInv, CommandInv
  <2>4. PICK x : x = ExitCode(command.verdicts, strict)
    OBVIOUS
  <2>5. command' = [command EXCEPT !.exit = x]
    BY <2>1, <2>4 DEF End
  <2>6. /\ command'.verdicts = command.verdicts /\ command'.exit = x
        /\ DOMAIN command' = {"sqlite", "verdicts", "files", "next", "exit"}
    BY <2>3, <2>5
  <2>7. x # None
    BY <2>4, CacheAssumption DEF ExitCode
  <2>8. PICK w : w = command.verdicts
    OBVIOUS
  <2>9. \A j \in DOMAIN w : Justified(j, w[j])
    BY <2>3, <2>8 DEF CommandInv
  <2>10. \A j \in DOMAIN w : Justified(j, w[j])'
    BY <2>2, <2>9, ToldStays
  <2>11. CommandInv'
    BY <1>9, <2>2, <2>4, <2>6, <2>7, <2>8, <2>10 DEF CommandInv, StoreSame
  <2>12. StoreInv'
    BY <1>9, <2>2 DEF CacheInv, StoreInv, StoreSame
  <2> QED BY <2>11, <2>12 DEF CacheInv
<1> QED BY <1>1, <1>2, <1>3, <1>4, <1>5, <1>6, <1>7, <1>8, <1>9 DEF CacheNext

(* What the package manager stores of entry i under a path that the command  *)
(* has vouched for is there.                                                 *)
LEMMA VouchedIsThere ==
  ASSUME CacheInv, lockfile # None, NEW i \in Entries(lockfile), Vouched(i), NEW f \in ReadsOf(i)
  PROVE  disk[f[1]] = f[2]
<1>1. PICK e, t : e = lockfile.packages[i] /\ t = Promise(e.integrity)
  OBVIOUS
<1>2. PICK files :
        /\ Shape(lockfile, i, files)
        /\ \A k \in DOMAIN files : Holds(i, files[k].path, files[k].digest)
  BY DEF Vouched
<1>3. /\ t # None /\ lockfile.kind \in Kinds
      /\ lockfile.kind = "npm" => files = << [path |-> NpmPath(t), digest |-> t.digest] >>
      /\ lockfile.kind = "pnpm" => files = Listed(IndexOf(t.digest))
      /\ lockfile.kind = "cargo" => \E r \in Registries : files = << [path |-> CratePath(r, e), digest |-> t.digest] >>
  BY <1>1, <1>2, Zenon DEF Shape
<1>4. lockfile \in Lockfiles
  BY DEF CacheInv, StoreInv
<1>5. t \in Digest
  BY <1>1, <1>3, <1>4, PromiseIsDigest
<1>6. ASSUME NEW p, NEW d, files = << [path |-> p, digest |-> d] >> PROVE Holds(i, p, d)
  <2>1. PICK g : g = [path |-> p, digest |-> d]
    OBVIOUS
  <2>2. g.path = p /\ g.digest = d /\ files = <<g>>
    BY <1>6, <2>1
  <2>3. 1 \in DOMAIN files /\ files[1] = g
    BY <2>2
  <2> QED BY <1>2, <2>2, <2>3
<1>7. CASE lockfile.kind = "npm"
  <2>1. f \in Stored("npm", e, None) /\ <<i, f[1]>> \notin late
    BY <1>1, <1>7 DEF ReadsOf
  <2>2. f = << <<"content", t.algo, t.digest>>, t.digest>>
    BY <1>1, <2>1, StoredNpm
  <2>3. Holds(i, NpmPath(t), t.digest)
    BY <1>3, <1>6, <1>7
  <2> QED BY <2>1, <2>2, <2>3 DEF Holds, NpmPath
<1>8. CASE lockfile.kind = "cargo"
  <2>1. PICK having : having = {r \in Registries : disk[CratePath(r, e)] # None}
    OBVIOUS
  <2>2. /\ \A r \in Registries : <<i, CratePath(r, e)>> \notin late
        /\ \E r \in having : having = {r}
        /\ f \in Stored("cargo", e, CHOOSE r \in having : TRUE)
    BY <1>1, <1>8, <2>1, Zenon DEF ReadsOf
  <2>3. PICK r \in having : having = {r}
    BY <2>2
  <2>4. PICK s \in Registries : files = << [path |-> CratePath(s, e), digest |-> t.digest] >>
    BY <1>3, <1>8
  <2>5. disk[CratePath(s, e)] = t.digest
    BY <1>6, <2>2, <2>4 DEF Holds
  <2>6. t.digest # None
    BY <1>5, CacheAssumption DEF Digest
  <2>7. s = r
    BY <2>1, <2>3, <2>5, <2>6
  <2>8. PICK x : x = CHOOSE q \in having : TRUE
    OBVIOUS
  <2>9. x = r
    BY <2>3, <2>8
  <2>10. f = << <<r, e.name, None>>, t.digest>>
    BY <1>1, <2>2, <2>8, <2>9, StoredCargo
  <2> QED BY <2>5, <2>7, <2>10 DEF CratePath
<1>9. CASE lockfile.kind = "pnpm"
  <2>1. f \in Stored("pnpm", e, None) /\ f[1][1] # "index" /\ <<i, f[1]>> \notin late
    BY <1>1, <1>9 DEF ReadsOf
  <2>2. PICK c : c = t.digest /\ c \in Contents
    BY <1>5 DEF Digest
  <2>3. f \in {<< <<"index", c, None>>, IndexOf(c)>>} \cup {BlobOf(g) : g \in ToSet(Files[c])}
    BY <1>1, <2>1, <2>2, StoredPnpm
  <2>4. PICK g \in ToSet(Files[c]) : f = BlobOf(g)
    BY <2>1, <2>3
  <2>5. PICK j \in DOMAIN Files[c] : g = Files[c][j]
    BY DEF ToSet
  <2>6. PICK q : q = <<IF g.exec THEN "exec" ELSE "blob", g.content, None>>
    OBVIOUS
  <2>7. /\ files = Listed(IndexOf(c)) /\ DOMAIN files = DOMAIN Files[c]
        /\ files[j].path = q /\ files[j].digest = g.content
    BY <1>3, <1>9, <2>2, <2>5, <2>6, ListedIs
  <2>8. Holds(i, q, g.content)
    BY <1>2, <2>7
  <2>9. f = <<q, g.content>>
    BY <2>4, <2>6 DEF BlobOf
  <2> QED BY <2>1, <2>8, <2>9 DEF Holds
<1> QED BY <1>3, <1>7, <1>8, <1>9 DEF Kinds

(* A verdict ok: every file the package manager reads is the one published.  *)
LEMMA InvOk ==
  ASSUME CacheInv
  PROVE  OkIsGenuine
<1>1. SUFFICES ASSUME command # None, NEW i \in DOMAIN command.verdicts, command.verdicts[i] = "ok",
                      NEW f \in ReadsOf(i)
               PROVE  disk[f[1]] = f[2]
  BY DEF OkIsGenuine
<1>2. lockfile # None /\ i \in Entries(lockfile) /\ Vouched(i)
  BY <1>1 DEF CacheInv, CommandInv, Justified
<1> QED BY <1>2, VouchedIsThere

(* A verdict mismatch: some file of the entry was replaced.                  *)
LEMMA InvAlarm ==
  ASSUME CacheInv
  PROVE  NoFalseAlarm
  BY DEF NoFalseAlarm, CacheInv, CommandInv, Justified, Blamed

(* A file that the package manager reads of an entry is one that is stored   *)
(* for it.                                                                   *)
LEMMA ReadIsStored ==
  ASSUME NEW i, NEW f \in ReadsOf(i)
  PROVE  \E r : /\ f \in Stored(lockfile.kind, lockfile.packages[i], r)
                /\ lockfile.kind = "cargo" => r \in Registries
<1>1. CASE lockfile.kind = "cargo"
  <2>1. PICK e, having : e = lockfile.packages[i] /\ having = {r \in Registries : disk[CratePath(r, e)] # None}
    OBVIOUS
  <2>2. /\ \E r \in having : having = {r}
        /\ f \in Stored("cargo", e, CHOOSE r \in having : TRUE)
    BY <1>1, <2>1, Zenon DEF ReadsOf
  <2>3. PICK x : x = CHOOSE q \in having : TRUE
    OBVIOUS
  <2>4. x \in Registries
    BY <2>1, <2>2, <2>3
  <2> QED BY <1>1, <2>1, <2>2, <2>3, <2>4
<1>2. CASE lockfile.kind # "cargo"
  <2>1. f \in Stored(lockfile.kind, lockfile.packages[i], None)
    BY <1>2, Zenon DEF ReadsOf
  <2> QED BY <1>2, <2>1
<1> QED BY <1>1, <1>2

(* Of npm and pnpm the directory does not matter.                            *)
LEMMA StoredAnywhere ==
  ASSUME NEW kind, kind # "cargo", NEW e, NEW r, NEW s
  PROVE  Stored(kind, e, r) = Stored(kind, e, s)
<1>1. PICK t : t = Promise(e.integrity)
  OBVIOUS
<1>2. Stored("npm", e, r) = Stored("npm", e, s)
  BY <1>1, StoredNpm
<1>3. Stored("pnpm", e, r) = Stored("pnpm", e, s)
  BY <1>1, StoredPnpm
<1>4. CASE kind \notin {"npm", "cargo"}
  <2>1. Stored(kind, e, r) = Stored("pnpm", e, r) /\ Stored(kind, e, s) = Stored("pnpm", e, s)
    BY <1>4, StoredOther
  <2> QED BY <1>3, <2>1
<1> QED BY <1>2, <1>4

(* A report with no missing entry and no mismatch: nothing read was          *)
(* replaced.                                                                 *)
LEMMA InvSwap ==
  ASSUME CacheInv
  PROVE  SwapIsReported
<1>1. SUFFICES ASSUME Ended,
                      \A j \in DOMAIN command.verdicts : command.verdicts[j] \notin {"missing", "unsupported"},
                      NEW i \in DOMAIN command.verdicts, Promise(lockfile.packages[i].integrity) # None,
                      NEW f \in ReadsOf(i), f[1] \in swapped
               PROVE  command.exit = 1
  BY DEF SwapIsReported
<1>2. /\ command # None /\ lockfile # None /\ lockfile \in Lockfiles /\ i \in Entries(lockfile)
      /\ command.verdicts[i] \in Outcomes /\ DOMAIN command.verdicts # {}
      /\ \E strict : command.exit = ExitCode(command.verdicts, strict)
  BY <1>1, EmptyHasNoPosition DEF CacheInv, StoreInv, CommandInv, Justified, Ended
<1>3. PICK r0 : /\ f \in Stored(lockfile.kind, lockfile.packages[i], r0)
                /\ lockfile.kind = "cargo" => r0 \in Registries
  BY ReadIsStored
<1>4. PICK r \in Registries : f \in Stored(lockfile.kind, lockfile.packages[i], r)
  <2>1. CASE lockfile.kind = "cargo"
    BY <1>3, <2>1
  <2>2. CASE lockfile.kind # "cargo"
    <3>1. PICK r \in Registries : TRUE
      BY CacheAssumption
    <3>2. PICK kind, e : kind = lockfile.kind /\ e = lockfile.packages[i]
      OBVIOUS
    <3>3. Stored(kind, e, r) = Stored(kind, e, r0)
      BY <2>2, <3>2, StoredAnywhere
    <3> QED BY <1>3, <3>1, <3>2, <3>3
  <2> QED BY <2>1, <2>2
<1>5. \E a, b : f = <<a, b>>
  BY <1>4 DEF Stored
<1>6. PICK p, c : f = <<p, c>> /\ p = f[1] /\ c = f[2]
  BY <1>5
<1>7. Genuine(lockfile, p, c)
  BY <1>1, <1>2, <1>4, <1>6, StoredIsGenuine
<1>8. p \in swapped /\ p \in Paths
  BY <1>1, <1>6 DEF CacheInv, StoreInv
<1>9. disk[p] # c
  BY <1>2, <1>7, <1>8, ReplacedIsWrong DEF CacheInv
<1>10. command.verdicts[i] # "ok"
  BY <1>1, <1>2, <1>6, <1>9, InvOk DEF OkIsGenuine
<1>11. command.verdicts[i] = "mismatch"
  BY <1>1, <1>2, <1>10 DEF Outcomes
<1> QED BY <1>2, <1>11 DEF ExitCode

(* For any lockfiles and contents, whatever is fetched, lost or replaced     *)
(* before, between and after the reads of the command: ok means that what    *)
(* will be read is genuine but for what changed after it was read, a         *)
(* mismatch that a file was replaced, and a file of a complete store that    *)
(* was replaced before it was read fails the run (verify_cache.rs).          *)
THEOREM CacheSafe == CacheSpec => []VerdictsAreTrue
<1>1. CacheInit => CacheInv
  BY CacheInitInv
<1>2. CacheInv /\ [CacheNext]_cacheVars => CacheInv'
  BY CacheStep
<1>3. CacheInv => VerdictsAreTrue
  BY InvOk, InvAlarm, InvSwap DEF VerdictsAreTrue
<1> QED BY <1>1, <1>2, <1>3, PTL DEF CacheSpec
=============================================================================
