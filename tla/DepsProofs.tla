----------------------------- MODULE DepsProofs -----------------------------
(* Proofs about the lockfiles of a project: DepsWatch for any lockfiles,     *)
(* registry and cache, and ExoticSources for any tree; and about InstallGate *)
(* for rc files of any length and content.                                   *)
EXTENDS DepsWatch, ExoticSources, InstallGate, FiniteSetTheorems, SequenceTheorems,
        WellFoundedInduction, NaturalsInduction, TLAPS

-----------------------------------------------------------------------------
(* The inductive invariant.                                                  *)

\* The dates of some packages, as the registry has them.
TrueDates == {[k \in ks |-> Published[k]] : ks \in SUBSET DOMAIN Published}

Files ==
  /\ disk \in [Lockfiles -> Contents] /\ fate \in [Lockfiles -> Fates]
  /\ pending \in [Lockfiles -> {Idle} \cup 0 .. Window]
  /\ found \subseteq Lockfiles /\ inbox \subseteq Lockfiles /\ settled \subseteq Lockfiles
Numbers ==
  /\ action \in {"notify", "prompt", "revert"} /\ stage \in Stages /\ now \in Nat
  /\ writes \in Nat /\ faults \in Nat /\ checks \in Nat
Dated ==
  /\ dates \in TrueDates \cup {Torn}
  /\ job \in [path : Lockfiles, content : Contents, at : Nat, dates : TrueDates]
  /\ cli \in [stage : {"off", "lookup", "truncate", "write", "done"},
              wanted : SUBSET Packages, at : Nat, dates : TrueDates, exit : {0, 1}]
Shapes == Files /\ Numbers /\ Dated

\* The watcher starts with empty hands, and polls only when all that has
\* settled is handled.
Fresh ==
  /\ stage \in {"scan", "subscribe", "poll"} => settled = {}
  /\ stage = "scan" => \A l \in Hidden : fate[l] # "unread"

\* While a lockfile is being checked it is what was read, unless it has an
\* unread change.
InCheck == {"lookup", "truncate", "write", "handle", "notify"}
Checking ==
  stage \in InCheck =>
    /\ job.content \in Locks /\ job.at <= now
    /\ fate[job.path] = "checking" => disk[job.path] = job.content

\* An exit code of 0 is given only if nothing is too young.
CliPassed ==
  cli.stage \in {"truncate", "write", "done"} /\ cli.exit = 0 =>
    Violations(cli.wanted, cli.dates, cli.at) = {}

IInv == Shapes /\ Fresh /\ OnItsWay /\ Checking /\ CleanIsOld /\ CliPassed

-----------------------------------------------------------------------------
(* Dates and verdicts.                                                       *)

LEMMA PublishedFacts ==
  /\ DOMAIN Published \subseteq Packages
  /\ \A p \in DOMAIN Published : Published[p] \in Nat
  /\ MinAge \in Nat
<1>1. DOMAIN Published \subseteq Packages
  BY DEF Published
<1> QED
  BY <1>1, CheckAssumption

LEMMA NotTorn == Torn \notin TrueDates
<1> SUFFICES ASSUME NEW ks \in SUBSET DOMAIN Published, Torn = [k \in ks |-> Published[k]]
             PROVE  FALSE
  BY DEF TrueDates
<1>1. [k \in ks |-> Published[k]] \in [ks -> Nat] /\ ks \in SUBSET Packages
  BY PublishedFacts
<1> QED
  BY <1>1, WatchAssumption

LEMMA NoDatesTrue == NoDates \in TrueDates
<1>1. NoDates = [k \in {} |-> Published[k]]
  BY DEF NoDates
<1> QED
  BY <1>1 DEF TrueDates

\* Whether a cache tells the truth can be seen from its values.
LEMMA TrueMeans ==
  ASSUME NEW cache \in TrueDates
  PROVE  /\ DOMAIN cache \subseteq DOMAIN Published
         /\ \A k \in DOMAIN cache : cache[k] = Published[k]
BY DEF TrueDates

\* What the lookups add is what the registry tells.
LEMMA AnswersTrue ==
  ASSUME NEW wanted, NEW cache \in TrueDates, NEW unknown
  PROVE  WithAnswers(wanted, cache, unknown) \in TrueDates
<1> DEFINE asked == ((wanted \cap DOMAIN Published) \ Hits(wanted, cache)) \ unknown
           ks == DOMAIN cache \cup asked
<1>1. ks \in SUBSET DOMAIN Published
  BY TrueMeans
<1>2. {KeyOf(p) : p \in asked} = asked
  BY DEF KeyOf
<1>3. ASSUME NEW k \in ks
      PROVE  (IF k \in DOMAIN cache THEN cache[k]
              ELSE Published[CHOOSE p \in asked : KeyOf(p) = k]) = Published[k]
  <2>1. CASE k \in DOMAIN cache
    BY <2>1, TrueMeans
  <2>2. CASE k \notin DOMAIN cache
    <3>1. k \in asked /\ \A p : KeyOf(p) = p
      BY <2>2 DEF KeyOf
    <3>2. (CHOOSE p \in asked : KeyOf(p) = k) = k
      <4> HIDE DEF asked
      <4> QED
        BY <3>1
    <3> QED
      BY <2>2, <3>2
  <2> QED
    BY <2>1, <2>2
<1>4. WithAnswers(wanted, cache, unknown) =
        [k \in ks |-> IF k \in DOMAIN cache THEN cache[k]
                      ELSE Published[CHOOSE p \in asked : KeyOf(p) = k]]
  BY <1>2 DEF WithAnswers
<1>5. WithAnswers(wanted, cache, unknown) = [k \in ks |-> Published[k]]
  <2> HIDE DEF asked, ks
  <2> QED
    BY <1>3, <1>4
<1> QED
  BY <1>1, <1>5 DEF TrueDates

\* Without a violation what has a date is old, and stays so.
LEMMA Judgement ==
  ASSUME NEW wanted, NEW cache \in TrueDates, NEW at \in Nat, NEW later \in Nat,
         at <= later, Violations(wanted, cache, at) = {}
  PROVE  \A p \in Hits(wanted, cache) :
           p \in DOMAIN Published /\ later - Published[p] >= MinAge
<1> SUFFICES ASSUME NEW p \in Hits(wanted, cache)
             PROVE  p \in DOMAIN Published /\ later - Published[p] >= MinAge
  OBVIOUS
<1>1. p \in DOMAIN cache
  BY DEF Hits, KeyOf
<1>2. p \in DOMAIN Published /\ cache[p] = Published[p] /\ Published[p] \in Nat
  BY <1>1, TrueMeans, PublishedFacts
<1>3. ~(at - cache[p] < MinAge)
  BY DEF Violations, TooYoung, KeyOf
<1> QED
  BY <1>2, <1>3, PublishedFacts

\* If nothing is unanswered either, that is all there is in the lock.
LEMMA CleanLock ==
  ASSUME NEW c \in Locks, NEW cache \in TrueDates, NEW at \in Nat, NEW later \in Nat,
         at <= later, Violations(WantedIn[c], cache, at) = {},
         Unanswered(WantedIn[c], cache) = {}
  PROVE  \A p \in WantedIn[c] : p \in DOMAIN Published /\ later - Published[p] >= MinAge
<1>1. WantedIn[c] \subseteq Hits(WantedIn[c], cache)
  BY DEF Unanswered
<1> QED
  BY <1>1, Judgement

LEMMA WantedPackages ==
  ASSUME NEW c \in Locks
  PROVE  WantedIn[c] \subseteq Packages
BY WatchAssumption DEF WantedIn, Wanted

LEMMA OpenedTrue == Dated => Opened \in TrueDates
BY NoDatesTrue DEF Dated, Opened

-----------------------------------------------------------------------------
LEMMA StepCases ==
  ASSUME [Next]_vars
  PROVE  \/ Scan \/ Subscribe \/ Poll \/ EndTick \/ StartCheck \/ CheckFails \/ Lookup
         \/ Truncate \/ Save \/ SaveFails \/ Revert \/ LeaveAsIs \/ Notify \/ NotifyFails
         \/ CliStart \/ CliLookup \/ CliTruncate \/ CliSave \/ CliSaveFails
         \/ PackageManager \/ Age \/ Tick \/ Overflow \/ SubscribeFails \/ Restart
         \/ UNCHANGED vars
BY DEF Next, Watcher, Cli

LEMMA FilesNext == Files /\ Numbers /\ Dated /\ [Next]_vars => Files'
<1> SUFFICES ASSUME Files, Numbers, Dated, [Next]_vars
             PROVE  Files'
  OBVIOUS
<1> USE DEF Files, Contents, Open, Told, Fates, Idle, Dated
<1>1. CASE Scan
  BY <1>1, WatchAssumption DEF Scan
<1>2. CASE Subscribe
  BY <1>2, WatchAssumption DEF Subscribe
<1>3. CASE Poll
  BY <1>3, WatchAssumption DEF Poll, Touched, Drained, Fault
<1>4. CASE EndTick
  BY <1>4, WatchAssumption DEF EndTick
<1>5. CASE StartCheck
  BY <1>5, WatchAssumption DEF StartCheck
<1>6. CASE CheckFails
  BY <1>6, WatchAssumption DEF CheckFails, Forget, Fault
<1>7. CASE Lookup
  BY <1>7, WatchAssumption DEF Lookup, Judged, Verdict, Fault
<1>8. CASE Truncate
  BY <1>8, WatchAssumption DEF Truncate
<1>9. CASE Save
  BY <1>9, WatchAssumption DEF Save, Judged, Verdict
<1>10. CASE SaveFails
  BY <1>10, WatchAssumption DEF SaveFails, Forget, Fault
<1>11. CASE Revert
  BY <1>11, WatchAssumption DEF Revert, Changed
<1>12. CASE LeaveAsIs
  BY <1>12, WatchAssumption DEF LeaveAsIs
<1>13. CASE Notify
  BY <1>13, WatchAssumption DEF Notify, Verdict
<1>14. CASE NotifyFails
  BY <1>14, WatchAssumption DEF NotifyFails, Forget, Fault
<1>15. CASE CliStart
  BY <1>15, WatchAssumption DEF CliStart
<1>16. CASE CliLookup
  BY <1>16, WatchAssumption DEF CliLookup, Fault
<1>17. CASE CliTruncate
  BY <1>17, WatchAssumption DEF CliTruncate
<1>18. CASE CliSave
  BY <1>18, WatchAssumption DEF CliSave
<1>19. CASE CliSaveFails
  BY <1>19, WatchAssumption DEF CliSaveFails, Fault
<1>20. CASE PackageManager
  BY <1>20, WatchAssumption DEF PackageManager, Write, Changed
<1>21. CASE Age
  BY <1>21, WatchAssumption DEF Age
<1>22. CASE Tick
  BY <1>22, WatchAssumption DEF Tick
<1>23. CASE Overflow
  BY <1>23, WatchAssumption DEF Overflow, Fault
<1>24. CASE SubscribeFails
  BY <1>24, WatchAssumption DEF SubscribeFails, Fault
<1>25. CASE Restart
  BY <1>25, WatchAssumption DEF Restart, Fault
<1>26. CASE UNCHANGED vars
  BY <1>26, WatchAssumption DEF vars
<1> HIDE DEF Files, Contents, Open, Told, Fates, Idle, Dated
<1> QED
  BY <1>1, <1>2, <1>3, <1>4, <1>5, <1>6, <1>7, <1>8, <1>9, <1>10, <1>11, <1>12,
     <1>13, <1>14, <1>15, <1>16, <1>17, <1>18, <1>19, <1>20, <1>21, <1>22, <1>23, <1>24,
     <1>25, <1>26, StepCases

LEMMA NumbersNext == Files /\ Numbers /\ [Next]_vars => Numbers'
<1> SUFFICES ASSUME Files, Numbers, [Next]_vars
             PROVE  Numbers'
  OBVIOUS
<1> USE DEF Numbers, Stages
<1>1. CASE Scan
  BY <1>1, WatchAssumption DEF Scan
<1>2. CASE Subscribe
  BY <1>2, WatchAssumption DEF Subscribe
<1>3. CASE Poll
  BY <1>3, WatchAssumption DEF Poll, Touched, Drained, Fault
<1>4. CASE EndTick
  BY <1>4, WatchAssumption DEF EndTick
<1>5. CASE StartCheck
  BY <1>5, WatchAssumption DEF StartCheck
<1>6. CASE CheckFails
  BY <1>6, WatchAssumption DEF CheckFails, Forget, Fault
<1>7. CASE Lookup
  BY <1>7, WatchAssumption DEF Lookup, Judged, Verdict, Fault
<1>8. CASE Truncate
  BY <1>8, WatchAssumption DEF Truncate
<1>9. CASE Save
  BY <1>9, WatchAssumption DEF Save, Judged, Verdict
<1>10. CASE SaveFails
  BY <1>10, WatchAssumption DEF SaveFails, Forget, Fault
<1>11. CASE Revert
  BY <1>11, WatchAssumption DEF Revert, Changed
<1>12. CASE LeaveAsIs
  BY <1>12, WatchAssumption DEF LeaveAsIs
<1>13. CASE Notify
  BY <1>13, WatchAssumption DEF Notify, Verdict
<1>14. CASE NotifyFails
  BY <1>14, WatchAssumption DEF NotifyFails, Forget, Fault
<1>15. CASE CliStart
  BY <1>15, WatchAssumption DEF CliStart
<1>16. CASE CliLookup
  BY <1>16, WatchAssumption DEF CliLookup, Fault
<1>17. CASE CliTruncate
  BY <1>17, WatchAssumption DEF CliTruncate
<1>18. CASE CliSave
  BY <1>18, WatchAssumption DEF CliSave
<1>19. CASE CliSaveFails
  BY <1>19, WatchAssumption DEF CliSaveFails, Fault
<1>20. CASE PackageManager
  BY <1>20, WatchAssumption DEF PackageManager, Write, Changed
<1>21. CASE Age
  BY <1>21, WatchAssumption DEF Age
<1>22. CASE Tick
  BY <1>22, WatchAssumption DEF Tick
<1>23. CASE Overflow
  BY <1>23, WatchAssumption DEF Overflow, Fault
<1>24. CASE SubscribeFails
  BY <1>24, WatchAssumption DEF SubscribeFails, Fault
<1>25. CASE Restart
  BY <1>25, WatchAssumption DEF Restart, Fault
<1>26. CASE UNCHANGED vars
  BY <1>26, WatchAssumption DEF vars
<1> HIDE DEF Numbers, Stages
<1> QED
  BY <1>1, <1>2, <1>3, <1>4, <1>5, <1>6, <1>7, <1>8, <1>9, <1>10, <1>11, <1>12,
     <1>13, <1>14, <1>15, <1>16, <1>17, <1>18, <1>19, <1>20, <1>21, <1>22, <1>23, <1>24,
     <1>25, <1>26, StepCases

LEMMA DatedNext == Files /\ Numbers /\ Dated /\ [Next]_vars => Dated'
<1> SUFFICES ASSUME Files, Numbers, Dated, [Next]_vars
             PROVE  Dated'
  OBVIOUS
<1> USE DEF Dated
<1>1. CASE Scan \/ Subscribe \/ Poll \/ EndTick \/ CheckFails \/ SaveFails \/ Revert \/
           LeaveAsIs \/ Notify \/ NotifyFails \/ PackageManager \/ Age \/ Tick \/
           Overflow \/ SubscribeFails \/ Restart
  BY <1>1 DEF Scan, Subscribe, Poll, EndTick, CheckFails, SaveFails, Revert, LeaveAsIs,
              Notify, NotifyFails, PackageManager, Age, Tick, Overflow, SubscribeFails,
              Restart, Touched, Drained, Fault, Forget, Fault, Forget, Fault, Changed,
              Verdict, Forget, Fault, Write, Changed, Fault, Fault, Fault
<1>2. CASE StartCheck
  <2>1. PICK l \in settled : /\ disk[l] \in Locks
                            /\ job' = [path |-> l, content |-> disk[l], at |-> now,
                                       dates |-> Opened]
    BY <1>2 DEF StartCheck
  <2>2. Opened \in TrueDates /\ l \in Lockfiles /\ disk[l] \in Contents /\ now \in Nat
    BY <2>1, OpenedTrue DEF Files, Numbers, Contents
  <2> QED
    BY <1>2, <2>1, <2>2 DEF StartCheck
<1>3. CASE Lookup
  <2>1. PICK unknown : job' = [job EXCEPT !.dates =
                                WithAnswers(WantedIn[job.content], job.dates, unknown)]
    BY <1>3 DEF Lookup
  <2>2. WithAnswers(WantedIn[job.content], job.dates, unknown) \in TrueDates
    BY AnswersTrue
  <2> QED
    BY <1>3, <2>1, <2>2 DEF Lookup
<1>4. CASE Truncate
  BY <1>4 DEF Truncate
<1>5. CASE Save
  <2>1. dates' \in {job.dates, Torn}
    BY <1>5 DEF Save, Overwritten
  <2> QED
    BY <1>5, <2>1 DEF Save
<1>6. CASE CliStart
  <2>1. PICK ls \in SUBSET Lockfiles :
          cli' = IF \A l \in ls : disk[l] \in Locks
                 THEN [stage |-> "lookup", wanted |-> UNION {WantedIn[disk[l]] : l \in ls},
                       at |-> now, dates |-> Opened, exit |-> 0]
                 ELSE [CliOff EXCEPT !.stage = "done", !.exit = 1]
    BY <1>6 DEF CliStart
  <2>2. CASE \A l \in ls : disk[l] \in Locks
    <3>1. UNION {WantedIn[disk[l]] : l \in ls} \subseteq Packages
      BY <2>2, WantedPackages
    <3>2. Opened \in TrueDates /\ now \in Nat
      BY OpenedTrue DEF Numbers
    <3> QED
      BY <1>6, <2>1, <2>2, <3>1, <3>2 DEF CliStart
  <2>3. CASE ~ \A l \in ls : disk[l] \in Locks
    BY <1>6, <2>1, <2>3, NoDatesTrue DEF CliStart, CliOff
  <2> QED
    BY <2>2, <2>3
<1>7. CASE CliLookup
  <2>1. PICK unknown \in SUBSET (cli.wanted \ Hits(cli.wanted, cli.dates)), strict \in BOOLEAN :
          LET known == WithAnswers(cli.wanted, cli.dates, unknown)
          IN cli' = [cli EXCEPT !.dates = known,
                                !.exit = ExitCode(cli.wanted, known, cli.at, strict),
                                !.stage = IF known = cli.dates THEN "done" ELSE "truncate"]
    BY <1>7, Zenon DEF CliLookup
  <2>2. WithAnswers(cli.wanted, cli.dates, unknown) \in TrueDates
    BY AnswersTrue
  <2>3. ExitCode(cli.wanted, WithAnswers(cli.wanted, cli.dates, unknown), cli.at, strict) \in {0, 1}
    BY DEF ExitCode
  <2> QED
    BY <1>7, <2>1, <2>2, <2>3 DEF CliLookup
<1>8. CASE CliTruncate
  BY <1>8 DEF CliTruncate
<1>9. CASE CliSave
  <2>1. dates' \in {cli.dates, Torn}
    BY <1>9 DEF CliSave, Overwritten
  <2> QED
    BY <1>9, <2>1 DEF CliSave
<1>10. CASE CliSaveFails
  BY <1>10 DEF CliSaveFails, Fault
<1>11. CASE UNCHANGED vars
  BY <1>11 DEF vars
<1> HIDE DEF Dated
<1> QED
  BY <1>1, <1>2, <1>3, <1>4, <1>5, <1>6, <1>7, <1>8, <1>9, <1>10, <1>11, StepCases

LEMMA FreshNext == Shapes /\ Fresh /\ [Next]_vars => Fresh'
<1> SUFFICES ASSUME Shapes, Fresh, [Next]_vars
             PROVE  Fresh'
  OBVIOUS
<1> USE DEF Fresh, Shapes, Files, Subscribed
<1>1. CASE Scan
  BY <1>1, WatchAssumption DEF Scan
<1>2. CASE Subscribe
  BY <1>2, WatchAssumption DEF Subscribe
<1>3. CASE Poll
  BY <1>3, WatchAssumption DEF Poll, Touched, Drained, Fault
<1>4. CASE EndTick
  BY <1>4, WatchAssumption DEF EndTick
<1>5. CASE StartCheck
  BY <1>5, WatchAssumption DEF StartCheck
<1>6. CASE CheckFails
  BY <1>6, WatchAssumption DEF CheckFails, Forget, Fault
<1>7. CASE Lookup
  BY <1>7, WatchAssumption DEF Lookup, Judged, Verdict, Fault
<1>8. CASE Truncate
  BY <1>8, WatchAssumption DEF Truncate
<1>9. CASE Save
  BY <1>9, WatchAssumption DEF Save, Judged, Verdict
<1>10. CASE SaveFails
  BY <1>10, WatchAssumption DEF SaveFails, Forget, Fault
<1>11. CASE Revert
  BY <1>11, WatchAssumption DEF Revert, Changed
<1>12. CASE LeaveAsIs
  BY <1>12, WatchAssumption DEF LeaveAsIs
<1>13. CASE Notify
  BY <1>13, WatchAssumption DEF Notify, Verdict
<1>14. CASE NotifyFails
  BY <1>14, WatchAssumption DEF NotifyFails, Forget, Fault
<1>15. CASE CliStart
  BY <1>15, WatchAssumption DEF CliStart
<1>16. CASE CliLookup
  BY <1>16, WatchAssumption DEF CliLookup, Fault
<1>17. CASE CliTruncate
  BY <1>17, WatchAssumption DEF CliTruncate
<1>18. CASE CliSave
  BY <1>18, WatchAssumption DEF CliSave
<1>19. CASE CliSaveFails
  BY <1>19, WatchAssumption DEF CliSaveFails, Fault
<1>20. CASE PackageManager
  BY <1>20, WatchAssumption DEF PackageManager, Write, Changed
<1>21. CASE Age
  BY <1>21, WatchAssumption DEF Age
<1>22. CASE Tick
  BY <1>22, WatchAssumption DEF Tick
<1>23. CASE Overflow
  BY <1>23, WatchAssumption DEF Overflow, Fault
<1>24. CASE SubscribeFails
  BY <1>24, WatchAssumption DEF SubscribeFails, Fault
<1>25. CASE Restart
  BY <1>25, WatchAssumption DEF Restart, Fault
<1>26. CASE UNCHANGED vars
  BY <1>26, WatchAssumption DEF vars
<1> HIDE DEF Fresh, Shapes, Files, Subscribed
<1> QED
  BY <1>1, <1>2, <1>3, <1>4, <1>5, <1>6, <1>7, <1>8, <1>9, <1>10, <1>11, <1>12,
     <1>13, <1>14, <1>15, <1>16, <1>17, <1>18, <1>19, <1>20, <1>21, <1>22, <1>23, <1>24,
     <1>25, <1>26, StepCases

LEMMA OnItsWayNext == Shapes /\ Fresh /\ OnItsWay /\ [Next]_vars => OnItsWay'
<1> SUFFICES ASSUME Shapes, Fresh, OnItsWay, [Next]_vars
             PROVE  OnItsWay'
  OBVIOUS
<1> USE DEF OnItsWay, Fresh, Shapes, Files, Subscribed, Open, Told, Fates, Idle
<1>1. CASE Scan
  BY <1>1, WatchAssumption DEF Scan
<1>2. CASE Subscribe
  BY <1>2, WatchAssumption DEF Subscribe
<1>3. CASE Poll
  BY <1>3, WatchAssumption DEF Poll, Touched, Drained, Fault
<1>4. CASE EndTick
  BY <1>4, WatchAssumption DEF EndTick
<1>5. CASE StartCheck
  BY <1>5, WatchAssumption DEF StartCheck
<1>6. CASE CheckFails
  BY <1>6, WatchAssumption DEF CheckFails, Forget, Fault
<1>7. CASE Lookup
  BY <1>7, WatchAssumption DEF Lookup, Judged, Verdict, Fault
<1>8. CASE Truncate
  BY <1>8, WatchAssumption DEF Truncate
<1>9. CASE Save
  BY <1>9, WatchAssumption DEF Save, Judged, Verdict
<1>10. CASE SaveFails
  BY <1>10, WatchAssumption DEF SaveFails, Forget, Fault
<1>11. CASE Revert
  BY <1>11, WatchAssumption DEF Revert, Changed
<1>12. CASE LeaveAsIs
  BY <1>12, WatchAssumption DEF LeaveAsIs
<1>13. CASE Notify
  BY <1>13, WatchAssumption DEF Notify, Verdict
<1>14. CASE NotifyFails
  BY <1>14, WatchAssumption DEF NotifyFails, Forget, Fault
<1>15. CASE CliStart
  BY <1>15, WatchAssumption DEF CliStart
<1>16. CASE CliLookup
  BY <1>16, WatchAssumption DEF CliLookup, Fault
<1>17. CASE CliTruncate
  BY <1>17, WatchAssumption DEF CliTruncate
<1>18. CASE CliSave
  BY <1>18, WatchAssumption DEF CliSave
<1>19. CASE CliSaveFails
  BY <1>19, WatchAssumption DEF CliSaveFails, Fault
<1>20. CASE PackageManager
  BY <1>20, WatchAssumption DEF PackageManager, Write, Changed
<1>21. CASE Age
  BY <1>21, WatchAssumption DEF Age
<1>22. CASE Tick
  BY <1>22, WatchAssumption DEF Tick
<1>23. CASE Overflow
  BY <1>23, WatchAssumption DEF Overflow, Fault
<1>24. CASE SubscribeFails
  BY <1>24, WatchAssumption DEF SubscribeFails, Fault
<1>25. CASE Restart
  BY <1>25, WatchAssumption DEF Restart, Fault
<1>26. CASE UNCHANGED vars
  BY <1>26, WatchAssumption DEF vars
<1> HIDE DEF OnItsWay, Fresh, Shapes, Files, Subscribed, Open, Told, Fates, Idle
<1> QED
  BY <1>1, <1>2, <1>3, <1>4, <1>5, <1>6, <1>7, <1>8, <1>9, <1>10, <1>11, <1>12,
     <1>13, <1>14, <1>15, <1>16, <1>17, <1>18, <1>19, <1>20, <1>21, <1>22, <1>23, <1>24,
     <1>25, <1>26, StepCases

LEMMA CheckingNext == Shapes /\ Checking /\ [Next]_vars => Checking'
<1> SUFFICES ASSUME Shapes, Checking, [Next]_vars
             PROVE  Checking'
  OBVIOUS
<1> USE DEF Checking, InCheck, Shapes, Files, Numbers, Open
<1>1. CASE Scan
  BY <1>1, WatchAssumption DEF Scan
<1>2. CASE Subscribe
  BY <1>2, WatchAssumption DEF Subscribe
<1>3. CASE Poll
  BY <1>3, WatchAssumption DEF Poll, Touched, Drained, Fault
<1>4. CASE EndTick
  BY <1>4, WatchAssumption DEF EndTick
<1>5. CASE StartCheck
  BY <1>5, WatchAssumption DEF StartCheck
<1>6. CASE CheckFails
  BY <1>6, WatchAssumption DEF CheckFails, Forget, Fault
<1>7. CASE Lookup
  BY <1>7, WatchAssumption DEF Lookup, Judged, Verdict, Fault
<1>8. CASE Truncate
  BY <1>8, WatchAssumption DEF Truncate
<1>9. CASE Save
  BY <1>9, WatchAssumption DEF Save, Judged, Verdict
<1>10. CASE SaveFails
  BY <1>10, WatchAssumption DEF SaveFails, Forget, Fault
<1>11. CASE Revert
  BY <1>11, WatchAssumption DEF Revert, Changed
<1>12. CASE LeaveAsIs
  BY <1>12, WatchAssumption DEF LeaveAsIs
<1>13. CASE Notify
  BY <1>13, WatchAssumption DEF Notify, Verdict
<1>14. CASE NotifyFails
  BY <1>14, WatchAssumption DEF NotifyFails, Forget, Fault
<1>15. CASE CliStart
  BY <1>15, WatchAssumption DEF CliStart
<1>16. CASE CliLookup
  BY <1>16, WatchAssumption DEF CliLookup, Fault
<1>17. CASE CliTruncate
  BY <1>17, WatchAssumption DEF CliTruncate
<1>18. CASE CliSave
  BY <1>18, WatchAssumption DEF CliSave
<1>19. CASE CliSaveFails
  BY <1>19, WatchAssumption DEF CliSaveFails, Fault
<1>20. CASE PackageManager
  BY <1>20, WatchAssumption DEF PackageManager, Write, Changed
<1>21. CASE Age
  <2>1. job.at \in Nat /\ now \in Nat
    BY DEF Dated
  <2>2. now' = now + 1 /\ UNCHANGED <<disk, stage, job, fate>>
    BY <1>21 DEF Age
  <2>3. job.at <= now => job.at <= now'
    BY <2>1, <2>2
  <2> QED
    BY <2>2, <2>3
<1>22. CASE Tick
  BY <1>22, WatchAssumption DEF Tick
<1>23. CASE Overflow
  <2>1. job.path \in Lockfiles
    BY DEF Dated
  <2>2. fate'[job.path] = "checking" => fate[job.path] = "checking"
    BY <1>23, <2>1 DEF Overflow
  <2> QED
    BY <1>23, <2>2 DEF Overflow
<1>24. CASE SubscribeFails
  BY <1>24, WatchAssumption DEF SubscribeFails, Fault
<1>25. CASE Restart
  BY <1>25, WatchAssumption DEF Restart, Fault
<1>26. CASE UNCHANGED vars
  BY <1>26, WatchAssumption DEF vars
<1> HIDE DEF Checking, InCheck, Shapes, Files, Numbers, Open
<1> QED
  BY <1>1, <1>2, <1>3, <1>4, <1>5, <1>6, <1>7, <1>8, <1>9, <1>10, <1>11, <1>12,
     <1>13, <1>14, <1>15, <1>16, <1>17, <1>18, <1>19, <1>20, <1>21, <1>22, <1>23, <1>24,
     <1>25, <1>26, StepCases

LEMMA CleanIsOldNext == Shapes /\ Checking /\ CleanIsOld /\ [Next]_vars => CleanIsOld'
<1> SUFFICES ASSUME Shapes, Checking, CleanIsOld, [Next]_vars
             PROVE  CleanIsOld'
  OBVIOUS
<1> USE DEF Shapes
<1>1. CASE Scan
  BY <1>1 DEF Scan, CleanIsOld, Files, Open
<1>2. CASE Subscribe
  BY <1>2 DEF Subscribe, CleanIsOld, Files, Open
<1>3. CASE Poll
  BY <1>3 DEF Poll, Touched, Drained, Fault, CleanIsOld, Files, Open
<1>4. CASE EndTick
  BY <1>4 DEF EndTick, CleanIsOld, Files, Open
<1>5. CASE StartCheck
  BY <1>5 DEF StartCheck, CleanIsOld, Files, Open
<1>6. CASE CheckFails
  BY <1>6 DEF CheckFails, Forget, Fault, CleanIsOld, Files, Open
<1>7. CASE Lookup
  <2>1. PICK known \in TrueDates :
          /\ Judged(known) \/ UNCHANGED fate
          /\ UNCHANGED <<disk, now>>
    <3>1. PICK unknown :
           LET known == WithAnswers(WantedIn[job.content], job.dates, unknown) IN
             IF known = job.dates THEN Judged(known) ELSE UNCHANGED fate
      BY <1>7 DEF Lookup
    <3>2. WithAnswers(WantedIn[job.content], job.dates, unknown) \in TrueDates
      BY AnswersTrue DEF Dated
    <3> QED
      BY <1>7, <3>1, <3>2 DEF Lookup
  <2>2. CASE UNCHANGED fate
    BY <2>1, <2>2 DEF CleanIsOld
  <2>3. CASE Verdict(job.path, "clean") /\ Violations(WantedIn[job.content], known, job.at) = {}
                /\ Unanswered(WantedIn[job.content], known) = {}
    <3>1. job.content \in Locks /\ job.at \in Nat /\ now \in Nat /\ job.at <= now
      BY <1>7 DEF Checking, InCheck, Lookup, Numbers, Dated
    <3>2. \A p \in WantedIn[job.content] :
            p \in DOMAIN Published /\ now - Published[p] >= MinAge
      BY <2>1, <2>3, <3>1, CleanLock
    <3>3. fate[job.path] = "checking" => disk[job.path] = job.content
      BY <1>7 DEF Checking, InCheck, Lookup
    <3> QED
      BY <2>1, <2>3, <3>1, <3>2, <3>3 DEF CleanIsOld, Verdict, Files
  <2>4. CASE Verdict(job.path, "unanswered")
    BY <2>1, <2>4 DEF CleanIsOld, Verdict, Files
  <2> QED
    BY <2>1, <2>2, <2>3, <2>4 DEF Judged
<1>8. CASE Truncate
  BY <1>8 DEF Truncate, CleanIsOld, Files, Open
<1>9. CASE Save
  <2>1. PICK known \in TrueDates :
          /\ Judged(known) \/ UNCHANGED fate
          /\ UNCHANGED <<disk, now>>
    BY <1>9 DEF Save, Dated
  <2>2. CASE UNCHANGED fate
    BY <2>1, <2>2 DEF CleanIsOld
  <2>3. CASE Verdict(job.path, "clean") /\ Violations(WantedIn[job.content], known, job.at) = {}
                /\ Unanswered(WantedIn[job.content], known) = {}
    <3>1. job.content \in Locks /\ job.at \in Nat /\ now \in Nat /\ job.at <= now
      BY <1>9 DEF Checking, InCheck, Save, Numbers, Dated
    <3>2. \A p \in WantedIn[job.content] :
            p \in DOMAIN Published /\ now - Published[p] >= MinAge
      BY <2>1, <2>3, <3>1, CleanLock
    <3>3. fate[job.path] = "checking" => disk[job.path] = job.content
      BY <1>9 DEF Checking, InCheck, Save
    <3> QED
      BY <2>1, <2>3, <3>1, <3>2, <3>3 DEF CleanIsOld, Verdict, Files
  <2>4. CASE Verdict(job.path, "unanswered")
    BY <2>1, <2>4 DEF CleanIsOld, Verdict, Files
  <2> QED
    BY <2>1, <2>2, <2>3, <2>4 DEF Judged
<1>10. CASE SaveFails
  BY <1>10 DEF SaveFails, Forget, Fault, CleanIsOld, Files, Open
<1>11. CASE Revert
  BY <1>11 DEF Revert, Changed, CleanIsOld, Files, Open
<1>12. CASE LeaveAsIs
  BY <1>12 DEF LeaveAsIs, CleanIsOld, Files, Open
<1>13. CASE Notify
  BY <1>13 DEF Notify, Verdict, CleanIsOld, Files, Open
<1>14. CASE NotifyFails
  BY <1>14 DEF NotifyFails, Forget, Fault, CleanIsOld, Files, Open
<1>15. CASE CliStart
  BY <1>15 DEF CliStart, CleanIsOld, Files, Open
<1>16. CASE CliLookup
  BY <1>16 DEF CliLookup, Fault, CleanIsOld, Files, Open
<1>17. CASE CliTruncate
  BY <1>17 DEF CliTruncate, CleanIsOld, Files, Open
<1>18. CASE CliSave
  BY <1>18 DEF CliSave, CleanIsOld, Files, Open
<1>19. CASE CliSaveFails
  BY <1>19 DEF CliSaveFails, Fault, CleanIsOld, Files, Open
<1>20. CASE PackageManager
  BY <1>20 DEF PackageManager, Write, Changed, CleanIsOld, Files, Open
<1>21. CASE Age
  <2>1. now \in Nat /\ now' = now + 1 /\ UNCHANGED <<disk, fate>>
    BY <1>21 DEF Age, Numbers
  <2>2. \A p \in DOMAIN Published : now - Published[p] >= MinAge => now' - Published[p] >= MinAge
    BY <2>1, PublishedFacts
  <2> QED
    BY <2>1, <2>2 DEF CleanIsOld
<1>22. CASE Tick
  BY <1>22 DEF Tick, CleanIsOld, Files, Open
<1>23. CASE Overflow
  BY <1>23 DEF Overflow, Fault, CleanIsOld, Files, Open
<1>24. CASE SubscribeFails
  BY <1>24 DEF SubscribeFails, Fault, CleanIsOld, Files, Open
<1>25. CASE Restart
  BY <1>25 DEF Restart, Fault, CleanIsOld, Files, Open
<1>26. CASE UNCHANGED vars
  BY <1>26 DEF vars, CleanIsOld
<1> HIDE DEF Shapes
<1> QED
  BY <1>1, <1>2, <1>3, <1>4, <1>5, <1>6, <1>7, <1>8, <1>9, <1>10, <1>11, <1>12,
     <1>13, <1>14, <1>15, <1>16, <1>17, <1>18, <1>19, <1>20, <1>21, <1>22, <1>23, <1>24,
     <1>25, <1>26, StepCases

LEMMA CliPassedNext == Shapes /\ CliPassed /\ [Next]_vars => CliPassed'
<1> SUFFICES ASSUME Shapes, CliPassed, [Next]_vars
             PROVE  CliPassed'
  OBVIOUS
<1> USE DEF CliPassed
<1>1. CASE Scan \/ Subscribe \/ Poll \/ EndTick \/ CheckFails \/ SaveFails \/ Revert \/
           LeaveAsIs \/ Notify \/ NotifyFails \/ PackageManager \/ Age \/ Tick \/
           Overflow \/ SubscribeFails \/ Restart \/ StartCheck \/ Lookup \/ Truncate \/ Save
  BY <1>1 DEF Scan, Subscribe, Poll, EndTick, CheckFails, SaveFails, Revert, LeaveAsIs,
              Notify, NotifyFails, PackageManager, Age, Tick, Overflow, SubscribeFails,
              Restart, StartCheck, Lookup, Truncate, Save, Touched, Drained, Fault, Forget,
              Fault, Forget, Fault, Changed, Verdict, Forget, Fault, Write, Changed, Fault,
              Fault, Fault, Judged, Verdict, Fault, Judged, Verdict
<1>2. CASE CliStart
  BY <1>2 DEF CliStart, CliOff
<1>3. CASE CliLookup
  <2>1. PICK unknown \in SUBSET (cli.wanted \ Hits(cli.wanted, cli.dates)), strict \in BOOLEAN :
          LET known == WithAnswers(cli.wanted, cli.dates, unknown)
          IN cli' = [cli EXCEPT !.dates = known,
                                !.exit = ExitCode(cli.wanted, known, cli.at, strict),
                                !.stage = IF known = cli.dates THEN "done" ELSE "truncate"]
    BY <1>3, Zenon DEF CliLookup
  <2> DEFINE known == WithAnswers(cli.wanted, cli.dates, unknown)
  <2>2. /\ cli'.dates = known /\ cli'.wanted = cli.wanted /\ cli'.at = cli.at
        /\ cli'.exit = ExitCode(cli.wanted, known, cli.at, strict)
    BY <2>1 DEF Shapes, Dated
  <2>3. cli'.exit = 0 => Violations(cli.wanted, known, cli.at) = {}
    BY <2>2 DEF ExitCode
  <2> QED
    BY <2>2, <2>3
<1>4. CASE CliTruncate
  BY <1>4 DEF CliTruncate, Shapes, Dated
<1>5. CASE CliSave
  BY <1>5 DEF CliSave, Shapes, Dated
<1>6. CASE CliSaveFails
  BY <1>6 DEF CliSaveFails, Shapes, Dated
<1>7. CASE UNCHANGED vars
  BY <1>7 DEF vars
<1> HIDE DEF CliPassed
<1> QED
  BY <1>1, <1>2, <1>3, <1>4, <1>5, <1>6, <1>7, StepCases

-----------------------------------------------------------------------------
LEMMA InitInv == Init => IInv
<1> SUFFICES ASSUME Init
             PROVE  IInv
  OBVIOUS
<1>1. Files
  BY WatchAssumption DEF Init, Files, Contents, Fates, Open, Told
<1>2. Numbers
  BY PublishedFacts DEF Init, Numbers, Stages
<1>3. Dated
  <2>1. (CHOOSE l \in Lockfiles : TRUE) \in Lockfiles
    BY WatchAssumption
  <2> QED
    BY <2>1, NoDatesTrue DEF Init, Dated, Contents, CliOff
<1>4. stage = "scan" /\ settled = {} /\ cli.stage = "off"
  BY DEF Init, CliOff
<1>5. \A l \in Lockfiles : fate[l] # "clean" /\ (l \in Hidden => fate[l] # "unread")
  BY DEF Init
<1>6. Fresh /\ OnItsWay /\ Checking /\ CleanIsOld /\ CliPassed
  BY <1>4, <1>5, WatchAssumption DEF Fresh, OnItsWay, Checking, InCheck, CleanIsOld, CliPassed
<1> QED
  BY <1>1, <1>2, <1>3, <1>6 DEF IInv, Shapes

LEMMA NextInv == IInv /\ [Next]_vars => IInv'
<1>1. IInv /\ [Next]_vars => Shapes'
  BY FilesNext, NumbersNext, DatedNext DEF IInv, Shapes
<1> QED
  BY <1>1, FreshNext, OnItsWayNext, CheckingNext, CleanIsOldNext, CliPassedNext DEF IInv

LEMMA Invariance == Spec => []IInv
BY InitInv, NextInv, PTL DEF Spec

-----------------------------------------------------------------------------
(* Every variable has its type (engine.rs, debounce.rs, deps/cli.rs).        *)
THEOREM TypeCorrect == Spec => []TypeOK
<1>1. IInv => TypeOK
  BY DEF IInv, Shapes, Files, Numbers, Dated, TypeOK
<1> QED
  BY <1>1, Invariance, PTL

(* No change of a lockfile is lost between the events, the debouncer and the *)
(* checks, however they interleave with the package managers, with restarts  *)
(* and with failures, but where Forget or a lost event says so (engine.rs).  *)
THEOREM ChangesOnTheirWay == Spec => []OnItsWay
<1>1. IInv => OnItsWay
  BY DEF IInv
<1> QED
  BY <1>1, Invariance, PTL

(* The cache tells the truth whatever the processes that share it do to it,  *)
(* and what passed, in the watcher or in `deps check`, was old enough        *)
(* (cache.rs, deps/mod.rs, deps/cli.rs).                                     *)
THEOREM WhatPassedIsOld == Spec => []PassedIsOld
<1>1. ASSUME NEW cache \in TrueDates
      PROVE  Agrees(cache)
  BY TrueMeans DEF Agrees, KeyOf
<1>2. IInv => CacheTrue
  BY <1>1 DEF IInv, Shapes, Dated, CacheTrue
<1>3. IInv => ExitZeroMeansOld
  <2> SUFFICES ASSUME IInv, cli.stage = "done", cli.exit = 0
               PROVE  \A p \in Hits(cli.wanted, cli.dates) :
                        p \in DOMAIN Published /\ cli.at - Published[p] >= MinAge
    BY DEF ExitZeroMeansOld
  <2>1. /\ cli.dates \in TrueDates /\ cli.at \in Nat
        /\ Violations(cli.wanted, cli.dates, cli.at) = {}
    BY DEF IInv, Shapes, Dated, CliPassed
  <2> QED
    BY <2>1, Judgement
<1>4. IInv => PassedIsOld
  BY <1>2, <1>3 DEF IInv, PassedIsOld
<1> QED
  BY <1>4, Invariance, PTL

-----------------------------------------------------------------------------
(* The exotic sources of a lockfile.                                         *)

(* The answer is the one of the tree that was read.                          *)
ExoticInv ==
  /\ tree \in Trees \cup {UnknownTree, NotAsked}
  /\ answer # NotAsked =>
       /\ tree \in Trees \cup {UnknownTree}
       /\ \E direct \in BOOLEAN : answer = [direct |-> direct, exit |-> ExoticExit(tree, direct)]

(* A lockfile that was read is told from none.                               *)
LEMMA TreesAreNone ==
  \A t \in Trees \cup {UnknownTree} : t # NotAsked
<1>1. DOMAIN NotAsked = {"direct", "exit"}
  BY DEF NotAsked
<1>2. "tool" \in DOMAIN UnknownTree
  BY DEF UnknownTree
<1>3. \A t \in Trees : "tool" \in DOMAIN t
  BY DEF Trees
<1> QED BY <1>1, <1>2, <1>3

(* ExoticInv is inductive: one case for each action.                         *)
LEMMA ExoticStep ==
  ASSUME ExoticInv, [ExoticNext]_exoticVars
  PROVE  ExoticInv'
<1>1. CASE UNCHANGED exoticVars
  BY <1>1 DEF ExoticInv, exoticVars
<1>2. ASSUME NEW t \in Trees \cup {UnknownTree}, ReadTree(t)
      PROVE  ExoticInv'
  <2>1. tree = NotAsked /\ tree' = t /\ answer' = answer
    BY <1>2 DEF ReadTree
  <2>2. answer = NotAsked
    BY <2>1, TreesAreNone DEF ExoticInv
  <2> QED BY <2>1, <2>2 DEF ExoticInv
<1>3. ASSUME NEW direct \in BOOLEAN, RunExotic(direct)
      PROVE  ExoticInv'
  BY <1>3 DEF ExoticInv, RunExotic
<1> QED BY <1>1, <1>2, <1>3 DEF ExoticNext

(* The project's own requirements are among the names it declares.           *)
LEMMA MembersDeclare ==
  ASSUME NEW t \in Trees
  PROVE  /\ Members(t) \subseteq Declaring(t)
         /\ \A n \in Nodes : Calls(t, n) \subseteq DirectNames(t)
         /\ \A m \in Required(t) : m \in Direct(t)
         /\ Scanned(t) \cap Members(t) = {}
         /\ \A n \in Nodes : t.requires[n] \subseteq Nodes
         /\ t.tool \in {"npm", "cargo"}
         /\ t.tool = "cargo" => t.key = t.name /\ \A n \in Nodes : t.source[n] # "link"
<1>1. /\ t.tool \in {"npm", "cargo"} /\ t.source[Root] = "absent"
      /\ \A n \in Nodes : t.requires[n] \subseteq Nodes
      /\ t.tool = "cargo" => t.key = t.name /\ \A n \in Nodes : t.source[n] # "link"
  BY ExoticAssumption DEF Trees, LinksAreSound
<1>2. Members(t) \subseteq Declaring(t)
  BY <1>1, ExoticAssumption DEF Members, Declaring
<1>3. Required(t) \subseteq Nodes /\ \A m \in Required(t) : t.key[m] \in DirectNames(t)
  BY <1>1, <1>2, ExoticAssumption DEF Members, Required, DirectNames
<1>5. \A n \in Nodes : Calls(t, n) \subseteq DirectNames(t)
  BY <1>3 DEF Calls
<1>6. \A m \in Required(t) : m \in Direct(t)
  BY <1>3 DEF Direct, Calls
<1>4. Scanned(t) \cap Members(t) = {}
  BY <1>1 DEF Scanned, Members
<1> QED BY <1>1, <1>2, <1>4, <1>5, <1>6

(* What the exit code of an answer says of the tree.                         *)
LEMMA AnswerIs ==
  ASSUME ExoticInv, answer # NotAsked, tree.tool # "unknown"
  PROVE  /\ tree \in Trees /\ answer.direct \in BOOLEAN
         /\ answer.exit = 0 <=> \A n \in Exotic(tree) : ~answer.direct /\ tree.name[n] \in DirectNames(tree)
         /\ answer.exit \in {0, 1}
<1>1. tree \in Trees
  <2>1. UnknownTree.tool = "unknown"
    BY DEF UnknownTree
  <2> QED BY <2>1 DEF ExoticInv
<1>2. PICK direct \in BOOLEAN : answer = [direct |-> direct, exit |-> ExoticExit(tree, direct)]
  BY DEF ExoticInv
<1>3. answer.direct = direct /\ answer.exit = ExoticExit(tree, direct)
  BY <1>2
<1> QED BY <1>1, <1>3 DEF ExoticExit

(* The invariant gives the property.                                         *)
LEMMA ExoticInvGives ==
  ASSUME ExoticInv
  PROVE  ExoticIsExact
<1>1. TransitiveIsFailed
  <2> SUFFICES ASSUME answer # NotAsked, tree.tool # "unknown", answer.exit = 0, ~answer.direct,
                      NEW n \in Elsewhere(tree) \ Direct(tree)
               PROVE  \E a \in {n} \cup {m \in Nodes : \E k \in tree.requires[m] : tree.name[k] = tree.name[n]} :
                        \E b \in Nodes \ {a} : tree.name[a] = tree.key[b] /\ b \in Direct(tree) \cup Members(tree)
    BY DEF TransitiveIsFailed
  <2>1. tree \in Trees
    BY AnswerIs
  <2>2. n \in Nodes /\ n \in Exotic(tree)
    BY <2>1, MembersDeclare, ExoticAssumption DEF Elsewhere, Exotic, Scanned, Members
  <2>3. tree.name[n] \in DirectNames(tree)
    BY <2>2, AnswerIs
  <2>4. PICK d \in Declaring(tree) : \E m \in tree.requires[d] : tree.key[m] = tree.name[n]
    BY <2>3 DEF DirectNames
  <2>5. PICK m \in tree.requires[d] : tree.key[m] = tree.name[n]
    BY <2>4
  <2>6. d \in Nodes /\ m \in Nodes
    BY <2>1, <2>5, MembersDeclare, ExoticAssumption DEF Declaring
  <2>7. CASE d \in Members(tree)
    <3>1. m \in Required(tree)
      BY <2>5, <2>7 DEF Required
    <3>2. m \in Direct(tree) /\ m # n
      BY <2>1, <3>1, MembersDeclare
    <3> QED BY <2>5, <2>6, <3>2
  <2>8. CASE d \notin Members(tree)
    <3>1. tree.tool # "npm" /\ tree.tool = "cargo" /\ tree.key = tree.name
      BY <2>1, <2>6, <2>8, MembersDeclare DEF Members, Declaring
    <3>2. tree.source[d] # "absent"
      BY <2>6, <2>8, <3>1 DEF Members
    <3>3. PICK b \in Nodes : tree.source[b] = "absent" /\ tree.name[b] = tree.name[d]
      BY <3>1 DEF Declaring
    <3>4. b # d /\ b \in Members(tree)
      BY <3>1, <3>2, <3>3 DEF Members
    <3> QED BY <2>5, <2>6, <3>1, <3>3, <3>4
  <2> QED BY <2>7, <2>8
<1>2. DirectIsTolerated
  <2> SUFFICES ASSUME answer.exit = 1, tree.tool # "unknown"
               PROVE  \E n \in Elsewhere(tree) : answer.direct \/ tree.name[n] \notin Calls(tree, n)
    BY DEF DirectIsTolerated
  <2>1. answer # NotAsked
    BY DEF NotAsked
  <2>2. PICK n \in Exotic(tree) : answer.direct \/ tree.name[n] \notin DirectNames(tree)
    BY <2>1, AnswerIs
  <2>3. tree \in Trees
    BY <2>1, AnswerIs
  <2>4. n \in Nodes /\ n \in Elsewhere(tree)
    BY <2>3, MembersDeclare DEF Exotic, Scanned, Elsewhere
  <2> QED BY <2>2, <2>3, <2>4, MembersDeclare
<1> QED BY <1>1, <1>2 DEF ExoticIsExact

(* For any lockfile: `deps exotic` passes over no package of elsewhere that  *)
(* only a package from a registry brings in, unless names of the tree        *)
(* coincide, and fails for none that the project requires itself             *)
(* (deps/exotic.rs).                                                         *)
THEOREM ExoticSafe == ExoticSpec => []ExoticIsExact
<1>1. ExoticInit => ExoticInv
  BY DEF ExoticInit, ExoticInv
<1>2. ExoticInv /\ [ExoticNext]_exoticVars => ExoticInv'
  BY ExoticStep
<1>3. ExoticInv => ExoticIsExact
  BY ExoticInvGives
<1> QED BY <1>1, <1>2, <1>3, PTL DEF ExoticSpec

-----------------------------------------------------------------------------
(* Ranks: what lies before an element of a set of positions.                 *)
Before(I, i) == {h \in I : h < i}

LEMMA InBefore == \A I, i, h : h \in Before(I, i) <=> h \in I /\ h < i
BY DEF Before

LEMMA BeforeIs ==
  ASSUME NEW I \in SUBSET Nat, IsFiniteSet(I), NEW i
  PROVE  /\ Cardinality(I) \in Nat
         /\ IsFiniteSet(Before(I, i)) /\ Cardinality(Before(I, i)) \in Nat
<1>1. IsFiniteSet(Before(I, i))
  BY FS_Subset DEF Before
<1> QED BY <1>1, FS_CardinalityType

(* Among positions the earlier has the lower rank.                           *)
LEMMA RankLess ==
  ASSUME NEW I \in SUBSET Nat, IsFiniteSet(I), NEW i \in I, NEW j \in I, i < j
  PROVE  Cardinality(Before(I, i)) < Cardinality(Before(I, j))
<1>1. /\ IsFiniteSet(Before(I, j)) /\ Cardinality(Before(I, j)) \in Nat
      /\ Cardinality(Before(I, i)) \in Nat
  BY BeforeIs
<1>2. Before(I, i) \in SUBSET Before(I, j) /\ i \in Before(I, j) /\ i \notin Before(I, i)
  <2>1. \A h \in I : h < i => h < j
    OBVIOUS
  <2>2. ~(i < i)
    OBVIOUS
  <2> QED BY <2>1, <2>2, InBefore
<1>3. /\ Cardinality(Before(I, i)) <= Cardinality(Before(I, j))
      /\ Cardinality(Before(I, j)) = Cardinality(Before(I, i)) => Before(I, j) = Before(I, i)
  BY <1>1, <1>2, FS_Subset
<1> QED BY <1>1, <1>2, <1>3

LEMMA RankOnce ==
  ASSUME NEW I \in SUBSET Nat, IsFiniteSet(I), NEW i \in I, NEW j \in I,
         Cardinality(Before(I, i)) = Cardinality(Before(I, j))
  PROVE  i = j
<1>1. i \in Nat /\ j \in Nat
  OBVIOUS
<1>2. CASE i < j
  <2>1. Cardinality(Before(I, i)) < Cardinality(Before(I, j))
    BY <1>2, RankLess
  <2>2. Cardinality(Before(I, i)) \in Nat
    BY BeforeIs
  <2> QED BY <2>1, <2>2
<1>3. CASE j < i
  <2>1. Cardinality(Before(I, j)) < Cardinality(Before(I, i))
    BY <1>3, RankLess
  <2>2. Cardinality(Before(I, i)) \in Nat
    BY BeforeIs
  <2> QED BY <2>1, <2>2
<1> QED BY <1>1, <1>2, <1>3

(* A set of numbers has a least one.                                         *)
LEMMA LeastNumber ==
  ASSUME NEW T \in SUBSET Nat, T # {}
  PROVE  \E x \in T : \A y \in T : x <= y
<1>1. IsWellFoundedOn(OpToRel(<, Nat), Nat)
  BY NatLessThanWellFounded
<1>2. PICK x \in T : \A y \in T : ~ (<<y, x>> \in OpToRel(<, Nat))
  BY <1>1, WFMin
<1>3. \A y \in T : <<y, x>> \in OpToRel(<, Nat) <=> y < x
  BY DEF OpToRel
<1>4. \A y \in T : ~(y < x) /\ y \in Nat /\ x \in Nat
  BY <1>2, <1>3
<1>5. \A y \in T : x <= y
  BY <1>4
<1> QED BY <1>5

(* Every rank below the number of positions is that of one of them, or else  *)
(* there would be a least without.                                           *)
LEMMA RankTaken ==
  ASSUME NEW I \in SUBSET Nat, IsFiniteSet(I), NEW k \in 1 .. Cardinality(I)
  PROVE  \E i \in I : Cardinality(Before(I, i)) = k - 1
<1> DEFINE Taken(r) == \E i \in I : Cardinality(Before(I, i)) = r
           T == {r \in Nat : r < Cardinality(I) /\ ~Taken(r)}
<1>1. IsFiniteSet(I) /\ Cardinality(I) \in Nat
  BY FS_CardinalityType
<1>2. SUFFICES ASSUME T # {} PROVE FALSE
  <2>1. k - 1 \in Nat /\ k - 1 < Cardinality(I)
    BY <1>1
  <2> QED BY <2>1
<1>3. PICK r \in T : \A q \in T : r <= q
  <2>1. T \in SUBSET Nat
    OBVIOUS
  <2> HIDE DEF T
  <2> QED BY <1>2, <2>1, LeastNumber
<1>4. r \in Nat /\ r < Cardinality(I) /\ ~Taken(r)
  BY <1>3
<1>5. CASE r = 0
  <2>1. I # {}
    BY <1>1, <1>4, <1>5, FS_EmptySet
  <2>2. PICK m \in I : \A y \in I : m <= y
    BY <2>1, LeastNumber
  <2>3. Before(I, m) = {}
    <3>1. \A y \in I : ~(y < m)
      BY <2>2
    <3> QED BY <3>1, InBefore
  <2>4. Cardinality(Before(I, m)) = 0
    BY <2>3, FS_EmptySet
  <2> QED BY <1>4, <1>5, <2>4
<1>6. CASE r # 0
  <2>1. r - 1 \in Nat /\ r - 1 < Cardinality(I) /\ ~(r <= r - 1)
    BY <1>1, <1>4, <1>6
  <2>2. Taken(r - 1)
    <3>1. r - 1 \notin T
      BY <1>3, <2>1
    <3> QED BY <2>1, <3>1
  <2>3. PICK i \in I : Cardinality(Before(I, i)) = r - 1
    BY <2>2
  <2>4. IsFiniteSet(Before(I, i)) /\ i \notin Before(I, i)
    <3>1. ~(i < i)
      OBVIOUS
    <3> QED BY <3>1, BeforeIs, InBefore
  <2>5. Cardinality(Before(I, i) \cup {i}) = r
    <3>1. Cardinality(Before(I, i) \cup {i}) = Cardinality(Before(I, i)) + 1
      BY <2>4, FS_AddElement
    <3> HIDE DEF T
    <3> QED BY <1>4, <2>3, <3>1
  <2>6. PICK U : U = {h \in I : h > i}
    OBVIOUS
  <2>7. U # {}
    <3> SUFFICES ASSUME U = {} PROVE FALSE
      OBVIOUS
    <3>1. \A h \in I : h < i \/ h = i
      BY <2>6
    <3>2. I = Before(I, i) \cup {i}
      BY <3>1, InBefore
    <3> QED BY <1>4, <2>5, <3>2
  <2>8. PICK m \in U : \A y \in U : m <= y
    <3>1. U \in SUBSET Nat
      BY <2>6
    <3> QED BY <2>7, <3>1, LeastNumber
  <2>9. m \in I /\ Before(I, m) = Before(I, i) \cup {i}
    <3>1. m \in I /\ m > i /\ \A h \in I : h > i => m <= h
      BY <2>6, <2>8
    <3>2. \A h \in I : h < m <=> h < i \/ h = i
      BY <3>1
    <3>3. \A h : h \in Before(I, m) <=> h \in Before(I, i) \cup {i}
      BY <3>2, InBefore
    <3> QED BY <3>1, <3>3
  <2> QED BY <1>4, <2>5, <2>9
<1> QED BY <1>5, <1>6

(* The element of a rank, and the rank of an element.                        *)
LEMMA AtRank ==
  ASSUME NEW s, NEW I \in SUBSET Nat, IsFiniteSet(I), NEW i \in I
  PROVE  /\ Cardinality(Before(I, i)) + 1 \in 1 .. Cardinality(I)
         /\ AtPositions(s, I)[Cardinality(Before(I, i)) + 1] = s[i]
<1> DEFINE k == Cardinality(Before(I, i)) + 1
<1>1. k \in 1 .. Cardinality(I)
  <2>1. /\ IsFiniteSet(I) /\ Cardinality(I) \in Nat /\ IsFiniteSet(Before(I, i))
        /\ Cardinality(Before(I, i)) \in Nat
    BY BeforeIs
  <2>2. Before(I, i) \in SUBSET I /\ i \in I /\ i \notin Before(I, i)
    BY DEF Before
  <2>3. /\ Cardinality(Before(I, i)) <= Cardinality(I)
        /\ Cardinality(I) = Cardinality(Before(I, i)) => I = Before(I, i)
    BY <2>1, <2>2, FS_Subset
  <2> QED BY <2>1, <2>2, <2>3
<1>2. Cardinality(Before(I, i)) = k - 1
  <2>1. Cardinality(Before(I, i)) \in Nat
    BY BeforeIs
  <2> QED BY <2>1
<1>3. \A j \in I : Cardinality(Before(I, j)) = k - 1 => j = i
  BY <1>2, RankOnce
<1>4. (CHOOSE j \in I : Cardinality({h \in I : h < j}) = k - 1) = i
  BY <1>2, <1>3 DEF Before
<1> QED BY <1>1, <1>4 DEF AtPositions

LEMMA AtEach ==
  ASSUME NEW s, NEW I \in SUBSET Nat, IsFiniteSet(I), NEW k \in 1 .. Cardinality(I)
  PROVE  \E i \in I : Cardinality(Before(I, i)) = k - 1 /\ AtPositions(s, I)[k] = s[i]
<1>1. PICK i \in I : Cardinality(Before(I, i)) = k - 1
  BY RankTaken
<1>2. AtPositions(s, I)[Cardinality(Before(I, i)) + 1] = s[i]
  BY AtRank
<1>3. Cardinality(Before(I, i)) + 1 = k
  BY <1>1
<1> QED BY <1>1, <1>2, <1>3

(* AtPositions is of the elements at the positions, and of nothing else.     *)
LEMMA SameElements ==
  ASSUME NEW s, NEW t, NEW I \in SUBSET Nat, IsFiniteSet(I), \A i \in I : s[i] = t[i]
  PROVE  AtPositions(s, I) = AtPositions(t, I)
<1>1. \A k \in 1 .. Cardinality(I) : AtPositions(s, I)[k] = AtPositions(t, I)[k]
  <2> SUFFICES ASSUME NEW k \in 1 .. Cardinality(I)
               PROVE  AtPositions(s, I)[k] = AtPositions(t, I)[k]
    OBVIOUS
  <2>1. PICK i \in I : Cardinality(Before(I, i)) = k - 1 /\ AtPositions(s, I)[k] = s[i]
    BY AtEach
  <2>2. AtPositions(t, I)[Cardinality(Before(I, i)) + 1] = t[i]
    BY AtRank
  <2>3. Cardinality(Before(I, i)) + 1 = k
    BY <2>1
  <2> QED BY <2>1, <2>2, <2>3
<1>2. \A x : AtPositions(x, I) = [k \in 1 .. Cardinality(I) |-> AtPositions(x, I)[k]]
  BY DEF AtPositions
<1> QED BY <1>1, <1>2, Zenon

LEMMA PositionsAre ==
  ASSUME NEW S, NEW s \in Seq(S), NEW I, I \subseteq DOMAIN s
  PROVE  I \in SUBSET Nat /\ IsFiniteSet(I)
<1>1. Len(s) \in Nat /\ DOMAIN s = 1 .. Len(s)
  OBVIOUS
<1>2. IsFiniteSet(1 .. Len(s))
  BY <1>1, FS_Interval
<1> QED BY <1>1, <1>2, FS_Subset

LEMMA PositionsType ==
  ASSUME NEW S, NEW s \in Seq(S), NEW I, I \subseteq DOMAIN s
  PROVE  AtPositions(s, I) \in Seq(S)
<1>1. I \in SUBSET Nat /\ IsFiniteSet(I)
  BY PositionsAre
<1>2. \A k \in 1 .. Cardinality(I) : AtPositions(s, I)[k] \in S
  BY <1>1, AtEach
<1>3. AtPositions(s, I) = [k \in 1 .. Cardinality(I) |-> AtPositions(s, I)[k]]
  BY DEF AtPositions
<1>4. Cardinality(I) \in Nat
  BY <1>1, FS_CardinalityType
<1>5. AtPositions(s, I) \in [1 .. Cardinality(I) -> S]
  BY <1>2, <1>3
<1> QED BY <1>4, <1>5

-----------------------------------------------------------------------------
(* The lines of an rc file.                                                  *)

IsRc(c) ==
  /\ c = [lines |-> c.lines, newline |-> c.newline, there |-> c.there]
  /\ c.lines \in Seq(Line) /\ c.newline \in BOOLEAN
  /\ c.there \in {"text", "absent", "other"}
  /\ c.there = "absent" => c.lines = <<>>

OwnLine == UserLines \cup {"Note"}

LEMMA LinesDiffer ==
  /\ Block = <<"Mark", "Eval", "End">> /\ ToSet(Block) = {"Mark", "Eval", "End"}
  /\ OwnLine \cap {"Mark", "Eval", "End", "Blank", "Torn"} = {}
  /\ Line = OwnLine \cup {"Mark", "Eval", "End", "Blank", "Torn"}
<1>1. ToSet(Block) = {"Mark", "Eval", "End"}
  BY DEF ToSet, Block
<1> QED BY <1>1, InstallGateAssumption DEF Line, OwnLine, Block

(* A block that is whole, line by line.                                      *)
LEMMA WholeBlock ==
  ASSUME NEW c, c.lines \in Seq(Line), WholeBlocks(c), NEW m \in DOMAIN c.lines, c.lines[m] = "Mark"
  PROVE  /\ m + 1 \in DOMAIN c.lines /\ m + 2 \in DOMAIN c.lines
         /\ c.lines[m + 1] = "Eval" /\ c.lines[m + 2] = "End"
<1>1. /\ m \in 1 .. Len(c.lines) /\ m + 2 <= Len(c.lines) /\ Len(c.lines) \in Nat
      /\ SubSeq(c.lines, m, m + 2) = Block
  BY DEF WholeBlocks
<1>2. m + 1 \in 1 .. Len(c.lines) /\ m + 2 \in 1 .. Len(c.lines)
  BY <1>1
<1>3. /\ SubSeq(c.lines, m, m + 2)[2] = c.lines[m + 1]
      /\ SubSeq(c.lines, m, m + 2)[3] = c.lines[m + 2]
  BY <1>1
<1>4. Block[2] = "Eval" /\ Block[3] = "End"
  BY DEF Block
<1>5. DOMAIN c.lines = 1 .. Len(c.lines)
  OBVIOUS
<1>6. c.lines[m + 1] = "Eval" /\ c.lines[m + 2] = "End"
  BY <1>1, <1>3, <1>4, Zenon
<1> QED BY <1>2, <1>5, <1>6, Zenon

(* strip_block keeps the user's lines and nothing of whole blocks.           *)
LEMMA OwnIsKept ==
  ASSUME NEW c, c.lines \in Seq(Line), WholeBlocks(c)
  PROVE  OwnAt(c.lines) \subseteq Kept(c.lines)
<1> SUFFICES ASSUME NEW i \in DOMAIN c.lines, c.lines[i] \in OwnLine
             PROVE  i \in Kept(c.lines)
  BY DEF OwnAt, OwnLine
<1>1. i \in Nat /\ c.lines[i] \notin {"Mark", "Eval", "End"}
  BY LinesDiffer
<1>2. ASSUME NEW m \in 1 .. i - 1, c.lines[m] = "Mark"
      PROVE  \E e \in m + 1 .. i - 1 : c.lines[e] = "End"
  <2>1. m \in DOMAIN c.lines
    BY <1>1
  <2>2. c.lines[m + 1] = "Eval" /\ c.lines[m + 2] = "End"
    BY <1>2, <2>1, WholeBlock
  <2>3. m \in Int /\ i \in Int /\ m < i /\ i # m + 1 /\ i # m + 2
    BY <1>1, <2>2
  <2>4. m + 2 \in m + 1 .. i - 1
    BY <2>3
  <2> QED BY <2>2, <2>4
<1> QED BY <1>1, <1>2 DEF Kept

LEMMA NothingElseIsKept ==
  ASSUME NEW c, c.lines \in Seq(Line), WholeBlocks(c), NEW i \in Kept(c.lines)
  PROVE  c.lines[i] \notin ToSet(Block)
<1>1. /\ i \in DOMAIN c.lines /\ i \in Nat /\ c.lines[i] \notin {"Mark", "End"}
      /\ \A m \in 1 .. i - 1 : c.lines[m] = "Mark" => \E e \in m + 1 .. i - 1 : c.lines[e] = "End"
  BY DEF Kept
<1>2. c.lines[i] # "Eval"
  <2> SUFFICES ASSUME c.lines[i] = "Eval" PROVE FALSE
    OBVIOUS
  <2>1. i > 1 /\ c.lines[i - 1] = "Mark"
    BY <1>1 DEF WholeBlocks
  <2>2. i - 1 \in 1 .. i - 1
    BY <1>1, <2>1
  <2>3. PICK e \in (i - 1) + 1 .. i - 1 : c.lines[e] = "End"
    BY <1>1, <2>1, <2>2
  <2> QED BY <1>1, <2>3
<1> QED BY <1>1, <1>2, LinesDiffer

(* Lines that are not the user's may be added or taken away behind.          *)
LEMMA SameOwn ==
  ASSUME NEW s \in Seq(Line), NEW t \in Seq(Line), OwnAt(s) = OwnAt(t), \A i \in OwnAt(s) : s[i] = t[i]
  PROVE  AtPositions(s, OwnAt(s)) = AtPositions(t, OwnAt(t))
<1>1. OwnAt(s) \in SUBSET Nat /\ IsFiniteSet(OwnAt(s))
  BY PositionsAre DEF OwnAt
<1> QED BY <1>1, SameElements

LEMMA OwnOfLonger ==
  ASSUME NEW s \in Seq(Line), NEW t \in Seq(Line), Len(s) <= Len(t), \A i \in DOMAIN s : t[i] = s[i],
         \A i \in DOMAIN t \ DOMAIN s : t[i] \notin OwnLine
  PROVE  AtPositions(t, OwnAt(t)) = AtPositions(s, OwnAt(s))
<1>1. DOMAIN s \subseteq DOMAIN t
  OBVIOUS
<1>2. OwnAt(t) = OwnAt(s)
  BY <1>1 DEF OwnAt, OwnLine
<1>3. \A i \in OwnAt(t) : t[i] = s[i]
  BY <1>2 DEF OwnAt
<1> QED BY <1>2, <1>3, SameOwn

(* The user's lines among lines that have all of them are the same: ranks   *)
(* among those that are selected are ranks.                                  *)
LEMMA SelectedAmong ==
  ASSUME NEW s \in Seq(Line), NEW K \in SUBSET DOMAIN s, NEW t, t = AtPositions(s, K), OwnAt(s) \subseteq K
  PROVE  AtPositions(t, OwnAt(t)) = AtPositions(s, OwnAt(s))
<1>a. K \in SUBSET Nat /\ IsFiniteSet(K) /\ Cardinality(K) \in Nat
  <2>1. K \in SUBSET Nat /\ IsFiniteSet(K)
    BY PositionsAre
  <2> QED BY <2>1, FS_CardinalityType
<1>b. DOMAIN t = 1 .. Cardinality(K)
  BY DEF AtPositions
<1>c. PICK I : I = OwnAt(s)
  OBVIOUS
<1>d. PICK J : J = OwnAt(t)
  OBVIOUS
<1>e. \A i : i \in I <=> i \in K /\ s[i] \in OwnLine
  <2>1. OwnAt(s) = {i \in DOMAIN s : s[i] \in OwnLine}
    BY DEF OwnAt, OwnLine
  <2> QED BY <1>c, <2>1
<1>f. \A j : j \in J <=> j \in 1 .. Cardinality(K) /\ t[j] \in OwnLine
  <2>1. OwnAt(t) = {i \in DOMAIN t : t[i] \in OwnLine}
    BY DEF OwnAt, OwnLine
  <2> QED BY <1>b, <1>d, <2>1
<1> DEFINE r(i) == Cardinality(Before(K, i)) + 1
<1>1. /\ Cardinality(K) \in Nat /\ I \subseteq K /\ J \subseteq 1 .. Cardinality(K)
      /\ I \in SUBSET Nat /\ J \in SUBSET Nat
  <2>1. I \subseteq K /\ J \subseteq 1 .. Cardinality(K)
    BY <1>e, <1>f
  <2>2. 1 .. Cardinality(K) \in SUBSET Nat
    BY <1>a
  <2> QED BY <1>a, <2>1, <2>2
<1>g. IsFiniteSet(I) /\ IsFiniteSet(J)
  <2>1. IsFiniteSet(1 .. Cardinality(K))
    BY <1>a, FS_Interval
  <2> QED BY <1>a, <1>1, <2>1, FS_Subset
<1>2. \A i \in K : r(i) \in 1 .. Cardinality(K) /\ t[r(i)] = s[i]
  BY <1>a, AtRank
<1>3. \A i \in I : r(i) \in J
  BY <1>2, <1>e, <1>f
<1>4. \A i, j \in K : r(i) < r(j) <=> i < j
  <2> SUFFICES ASSUME NEW i \in K, NEW j \in K
               PROVE  r(i) < r(j) <=> i < j
    OBVIOUS
  <2>1. Cardinality(Before(K, i)) \in Nat /\ Cardinality(Before(K, j)) \in Nat /\ i \in Nat /\ j \in Nat
    BY <1>a, BeforeIs
  <2>2. i < j => Cardinality(Before(K, i)) < Cardinality(Before(K, j))
    BY <1>a, RankLess
  <2>3. j < i => Cardinality(Before(K, j)) < Cardinality(Before(K, i))
    BY <1>a, RankLess
  <2> QED BY <2>1, <2>2, <2>3
<1>5. \A j \in J : \E i \in I : r(i) = j
  <2> SUFFICES ASSUME NEW j \in J PROVE \E i \in I : r(i) = j
    OBVIOUS
  <2>1. PICK i \in K : Cardinality(Before(K, i)) = j - 1 /\ t[j] = s[i]
    BY <1>a, <1>1, AtEach
  <2>2. i \in I /\ r(i) = j
    BY <1>1, <1>e, <1>f, <2>1
  <2> QED BY <2>2
<1>6. \A A \in SUBSET I : \A B \in SUBSET J :
        (\A i \in A : r(i) \in B) /\ (\A j \in B : \E i \in A : r(i) = j) => Cardinality(A) = Cardinality(B)
  <2> SUFFICES ASSUME NEW A \in SUBSET I, NEW B \in SUBSET J, \A i \in A : r(i) \in B,
                      \A j \in B : \E i \in A : r(i) = j
               PROVE  Cardinality(A) = Cardinality(B)
    OBVIOUS
  <2>1. PICK f : f = [i \in A |-> r(i)]
    OBVIOUS
  <2>2. f \in [A -> B] /\ \A i \in A : f[i] = r(i)
    BY <2>1
  <2>3. \A i, j \in A : f[i] = f[j] => i = j
    <3> SUFFICES ASSUME NEW i \in A, NEW j \in A, f[i] = f[j] PROVE i = j
      OBVIOUS
    <3>1. Cardinality(Before(K, i)) \in Nat /\ Cardinality(Before(K, j)) \in Nat
      BY <1>a, BeforeIs
    <3>2. Cardinality(Before(K, i)) = Cardinality(Before(K, j))
      BY <2>2, <3>1
    <3> QED BY <1>a, <1>1, <3>2, RankOnce
  <2>4. f \in Bijection(A, B)
    BY <2>2, <2>3 DEF Bijection, Injection, IsInjective, Surjection
  <2>5. IsFiniteSet(A)
    BY <1>g, FS_Subset
  <2>6. ExistsBijection(A, B)
    BY <2>4 DEF ExistsBijection
  <2> QED BY <2>5, <2>6, FS_Bijection
<1>7. Cardinality(I) = Cardinality(J)
  BY <1>3, <1>5, <1>6
<1>8. \A i \in I : Cardinality(Before(I, i)) = Cardinality(Before(J, r(i)))
  <2> SUFFICES ASSUME NEW i \in I
               PROVE  Cardinality(Before(I, i)) = Cardinality(Before(J, r(i)))
    OBVIOUS
  <2>1. Before(I, i) \in SUBSET I /\ Before(J, r(i)) \in SUBSET J
    BY DEF Before
  <2>2. \A h \in Before(I, i) : r(h) \in Before(J, r(i))
    <3> SUFFICES ASSUME NEW h \in I, h < i PROVE r(h) \in Before(J, r(i))
      BY DEF Before
    <3>1. r(h) \in J /\ r(h) < r(i)
      BY <1>1, <1>3, <1>4
    <3> QED BY <3>1 DEF Before
  <2>3. \A j \in Before(J, r(i)) : \E h \in Before(I, i) : r(h) = j
    <3> SUFFICES ASSUME NEW j \in J, j < r(i) PROVE \E h \in Before(I, i) : r(h) = j
      BY DEF Before
    <3>1. PICK h \in I : r(h) = j
      BY <1>5
    <3>2. h < i
      BY <1>1, <1>4, <3>1
    <3> QED BY <3>1, <3>2 DEF Before
  <2> HIDE DEF r
  <2> QED BY <1>6, <2>1, <2>2, <2>3
<1>9. \A k \in 1 .. Cardinality(I) : AtPositions(t, J)[k] = AtPositions(s, I)[k]
  <2> SUFFICES ASSUME NEW k \in 1 .. Cardinality(I)
               PROVE  AtPositions(t, J)[k] = AtPositions(s, I)[k]
    OBVIOUS
  <2>0. I \in SUBSET Nat /\ IsFiniteSet(I)
    BY <1>g, <1>1
  <2>1. PICK i \in I : Cardinality(Before(I, i)) = k - 1 /\ AtPositions(s, I)[k] = s[i]
    BY <2>0, AtEach
  <2>2. AtPositions(t, J)[Cardinality(Before(J, r(i))) + 1] = t[r(i)]
    BY <1>g, <1>1, <1>3, AtRank
  <2>3. Cardinality(Before(J, r(i))) + 1 = k
    <3>1. Cardinality(Before(J, r(i))) = k - 1
      BY <1>8, <2>1
    <3>2. k \in Int
      OBVIOUS
    <3> QED BY <3>1, <3>2
  <2>4. t[r(i)] = s[i]
    BY <1>1, <1>2
  <2> QED BY <2>1, <2>2, <2>3, <2>4
<1>10. /\ AtPositions(t, J) = [k \in 1 .. Cardinality(J) |-> AtPositions(t, J)[k]]
       /\ AtPositions(s, I) = [k \in 1 .. Cardinality(I) |-> AtPositions(s, I)[k]]
  BY DEF AtPositions
<1>11. AtPositions(t, J) = AtPositions(s, I)
  BY <1>7, <1>9, <1>10, Zenon
<1> QED BY <1>c, <1>d, <1>11

LEMMA StripKeepsOwn ==
  ASSUME NEW c, c.lines \in Seq(Line), WholeBlocks(c), NEW t, t = AtPositions(c.lines, Kept(c.lines))
  PROVE  /\ t \in Seq(Line)
         /\ AtPositions(t, OwnAt(t)) = AtPositions(c.lines, OwnAt(c.lines))
         /\ \A k \in DOMAIN t : t[k] \notin ToSet(Block)
<1> DEFINE s == c.lines
           K == Kept(s)
<1>1. K \subseteq DOMAIN s /\ K \in SUBSET Nat /\ IsFiniteSet(K)
  <2>1. K \subseteq DOMAIN s
    BY DEF Kept
  <2> QED BY <2>1, PositionsAre
<1>2. t \in Seq(Line)
  BY <1>1, PositionsType
<1>3. DOMAIN t = 1 .. Cardinality(K)
  BY DEF AtPositions
<1>4. OwnAt(s) \subseteq K
  BY OwnIsKept
<1>5. AtPositions(t, OwnAt(t)) = AtPositions(s, OwnAt(s))
  <2>1. s \in Seq(Line) /\ K \in SUBSET DOMAIN s /\ t = AtPositions(s, K)
    BY <1>1
  <2> HIDE DEF K, s
  <2> QED BY <1>4, <2>1, SelectedAmong
<1>6. \A k \in DOMAIN t : t[k] \notin ToSet(Block)
  <2> SUFFICES ASSUME NEW k \in 1 .. Cardinality(K) PROVE t[k] \notin ToSet(Block)
    BY <1>3
  <2>1. PICK i \in K : t[k] = s[i]
    BY <1>1, AtEach
  <2> QED BY <2>1, NothingElseIsKept
<1> QED BY <1>2, <1>5, <1>6

(* strip_block as a whole, with the newline it may take away at the end.     *)
LEMMA StripBlockIs ==
  ASSUME NEW c, c.lines \in Seq(Line), c.newline \in BOOLEAN, WholeBlocks(c), NEW d, d = StripBlock(c)
  PROVE  /\ Own(d) = Own(c)
         /\ ToSet(Block) \cap ToSet(d.lines) = {}
<1> DEFINE t == AtPositions(c.lines, Kept(c.lines))
<1>1. /\ t \in Seq(Line)
      /\ AtPositions(t, OwnAt(t)) = AtPositions(c.lines, OwnAt(c.lines))
      /\ \A k \in DOMAIN t : t[k] \notin ToSet(Block)
  BY StripKeepsOwn
<1>2. \/ d.lines = t
      \/ t # <<>> /\ Last(t) = "Blank" /\ d.lines = Front(t)
  BY DEF StripBlock, Text
<1> HIDE DEF t
<1>3. CASE d.lines = t
  <2>1. Own(d) = Own(c)
    BY <1>1, <1>3 DEF Own
  <2>2. ToSet(t) = {t[k] : k \in DOMAIN t}
    BY DEF ToSet
  <2> QED BY <1>1, <1>3, <2>1, <2>2
<1>4. CASE t # <<>> /\ Last(t) = "Blank" /\ d.lines = Front(t)
  <2>1. Len(t) \in Nat /\ Len(t) >= 1 /\ DOMAIN t = 1 .. Len(t) /\ t[Len(t)] = "Blank"
    BY <1>1, <1>4 DEF Last
  <2>2. PICK f : f = Front(t)
    OBVIOUS
  <2>3. /\ f \in Seq(Line) /\ Len(f) = Len(t) - 1 /\ DOMAIN f = 1 .. Len(t) - 1
        /\ \A i \in DOMAIN f : f[i] = t[i]
    BY <1>1, <2>1, <2>2 DEF Front
  <2>4. \A i \in DOMAIN t \ DOMAIN f : t[i] \notin OwnLine
    <3> SUFFICES ASSUME NEW i \in DOMAIN t \ DOMAIN f PROVE t[i] \notin OwnLine
      OBVIOUS
    <3>1. i = Len(t)
      BY <2>1, <2>3
    <3> QED BY <2>1, <3>1, LinesDiffer
  <2>5. AtPositions(t, OwnAt(t)) = AtPositions(f, OwnAt(f))
    BY <1>1, <2>1, <2>3, <2>4, OwnOfLonger
  <2>6. Own(d) = Own(c)
    BY <1>1, <1>4, <2>2, <2>5 DEF Own
  <2>7. ToSet(f) = {f[k] : k \in DOMAIN f}
    BY DEF ToSet
  <2>8. \A k \in DOMAIN f : f[k] \notin ToSet(Block)
    BY <1>1, <2>1, <2>3
  <2> QED BY <1>4, <2>2, <2>6, <2>7, <2>8
<1> QED BY <1>2, <1>3, <1>4

(* Without the marker a file with whole blocks has nothing of one.           *)
LEMMA NoMarkNoBlock ==
  ASSUME NEW c, c.lines \in Seq(Line), WholeBlocks(c), "Mark" \notin ToSet(c.lines)
  PROVE  ToSet(Block) \cap ToSet(c.lines) = {}
<1>1. ToSet(c.lines) = {c.lines[i] : i \in DOMAIN c.lines}
  BY DEF ToSet
<1>2. \A i \in DOMAIN c.lines : c.lines[i] # "Mark"
  BY <1>1
<1>3. \A i \in DOMAIN c.lines : i \in Nat /\ i >= 1 /\ i <= Len(c.lines) /\ Len(c.lines) \in Nat
  OBVIOUS
<1>4. \A i \in DOMAIN c.lines : c.lines[i] # "Eval"
  <2> SUFFICES ASSUME NEW i \in DOMAIN c.lines, c.lines[i] = "Eval" PROVE FALSE
    OBVIOUS
  <2>1. i > 1 /\ c.lines[i - 1] = "Mark"
    BY DEF WholeBlocks
  <2>2. i - 1 \in DOMAIN c.lines
    BY <1>3, <2>1
  <2> QED BY <1>2, <2>1, <2>2
<1>5. \A i \in DOMAIN c.lines : c.lines[i] # "End"
  <2> SUFFICES ASSUME NEW i \in DOMAIN c.lines, c.lines[i] = "End" PROVE FALSE
    OBVIOUS
  <2>1. i > 2 /\ c.lines[i - 2] = "Mark"
    BY DEF WholeBlocks
  <2>2. i - 2 \in DOMAIN c.lines
    BY <1>3, <2>1
  <2> QED BY <1>2, <2>1, <2>2
<1> QED BY <1>1, <1>2, <1>4, <1>5, LinesDiffer

LEMMA ThreeOf ==
  ASSUME NEW S, NEW t \in Seq(S), NEW n \in Nat, Len(t) = n + 3
  PROVE  SubSeq(t, n + 1, n + 3) = <<t[n + 1], t[n + 2], t[n + 3]>>
<1>1. PICK u : u = SubSeq(t, n + 1, n + 3)
  OBVIOUS
<1>2. \A i \in n + 1 .. n + 3 : t[i] \in S
  OBVIOUS
<1>3. /\ n + 1 \in Int /\ n + 3 \in Int /\ n + 1 <= n + 3 /\ (n + 3) - (n + 1) + 1 = 3
      /\ (n + 1) + 1 - 1 = n + 1 /\ (n + 1) + 2 - 1 = n + 2 /\ (n + 1) + 3 - 1 = n + 3
  OBVIOUS
<1>4. /\ u \in Seq(S) /\ Len(u) = 3
      /\ \A i \in 1 .. 3 : u[i] = t[(n + 1) + i - 1]
  <2>1. /\ u \in Seq(S)
        /\ Len(u) = IF n + 1 <= n + 3 THEN (n + 3) - (n + 1) + 1 ELSE 0
        /\ \A i \in 1 .. (n + 3) - (n + 1) + 1 : u[i] = t[(n + 1) + i - 1]
    BY <1>1, <1>2, <1>3, SubSeqProperties
  <2> QED BY <1>3, <2>1
<1>5. u[1] = t[n + 1] /\ u[2] = t[n + 2] /\ u[3] = t[n + 3]
  BY <1>3, <1>4
<1>6. u = <<u[1], u[2], u[3]>>
  <2>1. u \in [1 .. 3 -> S]
    BY <1>4
  <2> QED BY <2>1
<1> QED BY <1>1, <1>5, <1>6, Zenon

(* What install_block adds is a blank line at most, and a block.             *)
LEMMA AppendBlockIs ==
  ASSUME NEW c, c.lines \in Seq(Line), NEW t, t = AppendBlock(c)
  PROVE  \E n \in Nat :
           /\ n = Len(c.lines) \/ n = Len(c.lines) + 1
           /\ t \in Seq(Line) /\ Len(t) = n + 3
           /\ \A i \in DOMAIN c.lines : t[i] = c.lines[i]
           /\ n = Len(c.lines) + 1 => t[n] = "Blank"
           /\ t[n + 1] = "Mark" /\ t[n + 2] = "Eval" /\ t[n + 3] = "End"
           /\ c.lines = <<>> => n = 0
<1>1. PICK s : s = c.lines
  OBVIOUS
<1>2. PICK b : b = Block
  OBVIOUS
<1>3. b \in Seq(Line) /\ Len(b) = 3 /\ b[1] = "Mark" /\ b[2] = "Eval" /\ b[3] = "End" /\ "Blank" \in Line
  BY <1>2, LinesDiffer
<1>4. s \in Seq(Line) /\ Len(s) \in Nat
  BY <1>1
<1>5. CASE t = s \o b
  <2>1. /\ t \in Seq(Line) /\ Len(t) = Len(s) + 3
        /\ \A i \in 1 .. Len(s) + 3 : t[i] = IF i <= Len(s) THEN s[i] ELSE b[i - Len(s)]
    <3>1. /\ s \o b \in Seq(Line) /\ Len(s \o b) = Len(s) + Len(b)
          /\ \A i \in 1 .. Len(s) + Len(b) : (s \o b)[i] = IF i <= Len(s) THEN s[i] ELSE b[i - Len(s)]
      <4>1. s \in Seq(Line) /\ b \in Seq(Line)
        BY <1>3, <1>4
      <4> QED BY <4>1, ConcatProperties
    <3> QED BY <1>3, <1>5, <3>1, Zenon
  <2>2. PICK n : n = Len(s)
    OBVIOUS
  <2>3. n \in Nat /\ \A i \in DOMAIN s : t[i] = s[i]
    BY <1>4, <2>1, <2>2
  <2>4. t[n + 1] = "Mark" /\ t[n + 2] = "Eval" /\ t[n + 3] = "End"
    <3>1. /\ n + 1 \in 1 .. n + 3 /\ ~(n + 1 <= n) /\ n + 1 - n = 1
          /\ n + 2 \in 1 .. n + 3 /\ ~(n + 2 <= n) /\ n + 2 - n = 2
          /\ n + 3 \in 1 .. n + 3 /\ ~(n + 3 <= n) /\ n + 3 - n = 3
      BY <2>3
    <3>2. t[n + 1] = b[1] /\ t[n + 2] = b[2] /\ t[n + 3] = b[3]
      BY <2>1, <2>2, <3>1
    <3> QED BY <1>3, <3>2
  <2>5. s = <<>> => n = 0
    BY <2>2
  <2>6. n = Len(s) /\ Len(t) = n + 3 /\ n # Len(s) + 1
    BY <1>4, <2>1, <2>2
  <2>7. /\ n = Len(c.lines) /\ n # Len(c.lines) + 1 /\ (c.lines = <<>> => n = 0)
        /\ \A i \in DOMAIN c.lines : t[i] = c.lines[i]
    BY <1>1, <2>3, <2>5, <2>6, Zenon
  <2> QED BY <2>1, <2>3, <2>4, <2>6, <2>7, Zenon
<1>6. CASE t = Append(s, "Blank") \o b /\ s # <<>>
  <2>1. PICK a : a = Append(s, "Blank")
    OBVIOUS
  <2>2. /\ a \in Seq(Line) /\ Len(a) = Len(s) + 1 /\ a[Len(s) + 1] = "Blank"
        /\ \A i \in DOMAIN s : a[i] = s[i] /\ i \in DOMAIN a
    BY <1>3, <1>4, <2>1
  <2>3. /\ t \in Seq(Line) /\ Len(t) = Len(a) + 3
        /\ \A i \in 1 .. Len(a) + 3 : t[i] = IF i <= Len(a) THEN a[i] ELSE b[i - Len(a)]
    <3>1. /\ a \o b \in Seq(Line) /\ Len(a \o b) = Len(a) + Len(b)
          /\ \A i \in 1 .. Len(a) + Len(b) : (a \o b)[i] = IF i <= Len(a) THEN a[i] ELSE b[i - Len(a)]
      <4>1. a \in Seq(Line) /\ b \in Seq(Line)
        BY <1>3, <2>2
      <4> QED BY <4>1, ConcatProperties
    <3> QED BY <1>3, <1>6, <2>1, <3>1, Zenon
  <2>4. PICK n : n = Len(a)
    OBVIOUS
  <2>5. n \in Nat /\ n = Len(s) + 1 /\ t[n] = "Blank" /\ \A i \in DOMAIN s : t[i] = s[i]
    <3>1. n \in Nat /\ n = Len(s) + 1 /\ DOMAIN s = 1 .. Len(s) /\ n \in 1 .. Len(a) + 3
      BY <1>4, <2>2, <2>4
    <3>2. t[n] = a[n]
      BY <2>3, <2>4, <3>1
    <3>3. \A i \in DOMAIN s : i \in 1 .. Len(a) + 3 /\ i <= Len(a)
      BY <1>4, <2>4, <3>1
    <3> QED BY <2>2, <2>3, <3>1, <3>2, <3>3
  <2>6. t[n + 1] = "Mark" /\ t[n + 2] = "Eval" /\ t[n + 3] = "End"
    <3>1. /\ n + 1 \in 1 .. n + 3 /\ ~(n + 1 <= n) /\ n + 1 - n = 1
          /\ n + 2 \in 1 .. n + 3 /\ ~(n + 2 <= n) /\ n + 2 - n = 2
          /\ n + 3 \in 1 .. n + 3 /\ ~(n + 3 <= n) /\ n + 3 - n = 3
      BY <2>5
    <3>2. t[n + 1] = b[1] /\ t[n + 2] = b[2] /\ t[n + 3] = b[3]
      BY <2>3, <2>4, <3>1
    <3> QED BY <1>3, <3>2
  <2>7. Len(t) = n + 3
    BY <2>3, <2>4
  <2>8. /\ n = Len(c.lines) + 1 /\ c.lines # <<>>
        /\ \A i \in DOMAIN c.lines : t[i] = c.lines[i]
    BY <1>1, <1>6, <2>5, Zenon
  <2> QED BY <2>3, <2>5, <2>6, <2>7, <2>8, Zenon
<1> QED BY <1>1, <1>2, <1>5, <1>6 DEF AppendBlock

(* A block behind lines that have nothing of one is whole, and the lines are *)
(* the user's as before.                                                     *)
LEMMA AppendedIsWhole ==
  ASSUME NEW c, c.lines \in Seq(Line), NEW d, d.lines = AppendBlock(c)
  PROVE  /\ d.lines \in Seq(Line)
         /\ AtPositions(d.lines, OwnAt(d.lines)) = AtPositions(c.lines, OwnAt(c.lines))
         /\ "Eval" \in ToSet(d.lines)
         /\ c.lines = <<>> => Len(d.lines) = 3
         /\ ToSet(Block) \cap ToSet(c.lines) = {} => WholeBlocks(d)
<1>1. PICK s : s = c.lines
  OBVIOUS
<1>2. PICK t : t = d.lines
  OBVIOUS
<1>3. PICK n \in Nat :
           /\ n = Len(s) \/ n = Len(s) + 1
           /\ t \in Seq(Line) /\ Len(t) = n + 3
           /\ \A i \in DOMAIN s : t[i] = s[i]
           /\ n = Len(s) + 1 => t[n] = "Blank"
           /\ t[n + 1] = "Mark" /\ t[n + 2] = "Eval" /\ t[n + 3] = "End"
           /\ s = <<>> => n = 0
  <2> QED BY <1>1, <1>2, AppendBlockIs
<1>4. s \in Seq(Line) /\ Len(s) \in Nat /\ n \in Nat /\ DOMAIN s = 1 .. Len(s) /\ DOMAIN t = 1 .. n + 3
  BY <1>1, <1>3
<1>a. Len(t) = n + 3 /\ n \in Nat /\ Len(s) \in Nat /\ (n = Len(s) \/ n = Len(s) + 1)
  BY <1>3, <1>4, Zenon
<1>5. \A i \in DOMAIN t : i \in DOMAIN s \/ i = n + 1 \/ i = n + 2 \/ i = n + 3 \/ (i = n /\ t[n] = "Blank")
  <2>1. \A i \in 1 .. n + 3 : i \in 1 .. Len(s) \/ i = n + 1 \/ i = n + 2 \/ i = n + 3 \/ (i = n /\ n = Len(s) + 1)
    BY <1>a
  <2> QED BY <1>3, <1>4, <2>1, Zenon
<1>6. AtPositions(t, OwnAt(t)) = AtPositions(s, OwnAt(s))
  <2>1. \A i \in DOMAIN t \ DOMAIN s : t[i] \in {"Blank", "Mark", "Eval", "End"}
    BY <1>3, <1>5
  <2>2. \A i \in DOMAIN t \ DOMAIN s : t[i] \notin OwnLine
    BY <2>1, LinesDiffer
  <2>3. Len(s) <= Len(t)
    BY <1>a
  <2> QED BY <1>3, <1>4, <2>2, <2>3, OwnOfLonger
<1>7. "Eval" \in ToSet(t)
  <2>1. n + 2 \in DOMAIN t
    BY <1>4
  <2> QED BY <1>3, <2>1 DEF ToSet
<1>8. ASSUME ToSet(Block) \cap ToSet(s) = {} PROVE WholeBlocks(d)
  <2>1. \A i \in DOMAIN s : t[i] \notin {"Mark", "Eval", "End"}
    <3>1. ToSet(s) = {s[i] : i \in DOMAIN s}
      BY DEF ToSet
    <3> QED BY <1>3, <1>8, <3>1, LinesDiffer
  <2>2. SubSeq(t, n + 1, n + 3) = Block
    <3>1. SubSeq(t, n + 1, n + 3) = <<t[n + 1], t[n + 2], t[n + 3]>>
      BY <1>a, <1>3, ThreeOf
    <3> QED BY <1>3, <3>1, LinesDiffer
  <2>3. \A i \in DOMAIN t : /\ t[i] = "Mark" => i = n + 1
                            /\ t[i] = "Eval" => i = n + 2
                            /\ t[i] = "End" => i = n + 3
    BY <1>3, <1>5, <2>1
  <2>4. ASSUME NEW i \in DOMAIN t
        PROVE  /\ t[i] = "Mark" => i + 2 <= Len(t) /\ SubSeq(t, i, i + 2) = Block
               /\ t[i] = "Eval" => i > 1 /\ t[i - 1] = "Mark"
               /\ t[i] = "End" => i > 2 /\ t[i - 2] = "Mark"
    <3>1. CASE t[i] = "Mark"
      <4>1. i = n + 1 /\ i + 2 = n + 3
        BY <1>4, <2>3, <3>1
      <4>2. t[i] = "Mark" /\ i + 2 <= Len(t) /\ SubSeq(t, i, i + 2) = Block
        BY <1>a, <2>2, <3>1, <4>1
      <4> QED BY <4>2
    <3>2. CASE t[i] = "Eval"
      <4>1. i = n + 2 /\ i - 1 = n + 1
        BY <1>4, <2>3, <3>2
      <4>2. i > 1
        BY <1>a, <4>1
      <4>3. t[i] = "Eval" /\ t[i - 1] = "Mark"
        BY <1>3, <3>2, <4>1, Zenon
      <4> QED BY <4>2, <4>3
    <3>3. CASE t[i] = "End"
      <4>1. i = n + 3 /\ i - 2 = n + 1
        BY <1>4, <2>3, <3>3
      <4>2. i > 2
        BY <1>a, <4>1
      <4>3. t[i] = "End" /\ t[i - 2] = "Mark"
        BY <1>3, <3>3, <4>1, Zenon
      <4> QED BY <4>2, <4>3
    <3> QED BY <3>1, <3>2, <3>3
  <2> QED BY <1>2, <2>4 DEF WholeBlocks
<1>9. s = <<>> => Len(t) = 3
  BY <1>3
<1> QED BY <1>1, <1>2, <1>3, <1>6, <1>7, <1>8, <1>9

-----------------------------------------------------------------------------
(* A write that fails.                                                       *)

(* The user's lines of a beginning are a beginning of the user's lines.      *)
LEMMA OwnOfPrefix ==
  ASSUME NEW s \in Seq(Line), NEW t \in Seq(Line), Len(s) <= Len(t), \A i \in DOMAIN s : s[i] = t[i]
  PROVE  IsPrefix(AtPositions(s, OwnAt(s)), AtPositions(t, OwnAt(t)))
<1>1. PICK I : I = OwnAt(s)
  OBVIOUS
<1>2. PICK J : J = OwnAt(t)
  OBVIOUS
<1>3. /\ I \in SUBSET Nat /\ IsFiniteSet(I) /\ J \in SUBSET Nat /\ IsFiniteSet(J)
  BY <1>1, <1>2, PositionsAre DEF OwnAt
<1>4. /\ I \subseteq J
      /\ \A i \in I : s[i] = t[i]
      /\ \A i \in I, j \in J : j < i => j \in I
  <2>1. DOMAIN s = 1 .. Len(s) /\ DOMAIN t = 1 .. Len(t) /\ Len(s) \in Nat /\ Len(t) \in Nat
    OBVIOUS
  <2>2. /\ \A i : i \in I <=> i \in 1 .. Len(s) /\ s[i] \in OwnLine
        /\ \A i : i \in J <=> i \in 1 .. Len(t) /\ t[i] \in OwnLine
    BY <1>1, <1>2, <2>1 DEF OwnAt, OwnLine
  <2>3. \A i \in 1 .. Len(s) : i \in 1 .. Len(t) /\ s[i] = t[i]
    BY <2>1
  <2>4. \A i \in 1 .. Len(s), j \in 1 .. Len(t) : j < i => j \in 1 .. Len(s)
    BY <2>1
  <2> QED BY <2>2, <2>3, <2>4
<1>5. PICK a : a = AtPositions(s, I)
  OBVIOUS
<1>6. PICK b : b = AtPositions(t, J)
  OBVIOUS
<1>7. PICK n : n = Cardinality(I)
  OBVIOUS
<1>8. PICK m : m = Cardinality(J)
  OBVIOUS
<1>9. n \in Nat /\ m \in Nat /\ n <= m
  BY <1>3, <1>4, <1>7, <1>8, FS_Subset, FS_CardinalityType
<1>10. a \in Seq(Line) /\ b \in Seq(Line) /\ DOMAIN a = 1 .. n /\ DOMAIN b = 1 .. m
  <2>1. a \in Seq(Line) /\ b \in Seq(Line)
    BY <1>1, <1>2, <1>5, <1>6, PositionsType DEF OwnAt
  <2>2. DOMAIN a = 1 .. n /\ DOMAIN b = 1 .. m
    BY <1>5, <1>6, <1>7, <1>8 DEF AtPositions
  <2> QED BY <2>1, <2>2
<1>11. Len(a) = n /\ Len(b) = m
  BY <1>9, <1>10
<1>12. ASSUME NEW k \in 1 .. n PROVE a[k] = b[k]
  <2>1. PICK i \in I : Cardinality(Before(I, i)) = k - 1 /\ a[k] = s[i]
    BY <1>3, <1>5, <1>7, AtEach
  <2>2. Before(J, i) = Before(I, i)
    <3>1. \A h : h \in Before(J, i) <=> h \in Before(I, i)
      <4>1. \A h : h \in Before(J, i) <=> h \in J /\ h < i
        BY InBefore
      <4>2. \A h : h \in Before(I, i) <=> h \in I /\ h < i
        BY InBefore
      <4>3. \A h : h \in J /\ h < i => h \in I
        BY <1>4, <2>1
      <4> QED BY <1>4, <4>1, <4>2, <4>3
    <3> QED BY <3>1
  <2>3. i \in J
    BY <1>4
  <2>4. b[Cardinality(Before(J, i)) + 1] = t[i]
    BY <1>3, <1>6, <2>3, AtRank
  <2>5. Cardinality(Before(I, i)) + 1 = k
    BY <2>1
  <2> QED BY <1>4, <2>1, <2>2, <2>4, <2>5
<1>13. SubSeq(a, 1, n) = SubSeq(b, 1, n)
  <2>1. PICK u : u = SubSeq(a, 1, n)
    OBVIOUS
  <2>2. PICK v : v = SubSeq(b, 1, n)
    OBVIOUS
  <2>3. u \in Seq(Line) /\ v \in Seq(Line) /\ Len(u) = n /\ Len(v) = n
    BY <1>9, <1>10, <1>11, <2>1, <2>2
  <2>4. \A i \in 1 .. n : u[i] = a[i] /\ v[i] = b[i]
    BY <1>9, <1>10, <1>11, <2>1, <2>2
  <2>5. \A i \in 1 .. n : u[i] = v[i]
    BY <1>12, <2>4
  <2> QED BY <2>1, <2>2, <2>3, <2>5
<1> QED BY <1>1, <1>2, <1>5, <1>6, <1>9, <1>11, <1>13 DEF IsPrefix

(* What is left of a text is of its lines, but for one that is torn.         *)
LEMMA BeginningIs ==
  ASSUME NEW c, c.lines \in Seq(Line), NEW b \in Beginnings(c)
  PROVE  IsRc(b) /\ IsPrefix(Own(b), Own(c))
<1>1. PICK t : t = c.lines
  OBVIOUS
<1>2. t \in Seq(Line) /\ Len(t) \in Nat /\ DOMAIN t = 1 .. Len(t)
  BY <1>1
<1>3. PICK k \in Nat, newline \in BOOLEAN :
        /\ k <= Len(t)
        /\ \/ b = Text(SubSeq(t, 1, k), newline)
           \/ b = Text(Append(SubSeq(t, 1, k), "Torn"), newline) /\ k + 1 <= Len(t)
  <2>1. \/ \E k \in 0 .. Len(t) - 1 : b = Text(SubSeq(t, 1, k), k > 0)
        \/ \E k \in DOMAIN t : b = Text(SubSeq(t, 1, k), FALSE)
        \/ \E k \in DOMAIN t : b = Text(Append(SubSeq(t, 1, k - 1), "Torn"), FALSE)
    BY <1>1 DEF Beginnings
  <2>2. CASE \E k \in 0 .. Len(t) - 1 : b = Text(SubSeq(t, 1, k), k > 0)
    <3>1. PICK k \in 0 .. Len(t) - 1 : b = Text(SubSeq(t, 1, k), k > 0)
      BY <2>2
    <3>2. k \in Nat /\ k <= Len(t) /\ (k > 0) \in BOOLEAN
      BY <1>2
    <3> QED BY <3>1, <3>2
  <2>3. CASE \E k \in DOMAIN t : b = Text(SubSeq(t, 1, k), FALSE)
    <3>1. PICK k \in DOMAIN t : b = Text(SubSeq(t, 1, k), FALSE)
      BY <2>3
    <3>2. k \in Nat /\ k <= Len(t)
      BY <1>2
    <3> QED BY <3>1, <3>2
  <2>4. CASE \E k \in DOMAIN t : b = Text(Append(SubSeq(t, 1, k - 1), "Torn"), FALSE)
    <3>1. PICK k \in DOMAIN t : b = Text(Append(SubSeq(t, 1, k - 1), "Torn"), FALSE)
      BY <2>4
    <3>2. k - 1 \in Nat /\ k - 1 <= Len(t) /\ (k - 1) + 1 <= Len(t)
      BY <1>2
    <3> QED BY <3>1, <3>2
  <2> QED BY <2>1, <2>2, <2>3, <2>4
<1>4. PICK s : s = SubSeq(t, 1, k)
  OBVIOUS
<1>5. s \in Seq(Line) /\ Len(s) = k /\ \A i \in DOMAIN s : s[i] = t[i]
  BY <1>2, <1>3, <1>4
<1>6. IsPrefix(AtPositions(s, OwnAt(s)), AtPositions(t, OwnAt(t)))
  BY <1>2, <1>3, <1>5, OwnOfPrefix
<1>7. CASE b = Text(s, newline)
  <2>1. b.lines = s /\ IsRc(b)
    BY <1>5, <1>7 DEF Text, IsRc
  <2> QED BY <1>1, <1>6, <2>1 DEF Own
<1>8. CASE b = Text(Append(s, "Torn"), newline)
  <2>1. PICK u : u = Append(s, "Torn")
    OBVIOUS
  <2>2. "Torn" \in Line /\ "Torn" \notin OwnLine
    BY LinesDiffer
  <2>3. u \in Seq(Line) /\ Len(u) = k + 1 /\ u[k + 1] = "Torn" /\ \A i \in DOMAIN s : u[i] = s[i]
    BY <1>5, <2>1, <2>2
  <2>4. b.lines = u /\ IsRc(b)
    BY <1>8, <2>1, <2>3 DEF Text, IsRc
  <2>5. \A i \in DOMAIN u \ DOMAIN s : u[i] \notin OwnLine
    <3>1. \A i \in DOMAIN u \ DOMAIN s : i = k + 1
      BY <1>3, <1>5, <2>3
    <3> QED BY <2>2, <2>3, <3>1
  <2>6. AtPositions(u, OwnAt(u)) = AtPositions(s, OwnAt(s))
    BY <1>3, <1>5, <2>3, <2>5, OwnOfLonger
  <2> QED BY <1>1, <1>6, <2>4, <2>6 DEF Own
<1> QED BY <1>3, <1>4, <1>7, <1>8

LEMMA OwnPrefixOfItself ==
  ASSUME NEW c, c.lines \in Seq(Line)
  PROVE  IsPrefix(Own(c), Own(c))
<1>1. PICK s : s = c.lines
  OBVIOUS
<1>2. s \in Seq(Line) /\ Len(s) \in Nat
  BY <1>1
<1>3. Len(s) <= Len(s)
  BY <1>2
<1> QED BY <1>1, <1>2, <1>3, OwnOfPrefix DEF Own

(* A write that fails takes of the user's lines the last ones.               *)
LEMMA FailedKeeps ==
  ASSUME IsRc(rc), NEW to, to.lines \in Seq(Line),
         rc.there # "other" /\ WholeBlocks(rc) => Own(to) = Own(rc),
         rc' \in {rc} \cup Beginnings(to), step'.failed, step'.from = rc
  PROVE  IsRc(rc)' /\ BlockComesAndGoes'
<1>1. rc.lines \in Seq(Line)
  BY DEF IsRc
<1>2. IsRc(rc') /\ (IsPrefix(Own(rc'), Own(to)) \/ IsPrefix(Own(rc'), Own(rc)))
  BY <1>1, BeginningIs, OwnPrefixOfItself
<1>3. rc.there # "other" /\ WholeBlocks(rc) => IsPrefix(Own(rc'), Own(rc))
  BY <1>2
<1>4. OwnLinesKept'
  BY <1>3 DEF OwnLinesKept, WholeBlocks, Own
<1> QED BY <1>2, <1>4 DEF BlockComesAndGoes, NothingOfBlockLeft, InstallIsActive, IsRc

-----------------------------------------------------------------------------
(* install, from any rc file, when its write succeeds.                       *)
LEMMA InstallKeeps ==
  ASSUME IsRc(rc), NEW before, before = IF rc.there = "text" THEN rc ELSE NoRc,
         rc' = IF HasBlock(before) THEN rc ELSE Text(AppendBlock(before), TRUE),
         step'.by = "install", step'.from = rc, ~step'.failed
  PROVE  IsRc(rc)' /\ BlockComesAndGoes'
<1>1. /\ rc' = IF HasBlock(before) THEN rc ELSE Text(AppendBlock(before), TRUE)
      /\ step'.by = "install" /\ step'.from = rc /\ ~step'.failed
  OBVIOUS
<1>2. before.lines \in Seq(Line) /\ (rc.there # "other" => before.lines = rc.lines)
      /\ (rc.there # "text" => before.lines = <<>>)
  <2>1. NoRc.lines = <<>> /\ <<>> \in Seq(Line)
    BY DEF NoRc
  <2>2. rc.lines \in Seq(Line) /\ (rc.there = "absent" => rc.lines = <<>>)
    BY DEF IsRc
  <2>3. rc.there \in {"text", "absent", "other"}
    BY DEF IsRc
  <2>4. CASE rc.there = "text"
    BY <2>2, <2>4
  <2>5. CASE rc.there # "text"
    BY <2>1, <2>2, <2>5, <2>3
  <2> QED BY <2>4, <2>5
<1>3. ~NothingOfBlockLeft' => FALSE
  BY <1>1 DEF NothingOfBlockLeft
<1>4. CASE HasBlock(before)
  <2>1. rc' = rc /\ IsRc(rc)'
    BY <1>1, <1>4 DEF IsRc
  <2>2. OwnLinesKept'
    BY <1>1, <2>1 DEF OwnLinesKept
  <2>3. rc.there = "text" /\ before = rc
    <3>1. ToSet(<<>>) = {}
      BY DEF ToSet
    <3> QED BY <1>4, <3>1 DEF HasBlock, NoRc
  <2>4. ASSUME WholeBlocks(rc), "Note" \notin ToSet(rc.lines)
        PROVE  "Eval" \in ToSet(rc.lines) /\ Len(rc.lines) <= Len(rc.lines)
    <3>1. "Mark" \in ToSet(rc.lines)
      BY <1>4, <2>3, <2>4 DEF HasBlock
    <3>2. PICK m \in DOMAIN rc.lines : rc.lines[m] = "Mark"
      BY <3>1 DEF ToSet
    <3>3. rc.lines \in Seq(Line)
      BY DEF IsRc
    <3>4. m + 1 \in DOMAIN rc.lines /\ rc.lines[m + 1] = "Eval"
      BY <2>4, <3>2, <3>3, WholeBlock
    <3>5. "Eval" \in ToSet(rc.lines)
      BY <3>4 DEF ToSet
    <3> QED BY <3>3, <3>5
  <2>5. InstallIsActive'
    BY <1>1, <2>1, <2>4 DEF InstallIsActive, WholeBlocks
  <2> QED BY <1>3, <2>1, <2>2, <2>5 DEF BlockComesAndGoes
<1>5. CASE ~HasBlock(before)
  <2>1. rc' = Text(AppendBlock(before), TRUE) /\ rc'.lines = AppendBlock(before)
    BY <1>1, <1>5 DEF Text
  <2>2. /\ rc'.lines \in Seq(Line) /\ "Eval" \in ToSet(rc'.lines)
        /\ AtPositions(rc'.lines, OwnAt(rc'.lines)) = AtPositions(before.lines, OwnAt(before.lines))
        /\ before.lines = <<>> => Len(rc'.lines) = 3
        /\ ToSet(Block) \cap ToSet(before.lines) = {} => WholeBlocks(rc')
    BY <1>2, <2>1, AppendedIsWhole
  <2>3. IsRc(rc')
    <3>1. PICK l : l = AppendBlock(before)
      OBVIOUS
    <3>2. l \in Seq(Line) /\ rc' = Text(l, TRUE)
      BY <2>1, <2>2, <3>1
    <3>3. IsRc(Text(l, TRUE))
      BY <3>2 DEF IsRc, Text
    <3> QED BY <3>2, <3>3
  <2>4. OwnLinesKept'
    BY <1>1, <1>2, <2>2 DEF OwnLinesKept, Own
  <2>5. "Mark" \notin ToSet(before.lines)
    BY <1>5 DEF HasBlock
  <2>6. ASSUME WholeBlocks(rc) PROVE WholeBlocks(rc')
    <3>1. WholeBlocks(before)
      <4>1. CASE rc.there = "other"
        BY <1>2, <4>1 DEF WholeBlocks
      <4>2. CASE rc.there # "other"
        BY <1>2, <2>6, <4>2 DEF WholeBlocks
      <4> QED BY <4>1, <4>2
    <3>2. ToSet(Block) \cap ToSet(before.lines) = {}
      BY <1>2, <2>5, <3>1, NoMarkNoBlock
    <3> QED BY <2>2, <3>2
  <2>7. ASSUME WholeBlocks(rc), "Mark" \in ToSet(rc.lines) PROVE Len(rc'.lines) <= Len(rc.lines)
    <3>1. rc.there = "other"
      BY <1>2, <2>5, <2>7
    <3>2. PICK m \in DOMAIN rc.lines : rc.lines[m] = "Mark"
      BY <2>7 DEF ToSet
    <3>3. rc.lines \in Seq(Line)
      BY DEF IsRc
    <3>4. m + 2 \in DOMAIN rc.lines
      BY <2>7, <3>2, <3>3, WholeBlock
    <3>5. Len(rc.lines) >= 3
      BY <3>2, <3>3, <3>4
    <3> QED BY <1>2, <2>2, <3>1, <3>5
  <2>8. InstallIsActive'
    <3> SUFFICES ASSUME WholeBlocks(rc)
                 PROVE  /\ WholeBlocks(rc') /\ "Eval" \in ToSet(rc'.lines)
                        /\ "Mark" \in ToSet(rc.lines) => Len(rc'.lines) <= Len(rc.lines)
      BY <1>1 DEF InstallIsActive, WholeBlocks
    <3> QED BY <2>2, <2>6, <2>7
  <2> QED BY <1>3, <2>3, <2>4, <2>8 DEF BlockComesAndGoes, IsRc
<1> QED BY <1>4, <1>5

(* uninstall, from any rc file.                                              *)
LEMMA StripShape ==
  ASSUME NEW c, c.lines \in Seq(Line), c.newline \in BOOLEAN
  PROVE  IsRc(StripBlock(c))
<1>1. PICK t : t = AtPositions(c.lines, Kept(c.lines))
  OBVIOUS
<1>2. t \in Seq(Line)
  <2>1. Kept(c.lines) \subseteq DOMAIN c.lines
    BY DEF Kept
  <2> QED BY <1>1, <2>1, PositionsType
<1>3. \A l \in Seq(Line) : \A b \in BOOLEAN : IsRc(Text(l, b))
  BY DEF IsRc, Text
<1>4. t # <<>> => Front(t) \in Seq(Line) /\ (Len(t) > 1) \in BOOLEAN
  BY <1>2 DEF Front
<1>5. (c.newline /\ t # <<>>) \in BOOLEAN /\ FALSE \in BOOLEAN
  OBVIOUS
<1>6. \/ StripBlock(c) = Text(t, c.newline /\ t # <<>>)
      \/ t # <<>> /\ StripBlock(c) = Text(Front(t), Len(t) > 1)
      \/ StripBlock(c) = Text(t, FALSE)
  BY <1>1 DEF StripBlock
<1> QED BY <1>2, <1>3, <1>4, <1>5, <1>6

LEMMA UninstallKeeps ==
  ASSUME IsRc(rc),
         rc' = IF rc.there = "text" /\ HasBlock(rc) THEN StripBlock(rc) ELSE rc,
         step'.by = "uninstall", step'.from = rc, ~step'.failed
  PROVE  IsRc(rc)' /\ BlockComesAndGoes'
<1>1. /\ rc' = IF rc.there = "text" /\ HasBlock(rc) THEN StripBlock(rc) ELSE rc
      /\ step'.by = "uninstall" /\ step'.from = rc /\ ~step'.failed
  OBVIOUS
<1>2. rc.lines \in Seq(Line) /\ rc.newline \in BOOLEAN /\ (rc.there = "absent" => rc.lines = <<>>)
      /\ rc.there \in {"text", "absent", "other"}
  BY DEF IsRc
<1>3. InstallIsActive'
  BY <1>1 DEF InstallIsActive
<1>4. CASE rc' = StripBlock(rc)
  <2>1. IsRc(rc')
    BY <1>2, <1>4, StripShape
  <2>2. WholeBlocks(rc) => Own(rc') = Own(rc) /\ ToSet(Block) \cap ToSet(rc'.lines) = {}
    BY <1>2, <1>4, StripBlockIs
  <2>3. IsRc(rc)'
    BY <2>1 DEF IsRc
  <2>4. OwnLinesKept'
    BY <1>1, <2>2 DEF OwnLinesKept, WholeBlocks, Own
  <2>5. NothingOfBlockLeft'
    BY <1>1, <2>2 DEF NothingOfBlockLeft, WholeBlocks
  <2> QED BY <1>3, <2>3, <2>4, <2>5 DEF BlockComesAndGoes
<1>5. CASE rc' = rc /\ ~(rc.there = "text" /\ HasBlock(rc))
  <2>1. IsRc(rc)'
    BY <1>5 DEF IsRc
  <2>2. OwnLinesKept'
    BY <1>1, <1>5 DEF OwnLinesKept, Own
  <2>3. ASSUME rc.there # "other", WholeBlocks(rc) PROVE ToSet(Block) \cap ToSet(rc.lines) = {}
    <3>1. "Mark" \notin ToSet(rc.lines)
      <4>1. ToSet(<<>>) = {}
        BY DEF ToSet
      <4>2. CASE rc.there = "text"
        BY <1>5, <4>2 DEF HasBlock
      <4>3. CASE rc.there # "text"
        <5>1. rc.there = "absent" /\ rc.lines = <<>>
          BY <1>2, <2>3, <4>3
        <5> QED BY <4>1, <5>1
      <4> QED BY <4>2, <4>3
    <3> QED BY <1>2, <2>3, <3>1, NoMarkNoBlock
  <2>4. NothingOfBlockLeft'
    BY <1>1, <1>5, <2>3 DEF NothingOfBlockLeft, WholeBlocks
  <2> QED BY <1>3, <2>1, <2>2, <2>4 DEF BlockComesAndGoes
<1> QED BY <1>1, <1>4, <1>5

(* Both commands, whether the write succeeds or not.                         *)
LEMMA CommandsKeep ==
  ASSUME IsRc(rc), Install \/ Uninstall
  PROVE  IsRc(rc)' /\ BlockComesAndGoes'
<1>1. rc.lines \in Seq(Line) /\ rc.newline \in BOOLEAN /\ rc.there \in {"text", "absent", "other"}
      /\ (rc.there = "absent" => rc.lines = <<>>)
  BY DEF IsRc
<1>2. CASE Install
  <2>1. PICK before : before = IF rc.there = "text" THEN rc ELSE NoRc
    OBVIOUS
  <2>2. \/ HasBlock(before) /\ Leave("install")
        \/ ~HasBlock(before) /\ WriteRc("install", Text(AppendBlock(before), TRUE))
    BY <1>2, <2>1 DEF Install
  <2>3. CASE HasBlock(before) /\ Leave("install")
    BY <2>1, <2>3, InstallKeeps DEF Leave
  <2>4. CASE ~HasBlock(before) /\ WriteRc("install", Text(AppendBlock(before), TRUE))
    <3>1. PICK to : to = Text(AppendBlock(before), TRUE)
      OBVIOUS
    <3>2. CASE rc' = to /\ step' = [by |-> "install", from |-> rc, failed |-> FALSE]
      <4>1. rc' = IF HasBlock(before) THEN rc ELSE Text(AppendBlock(before), TRUE)
        BY <2>4, <3>1, <3>2
      <4> QED BY <2>1, <3>2, <4>1, InstallKeeps
    <3>3. CASE rc' \in {rc} \cup Beginnings(to) /\ step' = [by |-> "install", from |-> rc, failed |-> TRUE]
      <4>1. before.lines \in Seq(Line) /\ (rc.there # "other" => before.lines = rc.lines)
        <5>1. NoRc.lines = <<>> /\ <<>> \in Seq(Line)
          BY DEF NoRc
        <5> QED BY <1>1, <2>1, <5>1
      <4>2. to.lines = AppendBlock(before)
        BY <3>1 DEF Text
      <4>3. /\ to.lines \in Seq(Line)
            /\ AtPositions(to.lines, OwnAt(to.lines)) = AtPositions(before.lines, OwnAt(before.lines))
        BY <4>1, <4>2, AppendedIsWhole
      <4>4. rc.there # "other" => Own(to) = Own(rc)
        BY <4>1, <4>3 DEF Own
      <4>5. step'.failed /\ step'.from = rc
        BY <3>3
      <4> QED BY <3>3, <4>3, <4>4, <4>5, FailedKeeps
    <3> QED BY <2>4, <3>1, <3>2, <3>3 DEF WriteRc
  <2> QED BY <2>2, <2>3, <2>4
<1>3. CASE Uninstall
  <2>1. CASE rc.there = "text" /\ HasBlock(rc)
    <3>1. PICK to : to = StripBlock(rc)
      OBVIOUS
    <3>2. WriteRc("uninstall", to)
      BY <1>3, <2>1, <3>1 DEF Uninstall
    <3>3. CASE rc' = to /\ step' = [by |-> "uninstall", from |-> rc, failed |-> FALSE]
      <4>1. rc' = IF rc.there = "text" /\ HasBlock(rc) THEN StripBlock(rc) ELSE rc
        BY <2>1, <3>1, <3>3
      <4> QED BY <3>3, <4>1, UninstallKeeps
    <3>4. CASE rc' \in {rc} \cup Beginnings(to) /\ step' = [by |-> "uninstall", from |-> rc, failed |-> TRUE]
      <4>1. to.lines \in Seq(Line)
        BY <1>1, <3>1, StripShape DEF IsRc
      <4>2. WholeBlocks(rc) => Own(to) = Own(rc)
        BY <1>1, <3>1, StripBlockIs
      <4>3. step'.failed /\ step'.from = rc
        BY <3>4
      <4> QED BY <3>4, <4>1, <4>2, <4>3, FailedKeeps
    <3> QED BY <3>2, <3>3, <3>4 DEF WriteRc
  <2>2. CASE ~(rc.there = "text" /\ HasBlock(rc))
    <3>1. Leave("uninstall")
      BY <1>3, <2>2 DEF Uninstall
    <3>2. rc' = IF rc.there = "text" /\ HasBlock(rc) THEN StripBlock(rc) ELSE rc
      BY <2>2, <3>1 DEF Leave
    <3> QED BY <3>1, <3>2, UninstallKeeps DEF Leave
  <2> QED BY <2>1, <2>2
<1> QED BY <1>2, <1>3

(* The user's editor leaves lines behind, whatever they are.                 *)
LEMMA EditKeeps ==
  ASSUME NEW c, IsRc(c), Edit(c)
  PROVE  IsRc(rc)' /\ BlockComesAndGoes'
<1>1. rc' = c /\ step'.by = "user"
  BY DEF Edit
<1>2. IsRc(rc)'
  BY <1>1 DEF IsRc
<1> QED BY <1>1, <1>2 DEF BlockComesAndGoes, OwnLinesKept, NothingOfBlockLeft, InstallIsActive

LEMMA UserKeeps ==
  ASSUME IsRc(rc), AddLine \/ InsertLine \/ DeleteLine \/ CommentOut \/ PasteBlock \/ Recode
  PROVE  IsRc(rc)' /\ BlockComesAndGoes'
<1>1. rc.lines \in Seq(Line) /\ rc.newline \in BOOLEAN
  BY DEF IsRc
<1>2. Block \in Seq(Line) /\ UserLines \subseteq Line /\ "Blank" \in Line /\ "Note" \in Line
  BY LinesDiffer DEF OwnLine
<1>3. \A l \in Seq(Line) : \A b \in BOOLEAN : IsRc(Text(l, b))
  BY DEF IsRc, Text
<1>4. ASSUME NEW l \in Seq(Line), rc.lines # <<>> PROVE IsRc([rc EXCEPT !.lines = l])
  <2>1. rc = [lines |-> rc.lines, newline |-> rc.newline, there |-> rc.there] /\ rc.there # "absent"
    BY <1>4 DEF IsRc
  <2>2. PICK c : c = [rc EXCEPT !.lines = l]
    OBVIOUS
  <2>3. c = [lines |-> l, newline |-> rc.newline, there |-> rc.there]
    BY <2>1, <2>2
  <2> QED BY <1>1, <2>1, <2>2, <2>3 DEF IsRc
<1>5. CASE AddLine
  <2>1. PICK l \in UserLines \cup {"Blank"}, newline \in BOOLEAN : Edit(Text(Append(rc.lines, l), newline))
    BY <1>5 DEF AddLine
  <2>2. Append(rc.lines, l) \in Seq(Line)
    BY <1>1, <1>2
  <2> QED BY <1>3, <2>1, <2>2, EditKeeps
<1>6. CASE InsertLine
  <2>1. PICK l \in UserLines, i \in DOMAIN rc.lines : Edit([rc EXCEPT !.lines = InsertAt(rc.lines, i, l)])
    BY <1>6 DEF InsertLine
  <2>2. InsertAt(rc.lines, i, l) \in Seq(Line) /\ rc.lines # <<>>
    BY <1>1, <1>2 DEF InsertAt
  <2> QED BY <1>4, <2>1, <2>2, EditKeeps
<1>7. CASE DeleteLine
  <2>1. PICK i \in DOMAIN rc.lines :
          Edit(Text(RemoveAt(rc.lines, i), RemoveAt(rc.lines, i) # <<>> /\ (i = Len(rc.lines) \/ rc.newline)))
    BY <1>7 DEF DeleteLine
  <2>2. RemoveAt(rc.lines, i) \in Seq(Line)
    BY <1>1 DEF RemoveAt
  <2>3. (RemoveAt(rc.lines, i) # <<>> /\ (i = Len(rc.lines) \/ rc.newline)) \in BOOLEAN
    OBVIOUS
  <2> QED BY <1>3, <2>1, <2>2, <2>3, EditKeeps
<1>8. CASE CommentOut
  <2>1. PICK l : l = [i \in DOMAIN rc.lines |-> IF rc.lines[i] \in ToSet(Block) THEN "Note" ELSE rc.lines[i]]
    OBVIOUS
  <2>2. l \in Seq(Line)
    BY <1>1, <1>2, <2>1
  <2>3. Edit([rc EXCEPT !.lines = l]) /\ rc.lines # <<>>
    <3>1. ToSet(<<>>) = {}
      BY DEF ToSet
    <3> QED BY <1>8, <2>1, <3>1 DEF CommentOut
  <2> QED BY <1>4, <2>2, <2>3, EditKeeps
<1>9. CASE PasteBlock
  <2>1. rc.lines \o Block \in Seq(Line) /\ Edit(Text(rc.lines \o Block, TRUE))
    <3>1. rc.lines \o Block \in Seq(Line)
      BY <1>1, <1>2, ConcatProperties
    <3> QED BY <1>9, <3>1 DEF PasteBlock
  <2> QED BY <1>3, <2>1, EditKeeps
<1>10. CASE Recode
  <2>1. PICK c : c = [rc EXCEPT !.there = "other"]
    OBVIOUS
  <2>2. rc = [lines |-> rc.lines, newline |-> rc.newline, there |-> rc.there]
    BY DEF IsRc
  <2>3. c = [lines |-> rc.lines, newline |-> rc.newline, there |-> "other"]
    BY <2>1, <2>2
  <2>4. IsRc(c)
    BY <1>1, <2>3 DEF IsRc
  <2>5. Edit(c)
    BY <1>10, <2>1 DEF Recode
  <2> QED BY <2>4, <2>5, EditKeeps
<1> QED BY <1>5, <1>6, <1>7, <1>8, <1>9, <1>10

(* Whatever is installed, edited and removed in turn, and wherever a write   *)
(* fails: a block that is whole comes and goes whole, the user's lines stay, *)
(* and a failing write takes of them the last ones only (install_gate.rs).   *)
THEOREM BlockIsWhole == GateSpec => []BlockComesAndGoes
<1>1. GateInit => IsRc(rc) /\ BlockComesAndGoes
  BY DEF GateInit, NoRc, IsRc, BlockComesAndGoes, OwnLinesKept, NothingOfBlockLeft, InstallIsActive
<1>2. IsRc(rc) /\ BlockComesAndGoes /\ [GateNext]_gateVars => (IsRc(rc) /\ BlockComesAndGoes)'
  <2> SUFFICES ASSUME IsRc(rc), BlockComesAndGoes, [GateNext]_gateVars
               PROVE  (IsRc(rc) /\ BlockComesAndGoes)'
    OBVIOUS
  <2>1. CASE GateNext
    BY <2>1, CommandsKeep, UserKeeps DEF GateNext
  <2>2. CASE UNCHANGED gateVars
    BY <2>2 DEF gateVars, IsRc, BlockComesAndGoes, OwnLinesKept, NothingOfBlockLeft, InstallIsActive, Own, WholeBlocks
  <2> QED BY <2>1, <2>2
<1> QED BY <1>1, <1>2, PTL DEF GateSpec
=============================================================================
