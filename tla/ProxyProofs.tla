----------------------------- MODULE ProxyProofs -----------------------------
(* Proofs about the proxy: ProxyLifetime for any processes, directories and  *)
(* ports, and ProxyRequests for any configurations, requests and archives    *)
(* that RegistryLayout and the assumptions of ProxyRequests describe.        *)
EXTENDS ProxyLifetime, ProxyRequests, FiniteSetTheorems, SequenceTheorems, TLAPS

-----------------------------------------------------------------------------
(* The inductive invariant.  Its first part is about a directory in which no *)
(* two first runs have overlapped.                                           *)

Loaded == {"loaded", "listening", "done"}

\* A key has a certificate, and two complete files belong together.
FilesMatch(d) ==
  /\ cert[d] = Absent => key[d] = Absent
  /\ key[d] \in Nat => cert[d] = key[d]

\* Who generates has the directory to itself, and has written what is there.
Busy == Writing \cup Reading \cup Loaded
WritesAlone(p) == \A q \in Procs \ {p} : Dir[q] = Dir[p] => at[q] \notin Busy
HasWritten(p) ==
  /\ has[p].cert \in Nat /\ has[p].key = has[p].cert
  /\ at[p] = "cert" => key[Dir[p]] = Absent
  /\ at[p] = "cert open" => cert[Dir[p]] = Torn /\ key[Dir[p]] = Absent
  /\ at[p] = "key" => cert[Dir[p]] = has[p].cert /\ key[Dir[p]] = Absent
  /\ at[p] = "key open" => cert[Dir[p]] = has[p].cert /\ key[Dir[p]] = Torn
  /\ at[p] = "chmod" => cert[Dir[p]] = has[p].cert /\ key[Dir[p]] = has[p].key

\* Who reads, reads two files that nobody is writing.
ReadsWhatIsThere(p) ==
  /\ key[Dir[p]] # Absent
  /\ at[p] = "read key" => has[p].cert = cert[Dir[p]]

\* What was loaded stays, and is one pair if the key is complete.
HoldsPair(p) ==
  /\ key[Dir[p]] # Absent
  /\ has[p].key \in Nat => /\ has[p].cert = cert[Dir[p]] /\ has[p].key = key[Dir[p]]
                           /\ has[p].cert = has[p].key

Matching == \A d \in Dirs \ raced : FilesMatch(d)
Alone == \A p \in Procs : Dir[p] \notin raced /\ at[p] \in Writing => WritesAlone(p)
Written == \A p \in Procs : Dir[p] \notin raced /\ at[p] \in Writing => HasWritten(p)
ReadingThere == \A p \in Procs : Dir[p] \notin raced /\ at[p] \in Reading => ReadsWhatIsThere(p)
Pairs == \A p \in Procs : Dir[p] \notin raced /\ at[p] \in Loaded => HoldsPair(p)
Orderly == Matching /\ Alone /\ Written /\ ReadingThere /\ Pairs

\* A process that listens has read two complete files, and install-ca ends.
Listens ==
  \A p \in Procs :
    /\ at[p] = "listening" => has[p].cert \in Nat /\ has[p].key \in Nat
    /\ at[p] = "done" => p \in Installers

\* The second part is about the job: nobody else uses its directory.
JobAlone == Dir[Child] \notin raced

\* What is trusted is there, if there is one directory to install from.
OneSource == \A i, j \in Installers : Dir[i] = Dir[j]
Trusted ==
  \A i \in Installers : at[i] = "done" /\ Dir[i] \notin raced => store = cert[Dir[i]]

\* What answers is the child, if nobody else uses its port.
OwnPorts == \A p \in Procs \ {Child} : Port[p] # Port[Child]
Answers ==
  job \in {"up", "ready"} =>
    \/ at[Child] = "dead"
    \/ at[Child] = "listening" /\ listener[Port[Child]] = Child

IInv == TypeOK /\ Orderly /\ Listens /\ JobAlone /\ NothingLeftOfJob

-----------------------------------------------------------------------------
LEMMA StepCases ==
  ASSUME [Next]_vars
  PROVE  \/ \E p \in Procs :
              \/ Reuse(p) \/ ReadCert(p) \/ ReadKey(p) \/ Generate(p) \/ OpenCert(p)
              \/ WriteCert(p) \/ OpenKey(p) \/ WriteKey(p) \/ Chmod(p) \/ Launch(p)
              \/ Listen(p) \/ Refuse(p) \/ Trust(p) \/ Die(p) \/ Restart(p)
         \/ Spawn \/ NotSpawned \/ ProbeAnswered \/ DeadlinePasses \/ Export
         \/ Cancelled \/ PostStops \/ PostFindsNothing
         \/ UNCHANGED vars
BY DEF Next, Advance, EnsureCa, Main, Post

(* Type correctness *)

Shapes ==
  /\ cert \in [Dirs -> Contents] /\ key \in [Dirs -> Contents]
  /\ at \in [Procs -> Running \cup {"off", "dead", "done"}]
  /\ has \in [Procs -> Holding]
  /\ store \in Contents
  /\ job \in {"before", "waiting", "up", "ready", "failed", "stopped", "over"}
  /\ raced \subseteq Dirs
Listeners ==
  /\ listener \in [Ports -> Procs \cup {Nobody}]
  /\ \A o \in Ports : listener[o] # Nobody =>
       at[listener[o]] = "listening" /\ Port[listener[o]] = o
Numbers == made \in Nat /\ deaths \in 0 .. MaxDeaths

LEMMA TypeParts == TypeOK <=> Shapes /\ Listeners /\ Numbers
BY DEF TypeOK, Shapes, Listeners, Numbers

LEMMA HasField ==
  ASSUME NEW h \in [Procs -> Holding], NEW p \in Procs, NEW x \in Contents
  PROVE  /\ [h EXCEPT ![p].cert = x] \in [Procs -> Holding]
         /\ [h EXCEPT ![p].key = x] \in [Procs -> Holding]
BY DEF Holding

LEMMA HasPair ==
  ASSUME NEW h \in [Procs -> Holding], NEW p \in Procs, NEW x \in Contents, NEW y \in Contents
  PROVE  [h EXCEPT ![p] = [cert |-> x, key |-> y]] \in [Procs -> Holding]
BY DEF Holding

LEMMA ShapesNext == Shapes /\ Numbers /\ [Next]_vars => Shapes'
<1> SUFFICES ASSUME Shapes, Numbers, [Next]_vars
             PROVE  Shapes'
  OBVIOUS
<1> USE DEF Shapes, Goes, Empty, JobUnchanged
<1>1. CASE NotSpawned \/ ProbeAnswered \/ DeadlinePasses \/ Export \/
           Cancelled \/ PostFindsNothing
  BY <1>1 DEF NotSpawned, ProbeAnswered, DeadlinePasses, Export, Cancelled,
              PostFindsNothing
<1>2. ASSUME NEW p \in Procs, Reuse(p) PROVE Shapes'
  BY <1>2, ProcsAssumption DEF Reuse, Running, Writing, Reading
<1>3. ASSUME NEW p \in Procs, ReadCert(p) PROVE Shapes'
  <2>1. cert[Dir[p]] \in Contents
    BY ProcsAssumption
  <2>2. has' \in [Procs -> Holding]
    BY <1>3, <2>1, HasField DEF ReadCert
  <2> QED
    BY <1>3, <2>2 DEF ReadCert, Running, Writing, Reading
<1>4. ASSUME NEW p \in Procs, ReadKey(p) PROVE Shapes'
  <2>1. key[Dir[p]] \in Contents
    BY ProcsAssumption
  <2>2. has' \in [Procs -> Holding]
    BY <1>4, <2>1, HasField DEF ReadKey
  <2> QED
    BY <1>4, <2>2 DEF ReadKey, Running, Writing, Reading
<1>5. ASSUME NEW p \in Procs, Generate(p) PROVE Shapes'
  <2>1. made + 1 \in Contents
    BY DEF Numbers, Contents
  <2>2. has' \in [Procs -> Holding]
    BY <1>5, <2>1, HasPair DEF Generate
  <2> QED
    BY <1>5, <2>2, ProcsAssumption DEF Generate, Running, Writing, Reading
<1>6. ASSUME NEW p \in Procs, OpenCert(p) PROVE Shapes'
  <2>1. Torn \in Contents
    BY DEF Contents
  <2> QED
    BY <1>6, <2>1 DEF OpenCert, Running, Writing, Reading
<1>7. ASSUME NEW p \in Procs, WriteCert(p) PROVE Shapes'
  <2>1. has[p].cert \in Contents
    BY DEF Holding
  <2> QED
    BY <1>7, <2>1 DEF WriteCert, Running, Writing, Reading
<1>8. ASSUME NEW p \in Procs, OpenKey(p) PROVE Shapes'
  <2>1. Torn \in Contents
    BY DEF Contents
  <2> QED
    BY <1>8, <2>1 DEF OpenKey, Running, Writing, Reading
<1>9. ASSUME NEW p \in Procs, WriteKey(p) PROVE Shapes'
  <2>1. has[p].key \in Contents
    BY DEF Holding
  <2> QED
    BY <1>9, <2>1 DEF WriteKey, Running, Writing, Reading
<1>10. ASSUME NEW p \in Procs, Chmod(p) PROVE Shapes'
  BY <1>10 DEF Chmod, Running, Writing, Reading
<1>11. ASSUME NEW p \in Procs, Launch(p) PROVE Shapes'
  BY <1>11 DEF Launch, Running, Writing, Reading
<1>12. ASSUME NEW p \in Procs, Listen(p) PROVE Shapes'
  BY <1>12 DEF Listen, Running, Writing, Reading
<1>13. ASSUME NEW p \in Procs, Refuse(p) PROVE Shapes'
  <2>1. Absent \in Contents
    BY DEF Contents
  <2>2. Empty \in Holding
    BY <2>1 DEF Empty, Holding
  <2>3. has' \in [Procs -> Holding]
    BY <1>13, <2>2 DEF Refuse
  <2> QED
    BY <1>13, <2>1, <2>3 DEF Refuse, Contents, Running, Writing, Reading
<1>14. ASSUME NEW p \in Procs, Trust(p) PROVE Shapes'
  <2>1. Absent \in Contents
    BY DEF Contents
  <2>2. Empty \in Holding
    BY <2>1 DEF Empty, Holding
  <2>3. has' \in [Procs -> Holding]
    BY <1>14, <2>2 DEF Trust
  <2>4. cert[Dir[p]] \in Contents
    BY ProcsAssumption
  <2> QED
    BY <1>14, <2>3, <2>4 DEF Trust
<1>15. ASSUME NEW p \in Procs, Die(p) PROVE Shapes'
  <2>1. Absent \in Contents
    BY DEF Contents
  <2>2. Empty \in Holding
    BY <2>1 DEF Empty, Holding
  <2>3. has' \in [Procs -> Holding]
    BY <1>15, <2>2 DEF Die
  <2> QED
    BY <1>15, <2>1, <2>3 DEF Die, Contents, Running, Writing, Reading
<1>16. ASSUME NEW p \in Procs, Restart(p) PROVE Shapes'
  BY <1>16 DEF Restart, Running, Writing, Reading
<1>17. CASE Spawn
  BY <1>17, ProcsAssumption DEF Spawn, Running, Writing, Reading
<1>18. CASE PostStops
  <2>1. Absent \in Contents
    BY DEF Contents
  <2>2. Empty \in Holding
    BY <2>1 DEF Empty, Holding
  <2>3. has' \in [Procs -> Holding]
    BY <1>18, <2>2 DEF PostStops
  <2> QED
    BY <1>18, <2>1, <2>3 DEF PostStops, Killed, Contents, Running, Writing, Reading
<1>19. CASE UNCHANGED vars
  BY <1>19 DEF vars
<1> HIDE DEF Shapes, Goes, Empty, JobUnchanged
<1> QED
  BY <1>1, <1>2, <1>3, <1>4, <1>5, <1>6, <1>7, <1>8, <1>9, <1>10, <1>11, <1>12,
     <1>13, <1>14, <1>15, <1>16, <1>17, <1>18, <1>19, StepCases

\* A process that does not listen goes somewhere else.
LEMMA ListenersKept ==
  ASSUME Listeners, NEW p \in Procs, at[p] # "listening", listener' = listener,
         \A q \in Procs : q # p => at'[q] = at[q]
  PROVE  Listeners'
<1>1. ASSUME NEW o \in Ports, listener[o] # Nobody PROVE listener[o] \in Procs \ {p}
  BY <1>1 DEF Listeners
<1> QED
  BY <1>1 DEF Listeners

LEMMA ListenersNext == Shapes /\ Listeners /\ [Next]_vars => Listeners'
<1> SUFFICES ASSUME Shapes, Listeners, [Next]_vars
             PROVE  Listeners'
  OBVIOUS
<1> USE DEF Shapes, Goes, JobUnchanged
<1>1. CASE NotSpawned \/ ProbeAnswered \/ DeadlinePasses \/ Export \/
           Cancelled \/ PostFindsNothing
  BY <1>1, ProcsAssumption, ValuesAssumption DEF NotSpawned, ProbeAnswered, DeadlinePasses,
                                                 Export, Cancelled,
                                                 PostFindsNothing, Listeners
<1>2. ASSUME NEW p \in Procs, Reuse(p) \/ ReadCert(p) \/ ReadKey(p) \/ Generate(p) \/
                              OpenCert(p) \/ WriteCert(p) \/ OpenKey(p) \/ WriteKey(p) \/
                              Chmod(p)
      PROVE  Listeners'
  <2>1. at[p] # "listening" /\ listener' = listener /\ \A q \in Procs : q # p => at'[q] = at[q]
    BY <1>2 DEF
              Reuse, ReadCert, ReadKey, Generate, OpenCert, WriteCert, OpenKey, WriteKey,
              Chmod
  <2> QED
    BY <2>1, ListenersKept
<1>3. ASSUME NEW p \in Procs, Launch(p) \/ Refuse(p) \/ Trust(p) \/ Restart(p)
      PROVE  Listeners'
  <2>1. at[p] # "listening" /\ listener' = listener /\ \A q \in Procs : q # p => at'[q] = at[q]
    BY <1>3 DEF
              Launch, Refuse, Trust, Restart
  <2> QED
    BY <2>1, ListenersKept
<1>4. ASSUME NEW p \in Procs, Listen(p) PROVE Listeners'
  <2>1. Port[p] \in Ports
    BY ProcsAssumption
  <2>2. /\ listener'[Port[p]] = p /\ at'[p] = "listening" /\ at[p] # "listening"
        /\ \A o \in Ports : o # Port[p] => listener'[o] = listener[o]
        /\ \A q \in Procs : q # p => at'[q] = at[q]
        /\ listener' \in [Ports -> Procs \cup {Nobody}]
    BY <1>4, <2>1 DEF Listen, Listeners
  <2>3. ASSUME NEW o \in Ports, o # Port[p], listener[o] # Nobody PROVE listener[o] \in Procs \ {p}
    BY <2>2, <2>3 DEF Listeners
  <2> QED
    BY <2>1, <2>2, <2>3 DEF Listeners
<1>5. ASSUME NEW p \in Procs, Die(p) PROVE Listeners'
  BY <1>5, ProcsAssumption, ValuesAssumption DEF Die, Stopped, Listeners
<1>6. CASE Spawn
  <2>1. at[Child] # "listening" /\ listener' = listener /\ \A q \in Procs : q # Child => at'[q] = at[q]
    BY <1>6 DEF Spawn
  <2> QED
    BY <2>1, ListenersKept, ProcsAssumption
<1>7. CASE PostStops
  BY <1>7, ProcsAssumption, ValuesAssumption DEF PostStops, Killed, Listeners
<1>8. CASE UNCHANGED vars
  BY <1>8 DEF vars, Listeners
<1> HIDE DEF Shapes, Goes, JobUnchanged
<1> QED
  BY <1>1, <1>2, <1>3, <1>4, <1>5, <1>6, <1>7, <1>8, StepCases

LEMMA NumbersNext == Numbers /\ [Next]_vars => Numbers'
<1> SUFFICES ASSUME Numbers, [Next]_vars
             PROVE  Numbers'
  OBVIOUS
<1> USE DEF Numbers, JobUnchanged
<1>1. ASSUME NEW p \in Procs, Reuse(p) \/ ReadCert(p) \/ ReadKey(p) \/ OpenCert(p) \/
                              WriteCert(p) \/ OpenKey(p) \/ WriteKey(p) \/ Chmod(p) \/
                              Launch(p) \/ Listen(p) \/ Refuse(p) \/ Trust(p) \/ Restart(p)
      PROVE  Numbers'
  BY <1>1, MaxDeathsAssumption DEF Reuse, ReadCert, ReadKey, OpenCert, WriteCert, OpenKey,
                                   WriteKey, Chmod, Launch, Listen, Refuse, Trust, Restart
<1>2. CASE Spawn \/ NotSpawned \/ ProbeAnswered \/ DeadlinePasses \/ Export \/
           Cancelled \/ PostStops \/ PostFindsNothing
  BY <1>2, MaxDeathsAssumption DEF Spawn, NotSpawned, ProbeAnswered, DeadlinePasses, Export,
                                   Cancelled, PostStops, PostFindsNothing
<1>3. ASSUME NEW p \in Procs, Generate(p) PROVE Numbers'
  BY <1>3, MaxDeathsAssumption DEF Generate
<1>4. ASSUME NEW p \in Procs, Die(p) PROVE Numbers'
  BY <1>4, MaxDeathsAssumption DEF Die
<1>5. CASE UNCHANGED vars
  BY <1>5, MaxDeathsAssumption DEF vars
<1> HIDE DEF Numbers, JobUnchanged
<1> QED
  BY <1>1, <1>2, <1>3, <1>4, <1>5, StepCases

LEMMA TypeInit == Init => TypeOK
<1> SUFFICES ASSUME Init PROVE TypeOK
  OBVIOUS
<1>1. Absent \in Contents /\ 0 \in Contents
  BY DEF Contents
<1>2. cert \in [Dirs -> Contents] /\ key \in [Dirs -> Contents]
  BY <1>1 DEF Init
<1>3. has \in [Procs -> Holding]
  BY <1>1 DEF Init, Empty, Holding
<1>4. Shapes
  BY <1>1, <1>2, <1>3 DEF Init, Shapes
<1>5. Listeners /\ Numbers
  BY MaxDeathsAssumption DEF Init, Listeners, Numbers
<1> QED
  BY <1>4, <1>5, TypeParts

(* Types.                                                                    *)
THEOREM TypeCorrect == Spec => []TypeOK
<1>1. TypeOK /\ [Next]_vars => TypeOK'
  BY TypeParts, ShapesNext, ListenersNext, NumbersNext, PTL
<1> QED
  BY <1>1, TypeInit, PTL DEF Spec

-----------------------------------------------------------------------------
(* The directories in which no first runs have overlapped *)

LEMMA OneMore == Numbers => made + 1 \in Nat
BY DEF Numbers

LEMMA AloneNext == Shapes /\ Matching /\ Pairs /\ Alone /\ [Next]_vars => Alone'
<1> SUFFICES ASSUME Shapes, Matching, Pairs, Alone, [Next]_vars
             PROVE  Alone'
  OBVIOUS
<1> USE DEF Shapes, Goes, JobUnchanged, Matching, Alone, Pairs, FilesMatch, WritesAlone,
            HoldsPair, Busy, Writing, Reading, Loaded
<1>1. CASE NotSpawned \/ ProbeAnswered \/ DeadlinePasses \/ Export \/
           Cancelled \/ PostFindsNothing
  BY <1>1, ProcsAssumption, ValuesAssumption DEF NotSpawned, ProbeAnswered, DeadlinePasses,
                                                 Export, Cancelled,
                                                 PostFindsNothing
<1>2. ASSUME NEW p \in Procs, Reuse(p) PROVE Alone'
  BY <1>2, ProcsAssumption, ValuesAssumption, ZenonT(60) DEF Reuse, Generating
<1>3. ASSUME NEW p \in Procs, ReadCert(p) PROVE Alone'
  BY <1>3, ProcsAssumption, ValuesAssumption, ZenonT(60) DEF ReadCert
<1>4. ASSUME NEW p \in Procs, ReadKey(p) PROVE Alone'
  BY <1>4, ProcsAssumption, ValuesAssumption, ZenonT(60) DEF ReadKey
<1>5. ASSUME NEW p \in Procs, Generate(p) PROVE Alone'
  <2>1. Dir[p] \in Dirs /\ \A q \in Procs : q # p => at'[q] = at[q]
    BY <1>5, ProcsAssumption DEF Generate
  <2>2. ASSUME Dir[p] \notin raced' PROVE Dir[p] \notin raced /\ Inside(Dir[p]) = {}
    BY <1>5, <2>2 DEF Generate
  <2>3. ASSUME Dir[p] \notin raced PROVE key[Dir[p]] = Absent
    BY <1>5, <2>1, <2>3 DEF Generate, Exists
  <2>4. ASSUME Dir[p] \notin raced', NEW q \in Procs \ {p}, Dir[q] = Dir[p] PROVE at[q] \notin Busy
    BY <2>2, <2>3, <2>4 DEF Inside
  <2>5. raced \subseteq raced' /\ at' = [at EXCEPT ![p] = "cert"]
    BY <1>5 DEF Generate
  <2> QED
    BY <2>1, <2>4, <2>5, ZenonT(60)
<1>6. ASSUME NEW p \in Procs, OpenCert(p) PROVE Alone'
  BY <1>6, ProcsAssumption, ValuesAssumption, ZenonT(60) DEF OpenCert
<1>7. ASSUME NEW p \in Procs, WriteCert(p) PROVE Alone'
  BY <1>7, ProcsAssumption, ValuesAssumption, ZenonT(60) DEF WriteCert
<1>8. ASSUME NEW p \in Procs, OpenKey(p) PROVE Alone'
  BY <1>8, ProcsAssumption, ValuesAssumption, ZenonT(60) DEF OpenKey
<1>9. ASSUME NEW p \in Procs, WriteKey(p) PROVE Alone'
  BY <1>9, ProcsAssumption, ValuesAssumption, ZenonT(60) DEF WriteKey
<1>10. ASSUME NEW p \in Procs, Chmod(p) PROVE Alone'
  BY <1>10, ProcsAssumption, ValuesAssumption, ZenonT(60) DEF Chmod
<1>11. ASSUME NEW p \in Procs, Launch(p) PROVE Alone'
  BY <1>11, ProcsAssumption, ValuesAssumption, ZenonT(60) DEF Launch
<1>12. ASSUME NEW p \in Procs, Listen(p) PROVE Alone'
  <2>1. raced' = raced /\ at[p] = "loaded" /\ at' = [at EXCEPT ![p] = "listening"]
    BY <1>12 DEF Listen
  <2>2. at'[p] \notin Writing /\ at[p] \in Busy /\ \A q \in Procs : q # p => at'[q] = at[q]
    BY <2>1
  <2> QED
    BY <2>1, <2>2, ZenonT(60)
<1>13. ASSUME NEW p \in Procs, Refuse(p) PROVE Alone'
  BY <1>13, ProcsAssumption, ValuesAssumption, ZenonT(60) DEF Refuse, Empty
<1>14. ASSUME NEW p \in Procs, Trust(p) PROVE Alone'
  BY <1>14, ProcsAssumption, ValuesAssumption, ZenonT(60) DEF Trust, Empty
<1>15. ASSUME NEW p \in Procs, Die(p) PROVE Alone'
  BY <1>15, ProcsAssumption, ValuesAssumption, ZenonT(60) DEF Die, Empty, Running
<1>16. ASSUME NEW p \in Procs, Restart(p) PROVE Alone'
  BY <1>16, ProcsAssumption, ValuesAssumption, ZenonT(60) DEF Restart
<1>17. CASE Spawn
  BY <1>17, ProcsAssumption, ValuesAssumption, ZenonT(60) DEF Spawn
<1>18. CASE PostStops
  BY <1>18, ProcsAssumption, ValuesAssumption DEF PostStops, Killed, Running, Empty
<1>19. CASE UNCHANGED vars
  BY <1>19, ProcsAssumption, ValuesAssumption DEF vars
<1> HIDE DEF Shapes, Goes, JobUnchanged, Matching, Alone, Pairs, FilesMatch, WritesAlone,
             HoldsPair, Busy, Writing, Reading, Loaded
<1> QED
  BY <1>1, <1>2, <1>3, <1>4, <1>5, <1>6, <1>7, <1>8, <1>9, <1>10, <1>11, <1>12,
     <1>13, <1>14, <1>15, <1>16, <1>17, <1>18, <1>19, StepCases

LEMMA MatchingNext == Shapes /\ Numbers /\ Written /\ Matching /\ [Next]_vars => Matching'
<1> SUFFICES ASSUME Shapes, Numbers, Written, Matching, [Next]_vars
             PROVE  Matching'
  OBVIOUS
<1> USE DEF Shapes, Goes, JobUnchanged, Matching, Written, FilesMatch, HasWritten, Writing,
            Reading, Loaded
<1>1. CASE NotSpawned \/ ProbeAnswered \/ DeadlinePasses \/ Export \/
           Cancelled \/ PostFindsNothing
  BY <1>1, ProcsAssumption, ValuesAssumption DEF NotSpawned, ProbeAnswered, DeadlinePasses,
                                                 Export, Cancelled,
                                                 PostFindsNothing
<1>2. ASSUME NEW p \in Procs, Reuse(p) PROVE Matching'
  BY <1>2, ProcsAssumption, ValuesAssumption DEF Reuse, Generating
<1>3. ASSUME NEW p \in Procs, ReadCert(p) PROVE Matching'
  BY <1>3, ProcsAssumption, ValuesAssumption DEF ReadCert
<1>4. ASSUME NEW p \in Procs, ReadKey(p) PROVE Matching'
  BY <1>4, ProcsAssumption, ValuesAssumption DEF ReadKey
<1>5. ASSUME NEW p \in Procs, Generate(p) PROVE Matching'
  BY <1>5, ProcsAssumption, ValuesAssumption DEF Generate, Exists, Inside
<1>6. ASSUME NEW p \in Procs, OpenCert(p) PROVE Matching'
  <2>1. Dir[p] \in Dirs /\ at[p] = "cert" /\ key' = key /\ raced' = raced
    BY <1>6, ProcsAssumption DEF OpenCert
  <2>2. cert'[Dir[p]] = Torn /\ \A d \in Dirs : d # Dir[p] => cert'[d] = cert[d]
    BY <1>6, <2>1 DEF OpenCert
  <2>3. Dir[p] \notin raced => HasWritten(p)
    BY <2>1
  <2>4. Dir[p] \notin raced => FilesMatch(Dir[p])'
    BY <2>1, <2>2, <2>3, ValuesAssumption
  <2>5. \A d \in Dirs \ raced : d # Dir[p] => FilesMatch(d)'
    BY <2>1, <2>2
  <2> QED
    BY <2>1, <2>4, <2>5
<1>7. ASSUME NEW p \in Procs, WriteCert(p) PROVE Matching'
  <2>1. Dir[p] \in Dirs /\ at[p] = "cert open" /\ key' = key /\ raced' = raced
    BY <1>7, ProcsAssumption DEF WriteCert
  <2>2. cert'[Dir[p]] = has[p].cert /\ \A d \in Dirs : d # Dir[p] => cert'[d] = cert[d]
    BY <1>7, <2>1 DEF WriteCert
  <2>3. Dir[p] \notin raced => HasWritten(p)
    BY <2>1
  <2>4. Dir[p] \notin raced => FilesMatch(Dir[p])'
    BY <2>1, <2>2, <2>3, ValuesAssumption
  <2>5. \A d \in Dirs \ raced : d # Dir[p] => FilesMatch(d)'
    BY <2>1, <2>2
  <2> QED
    BY <2>1, <2>4, <2>5
<1>8. ASSUME NEW p \in Procs, OpenKey(p) PROVE Matching'
  <2>1. Dir[p] \in Dirs /\ at[p] = "key" /\ cert' = cert /\ raced' = raced
    BY <1>8, ProcsAssumption DEF OpenKey
  <2>2. key'[Dir[p]] = Torn /\ \A d \in Dirs : d # Dir[p] => key'[d] = key[d]
    BY <1>8, <2>1 DEF OpenKey
  <2>3. Dir[p] \notin raced => HasWritten(p)
    BY <2>1
  <2>4. Dir[p] \notin raced => FilesMatch(Dir[p])'
    BY <2>1, <2>2, <2>3, ValuesAssumption
  <2>5. \A d \in Dirs \ raced : d # Dir[p] => FilesMatch(d)'
    BY <2>1, <2>2
  <2> QED
    BY <2>1, <2>4, <2>5
<1>9. ASSUME NEW p \in Procs, WriteKey(p) PROVE Matching'
  BY <1>9, ProcsAssumption, ValuesAssumption, ZenonT(60) DEF WriteKey
<1>10. ASSUME NEW p \in Procs, Chmod(p) PROVE Matching'
  BY <1>10, ProcsAssumption, ValuesAssumption DEF Chmod
<1>11. ASSUME NEW p \in Procs, Launch(p) PROVE Matching'
  BY <1>11, ProcsAssumption, ValuesAssumption DEF Launch
<1>12. ASSUME NEW p \in Procs, Listen(p) PROVE Matching'
  BY <1>12, ProcsAssumption, ValuesAssumption DEF Listen
<1>13. ASSUME NEW p \in Procs, Refuse(p) PROVE Matching'
  BY <1>13, ProcsAssumption, ValuesAssumption DEF Refuse, Empty
<1>14. ASSUME NEW p \in Procs, Trust(p) PROVE Matching'
  BY <1>14, ProcsAssumption, ValuesAssumption DEF Trust, Empty
<1>15. ASSUME NEW p \in Procs, Die(p) PROVE Matching'
  BY <1>15, ProcsAssumption, ValuesAssumption DEF Die, Empty, Running
<1>16. ASSUME NEW p \in Procs, Restart(p) PROVE Matching'
  BY <1>16, ProcsAssumption, ValuesAssumption DEF Restart
<1>17. CASE Spawn
  BY <1>17, ProcsAssumption, ValuesAssumption DEF Spawn
<1>18. CASE PostStops
  BY <1>18, ProcsAssumption, ValuesAssumption DEF PostStops, Killed, Running, Empty
<1>19. CASE UNCHANGED vars
  BY <1>19, ProcsAssumption, ValuesAssumption DEF vars
<1> HIDE DEF Shapes, Goes, JobUnchanged, Matching, Written, FilesMatch, HasWritten, Writing,
             Reading, Loaded
<1> QED
  BY <1>1, <1>2, <1>3, <1>4, <1>5, <1>6, <1>7, <1>8, <1>9, <1>10, <1>11, <1>12,
     <1>13, <1>14, <1>15, <1>16, <1>17, <1>18, <1>19, StepCases

LEMMA WrittenNext == Shapes /\ Numbers /\ Matching /\ Alone /\ Written /\
                     [Next]_vars => Written'
<1> SUFFICES ASSUME Shapes, Numbers, Matching, Alone, Written, [Next]_vars
             PROVE  Written'
  OBVIOUS
<1> USE DEF Shapes, Goes, JobUnchanged, Matching, Alone, Written, FilesMatch, WritesAlone,
            HasWritten, Busy, Writing, Reading, Loaded
<1>1. CASE NotSpawned \/ ProbeAnswered \/ DeadlinePasses \/ Export \/
           Cancelled \/ PostFindsNothing
  BY <1>1, ProcsAssumption, ValuesAssumption, ZenonT(60) DEF NotSpawned, ProbeAnswered, DeadlinePasses,
                                                 Export, Cancelled,
                                                 PostFindsNothing
<1>2. ASSUME NEW p \in Procs, Reuse(p) PROVE Written'
  BY <1>2, ProcsAssumption, ValuesAssumption DEF Reuse, Generating
<1>3. ASSUME NEW p \in Procs, ReadCert(p) PROVE Written'
  BY <1>3, ProcsAssumption, ValuesAssumption, ZenonT(60) DEF ReadCert
<1>4. ASSUME NEW p \in Procs, ReadKey(p) PROVE Written'
  BY <1>4, ProcsAssumption, ValuesAssumption, ZenonT(60) DEF ReadKey
<1>5. ASSUME NEW p \in Procs, Generate(p) PROVE Written'
  <2> DEFINE n == made + 1
  <2>1. /\ Dir[p] \in Dirs /\ cert' = cert /\ key' = key /\ raced \subseteq raced'
        /\ \A q \in Procs : q # p => at'[q] = at[q] /\ has'[q] = has[q]
    BY <1>5, ProcsAssumption DEF Generate
  <2>2. at'[p] = "cert" /\ has'[p].cert = n /\ has'[p].key = n
    BY <1>5 DEF Generate
  <2>3. n \in Nat
    BY OneMore
  <2>4. Dir[p] \notin raced => key[Dir[p]] = Absent
    BY <1>5, <2>1 DEF Generate, Exists
  <2> HIDE DEF n, Shapes, Matching, Alone, FilesMatch, WritesAlone, Busy, Goes
  <2>5. Dir[p] \notin raced' => HasWritten(p)'
    <3>2. Dir[p] \notin raced' => key'[Dir[p]] = Absent
      BY <2>1, <2>4
    <3> QED
      BY <2>2, <2>3, <3>2 DEF HasWritten
  <2>6. ASSUME NEW q \in Procs, q # p, Dir[q] \notin raced', at'[q] \in Writing PROVE HasWritten(q)'
    BY <2>1, <2>6, ZenonT(60)
  <2> QED
    BY <2>5, <2>6
<1>6. ASSUME NEW p \in Procs, OpenCert(p) PROVE Written'
  BY <1>6, ProcsAssumption, ValuesAssumption, ZenonT(60) DEF OpenCert
<1>7. ASSUME NEW p \in Procs, WriteCert(p) PROVE Written'
  BY <1>7, ProcsAssumption, ValuesAssumption, ZenonT(60) DEF WriteCert
<1>8. ASSUME NEW p \in Procs, OpenKey(p) PROVE Written'
  BY <1>8, ProcsAssumption, ValuesAssumption, ZenonT(60) DEF OpenKey
<1>9. ASSUME NEW p \in Procs, WriteKey(p) PROVE Written'
  BY <1>9, ProcsAssumption, ValuesAssumption, ZenonT(60) DEF WriteKey
<1>10. ASSUME NEW p \in Procs, Chmod(p) PROVE Written'
  BY <1>10, ProcsAssumption, ValuesAssumption, ZenonT(60) DEF Chmod
<1>11. ASSUME NEW p \in Procs, Launch(p) PROVE Written'
  BY <1>11, ProcsAssumption, ValuesAssumption, ZenonT(60) DEF Launch
<1>12. ASSUME NEW p \in Procs, Listen(p) PROVE Written'
  BY <1>12, ProcsAssumption, ValuesAssumption, ZenonT(60) DEF Listen
<1>13. ASSUME NEW p \in Procs, Refuse(p) PROVE Written'
  BY <1>13, ProcsAssumption, ValuesAssumption, ZenonT(60) DEF Refuse, Empty
<1>14. ASSUME NEW p \in Procs, Trust(p) PROVE Written'
  BY <1>14, ProcsAssumption, ValuesAssumption, ZenonT(60) DEF Trust, Empty
<1>15. ASSUME NEW p \in Procs, Die(p) PROVE Written'
  BY <1>15, ProcsAssumption, ValuesAssumption, ZenonT(60) DEF Die, Empty, Running
<1>16. ASSUME NEW p \in Procs, Restart(p) PROVE Written'
  BY <1>16, ProcsAssumption, ValuesAssumption DEF Restart
<1>17. CASE Spawn
  BY <1>17, ProcsAssumption, ValuesAssumption DEF Spawn
<1>18. CASE PostStops
  BY <1>18, ProcsAssumption, ValuesAssumption, ZenonT(60) DEF PostStops, Killed, Running, Empty
<1>19. CASE UNCHANGED vars
  BY <1>19, ProcsAssumption, ValuesAssumption DEF vars
<1> HIDE DEF Shapes, Goes, JobUnchanged, Matching, Alone, Written, FilesMatch, WritesAlone,
             HasWritten, Busy, Writing, Reading, Loaded
<1> QED
  BY <1>1, <1>2, <1>3, <1>4, <1>5, <1>6, <1>7, <1>8, <1>9, <1>10, <1>11, <1>12,
     <1>13, <1>14, <1>15, <1>16, <1>17, <1>18, <1>19, StepCases

LEMMA ReadingThereNext == Shapes /\ Matching /\ Alone /\ ReadingThere /\
                          [Next]_vars => ReadingThere'
<1> SUFFICES ASSUME Shapes, Matching, Alone, ReadingThere, [Next]_vars
             PROVE  ReadingThere'
  OBVIOUS
<1> USE DEF Shapes, Goes, JobUnchanged, Alone, Matching, ReadingThere, WritesAlone,
            FilesMatch, ReadsWhatIsThere, Busy, Writing, Reading, Loaded
<1>1. CASE NotSpawned \/ ProbeAnswered \/ DeadlinePasses \/ Export \/
           Cancelled \/ PostFindsNothing
  BY <1>1, ProcsAssumption, ValuesAssumption DEF NotSpawned, ProbeAnswered, DeadlinePasses,
                                                 Export, Cancelled,
                                                 PostFindsNothing
<1>2. ASSUME NEW p \in Procs, Reuse(p) PROVE ReadingThere'
  <2>1. /\ raced \subseteq raced' /\ cert' = cert /\ key' = key /\ has' = has
        /\ at'[p] = "read cert" /\ \A q \in Procs : q # p => at'[q] = at[q]
    BY <1>2 DEF Reuse
  <2>2. key[Dir[p]] # Absent
    BY <1>2 DEF Reuse, Exists
  <2> QED
    BY <2>1, <2>2
<1>3. ASSUME NEW p \in Procs, ReadCert(p) PROVE ReadingThere'
  <2>1. /\ raced' = raced /\ cert' = cert /\ key' = key /\ at[p] = "read cert"
        /\ \A q \in Procs : q # p => at'[q] = at[q] /\ has'[q] = has[q]
    BY <1>3 DEF ReadCert
  <2>2. has[p] \in Holding /\ has' = [has EXCEPT ![p].cert = cert[Dir[p]]]
    BY <1>3 DEF ReadCert
  <2>3. has'[p].cert = cert[Dir[p]]
    BY <2>2 DEF Holding
  <2> QED
    BY <2>1, <2>3, ZenonT(60)
<1>4. ASSUME NEW p \in Procs, ReadKey(p) PROVE ReadingThere'
  BY <1>4, ProcsAssumption, ValuesAssumption DEF ReadKey
<1>5. ASSUME NEW p \in Procs, Generate(p) PROVE ReadingThere'
  BY <1>5, ProcsAssumption, ValuesAssumption DEF Generate, Exists, Inside
<1>6. ASSUME NEW p \in Procs, OpenCert(p) PROVE ReadingThere'
  BY <1>6, ProcsAssumption, ValuesAssumption DEF OpenCert
<1>7. ASSUME NEW p \in Procs, WriteCert(p) PROVE ReadingThere'
  BY <1>7, ProcsAssumption, ValuesAssumption DEF WriteCert
<1>8. ASSUME NEW p \in Procs, OpenKey(p) PROVE ReadingThere'
  BY <1>8, ProcsAssumption, ValuesAssumption DEF OpenKey
<1>9. ASSUME NEW p \in Procs, WriteKey(p) PROVE ReadingThere'
  BY <1>9, ProcsAssumption, ValuesAssumption DEF WriteKey
<1>10. ASSUME NEW p \in Procs, Chmod(p) PROVE ReadingThere'
  BY <1>10, ProcsAssumption, ValuesAssumption DEF Chmod
<1>11. ASSUME NEW p \in Procs, Launch(p) PROVE ReadingThere'
  BY <1>11, ProcsAssumption, ValuesAssumption DEF Launch
<1>12. ASSUME NEW p \in Procs, Listen(p) PROVE ReadingThere'
  BY <1>12, ProcsAssumption, ValuesAssumption DEF Listen
<1>13. ASSUME NEW p \in Procs, Refuse(p) PROVE ReadingThere'
  BY <1>13, ProcsAssumption, ValuesAssumption DEF Refuse, Empty
<1>14. ASSUME NEW p \in Procs, Trust(p) PROVE ReadingThere'
  BY <1>14, ProcsAssumption, ValuesAssumption DEF Trust, Empty
<1>15. ASSUME NEW p \in Procs, Die(p) PROVE ReadingThere'
  BY <1>15, ProcsAssumption, ValuesAssumption DEF Die, Empty, Running
<1>16. ASSUME NEW p \in Procs, Restart(p) PROVE ReadingThere'
  BY <1>16, ProcsAssumption, ValuesAssumption DEF Restart
<1>17. CASE Spawn
  BY <1>17, ProcsAssumption, ValuesAssumption DEF Spawn
<1>18. CASE PostStops
  BY <1>18, ProcsAssumption, ValuesAssumption, ZenonT(60) DEF PostStops, Killed, Running, Empty
<1>19. CASE UNCHANGED vars
  BY <1>19, ProcsAssumption, ValuesAssumption DEF vars
<1> HIDE DEF Shapes, Goes, JobUnchanged, Alone, Matching, ReadingThere, WritesAlone,
             FilesMatch, ReadsWhatIsThere, Busy, Writing, Reading, Loaded
<1> QED
  BY <1>1, <1>2, <1>3, <1>4, <1>5, <1>6, <1>7, <1>8, <1>9, <1>10, <1>11, <1>12,
     <1>13, <1>14, <1>15, <1>16, <1>17, <1>18, <1>19, StepCases

LEMMA PairsNext == Shapes /\ Listens /\ Matching /\ Alone /\ Written /\ ReadingThere /\
                   Pairs /\ [Next]_vars => Pairs'
<1> SUFFICES ASSUME Shapes, Listens, Matching, Alone, Written, ReadingThere, Pairs,
                    [Next]_vars
             PROVE  Pairs'
  OBVIOUS
<1> USE DEF Shapes, Goes, JobUnchanged, Listens, Matching, Alone, Written, ReadingThere,
            Pairs, FilesMatch, WritesAlone, HasWritten, ReadsWhatIsThere, HoldsPair, Busy,
            Writing, Reading, Loaded
<1>1. CASE NotSpawned \/ ProbeAnswered \/ DeadlinePasses \/ Export \/
           Cancelled \/ PostFindsNothing
  BY <1>1, ProcsAssumption, ValuesAssumption, ZenonT(60) DEF NotSpawned, ProbeAnswered, DeadlinePasses,
                                                 Export, Cancelled,
                                                 PostFindsNothing
<1>2. ASSUME NEW p \in Procs, Reuse(p) PROVE Pairs'
  BY <1>2, ProcsAssumption, ValuesAssumption DEF Reuse, Generating
<1>3. ASSUME NEW p \in Procs, ReadCert(p) PROVE Pairs'
  BY <1>3, ProcsAssumption, ValuesAssumption DEF ReadCert
<1>4. ASSUME NEW p \in Procs, ReadKey(p) PROVE Pairs'
  <2>1. /\ raced' = raced /\ cert' = cert /\ key' = key /\ at[p] = "read key"
        /\ Dir[p] \in Dirs
        /\ \A q \in Procs : q # p => at'[q] = at[q] /\ has'[q] = has[q]
    BY <1>4, ProcsAssumption DEF ReadKey
  <2>2. has[p] \in Holding /\ has' = [has EXCEPT ![p].key = key[Dir[p]]]
    BY <1>4 DEF ReadKey
  <2>3. has'[p].key = key[Dir[p]] /\ has'[p].cert = has[p].cert
    BY <2>2 DEF Holding
  <2>4. Dir[p] \notin raced => HoldsPair(p)'
    BY <2>1, <2>3
  <2> HIDE DEF Shapes, Matching, Alone, Written, ReadingThere, Listens, FilesMatch, WritesAlone, HasWritten, Goes
  <2> QED
    BY <2>1, <2>4
<1>5. ASSUME NEW p \in Procs, Generate(p) PROVE Pairs'
  BY <1>5, ProcsAssumption, ValuesAssumption, ZenonT(60) DEF Generate, Exists, Inside
<1>6. ASSUME NEW p \in Procs, OpenCert(p) PROVE Pairs'
  BY <1>6, ProcsAssumption, ValuesAssumption DEF OpenCert
<1>7. ASSUME NEW p \in Procs, WriteCert(p) PROVE Pairs'
  BY <1>7, ProcsAssumption, ValuesAssumption DEF WriteCert
<1>8. ASSUME NEW p \in Procs, OpenKey(p) PROVE Pairs'
  BY <1>8, ProcsAssumption, ValuesAssumption DEF OpenKey
<1>9. ASSUME NEW p \in Procs, WriteKey(p) PROVE Pairs'
  BY <1>9, ProcsAssumption, ValuesAssumption DEF WriteKey
<1>10. ASSUME NEW p \in Procs, Chmod(p) PROVE Pairs'
  <2>1. /\ raced' = raced /\ cert' = cert /\ key' = key /\ has' = has /\ at[p] = "chmod"
        /\ \A q \in Procs : q # p => at'[q] = at[q]
    BY <1>10 DEF Chmod
  <2>2. Dir[p] \notin raced => HasWritten(p)
    BY <2>1
  <2>3. Dir[p] \notin raced => HoldsPair(p)'
    BY <2>1, <2>2, ValuesAssumption
  <2> QED
    BY <2>1, <2>3
<1>11. ASSUME NEW p \in Procs, Launch(p) PROVE Pairs'
  BY <1>11, ProcsAssumption, ValuesAssumption DEF Launch
<1>12. ASSUME NEW p \in Procs, Listen(p) PROVE Pairs'
  BY <1>12, ProcsAssumption, ValuesAssumption, ZenonT(60) DEF Listen
<1>13. ASSUME NEW p \in Procs, Refuse(p) PROVE Pairs'
  BY <1>13, ProcsAssumption, ValuesAssumption, ZenonT(60) DEF Refuse, Empty
<1>14. ASSUME NEW p \in Procs, Trust(p) PROVE Pairs'
  BY <1>14, ProcsAssumption, ValuesAssumption, ZenonT(60) DEF Trust, Empty
<1>15. ASSUME NEW p \in Procs, Die(p) PROVE Pairs'
  BY <1>15, ProcsAssumption, ValuesAssumption, ZenonT(60) DEF Die, Empty, Running
<1>16. ASSUME NEW p \in Procs, Restart(p) PROVE Pairs'
  BY <1>16, ProcsAssumption, ValuesAssumption DEF Restart
<1>17. CASE Spawn
  BY <1>17, ProcsAssumption, ValuesAssumption DEF Spawn
<1>18. CASE PostStops
  <2>1. /\ raced' = raced
        /\ \A d \in Dirs : d # Dir[Child] => cert'[d] = cert[d] /\ key'[d] = key[d]
        /\ \A q \in Procs : q # Child => at'[q] = at[q] /\ has'[q] = has[q]
    BY <1>18, ProcsAssumption, ZenonT(60) DEF PostStops, Killed
  <2>2. at'[Child] \notin Loaded
    BY <1>18, ProcsAssumption DEF PostStops, Killed, Running
  <2>3. \A q \in Procs : Dir[q] \in Dirs /\ (q # Child => Dir[q] # Dir[Child])
    BY ProcsAssumption
  <2> HIDE DEF Shapes, Matching, Alone, Written, ReadingThere, Listens, FilesMatch, WritesAlone, HasWritten, Goes
  <2> QED
    BY <2>1, <2>2, <2>3
<1>19. CASE UNCHANGED vars
  BY <1>19, ProcsAssumption, ValuesAssumption DEF vars
<1> HIDE DEF Shapes, Goes, JobUnchanged, Listens, Matching, Alone, Written, ReadingThere,
             Pairs, FilesMatch, WritesAlone, HasWritten, ReadsWhatIsThere, HoldsPair, Busy,
             Writing, Reading, Loaded
<1> QED
  BY <1>1, <1>2, <1>3, <1>4, <1>5, <1>6, <1>7, <1>8, <1>9, <1>10, <1>11, <1>12,
     <1>13, <1>14, <1>15, <1>16, <1>17, <1>18, <1>19, StepCases

-----------------------------------------------------------------------------
(* The job, and who uses what is shared *)

LEMMA ListensNext == Shapes /\ Listens /\ [Next]_vars => Listens'
<1> SUFFICES ASSUME Shapes, Listens, [Next]_vars
             PROVE  Listens'
  OBVIOUS
<1> USE DEF Shapes, Goes, JobUnchanged, Listens
<1>1. CASE NotSpawned \/ ProbeAnswered \/ DeadlinePasses \/ Export \/
           Cancelled \/ PostFindsNothing
  BY <1>1, ProcsAssumption, ValuesAssumption DEF NotSpawned, ProbeAnswered, DeadlinePasses,
                                                 Export, Cancelled,
                                                 PostFindsNothing
<1>2. ASSUME NEW p \in Procs, Reuse(p) PROVE Listens'
  BY <1>2, ProcsAssumption, ValuesAssumption DEF Reuse, Generating
<1>3. ASSUME NEW p \in Procs, ReadCert(p) PROVE Listens'
  BY <1>3, ProcsAssumption, ValuesAssumption DEF ReadCert
<1>4. ASSUME NEW p \in Procs, ReadKey(p) PROVE Listens'
  BY <1>4, ProcsAssumption, ValuesAssumption DEF ReadKey
<1>5. ASSUME NEW p \in Procs, Generate(p) PROVE Listens'
  BY <1>5, ProcsAssumption, ValuesAssumption DEF Generate, Exists, Inside
<1>6. ASSUME NEW p \in Procs, OpenCert(p) PROVE Listens'
  BY <1>6, ProcsAssumption, ValuesAssumption DEF OpenCert
<1>7. ASSUME NEW p \in Procs, WriteCert(p) PROVE Listens'
  BY <1>7, ProcsAssumption, ValuesAssumption DEF WriteCert
<1>8. ASSUME NEW p \in Procs, OpenKey(p) PROVE Listens'
  BY <1>8, ProcsAssumption, ValuesAssumption DEF OpenKey
<1>9. ASSUME NEW p \in Procs, WriteKey(p) PROVE Listens'
  BY <1>9, ProcsAssumption, ValuesAssumption DEF WriteKey
<1>10. ASSUME NEW p \in Procs, Chmod(p) PROVE Listens'
  BY <1>10, ProcsAssumption, ValuesAssumption DEF Chmod
<1>11. ASSUME NEW p \in Procs, Launch(p) PROVE Listens'
  BY <1>11, ProcsAssumption, ValuesAssumption DEF Launch
<1>12. ASSUME NEW p \in Procs, Listen(p) PROVE Listens'
  BY <1>12, ProcsAssumption, ValuesAssumption DEF Listen, Parses, Contents, Holding
<1>13. ASSUME NEW p \in Procs, Refuse(p) PROVE Listens'
  BY <1>13, ProcsAssumption, ValuesAssumption DEF Refuse, Empty
<1>14. ASSUME NEW p \in Procs, Trust(p) PROVE Listens'
  BY <1>14, ProcsAssumption, ValuesAssumption DEF Trust, Empty
<1>15. ASSUME NEW p \in Procs, Die(p) PROVE Listens'
  BY <1>15, ProcsAssumption, ValuesAssumption DEF Die, Empty, Running
<1>16. ASSUME NEW p \in Procs, Restart(p) PROVE Listens'
  BY <1>16, ProcsAssumption, ValuesAssumption DEF Restart
<1>17. CASE Spawn
  BY <1>17, ProcsAssumption, ValuesAssumption DEF Spawn
<1>18. CASE PostStops
  BY <1>18, ProcsAssumption, ValuesAssumption DEF PostStops, Killed, Running, Empty
<1>19. CASE UNCHANGED vars
  BY <1>19, ProcsAssumption, ValuesAssumption DEF vars
<1> HIDE DEF Shapes, Goes, JobUnchanged, Listens
<1> QED
  BY <1>1, <1>2, <1>3, <1>4, <1>5, <1>6, <1>7, <1>8, <1>9, <1>10, <1>11, <1>12,
     <1>13, <1>14, <1>15, <1>16, <1>17, <1>18, <1>19, StepCases

LEMMA JobAloneNext == Shapes /\ JobAlone /\ [Next]_vars => JobAlone'
<1> SUFFICES ASSUME Shapes, JobAlone, [Next]_vars
             PROVE  JobAlone'
  OBVIOUS
<1> USE DEF Shapes, Goes, JobUnchanged, JobAlone, Writing, Reading, Loaded
<1>1. CASE NotSpawned \/ ProbeAnswered \/ DeadlinePasses \/ Export \/
           Cancelled \/ PostFindsNothing
  BY <1>1, ProcsAssumption, ValuesAssumption DEF NotSpawned, ProbeAnswered, DeadlinePasses,
                                                 Export, Cancelled,
                                                 PostFindsNothing
<1>2. ASSUME NEW p \in Procs, Reuse(p) PROVE JobAlone'
  BY <1>2, ProcsAssumption, ValuesAssumption DEF Reuse, Generating
<1>3. ASSUME NEW p \in Procs, ReadCert(p) PROVE JobAlone'
  BY <1>3, ProcsAssumption, ValuesAssumption DEF ReadCert
<1>4. ASSUME NEW p \in Procs, ReadKey(p) PROVE JobAlone'
  BY <1>4, ProcsAssumption, ValuesAssumption DEF ReadKey
<1>5. ASSUME NEW p \in Procs, Generate(p) PROVE JobAlone'
  BY <1>5, ProcsAssumption, ValuesAssumption DEF Generate, Inside
<1>6. ASSUME NEW p \in Procs, OpenCert(p) PROVE JobAlone'
  BY <1>6, ProcsAssumption, ValuesAssumption DEF OpenCert
<1>7. ASSUME NEW p \in Procs, WriteCert(p) PROVE JobAlone'
  BY <1>7, ProcsAssumption, ValuesAssumption DEF WriteCert
<1>8. ASSUME NEW p \in Procs, OpenKey(p) PROVE JobAlone'
  BY <1>8, ProcsAssumption, ValuesAssumption DEF OpenKey
<1>9. ASSUME NEW p \in Procs, WriteKey(p) PROVE JobAlone'
  BY <1>9, ProcsAssumption, ValuesAssumption DEF WriteKey
<1>10. ASSUME NEW p \in Procs, Chmod(p) PROVE JobAlone'
  BY <1>10, ProcsAssumption, ValuesAssumption DEF Chmod
<1>11. ASSUME NEW p \in Procs, Launch(p) PROVE JobAlone'
  BY <1>11, ProcsAssumption, ValuesAssumption DEF Launch
<1>12. ASSUME NEW p \in Procs, Listen(p) PROVE JobAlone'
  BY <1>12, ProcsAssumption, ValuesAssumption DEF Listen
<1>13. ASSUME NEW p \in Procs, Refuse(p) PROVE JobAlone'
  BY <1>13, ProcsAssumption, ValuesAssumption DEF Refuse
<1>14. ASSUME NEW p \in Procs, Trust(p) PROVE JobAlone'
  BY <1>14, ProcsAssumption, ValuesAssumption DEF Trust
<1>15. ASSUME NEW p \in Procs, Die(p) PROVE JobAlone'
  BY <1>15, ProcsAssumption, ValuesAssumption DEF Die
<1>16. ASSUME NEW p \in Procs, Restart(p) PROVE JobAlone'
  BY <1>16, ProcsAssumption, ValuesAssumption DEF Restart
<1>17. CASE Spawn
  BY <1>17, ProcsAssumption, ValuesAssumption DEF Spawn
<1>18. CASE PostStops
  BY <1>18, ProcsAssumption, ValuesAssumption DEF PostStops
<1>19. CASE UNCHANGED vars
  BY <1>19, ProcsAssumption, ValuesAssumption DEF vars
<1> HIDE DEF Shapes, Goes, JobUnchanged, JobAlone, Writing, Reading, Loaded
<1> QED
  BY <1>1, <1>2, <1>3, <1>4, <1>5, <1>6, <1>7, <1>8, <1>9, <1>10, <1>11, <1>12,
     <1>13, <1>14, <1>15, <1>16, <1>17, <1>18, <1>19, StepCases

LEMMA NothingLeftOfJobNext == Shapes /\ Listeners /\ Listens /\ NothingLeftOfJob /\
                              [Next]_vars => NothingLeftOfJob'
<1> SUFFICES ASSUME Shapes, Listeners, Listens, NothingLeftOfJob, [Next]_vars
             PROVE  NothingLeftOfJob'
  OBVIOUS
<1> USE DEF Shapes, Goes, JobUnchanged, Listens, NothingLeftOfJob, Running, Writing,
            Reading, Loaded
<1>1. CASE NotSpawned \/ ProbeAnswered \/ DeadlinePasses \/ Export \/
           Cancelled \/ PostFindsNothing
  BY <1>1, ProcsAssumption, ValuesAssumption DEF NotSpawned, ProbeAnswered, DeadlinePasses,
                                                 Export, Cancelled,
                                                 PostFindsNothing
<1>2. ASSUME NEW p \in Procs, Reuse(p) PROVE NothingLeftOfJob'
  BY <1>2, ProcsAssumption, ValuesAssumption DEF Reuse
<1>3. ASSUME NEW p \in Procs, ReadCert(p) PROVE NothingLeftOfJob'
  BY <1>3, ProcsAssumption, ValuesAssumption DEF ReadCert
<1>4. ASSUME NEW p \in Procs, ReadKey(p) PROVE NothingLeftOfJob'
  BY <1>4, ProcsAssumption, ValuesAssumption DEF ReadKey
<1>5. ASSUME NEW p \in Procs, Generate(p) PROVE NothingLeftOfJob'
  BY <1>5, ProcsAssumption, ValuesAssumption DEF Generate
<1>6. ASSUME NEW p \in Procs, OpenCert(p) PROVE NothingLeftOfJob'
  BY <1>6, ProcsAssumption, ValuesAssumption DEF OpenCert
<1>7. ASSUME NEW p \in Procs, WriteCert(p) PROVE NothingLeftOfJob'
  BY <1>7, ProcsAssumption, ValuesAssumption DEF WriteCert
<1>8. ASSUME NEW p \in Procs, OpenKey(p) PROVE NothingLeftOfJob'
  BY <1>8, ProcsAssumption, ValuesAssumption DEF OpenKey
<1>9. ASSUME NEW p \in Procs, WriteKey(p) PROVE NothingLeftOfJob'
  BY <1>9, ProcsAssumption, ValuesAssumption DEF WriteKey
<1>10. ASSUME NEW p \in Procs, Chmod(p) PROVE NothingLeftOfJob'
  BY <1>10, ProcsAssumption, ValuesAssumption DEF Chmod
<1>11. ASSUME NEW p \in Procs, Launch(p) PROVE NothingLeftOfJob'
  BY <1>11, ProcsAssumption, ValuesAssumption DEF Launch
<1>12. ASSUME NEW p \in Procs, Listen(p) PROVE NothingLeftOfJob'
  <2>1. /\ job' = job /\ cert' = cert /\ key' = key
        /\ at[p] = "loaded" /\ \A q \in Procs : q # p => at'[q] = at[q]
    BY <1>12 DEF Listen
  <2>2. \A o \in Ports : listener'[o] \in {listener[o], p}
    <3>1. /\ Port[p] \in Ports /\ listener \in [Ports -> Procs \cup {Nobody}]
          /\ listener' = [listener EXCEPT ![Port[p]] = p]
      BY <1>12, ProcsAssumption DEF Listen, Listeners
    <3> QED
      BY <3>1
  <2>3. job = "stopped" => p # Child
    BY <2>1
  <2> QED
    BY <2>1, <2>2, <2>3, ProcsAssumption
<1>13. ASSUME NEW p \in Procs, Refuse(p) PROVE NothingLeftOfJob'
  BY <1>13, ProcsAssumption, ValuesAssumption DEF Refuse
<1>14. ASSUME NEW p \in Procs, Trust(p) PROVE NothingLeftOfJob'
  BY <1>14, ProcsAssumption, ValuesAssumption DEF Trust
<1>15. ASSUME NEW p \in Procs, Die(p) PROVE NothingLeftOfJob'
  BY <1>15, ProcsAssumption, ValuesAssumption DEF Die, Stopped
<1>16. ASSUME NEW p \in Procs, Restart(p) PROVE NothingLeftOfJob'
  BY <1>16, ProcsAssumption, ValuesAssumption DEF Restart
<1>17. CASE Spawn
  BY <1>17, ProcsAssumption, ValuesAssumption DEF Spawn
<1>18. CASE PostStops
  <2>1. at'[Child] \notin Running
    BY <1>18, ProcsAssumption DEF PostStops, Killed
  <2>2. cert'[Dir[Child]] = Absent /\ key'[Dir[Child]] = Absent
    BY <1>18, ProcsAssumption DEF PostStops
  <2>3. ASSUME NEW o \in Ports PROVE listener'[o] # Child
    <3>1. listener'[o] = IF listener[o] \in Procs /\ Killed(listener[o]) THEN Nobody ELSE listener[o]
      BY <1>18 DEF PostStops
    <3>2. listener[o] = Child => Killed(Child) /\ Child \in Procs
      <4>1. Child \in Procs /\ Child # Nobody
        BY ProcsAssumption, ValuesAssumption
      <4>2. listener[o] = Child => at[Child] = "listening"
        BY <4>1 DEF Listeners
      <4> QED
        BY <4>1, <4>2 DEF Killed
    <3> QED
      BY <3>1, <3>2, ProcsAssumption, ValuesAssumption
  <2> QED
    BY <2>1, <2>2, <2>3
<1>19. CASE UNCHANGED vars
  BY <1>19, ProcsAssumption, ValuesAssumption DEF vars
<1> HIDE DEF Shapes, Goes, JobUnchanged, Listens, NothingLeftOfJob, Running, Writing,
             Reading, Loaded
<1> QED
  BY <1>1, <1>2, <1>3, <1>4, <1>5, <1>6, <1>7, <1>8, <1>9, <1>10, <1>11, <1>12,
     <1>13, <1>14, <1>15, <1>16, <1>17, <1>18, <1>19, StepCases

\* The action property of ProxyLifetime.
Keeps ==
  \A d \in Dirs :
       /\ cert[d] \in Nat /\ key[d] = cert[d] /\ d \notin raced'
       /\ ~(d = Dir[Child] /\ job' = "stopped")
       => cert'[d] = cert[d] /\ key'[d] = key[d]

LEMMA KeepsNext == Shapes /\ Written /\ [Next]_vars => Keeps
<1> SUFFICES ASSUME Shapes, Written, [Next]_vars
             PROVE  Keeps
  OBVIOUS
<1> USE DEF Shapes, Goes, JobUnchanged, Written, HasWritten, Keeps, Writing
<1>1. CASE NotSpawned \/ ProbeAnswered \/ DeadlinePasses \/ Export \/
           Cancelled \/ PostFindsNothing
  BY <1>1, ProcsAssumption, ValuesAssumption DEF NotSpawned, ProbeAnswered, DeadlinePasses,
                                                 Export, Cancelled,
                                                 PostFindsNothing
<1>2. ASSUME NEW p \in Procs, Reuse(p) \/ ReadCert(p) \/ ReadKey(p) \/ Generate(p) \/
                              Chmod(p) \/ Launch(p) \/ Listen(p) \/ Refuse(p) \/ Trust(p) \/
                              Die(p) \/ Restart(p)
      PROVE  Keeps
  BY <1>2, ProcsAssumption, ValuesAssumption DEF Reuse, ReadCert, ReadKey, Generate, Chmod,
                                                 Launch, Listen, Refuse, Trust, Die, Restart
<1>3. ASSUME NEW p \in Procs, OpenCert(p) PROVE Keeps
  <2>1. /\ Dir[p] \in Dirs /\ key' = key /\ raced' = raced
        /\ \A d \in Dirs : d # Dir[p] => cert'[d] = cert[d]
    BY <1>3, ProcsAssumption DEF OpenCert
  <2>2. Dir[p] \notin raced => key[Dir[p]] = Absent
    BY <1>3 DEF OpenCert
  <2>3. Absent \notin Nat /\ Torn \notin Nat
    BY ValuesAssumption
  <2> HIDE DEF Shapes, Written, HasWritten, Goes, Writing
  <2>4. ASSUME NEW d \in Dirs, cert[d] \in Nat, key[d] = cert[d], d \notin raced PROVE d # Dir[p]
    BY <2>2, <2>3, <2>4
  <2> QED
    BY <2>1, <2>4
<1>4. ASSUME NEW p \in Procs, WriteCert(p) PROVE Keeps
  <2>1. /\ Dir[p] \in Dirs /\ key' = key /\ raced' = raced
        /\ \A d \in Dirs : d # Dir[p] => cert'[d] = cert[d]
    BY <1>4, ProcsAssumption DEF WriteCert
  <2>2. Dir[p] \notin raced => cert[Dir[p]] = Torn
    BY <1>4 DEF WriteCert
  <2>3. Absent \notin Nat /\ Torn \notin Nat
    BY ValuesAssumption
  <2> HIDE DEF Shapes, Written, HasWritten, Goes, Writing
  <2>4. ASSUME NEW d \in Dirs, cert[d] \in Nat, key[d] = cert[d], d \notin raced PROVE d # Dir[p]
    BY <2>2, <2>3, <2>4
  <2> QED
    BY <2>1, <2>4
<1>5. ASSUME NEW p \in Procs, OpenKey(p) PROVE Keeps
  <2>1. /\ Dir[p] \in Dirs /\ cert' = cert /\ raced' = raced
        /\ \A d \in Dirs : d # Dir[p] => key'[d] = key[d]
    BY <1>5, ProcsAssumption DEF OpenKey
  <2>2. Dir[p] \notin raced => key[Dir[p]] = Absent
    BY <1>5 DEF OpenKey
  <2>3. Absent \notin Nat /\ Torn \notin Nat
    BY ValuesAssumption
  <2> HIDE DEF Shapes, Written, HasWritten, Goes, Writing
  <2>4. ASSUME NEW d \in Dirs, cert[d] \in Nat, key[d] = cert[d], d \notin raced PROVE d # Dir[p]
    BY <2>2, <2>3, <2>4
  <2> QED
    BY <2>1, <2>4
<1>6. ASSUME NEW p \in Procs, WriteKey(p) PROVE Keeps
  <2>1. /\ Dir[p] \in Dirs /\ cert' = cert /\ raced' = raced
        /\ \A d \in Dirs : d # Dir[p] => key'[d] = key[d]
    BY <1>6, ProcsAssumption DEF WriteKey
  <2>2. Dir[p] \notin raced => key[Dir[p]] = Torn
    BY <1>6 DEF WriteKey
  <2>3. Absent \notin Nat /\ Torn \notin Nat
    BY ValuesAssumption
  <2> HIDE DEF Shapes, Written, HasWritten, Goes, Writing
  <2>4. ASSUME NEW d \in Dirs, cert[d] \in Nat, key[d] = cert[d], d \notin raced PROVE d # Dir[p]
    BY <2>2, <2>3, <2>4
  <2> QED
    BY <2>1, <2>4
<1>7. CASE Spawn
  BY <1>7, ProcsAssumption, ValuesAssumption DEF Spawn
<1>8. CASE PostStops
  BY <1>8, ProcsAssumption, ValuesAssumption DEF PostStops
<1>9. CASE UNCHANGED vars
  BY <1>9, ProcsAssumption, ValuesAssumption DEF vars
<1> HIDE DEF Shapes, Goes, JobUnchanged, Written, HasWritten, Keeps, Writing
<1> QED
  BY <1>1, <1>2, <1>3, <1>4, <1>5, <1>6, <1>7, <1>8, <1>9, StepCases

LEMMA TrustedNext == Shapes /\ OneSource /\ Listens /\ Matching /\ Alone /\ Written /\
                     ReadingThere /\ Pairs /\ Trusted /\ [Next]_vars => Trusted'
<1> SUFFICES ASSUME Shapes, OneSource, Listens, Matching, Alone, Written, ReadingThere,
                    Pairs, Trusted, [Next]_vars
             PROVE  Trusted'
  OBVIOUS
<1> USE DEF Shapes, Goes, JobUnchanged, OneSource, Listens, Alone, Written, Trusted, Pairs,
            WritesAlone, HasWritten, HoldsPair, Busy, Writing, Reading, Loaded
<1>1. CASE NotSpawned \/ ProbeAnswered \/ DeadlinePasses \/ Export \/
           Cancelled \/ PostFindsNothing
  BY <1>1, ProcsAssumption, ValuesAssumption DEF NotSpawned, ProbeAnswered, DeadlinePasses,
                                                 Export, Cancelled,
                                                 PostFindsNothing
<1>2. ASSUME NEW p \in Procs, Reuse(p) PROVE Trusted'
  BY <1>2, ProcsAssumption, ValuesAssumption DEF Reuse, Generating
<1>3. ASSUME NEW p \in Procs, ReadCert(p) PROVE Trusted'
  BY <1>3, ProcsAssumption, ValuesAssumption DEF ReadCert
<1>4. ASSUME NEW p \in Procs, ReadKey(p) PROVE Trusted'
  BY <1>4, ProcsAssumption, ValuesAssumption DEF ReadKey
<1>5. ASSUME NEW p \in Procs, Generate(p) PROVE Trusted'
  BY <1>5, ProcsAssumption, ValuesAssumption DEF Generate, Exists, Inside
<1>6. ASSUME NEW p \in Procs, OpenCert(p) PROVE Trusted'
  BY <1>6, ProcsAssumption, ValuesAssumption, ZenonT(60) DEF OpenCert
<1>7. ASSUME NEW p \in Procs, WriteCert(p) PROVE Trusted'
  BY <1>7, ProcsAssumption, ValuesAssumption, ZenonT(60) DEF WriteCert
<1>8. ASSUME NEW p \in Procs, OpenKey(p) PROVE Trusted'
  BY <1>8, ProcsAssumption, ValuesAssumption DEF OpenKey
<1>9. ASSUME NEW p \in Procs, WriteKey(p) PROVE Trusted'
  BY <1>9, ProcsAssumption, ValuesAssumption DEF WriteKey
<1>10. ASSUME NEW p \in Procs, Chmod(p) PROVE Trusted'
  BY <1>10, ProcsAssumption, ValuesAssumption DEF Chmod
<1>11. ASSUME NEW p \in Procs, Launch(p) PROVE Trusted'
  BY <1>11, ProcsAssumption, ValuesAssumption DEF Launch
<1>12. ASSUME NEW p \in Procs, Listen(p) PROVE Trusted'
  BY <1>12, ProcsAssumption, ValuesAssumption DEF Listen
<1>13. ASSUME NEW p \in Procs, Refuse(p) PROVE Trusted'
  BY <1>13, ProcsAssumption, ValuesAssumption DEF Refuse, Empty
<1>14. ASSUME NEW p \in Procs, Trust(p) PROVE Trusted'
  BY <1>14, ProcsAssumption, ValuesAssumption, ZenonT(60) DEF Trust, Empty
<1>15. ASSUME NEW p \in Procs, Die(p) PROVE Trusted'
  BY <1>15, ProcsAssumption, ValuesAssumption DEF Die, Empty, Running
<1>16. ASSUME NEW p \in Procs, Restart(p) PROVE Trusted'
  BY <1>16, ProcsAssumption, ValuesAssumption DEF Restart
<1>17. CASE Spawn
  BY <1>17, ProcsAssumption, ValuesAssumption DEF Spawn
<1>18. CASE PostStops
  BY <1>18, ProcsAssumption, ValuesAssumption DEF PostStops, Killed, Running, Empty
<1>19. CASE UNCHANGED vars
  BY <1>19, ProcsAssumption, ValuesAssumption DEF vars
<1> HIDE DEF Shapes, Goes, JobUnchanged, OneSource, Listens, Alone, Written, Trusted, Pairs,
             WritesAlone, HasWritten, HoldsPair, Busy, Writing, Reading, Loaded
<1> QED
  BY <1>1, <1>2, <1>3, <1>4, <1>5, <1>6, <1>7, <1>8, <1>9, <1>10, <1>11, <1>12,
     <1>13, <1>14, <1>15, <1>16, <1>17, <1>18, <1>19, StepCases

LEMMA AnswersNext == Shapes /\ Listeners /\ OwnPorts /\ Answers /\ [Next]_vars => Answers'
<1> SUFFICES ASSUME Shapes, Listeners, OwnPorts, Answers, [Next]_vars
             PROVE  Answers'
  OBVIOUS
<1> USE DEF Shapes, Goes, JobUnchanged, OwnPorts, Answers
<1>1. ASSUME NEW p \in Procs, Reuse(p) PROVE Answers'
  BY <1>1, ProcsAssumption, ValuesAssumption DEF Reuse, Generating
<1>2. ASSUME NEW p \in Procs, ReadCert(p) PROVE Answers'
  BY <1>2, ProcsAssumption, ValuesAssumption DEF ReadCert
<1>3. ASSUME NEW p \in Procs, ReadKey(p) PROVE Answers'
  BY <1>3, ProcsAssumption, ValuesAssumption DEF ReadKey
<1>4. ASSUME NEW p \in Procs, Generate(p) PROVE Answers'
  BY <1>4, ProcsAssumption, ValuesAssumption DEF Generate, Exists, Inside
<1>5. ASSUME NEW p \in Procs, OpenCert(p) PROVE Answers'
  BY <1>5, ProcsAssumption, ValuesAssumption DEF OpenCert
<1>6. ASSUME NEW p \in Procs, WriteCert(p) PROVE Answers'
  BY <1>6, ProcsAssumption, ValuesAssumption DEF WriteCert
<1>7. ASSUME NEW p \in Procs, OpenKey(p) PROVE Answers'
  BY <1>7, ProcsAssumption, ValuesAssumption DEF OpenKey
<1>8. ASSUME NEW p \in Procs, WriteKey(p) PROVE Answers'
  BY <1>8, ProcsAssumption, ValuesAssumption DEF WriteKey
<1>9. ASSUME NEW p \in Procs, Chmod(p) PROVE Answers'
  BY <1>9, ProcsAssumption, ValuesAssumption DEF Chmod
<1>10. ASSUME NEW p \in Procs, Launch(p) PROVE Answers'
  BY <1>10, ProcsAssumption, ValuesAssumption DEF Launch
<1>11. ASSUME NEW p \in Procs, Listen(p) PROVE Answers'
  BY <1>11, ProcsAssumption, ValuesAssumption DEF Listen
<1>12. ASSUME NEW p \in Procs, Refuse(p) PROVE Answers'
  BY <1>12, ProcsAssumption, ValuesAssumption DEF Refuse, Empty
<1>13. ASSUME NEW p \in Procs, Trust(p) PROVE Answers'
  BY <1>13, ProcsAssumption, ValuesAssumption DEF Trust, Empty
<1>14. ASSUME NEW p \in Procs, Die(p) PROVE Answers'
  BY <1>14, ProcsAssumption, ValuesAssumption DEF Die, Stopped, Running
<1>15. ASSUME NEW p \in Procs, Restart(p) PROVE Answers'
  BY <1>15, ProcsAssumption, ValuesAssumption DEF Restart
<1>16. CASE Spawn
  BY <1>16, ProcsAssumption, ValuesAssumption DEF Spawn
<1>17. CASE NotSpawned
  BY <1>17, ProcsAssumption, ValuesAssumption DEF NotSpawned
<1>18. CASE ProbeAnswered
  BY <1>18, ProcsAssumption, ValuesAssumption DEF ProbeAnswered, Listeners
<1>19. CASE DeadlinePasses
  BY <1>19, ProcsAssumption, ValuesAssumption DEF DeadlinePasses
<1>20. CASE Export
  BY <1>20, ProcsAssumption, ValuesAssumption DEF Export
<1>22. CASE Cancelled
  BY <1>22, ProcsAssumption, ValuesAssumption DEF Cancelled
<1>23. CASE PostStops
  BY <1>23, ProcsAssumption, ValuesAssumption DEF PostStops, Killed, Running, Empty
<1>24. CASE PostFindsNothing
  BY <1>24, ProcsAssumption, ValuesAssumption DEF PostFindsNothing
<1>25. CASE UNCHANGED vars
  BY <1>25, ProcsAssumption, ValuesAssumption DEF vars
<1> HIDE DEF Shapes, Goes, JobUnchanged, OwnPorts, Answers
<1> QED
  BY <1>1, <1>2, <1>3, <1>4, <1>5, <1>6, <1>7, <1>8, <1>9, <1>10, <1>11, <1>12,
     <1>13, <1>14, <1>15, <1>16, <1>17, <1>18, <1>19, <1>20, <1>22, <1>23, <1>24,
     <1>25, StepCases

-----------------------------------------------------------------------------
(* The theorems *)

LEMMA InitInvariant == Init => IInv /\ Trusted /\ Answers
<1> SUFFICES ASSUME Init PROVE IInv /\ Trusted /\ Answers
  OBVIOUS
<1>1. TypeOK
  BY TypeInit
<1>2. /\ job = "before" /\ raced = {} /\ \A p \in Procs : at[p] = "off"
      /\ \A d \in Dirs : cert[d] = key[d]
  BY DEF Init
<1>3. Orderly
  BY <1>2 DEF Orderly, Matching, Alone, Written, ReadingThere, Pairs, FilesMatch, Writing, Reading, Loaded
<1>4. Listens /\ JobAlone /\ Trusted
  BY <1>2, ProcsAssumption DEF Listens, JobAlone, Trusted
<1>5. NothingLeftOfJob /\ Answers
  BY <1>2 DEF NothingLeftOfJob, Answers
<1> QED
  BY <1>1, <1>3, <1>4, <1>5 DEF IInv

(* How the processes that use one directory stand to each other.             *)
THEOREM LifetimeInvariant == Spec => []IInv
<1>1. IInv /\ [Next]_vars => IInv'
  <2> SUFFICES ASSUME IInv, [Next]_vars PROVE IInv'
    OBVIOUS
  <2>1. Shapes /\ Listeners /\ Numbers
    BY TypeParts DEF IInv
  <2>2. TypeOK'
    BY <2>1, TypeParts, ShapesNext, ListenersNext, NumbersNext, PTL
  <2>3. Orderly'
    BY <2>1, AloneNext, MatchingNext, WrittenNext, ReadingThereNext, PairsNext DEF IInv, Orderly
  <2> QED
    BY <2>1, <2>2, <2>3, ListensNext, JobAloneNext, NothingLeftOfJobNext DEF IInv
<1> QED
  BY <1>1, InitInvariant, PTL DEF Spec

(* A proxy serves a matching pair unless two first runs have overlapped      *)
(* (ensure_ca, whatever crash lies between its two writes).                  *)
THEOREM ServedPairIsOne == Spec => []ServedPairMatches
<1>1. IInv => ServedPairMatches
  BY ProcsAssumption DEF IInv, Orderly, Pairs, HoldsPair, Listens, Loaded, ServedPairMatches
<1> QED
  BY <1>1, LifetimeInvariant, PTL

(* post.js removes what main.js has started (proxy/post.js).                 *)
THEOREM JobCleansUp == Spec => []NothingLeftOfJob
<1>1. IInv => NothingLeftOfJob
  BY DEF IInv
<1> QED
  BY <1>1, LifetimeInvariant, PTL

(* No step but the end of the job changes a complete CA (ensure_ca).         *)
THEOREM CompleteCaIsKept == Spec => CompleteIsKept
<1>1. IInv /\ [Next]_vars => Keeps
  <2> SUFFICES ASSUME IInv, [Next]_vars PROVE Keeps
    OBVIOUS
  <2> QED
    BY KeepsNext, TypeParts DEF IInv, Orderly
<1>2. [][Keeps]_vars => CompleteIsKept
  BY DEF Keeps, CompleteIsKept
<1> QED
  BY <1>1, <1>2, LifetimeInvariant, PTL DEF Spec

(* With one directory to install from, what install-ca has trusted is what a *)
(* proxy of that directory presents (install.rs).                            *)
THEOREM TrustIsServed == ASSUME OneSource PROVE Spec => []TrustedIsServed
<1>1. IInv /\ Trusted /\ [Next]_vars => Trusted'
  BY TrustedNext, TypeParts DEF IInv, Orderly
<1>2. IInv /\ Trusted => TrustedIsServed
  BY DEF IInv, Orderly, Pairs, HoldsPair, Listens, Loaded, Trusted, TrustedIsServed
<1> QED
  BY <1>1, <1>2, InitInvariant, LifetimeInvariant, PTL DEF Spec

(* With a port of its own, the proxy that main.js reports is the one it has  *)
(* started, with the CA it has exported (proxy/main.js).                     *)
THEOREM ReadyIsOurs == ASSUME OwnPorts PROVE Spec => []ReadyIsTheChild
<1>1. IInv /\ Answers /\ [Next]_vars => Answers'
  BY AnswersNext, TypeParts DEF IInv
<1>2. IInv /\ Answers => ReadyIsTheChild
  BY ProcsAssumption
     DEF IInv, Orderly, Pairs, HoldsPair, Listens, JobAlone, Loaded, Answers, ReadyIsTheChild
<1> QED
  BY <1>1, <1>2, InitInvariant, LifetimeInvariant, PTL DEF Spec

(* The pairs in use belong together, if one process creates each CA (ca.rs). *)
THEOREM CaIsOne == ASSUME OneSource PROVE Spec => []CaAgrees
<1> QED
  BY ServedPairIsOne, TrustIsServed, PTL DEF CaAgrees

(* From ready to the end the job's proxy is its own, and then it is gone, if *)
(* nobody else uses its port (proxy/main.js, proxy/post.js).                 *)
THEOREM JobHasItsProxy == ASSUME OwnPorts PROVE Spec => []JobIsServed
<1> QED
  BY ReadyIsOurs, JobCleansUp, PTL DEF JobIsServed

-----------------------------------------------------------------------------
(* Paths and the registries' URLs: what ParseForHost makes of them.          *)

(* Tuples and subsequences, element by element.                              *)
LEMMA Tuple3 ==
  ASSUME NEW p, NEW a, NEW b, NEW c, p = <<a, b, c>>
  PROVE  Len(p) = 3 /\ p[1] = a /\ p[2] = b /\ p[3] = c
OBVIOUS

LEMMA Tuple4 ==
  ASSUME NEW p, NEW a, NEW b, NEW c, NEW d, p = <<a, b, c, d>>
  PROVE  Len(p) = 4 /\ p[1] = a /\ p[2] = b /\ p[3] = c /\ p[4] = d
OBVIOUS

LEMMA Tuple6 ==
  ASSUME NEW p, NEW a, NEW b, NEW c, NEW d, NEW e, NEW f, p = <<a, b, c, d, e, f>>
  PROVE  Len(p) = 6 /\ p[1] = a /\ p[2] = b /\ p[3] = c /\ p[4] = d /\ p[5] = e /\ p[6] = f
OBVIOUS

LEMMA Tuple9 ==
  ASSUME NEW p, NEW a, NEW b, NEW c, NEW d, NEW e, NEW f, NEW g, NEW h, NEW i, p = <<a, b, c, d, e, f, g, h, i>>
  PROVE  Len(p) = 9 /\ p[1] = a /\ p[2] = b /\ p[3] = c /\ p[4] = d /\ p[5] = e /\ p[6] = f /\ p[7] = g /\ p[8] = h /\ p[9] = i
OBVIOUS

LEMMA SubIs ==
  ASSUME NEW S, NEW p \in Seq(S), NEW t \in Seq(S), Len(t) <= Len(p), \A i \in 1 .. Len(t) : p[i] = t[i]
  PROVE  SubSeq(p, 1, Len(t)) = t
<1>1. Len(t) \in Nat /\ Len(p) \in Nat /\ \A i \in 1 .. Len(t) : p[i] \in S
  BY ElementOfSeq
<1>2. SubSeq(p, 1, Len(t)) \in Seq(S) /\ Len(SubSeq(p, 1, Len(t))) = Len(t)
      /\ \A i \in 1 .. Len(t) : SubSeq(p, 1, Len(t))[i] = p[i]
  BY <1>1, SubSeqProperties
<1> QED BY <1>1, <1>2, SeqEqual

LEMMA Sub3 ==
  ASSUME NEW S, NEW p \in Seq(S), Len(p) >= 3
  PROVE  SubSeq(p, 1, 3) = <<p[1], p[2], p[3]>>
<1>1. p[1] \in S /\ p[2] \in S /\ p[3] \in S
  BY ElementOfSeq
<1>2. <<p[1], p[2], p[3]>> \in Seq(S) /\ Len(<<p[1], p[2], p[3]>>) = 3 /\ \A i \in 1 .. 3 : p[i] = <<p[1], p[2], p[3]>>[i]
  BY <1>1
<1> QED BY <1>2, SubIs

LEMMA Sub4 ==
  ASSUME NEW S, NEW p \in Seq(S), Len(p) >= 4
  PROVE  SubSeq(p, 1, 4) = <<p[1], p[2], p[3], p[4]>>
<1>1. p[1] \in S /\ p[2] \in S /\ p[3] \in S /\ p[4] \in S
  BY ElementOfSeq
<1>2. <<p[1], p[2], p[3], p[4]>> \in Seq(S) /\ Len(<<p[1], p[2], p[3], p[4]>>) = 4 /\ \A i \in 1 .. 4 : p[i] = <<p[1], p[2], p[3], p[4]>>[i]
  BY <1>1
<1> QED BY <1>2, SubIs

(* Segments of a path: equal to a word, or to a name, never to both.         *)
LEMMA SegParts ==
  ASSUME NEW s, NEW p, NEW e, s = Seg(p, e)
  PROVE  s.parts = p /\ s.ext = e /\ Unscoped(s) = Name("", p) /\ Version(s) = p
BY Zenon DEF Seg, Unscoped, Version

LEMMA SegTgz ==
  ASSUME NEW s, NEW p, s = Seg(p, "tgz")
  PROVE  s.ext = "tgz"
BY DEF Seg

LEMMA WordSeg ==
  ASSUME NEW t
  PROVE  Word(t) = Seg(<<t>>, "") /\ Word(t).parts[1] = t /\ Word(t).parts = <<t>> /\ Word(t).ext = ""
BY DEF Word, Seg

LEMMA FirstOfWord ==
  ASSUME NEW s, NEW t, s = Word(t)
  PROVE  s.parts[1] = t
BY WordSeg, Zenon

LEMMA NotBlank ==
  ASSUME NEW s, NEW p, NEW e, s = Seg(p, e), p \in NonBlank
  PROVE  ~IsBlank(s)
<1>1. s.parts # <<"">>
  BY SegParts DEF NonBlank
<1> QED BY <1>1, WordSeg DEF IsBlank, Blank

LEMMA WordsDiffer ==
  ASSUME NEW s, NEW t, s # t
  PROVE  Word(s) # Word(t)
<1>1. Word(s).parts[1] = s /\ Word(t).parts[1] = t
  BY WordSeg
<1> QED BY <1>1, Zenon

(* The lengths of paths that the parsers compare.                            *)
LEMMA Lengths ==
  ASSUME NEW x
  PROVE  /\ x = 3 => x # 4 /\ x # 6 /\ x # 9 /\ x >= 3
         /\ x = 4 => x # 3 /\ x # 6 /\ x # 9 /\ x >= 4
         /\ x = 6 => x # 3 /\ x # 4 /\ x # 9 /\ x >= 6 /\ x >= 3
         /\ x = 9 => x # 3 /\ x # 4 /\ x # 6 /\ x >= 4
OBVIOUS

(* Each parser reads the URL its registry gives to an identity.              *)
LEMMA ParsesCrate ==
  ASSUME NEW n \in NonBlank, NEW v \in NonBlank, NEW path \in Seq(Segment),
         path = <<Word("api"), Word("v1"), Word("crates"), Seg(n, ""), Seg(v, ""), Word("download")>>
  PROVE  ParseCrates(path) = Id("crates", Name("", n), v)
<1>1. Len(path) = 6 /\ path[1] = Word("api") /\ path[2] = Word("v1") /\ path[3] = Word("crates")
      /\ path[4] = Seg(n, "") /\ path[5] = Seg(v, "") /\ path[6] = Word("download")
  BY Tuple6, Zenon
<1>2. Len(path) >= 6 /\ Len(path) >= 3
  BY <1>1, Lengths, Zenon
<1>3. SubSeq(path, 1, 3) = <<Word("api"), Word("v1"), Word("crates")>>
  <2>1. SubSeq(path, 1, 3) = <<path[1], path[2], path[3]>>
    BY <1>2, Sub3, Zenon
  <2> QED BY <1>1, <2>1, Zenon
<1>4. Unscoped(path[4]) = Name("", n) /\ Version(path[5]) = v /\ ~IsBlank(path[4]) /\ ~IsBlank(path[5])
  BY <1>1, SegParts, NotBlank, Zenon
<1> QED
  BY <1>1, <1>2, <1>3, <1>4, Zenon DEF ParseCrates

LEMMA ConcatAfter ==
  ASSUME NEW a \in Seq(STRING), NEW b \in Seq(STRING), b # <<>>
  PROVE  IsStrictPrefix(a, a \o b) /\ After(a, a \o b) = b
<1> DEFINE c == a \o b
<1>1. /\ c \in Seq(STRING) /\ Len(c) = Len(a) + Len(b) /\ Len(b) > 0
      /\ \A i \in 1 .. Len(a) : c[i] = a[i]
      /\ \A i \in 1 .. Len(b) : c[Len(a) + i] = b[i]
  BY ConcatProperties, EmptySeq
<1>2. SubSeq(a, 1, Len(a)) = a /\ SubSeq(c, 1, Len(a)) = a
  BY <1>1, SubSeqFull, SubIs
<1>3. a # c
  BY <1>1
<1>4. SubSeq(c, Len(a) + 1, Len(c)) = b
  BY SubSeqOfConcat2, SubSeqFull, <1>1
<1>5. Len(a) <= Len(c)
  BY <1>1
<1> QED BY <1>2, <1>3, <1>4, <1>5, Zenon DEF IsStrictPrefix, IsPrefix, After

LEMMA ParsesTarball ==
  ASSUME NEW n \in NonBlank, NEW v \in NonBlank, NEW w, w = n \o v, NEW path,
         path = <<Seg(n, ""), Word("-"), Seg(w, "tgz")>>
  PROVE  ParseNpm(path) = Id("npm", Name("", n), v)
<1>1. IsStrictPrefix(n, n \o v) /\ After(n, n \o v) = v
  BY ConcatAfter DEF NonBlank, Dashed
<1>2. Len(path) = 3 /\ path[1] = Seg(n, "") /\ path[2] = Word("-") /\ path[3] = Seg(w, "tgz")
  BY Tuple3, Zenon
<1>3. Len(path) # 4
  BY <1>2, Lengths, Zenon
<1>4. path[1].parts = n /\ path[3].parts = w /\ path[3].ext = "tgz" /\ ~IsBlank(path[1])
  BY <1>2, SegParts, SegTgz, NotBlank, Zenon
<1> QED BY <1>1, <1>2, <1>3, <1>4, Zenon DEF ParseNpm

LEMMA ParsesScopedTarball ==
  ASSUME NEW s \in ScopeTokens, NEW n \in NonBlank, NEW v \in NonBlank, NEW w, w = n \o v, NEW path,
         path = <<Word(s), Seg(n, ""), Word("-"), Seg(w, "tgz")>>,
         NEW id, id = Id("npm", Name(s, n), v)
  PROVE  ParseNpm(path) = id
<1>1. IsStrictPrefix(n, n \o v) /\ After(n, n \o v) = v
  BY ConcatAfter DEF NonBlank, Dashed
<1>2. Len(path) = 4 /\ path[1] = Word(s) /\ path[2] = Seg(n, "") /\ path[3] = Word("-")
      /\ path[4] = Seg(w, "tgz")
  BY Tuple4, Zenon
<1>3. Len(path) # 3
  BY <1>2, Lengths, Zenon
<1>4. path[2].parts = n /\ path[4].parts = w /\ path[4].ext = "tgz" /\ ~IsBlank(path[2])
  BY <1>2, SegParts, SegTgz, NotBlank, Zenon
<1>5. path[1].parts[1] = s
  BY <1>2, FirstOfWord, Zenon
<1> QED BY <1>1, <1>2, <1>3, <1>4, <1>5, Zenon DEF ParseNpm

(* The version of a file name starts at its first number.                    *)
LEMMA FirstNumber ==
  ASSUME NEW parts \in Seq(STRING), NEW n \in Nat, 0 < n, n < Len(parts),
         parts[n + 1] \in NumberTokens, \A i \in 2 .. n : parts[i] \notin NumberTokens
  PROVE  LET numbers == {i \in 2 .. Len(parts) : parts[i] \in NumberTokens}
         IN numbers # {} /\ (CHOOSE i \in numbers : \A j \in numbers : i <= j) = n + 1
<1> DEFINE numbers == {i \in 2 .. Len(parts) : parts[i] \in NumberTokens}
<1>1. n + 1 \in numbers /\ \A j \in numbers : n + 1 <= j /\ j \in Nat
  OBVIOUS
<1> HIDE DEF numbers
<1>2. \A i \in numbers : (\A j \in numbers : i <= j) => i = n + 1
  BY <1>1
<1> QED BY <1>1, <1>2 DEF numbers

LEMMA ParsesPypi ==
  ASSUME NEW n \in NonBlank, NEW v, NEW path \in Seq(Segment), path # <<>>,
         FileOf(path).ext \in {"whl", "tar.gz", "zip"},
         Len(n) < Len(FileOf(path).parts), SubSeq(FileOf(path).parts, 1, Len(n)) = n,
         v = <<FileOf(path).parts[Len(n) + 1]>>, FileOf(path).parts[Len(n) + 1] \in NumberTokens,
         \A i \in 2 .. Len(n) : FileOf(path).parts[i] \notin NumberTokens
  PROVE  ParsePypi(path) = Id("pypi", Name("", n), v)
<1> DEFINE parts == path[Len(path)].parts
           numbers == {i \in 2 .. Len(parts) : parts[i] \in NumberTokens}
<1>1. parts \in Seq(STRING) /\ Len(n) \in Nat /\ 0 < Len(n)
  <2>1. Len(path) \in 1 .. Len(path)
    BY EmptySeq
  <2>2. path[Len(path)] \in Segment
    BY <2>1, ElementOfSeq
  <2>3. parts \in Seq(STRING)
    BY <2>2 DEF Segment, Dashed
  <2>4. n \in Seq(STRING) /\ n # <<>>
    BY DEF NonBlank, Dashed
  <2> QED BY <2>3, <2>4, EmptySeq
<1>2. numbers # {} /\ (CHOOSE i \in numbers : \A j \in numbers : i <= j) = Len(n) + 1
  <2> DEFINE ps == parts
  <2>1. Len(n) < Len(ps) /\ ps[Len(n) + 1] \in NumberTokens /\ \A i \in 2 .. Len(n) : ps[i] \notin NumberTokens
    BY Zenon DEF FileOf
  <2> HIDE DEF parts
  <2> QED BY <1>1, <2>1, FirstNumber
<1>3. (Len(n) + 1) - 1 = Len(n)
  BY <1>1
<1> HIDE DEF numbers
<1>4. ParsePypi(path) = Id("pypi", Name("", SubSeq(parts, 1, (Len(n) + 1) - 1)), <<parts[Len(n) + 1]>>)
  BY <1>2, Zenon DEF ParsePypi, numbers, FileOf
<1> QED BY <1>3, <1>4, Zenon DEF FileOf

LEMMA ParsesNupkg ==
  ASSUME NEW n \in NonBlank, NEW v \in NonBlank, NEW path,
         Len(path) = 4, path[4].ext = "nupkg", path[1] = Word("v3-flatcontainer"),
         path[2] = Seg(n, ""), path[3] = Seg(v, "")
  PROVE  ParseNuget(path) = Id("nuget", Name("", n), v)
<1>1. Unscoped(path[2]) = Name("", n) /\ Version(path[3]) = v /\ ~IsBlank(path[2]) /\ ~IsBlank(path[3])
  BY NotBlank, SegParts, Zenon
<1> QED
  BY <1>1, Zenon DEF ParseNuget

(* A host that is on one list is on no other, and decides the parser.        *)
LEMMA Routed ==
  ASSUME NEW hosts, NEW host, NEW path, NEW list, \A l \in Lists : HostIn(hosts, l, host) <=> l = list
  PROVE  /\ list \in Lists => ParseForHost(hosts, host, path) = ParseWith(list, path)
         /\ list \notin Lists => ParseForHost(hosts, host, path) = Nothing
         /\ ShouldIntercept(hosts, host) <=> list \in Lists
<1> DEFINE mine == {i \in DOMAIN Parsers : HostIn(hosts, Parsers[i], host)}
<1>1. /\ DOMAIN Parsers = 1 .. 7 /\ \A i \in 1 .. 7 : Parsers[i] \in Lists
      /\ \A l \in Lists : \E i \in 1 .. 7 : Parsers[i] = l /\ \A j \in 1 .. 7 : Parsers[j] = l => i = j
  BY DEF Parsers, Lists
<1>2. ShouldIntercept(hosts, host) <=> list \in Lists
  BY DEF ShouldIntercept
<1>3. CASE list \notin Lists
  <2>1. mine = {}
    BY <1>1, <1>3
  <2> QED BY <1>2, <1>3, <2>1, Zenon DEF ParseForHost
<1>4. CASE list \in Lists
  <2>1. PICK i \in 1 .. 7 : Parsers[i] = list /\ \A j \in 1 .. 7 : Parsers[j] = list => i = j
    BY <1>1, <1>4
  <2>2. mine = {i}
    BY <1>1, <2>1
  <2>3. (CHOOSE k \in mine : \A j \in mine : k <= j) = i
    BY <2>2
  <2>4. mine # {}
    BY <2>2
  <2> HIDE DEF mine
  <2>5. ParseForHost(hosts, host, path) = ParseWith(Parsers[i], path)
    BY <2>3, <2>4, Zenon DEF ParseForHost, mine
  <2> QED BY <1>2, <1>4, <2>1, <2>5
<1> QED BY <1>3, <1>4

LEMMA ListIs ==
  ASSUME NEW doc, NEW form, doc.form = form
  PROVE  /\ form = "crate" => ListOf(doc) = "crates"
         /\ form = "tgz" => ListOf(doc) = "npm"
         /\ form \in {"sdist", "zip", "wheel"} => ListOf(doc) = "pypi_files"
         /\ form = "nupkg" => ListOf(doc) = "nuget"
         /\ form = "vsix" => ListOf(doc) = "vscode_marketplace"
         /\ form = "git" /\ doc.id.eco # "npm" => ListOf(doc) = "none"
         /\ form = "other" => ListOf(doc) = IF doc.id.eco = "npm" THEN "npm" ELSE "none"
         /\ form = "index" =>
              /\ doc.id.eco = "crates" => ListOf(doc) = "crates_sparse"
              /\ doc.id.eco = "pypi" => ListOf(doc) = "pypi_index"
              /\ doc.id.eco = "vscode" => ListOf(doc) = "vscode_marketplace"
              /\ doc.id.eco \in {"npm", "nuget", "git"} => ListOf(doc) = doc.id.eco
BY DEF ListOf

(* A path that asks for an index or anything else is not a tarball's.        *)
LEMMA NoTarball ==
  ASSUME NEW path, Len(path) \in {1, 2}
  PROVE  ParseNpm(path) = Nothing
<1>1. Len(path) # 3 /\ Len(path) # 4
  OBVIOUS
<1> QED BY <1>1, Zenon DEF ParseNpm

LEMMA Parsed ==
  ASSUME NEW path, NEW list
  PROVE  /\ list = "crates" => ParseWith(list, path) = ParseCrates(path)
         /\ list = "npm" => ParseWith(list, path) = ParseNpm(path)
         /\ list = "pypi_files" => ParseWith(list, path) = ParsePypi(path)
         /\ list = "nuget" => ParseWith(list, path) = ParseNuget(path)
         /\ list \in {"crates_sparse", "pypi_index", "vscode_marketplace"} => ParseWith(list, path) = Nothing
BY DEF ParseWith

PinnedForms == {"crate", "tgz", "sdist", "zip", "wheel", "nupkg"}

(* A well-formed request, taken apart.                                       *)
LEMMA IdParts ==
  ASSUME NEW id, NEW e, NEW s, NEW n, NEW v, id = Id(e, Name(s, n), v)
  PROVE  id.eco = e /\ id.name.scope = s /\ id.name.parts = n /\ id.version = v
BY DEF Id, Name

LEMMA OfUrl ==
  ASSUME NEW r, NEW hosts, WellFormed(r, hosts)
  PROVE  \E e, s, n, v : 
           /\ e \in Ecosystems /\ n \in NonBlank
           /\ r.doc.id = Id(e, Name(s, n), v)
           /\ r.doc.form \notin {"index", "other"} => v \in NonBlank
<1>1. r.doc.id = Id(r.doc.id.eco, Name(r.doc.id.name.scope, r.doc.id.name.parts), r.doc.id.version)
      /\ r.doc.id.eco \in Ecosystems /\ r.doc.id.name.parts \in NonBlank
      /\ (r.doc.form \notin {"index", "other"} => r.doc.id.version \in NonBlank)
  BY Zenon DEF WellFormed
<1> QED BY <1>1

(* The host of a well-formed request is on the list of what it asks for.     *)
LEMMA ListedAs ==
  ASSUME NEW r, NEW hosts, WellFormed(r, hosts), NEW path, NEW list, list = ListOf(r.doc)
  PROVE  /\ list \in Lists => ParseForHost(hosts, r.host, path) = ParseWith(list, path)
         /\ list \notin Lists => ParseForHost(hosts, r.host, path) = Nothing
         /\ ShouldIntercept(hosts, r.host) <=> list \in Lists
         /\ \A l \in Lists : HostIn(hosts, l, r.host) <=> l = list
<1>1. \A l \in Lists : HostIn(hosts, l, r.host) <=> l = list
  BY Zenon DEF WellFormed
<1> QED BY <1>1, Routed

LEMMA RoutedTo ==
  ASSUME NEW r, NEW hosts, WellFormed(r, hosts), NEW list, list \in Lists, ListOf(r.doc) = list,
         NEW id, ParseWith(list, r.path) = id
  PROVE  ParseForHost(hosts, r.host, r.path) = id /\ ShouldIntercept(hosts, r.host)
BY ListedAs

LEMMA Nowhere ==
  ASSUME NEW r, NEW hosts, WellFormed(r, hosts), ListOf(r.doc) \notin Lists
  PROVE  ParseForHost(hosts, r.host, r.path) = Nothing /\ ~ShouldIntercept(hosts, r.host)
BY ListedAs

(* Whatever pins a version is parsed as the identity it pins.                *)
LEMMA PinnedAreParsed ==
  ASSUME NEW r, NEW hosts, WellFormed(r, hosts), r.doc.form \in PinnedForms
  PROVE  /\ ParseForHost(hosts, r.host, r.path) = r.doc.id
         /\ ShouldIntercept(hosts, r.host)
         /\ ListOf(r.doc) # "vscode_marketplace"
         /\ r.doc.id.eco \in {"crates", "npm", "pypi", "nuget"}
<1> DEFINE id == r.doc.id  path == r.path
<1>1. PICK e, s, n, v :
        /\ e \in Ecosystems /\ n \in NonBlank
        /\ id = Id(e, Name(s, n), v)
        /\ r.doc.form \notin {"index", "other"} => v \in NonBlank
  BY OfUrl
<1>2. r.doc.form \notin {"index", "other"} /\ v \in NonBlank
  BY <1>1 DEF PinnedForms
<1>3. path \in Seq(Segment) /\ Url(r.doc, r.host, path, r.escaped)
  BY Zenon DEF WellFormed
<1>4. id.eco = e /\ id.name.scope = s /\ id.name.parts = n /\ id.version = v
  BY <1>1, IdParts
<1>5. CASE r.doc.form = "crate"
  <2>1. CrateUrl(id, path)
    BY <1>3, <1>5, Zenon DEF Url
  <2> HIDE DEF id, path
  <2>2. id.eco = "crates"
    BY <2>1, Zenon DEF CrateUrl
  <2>3. ParseCrates(path) = id
    <3>1. path = <<Word("api"), Word("v1"), Word("crates"), Seg(n, ""), Seg(v, ""), Word("download")>>
          /\ e = "crates" /\ s = ""
      BY <1>4, <2>1, Zenon DEF CrateUrl
    <3> QED BY <1>1, <1>2, <1>3, <3>1, ParsesCrate, Zenon
  <2>4. ListOf(r.doc) = "crates" /\ "crates" \in Lists /\ "crates" # "vscode_marketplace"
    BY <1>5, ListIs DEF Lists
  <2>5. ParseWith("crates", path) = id
    BY <2>3, Parsed, Zenon
  <2> QED BY <2>2, <2>4, <2>5, RoutedTo DEF id, path
<1>6. CASE r.doc.form = "tgz"
  <2>1. TarballUrl(id, path)
    BY <1>3, <1>6, Zenon DEF Url
  <2> HIDE DEF id, path
  <2>2. id.eco = "npm"
    BY <2>1, Zenon DEF TarballUrl
  <2>3. ParseNpm(path) = id
    <3>1. e = "npm"
      BY <1>4, <2>1, Zenon DEF TarballUrl
    <3>2. PICK w : w = n \o v
      OBVIOUS
    <3>3. CASE s = "" /\ path = <<Seg(n, ""), Word("-"), Seg(w, "tgz")>>
      BY <1>1, <1>2, <3>1, <3>2, <3>3, ParsesTarball, Zenon
    <3>4. CASE s \in ScopeTokens /\ path = <<Word(s), Seg(n, ""), Word("-"), Seg(w, "tgz")>>
      <4>1. n \in NonBlank /\ v \in NonBlank /\ id = Id("npm", Name(s, n), v)
        BY <1>1, <1>2, <3>1
      <4>2. PICK a, b, c, d : a = Word(s) /\ b = Seg(n, "") /\ c = Word("-") /\ d = Seg(w, "tgz")
        BY Zenon
      <4>3. path = <<a, b, c, d>>
        BY <3>4, <4>2, Zenon
      <4> HIDE <1>1
      <4> QED BY <4>1, <4>2, <4>3, <3>2, <3>4, ParsesScopedTarball, Zenon
    <3> QED BY <1>4, <2>1, <3>2, <3>3, <3>4, Zenon DEF TarballUrl
  <2>4. ListOf(r.doc) = "npm" /\ "npm" \in Lists /\ "npm" # "vscode_marketplace"
    BY <1>6, ListIs DEF Lists
  <2>5. ParseWith("npm", path) = id
    BY <2>3, Parsed, Zenon
  <2> QED BY <2>2, <2>4, <2>5, RoutedTo DEF id, path
<1>7. CASE r.doc.form = "sdist"
  <2>1. PypiUrl(id, path, {"tar.gz"})
    BY <1>3, <1>7, Zenon DEF Url
  <2> HIDE DEF id, path
  <2>2. id.eco = "pypi"
    BY <2>1, Zenon DEF PypiUrl
  <2>3. ParsePypi(path) = id
    <3>1. /\ e = "pypi" /\ s = "" /\ path # <<>> /\ FileOf(path).ext = "tar.gz"
          /\ Len(n) < Len(FileOf(path).parts) /\ SubSeq(FileOf(path).parts, 1, Len(n)) = n
          /\ v = <<FileOf(path).parts[Len(n) + 1]>> /\ FileOf(path).parts[Len(n) + 1] \in NumberTokens
          /\ \A i \in 2 .. Len(n) : FileOf(path).parts[i] \notin NumberTokens
      BY <1>4, <2>1, Zenon DEF PypiUrl
    <3>2. FileOf(path).ext \in {"whl", "tar.gz", "zip"}
      BY <3>1
    <3> QED BY <1>1, <1>2, <1>3, <3>1, <3>2, ParsesPypi, Zenon
  <2>4. ListOf(r.doc) = "pypi_files" /\ "pypi_files" \in Lists /\ "pypi_files" # "vscode_marketplace"
    BY <1>7, ListIs DEF Lists
  <2>5. ParseWith("pypi_files", path) = id
    BY <2>3, Parsed, Zenon
  <2> QED BY <2>2, <2>4, <2>5, RoutedTo DEF id, path
<1>8. CASE r.doc.form = "zip"
  <2>1. PypiUrl(id, path, {"zip"})
    BY <1>3, <1>8, Zenon DEF Url
  <2> HIDE DEF id, path
  <2>2. id.eco = "pypi"
    BY <2>1, Zenon DEF PypiUrl
  <2>3. ParsePypi(path) = id
    <3>1. /\ e = "pypi" /\ s = "" /\ path # <<>> /\ FileOf(path).ext = "zip"
          /\ Len(n) < Len(FileOf(path).parts) /\ SubSeq(FileOf(path).parts, 1, Len(n)) = n
          /\ v = <<FileOf(path).parts[Len(n) + 1]>> /\ FileOf(path).parts[Len(n) + 1] \in NumberTokens
          /\ \A i \in 2 .. Len(n) : FileOf(path).parts[i] \notin NumberTokens
      BY <1>4, <2>1, Zenon DEF PypiUrl
    <3>2. FileOf(path).ext \in {"whl", "tar.gz", "zip"}
      BY <3>1
    <3> QED BY <1>1, <1>2, <1>3, <3>1, <3>2, ParsesPypi, Zenon
  <2>4. ListOf(r.doc) = "pypi_files" /\ "pypi_files" \in Lists /\ "pypi_files" # "vscode_marketplace"
    BY <1>8, ListIs DEF Lists
  <2>5. ParseWith("pypi_files", path) = id
    BY <2>3, Parsed, Zenon
  <2> QED BY <2>2, <2>4, <2>5, RoutedTo DEF id, path
<1>9. CASE r.doc.form = "wheel"
  <2>1. PypiUrl(id, path, {"whl"})
    BY <1>3, <1>9, Zenon DEF Url
  <2> HIDE DEF id, path
  <2>2. id.eco = "pypi"
    BY <2>1, Zenon DEF PypiUrl
  <2>3. ParsePypi(path) = id
    <3>1. /\ e = "pypi" /\ s = "" /\ path # <<>> /\ FileOf(path).ext = "whl"
          /\ Len(n) < Len(FileOf(path).parts) /\ SubSeq(FileOf(path).parts, 1, Len(n)) = n
          /\ v = <<FileOf(path).parts[Len(n) + 1]>> /\ FileOf(path).parts[Len(n) + 1] \in NumberTokens
          /\ \A i \in 2 .. Len(n) : FileOf(path).parts[i] \notin NumberTokens
      BY <1>4, <2>1, Zenon DEF PypiUrl
    <3>2. FileOf(path).ext \in {"whl", "tar.gz", "zip"}
      BY <3>1
    <3> QED BY <1>1, <1>2, <1>3, <3>1, <3>2, ParsesPypi, Zenon
  <2>4. ListOf(r.doc) = "pypi_files" /\ "pypi_files" \in Lists /\ "pypi_files" # "vscode_marketplace"
    BY <1>9, ListIs DEF Lists
  <2>5. ParseWith("pypi_files", path) = id
    BY <2>3, Parsed, Zenon
  <2> QED BY <2>2, <2>4, <2>5, RoutedTo DEF id, path
<1>10. CASE r.doc.form = "nupkg"
  <2>1. NupkgUrl(id, path)
    BY <1>3, <1>10, Zenon DEF Url
  <2> HIDE DEF id, path
  <2>2. id.eco = "nuget"
    BY <2>1, Zenon DEF NupkgUrl
  <2>3. ParseNuget(path) = id
    <3>1. /\ e = "nuget" /\ s = "" /\ Len(path) = 4 /\ path[4].ext = "nupkg"
          /\ path[1] = Word("v3-flatcontainer") /\ path[2] = Seg(n, "") /\ path[3] = Seg(v, "")
      BY <1>4, <2>1, Zenon DEF NupkgUrl
    <3> QED BY <1>1, <1>2, <3>1, ParsesNupkg, Zenon
  <2>4. ListOf(r.doc) = "nuget" /\ "nuget" \in Lists /\ "nuget" # "vscode_marketplace"
    BY <1>10, ListIs DEF Lists
  <2>5. ParseWith("nuget", path) = id
    BY <2>3, Parsed, Zenon
  <2> QED BY <2>2, <2>4, <2>5, RoutedTo DEF id, path
<1> QED BY <1>5, <1>6, <1>7, <1>8, <1>9, <1>10 DEF PinnedForms

LEMMA NotNupkg ==
  ASSUME NEW path, \/ Len(path) = 3
                   \/ path[1] = Word("v3")
  PROVE  ParseNuget(path) = Nothing
<1>1. CASE Len(path) = 3
  <2>1. Len(path) # 4
    BY <1>1
  <2> QED BY <2>1, Zenon DEF ParseNuget
<1>2. CASE path[1] = Word("v3")
  <2>1. Word("v3") # Word("v3-flatcontainer")
    <3>1. Word("v3").parts[1] = "v3" /\ Word("v3-flatcontainer").parts[1] = "v3-flatcontainer"
      BY DEF Word, Seg
    <3>2. "v3" # "v3-flatcontainer"
      OBVIOUS
    <3> QED BY <3>1, <3>2
  <2>2. path[1] # Word("v3-flatcontainer")
    BY <1>2, <2>1, Zenon
  <2> QED BY <2>2, Zenon DEF ParseNuget
<1> QED BY <1>1, <1>2

(* Nothing else is.                                                          *)
LEMMA UnpinnedAreNot ==
  ASSUME NEW r, NEW hosts, WellFormed(r, hosts), r.doc.form \notin PinnedForms
  PROVE  ParseForHost(hosts, r.host, r.path) = Nothing
<1> DEFINE id == r.doc.id  path == r.path
<1>1. r.doc.form \in {"vsix", "git", "index", "other"}
  <2>1. r.doc.form \in Forms
    BY Zenon DEF WellFormed
  <2> QED BY <2>1 DEF Forms, PinnedForms
<1>2. path \in Seq(Segment) /\ Url(r.doc, r.host, path, r.escaped)
  BY Zenon DEF WellFormed
<1>3. CASE r.doc.form = "vsix"
  <2>1. ListOf(r.doc) = "vscode_marketplace" /\ "vscode_marketplace" \in Lists
    BY <1>3, ListIs DEF Lists
  <2> QED BY <2>1, Parsed, RoutedTo
<1>4. CASE r.doc.form = "git"
  <2>1. id.eco = "git"
    BY <1>2, <1>4, Zenon DEF Url, GitUrl
  <2>2. ListOf(r.doc) = "none" /\ "none" \notin Lists
    BY <1>4, <2>1, ListIs DEF Lists
  <2> QED BY <2>2, Nowhere
<1>5. CASE r.doc.form = "other"
  <2>1. CASE id.eco = "npm"
    <3>1. Len(path) = 2
      BY <1>2, <1>5, <2>1, Zenon DEF Url, OtherUrl
    <3>2. ListOf(r.doc) = "npm" /\ "npm" \in Lists
      BY <1>5, <2>1, ListIs DEF Lists
    <3>3. ParseNpm(path) = Nothing
      BY <3>1, NoTarball
    <3> QED BY <3>2, <3>3, Parsed, RoutedTo
  <2>2. CASE id.eco # "npm"
    <3>1. ListOf(r.doc) = "none" /\ "none" \notin Lists
      BY <1>5, <2>2, ListIs DEF Lists
    <3> QED BY <3>1, Nowhere
  <2> QED BY <2>1, <2>2
<1>6. CASE r.doc.form = "index"
  <2>0. IndexUrl(id, path, r.escaped)
    BY <1>2, <1>6, Zenon DEF Url
  <2>1. CASE id.eco = "crates"
    <3>1. ListOf(r.doc) = "crates_sparse" /\ "crates_sparse" \in Lists
      BY <1>6, <2>1, ListIs DEF Lists
    <3> QED BY <3>1, Parsed, RoutedTo
  <2>2. CASE id.eco = "npm"
    <3>1. Len(path) = 1 \/ Len(path) = IF path[1].parts[1] \in ScopeTokens THEN 2 ELSE 1
      BY <2>0, <2>2 DEF IndexUrl
    <3>2. Len(path) \in {1, 2}
      BY <3>1
    <3>3. ParseNpm(path) = Nothing
      BY <3>2, NoTarball
    <3>4. ListOf(r.doc) = "npm" /\ "npm" \in Lists
      BY <1>6, <2>2, ListIs DEF Lists
    <3> QED BY <3>3, <3>4, Parsed, RoutedTo
  <2>3. CASE id.eco = "pypi"
    <3>1. ListOf(r.doc) = "pypi_index" /\ "pypi_index" \in Lists
      BY <1>6, <2>3, ListIs DEF Lists
    <3> QED BY <3>1, Parsed, RoutedTo
  <2>4. CASE id.eco = "nuget"
    <3>1. Len(path) = 3 \/ path[1] = Word("v3")
      BY <2>0, <2>4 DEF IndexUrl
    <3>2. ParseNuget(path) = Nothing
      BY <3>1, NotNupkg
    <3>3. ListOf(r.doc) = "nuget" /\ "nuget" \in Lists
      BY <1>6, <2>4, ListIs DEF Lists
    <3> QED BY <3>2, <3>3, Parsed, RoutedTo
  <2>5. CASE id.eco = "vscode"
    <3>1. ListOf(r.doc) = "vscode_marketplace" /\ "vscode_marketplace" \in Lists
      BY <1>6, <2>5, ListIs DEF Lists
    <3> QED BY <3>1, Parsed, RoutedTo
  <2> QED BY <2>0, <2>1, <2>2, <2>3, <2>4, <2>5, Zenon DEF IndexUrl
<1> QED BY <1>1, <1>3, <1>4, <1>5, <1>6

(* Only a forge's archives are classified as git.                            *)
LEMMA GitOnlyOfForges ==
  ASSUME NEW r, NEW hosts, WellFormed(r, hosts), r.doc.form # "git"
  PROVE  ClassifyGit(r.host, r.path) = Nothing
<1>1. r.host \notin Forges
  BY Zenon DEF WellFormed
<1> QED BY <1>1, Zenon DEF Forges, ClassifyGit

-----------------------------------------------------------------------------
(* Forges, extensions and index documents.                                   *)

(* The forges of ClassifyGit are told apart by their hosts.                  *)
LEMMA ForgesDiffer ==
  ASSUME NEW host
  PROVE  /\ host = <<"codeload", "github", "com">> => host # <<"api", "github", "com">> /\ host # <<"github", "com">>
         /\ host = <<"api", "github", "com">> => host # <<"codeload", "github", "com">> /\ host # <<"github", "com">>
         /\ host = <<"github", "com">> => host # <<"codeload", "github", "com">> /\ host # <<"api", "github", "com">>
<1>1. <<"codeload", "github", "com">>[1] # <<"api", "github", "com">>[1]
  OBVIOUS
<1>2. <<"codeload", "github", "com">>[1] # <<"github", "com">>[1]
  OBVIOUS
<1>3. <<"api", "github", "com">>[1] # <<"github", "com">>[1]
  OBVIOUS
<1> QED BY <1>1, <1>2, <1>3, Zenon

LEMMA StripsNothing ==
  ASSUME NEW repo, repo.ext = "" \/ repo.ext = "git"
  PROVE  StripGitSuffix(repo) = repo.parts
BY DEF StripGitSuffix

LEMMA FetchIs ==
  ASSUME NEW id, NEW c \in CommitTokens \cup {Nothing}, NEW fetch, fetch = [id |-> id, commit |-> c],
         \A x \in CommitTokens \cup {Nothing} : Nothing # [id |-> id, commit |-> x]
  PROVE  fetch.id = id /\ fetch # Nothing
OBVIOUS

(* What classify gives for the URLs of a forge.                              *)
LEMMA FetchOfUrl ==
  ASSUME NEW host, NEW path, NEW id, GitUrl(id, host, path),
         id = Id(id.eco, id.name, id.version),
         \A c \in CommitTokens \cup {Nothing} : Nothing # [id |-> id, commit |-> c]
  PROVE  ClassifyGit(host, path) # Nothing /\ ClassifyGit(host, path).id = id
<1>0. id.eco = "git"
  BY Zenon DEF GitUrl
<1>4. CASE host = <<"codeload", "github", "com">>
  <2>1. ClassifyGit(host, path) = ParseCodeload(host, path)
    BY <1>4, ForgesDiffer, Zenon DEF ClassifyGit
  <2>2. /\ Len(path) = 4 /\ path[3] \in {Word("tar.gz"), Word("zip"), Word("legacy.tar.gz"), Word("legacy.zip")}
        /\ ~IsBlank(path[1]) /\ ~IsBlank(path[4]) /\ path[2].ext = "" /\ ~IsBlank(path[2])
        /\ id.name = Name(host[1], path[1].parts \o path[2].parts) /\ id.version = path[4].parts
    BY <1>4, ForgesDiffer, Zenon DEF GitUrl
  <2>3. ParseCodeload(host, path) = GitFetch(host, path[1], path[2], Version(path[4]))
    BY <2>2, Lengths, Zenon DEF ParseCodeload
  <2>4. Version(path[4]) = path[4].parts
    BY DEF Version
  <2>7. PICK o, p, v, f : o = path[1] /\ p = path[2] /\ v = path[4].parts /\ f = GitFetch(host, o, p, v)
    BY Zenon
  <2>8. id.name = Name(host[1], o.parts \o p.parts) /\ id.version = v
    BY <2>2, <2>7, Zenon
  <2>9. f.id = id /\ f # Nothing
    <3> DEFINE c == IF v[1] \in CommitTokens THEN v[1] ELSE Nothing
    <3>1. StripGitSuffix(p) = p.parts
      BY <2>2, <2>7, StripsNothing
    <3>2. id = Id("git", Name(host[1], o.parts \o p.parts), v)
      BY <1>0, <2>8, Zenon
    <3>3. f = [id |-> id, commit |-> c]
      BY <2>7, <3>1, <3>2, Zenon DEF GitFetch
    <3>4. c \in CommitTokens \cup {Nothing}
      OBVIOUS
    <3> HIDE <3>2 DEF c
    <3> QED BY <3>3, <3>4, FetchIs
  <2> QED BY <2>1, <2>3, <2>4, <2>7, <2>9, Zenon
<1>5. CASE host = <<"api", "github", "com">>
  <2>1. ClassifyGit(host, path) = ParseApiGithub(host, path)
    BY <1>5, ForgesDiffer, Zenon DEF ClassifyGit
  <2>2. /\ Len(path) = 5 /\ path[1] = Word("repos") /\ path[4] \in {Word("tarball"), Word("zipball")}
        /\ ~IsBlank(path[2]) /\ ~IsBlank(path[3]) /\ path[3].ext = "" /\ ~IsBlank(path[5])
        /\ id.name = Name(host[1], path[2].parts \o path[3].parts) /\ id.version = path[5].parts
    BY <1>5, ForgesDiffer, Zenon DEF GitUrl
  <2>3. Len(path) >= 4 /\ Len(path) > 4
    <3>1. \A x : x = 5 => x >= 4 /\ x > 4
      OBVIOUS
    <3> QED BY <2>2, <3>1, Zenon
  <2>4. ParseApiGithub(host, path) = GitFetch(host, path[2], path[3], Version(path[5]))
    BY <2>2, <2>3, Zenon DEF ParseApiGithub
  <2>5. Version(path[5]) = path[5].parts
    BY DEF Version
  <2>7. PICK o, p, v, f : o = path[2] /\ p = path[3] /\ v = path[5].parts /\ f = GitFetch(host, o, p, v)
    BY Zenon
  <2>8. id.name = Name(host[1], o.parts \o p.parts) /\ id.version = v
    BY <2>2, <2>7, Zenon
  <2>9. f.id = id /\ f # Nothing
    <3> DEFINE c == IF v[1] \in CommitTokens THEN v[1] ELSE Nothing
    <3>1. StripGitSuffix(p) = p.parts
      BY <2>2, <2>7, StripsNothing
    <3>2. id = Id("git", Name(host[1], o.parts \o p.parts), v)
      BY <1>0, <2>8, Zenon
    <3>3. f = [id |-> id, commit |-> c]
      BY <2>7, <3>1, <3>2, Zenon DEF GitFetch
    <3>4. c \in CommitTokens \cup {Nothing}
      OBVIOUS
    <3> HIDE <3>2 DEF c
    <3> QED BY <3>3, <3>4, FetchIs
  <2> QED BY <2>1, <2>4, <2>5, <2>7, <2>9, Zenon
<1>6. CASE host = <<"github", "com">>
  <2>1. ClassifyGit(host, path) = ParseGithubClone(host, path)
    BY <1>6, ForgesDiffer, Zenon DEF ClassifyGit
  <2>2. /\ Len(path) = 4 /\ path[2].ext = "git" /\ path[3] = Word("info") /\ path[4] = Word("refs")
        /\ ~IsBlank(path[1])
        /\ id.name = Name(host[1], path[1].parts \o path[2].parts) /\ id.version = HeadRef
    BY <1>6, ForgesDiffer, Zenon DEF GitUrl
  <2>3. ParseGithubClone(host, path) = GitFetch(host, path[1], path[2], HeadRef)
    BY <2>2, Zenon DEF ParseGithubClone
  <2>7. PICK o, p, v, f : o = path[1] /\ p = path[2] /\ v = HeadRef /\ f = GitFetch(host, o, p, v)
    BY Zenon
  <2>8. id.name = Name(host[1], o.parts \o p.parts) /\ id.version = v
    BY <2>2, <2>7, Zenon
  <2>9. f.id = id /\ f # Nothing
    <3> DEFINE c == IF v[1] \in CommitTokens THEN v[1] ELSE Nothing
    <3>1. StripGitSuffix(p) = p.parts
      BY <2>2, <2>7, StripsNothing
    <3>2. id = Id("git", Name(host[1], o.parts \o p.parts), v)
      BY <1>0, <2>8, Zenon
    <3>3. f = [id |-> id, commit |-> c]
      BY <2>7, <3>1, <3>2, Zenon DEF GitFetch
    <3>4. c \in CommitTokens \cup {Nothing}
      OBVIOUS
    <3> HIDE <3>2 DEF c
    <3> QED BY <3>3, <3>4, FetchIs
  <2> QED BY <2>1, <2>3, <2>7, <2>9, Zenon
<1> QED BY <1>4, <1>5, <1>6, Zenon DEF GitUrl

(* An archive of a repository is classified as that repository.              *)
LEMMA GitIsClassified ==
  ASSUME NEW r, NEW hosts, WellFormed(r, hosts), r.doc.form = "git"
  PROVE  ClassifyGit(r.host, r.path) # Nothing /\ ClassifyGit(r.host, r.path).id = r.doc.id
<1>1. r.doc.id = Id(r.doc.id.eco, Name(r.doc.id.name.scope, r.doc.id.name.parts), r.doc.id.version)
  BY Zenon DEF WellFormed
<1>2. r.doc.id = Id(r.doc.id.eco, r.doc.id.name, r.doc.id.version)
  BY <1>1 DEF Id, Name
<1>3. GitUrl(r.doc.id, r.host, r.path)
  BY Zenon DEF WellFormed, Url
<1>4. \A c \in CommitTokens \cup {Nothing} : Nothing # [id |-> r.doc.id, commit |-> c]
  BY Zenon DEF WellFormed
<1> QED BY <1>2, <1>3, <1>4, FetchOfUrl

(* AtPositions is no longer than the set of positions.                       *)
LEMMA PositionsBound ==
  ASSUME NEW s, NEW n \in Nat, NEW I, I \subseteq 1 .. n
  PROVE  /\ Cardinality(I) \in Nat /\ Cardinality(I) <= n
         /\ DOMAIN AtPositions(s, I) = 1 .. Cardinality(I)
         /\ Len(AtPositions(s, I)) = Cardinality(I)
<1>1. IsFiniteSet(1 .. n) /\ Cardinality(1 .. n) = n
  BY FS_Interval
<1>2. IsFiniteSet(I) /\ Cardinality(I) \in Nat /\ Cardinality(I) <= n
  BY <1>1, FS_Subset, FS_CardinalityType
<1> QED BY <1>2 DEF AtPositions

(* All positions give the sequence itself.                                   *)
LEMMA AllPositions ==
  ASSUME NEW S, NEW s \in Seq(S)
  PROVE  AtPositions(s, DOMAIN s) = s
<1> DEFINE n == Len(s)
<1>1. n \in Nat /\ DOMAIN s = 1 .. n
  OBVIOUS
<1>2. IsFiniteSet(1 .. n) /\ Cardinality(1 .. n) = n
  BY <1>1, FS_Interval
<1>3. \A i \in 1 .. n : Cardinality({h \in 1 .. n : h < i}) = i - 1
  <2> SUFFICES ASSUME NEW i \in 1 .. n PROVE Cardinality({h \in 1 .. n : h < i}) = i - 1
    OBVIOUS
  <2>1. {h \in 1 .. n : h < i} = 1 .. i - 1
    BY <1>1
  <2>2. Cardinality(1 .. i - 1) = i - 1
    BY <1>1, FS_Interval
  <2> QED BY <2>1, <2>2
<1>4. \A k \in 1 .. n : (CHOOSE i \in 1 .. n : Cardinality({h \in 1 .. n : h < i}) = k - 1) = k
  <2> SUFFICES ASSUME NEW k \in 1 .. n
               PROVE  (CHOOSE i \in 1 .. n : Cardinality({h \in 1 .. n : h < i}) = k - 1) = k
    OBVIOUS
  <2>1. \A i \in 1 .. n : Cardinality({h \in 1 .. n : h < i}) = k - 1 <=> i = k
    BY <1>1, <1>3
  <2> QED BY <2>1
<1>5. AtPositions(s, 1 .. n) = [k \in 1 .. n |-> s[CHOOSE i \in 1 .. n : Cardinality({h \in 1 .. n : h < i}) = k - 1]]
  BY <1>2 DEF AtPositions
<1>6. AtPositions(s, 1 .. n) = [k \in 1 .. n |-> s[k]]
  BY <1>4, <1>5, Zenon
<1>7. [k \in 1 .. n |-> s[k]] = s
  BY <1>1
<1> QED BY <1>1, <1>6, <1>7

(* Words and names are not blank.                                            *)
LEMMA WordNotBlank ==
  ASSUME NEW t, t # ""
  PROVE  ~IsBlank(Word(t))
BY WordsDiffer, Zenon DEF IsBlank, Blank

LEMMA NamedNotBlank ==
  ASSUME NEW s, s.ext # ""
  PROVE  ~IsBlank(s)
BY WordSeg DEF IsBlank, Blank

LEMMA PlainSeg ==
  ASSUME NEW s, NEW p, s = Seg(p, "")
  PROVE  s.parts = p /\ Version(s) = p
BY SegParts

(* Nothing is dropped from a path without empty segments.                    *)
LEMMA SegmentsOf ==
  ASSUME NEW path \in Seq(Segment), \A i \in 1 .. Len(path) : ~IsBlank(path[i])
  PROVE  AtPositions(path, {i \in DOMAIN path : ~IsBlank(path[i])}) = path
<1>1. DOMAIN path = 1 .. Len(path)
  BY LenProperties
<1>2. {i \in DOMAIN path : ~IsBlank(path[i])} = DOMAIN path
  BY <1>1
<1> QED BY <1>2, AllPositions

LEMMA Counted ==
  ASSUME NEW x
  PROVE  /\ x = 9 => \A i \in 1 .. x : i \in {1, 2, 3, 4, 5, 6, 7, 8, 9}
         /\ x = 6 => \A i \in 1 .. x : i \in {1, 2, 3, 4, 5, 6}
OBVIOUS

(* The gallery's and Open VSX's URLs give the extension they are for.        *)
LEMMA ParsesGallery ==
  ASSUME NEW s, s # "", NEW n \in NonBlank, NEW v \in NonBlank, NEW path \in Seq(Segment),
         NEW w, w = Word(s), NEW np, np = Seg(n, ""), NEW vp, vp = Seg(v, ""),
         Len(path) = 9, path[1] = Word("_apis"), path[2] = Word("public"), path[3] = Word("gallery"),
         path[4] = Word("publishers"), path[5] = w, path[6] = Word("vsextensions"), path[7] = np,
         path[8] = vp, path[9] = Word("vspackage")
  PROVE  ParseVsixDownloadPath(path) = Id("vscode", Name(s, n), v)
<1>2. ~IsBlank(Word("_apis")) /\ ~IsBlank(Word("public")) /\ ~IsBlank(Word("gallery"))
      /\ ~IsBlank(Word("publishers")) /\ ~IsBlank(Word("vsextensions")) /\ ~IsBlank(Word("vspackage"))
  <2>1. "_apis" # "" /\ "public" # "" /\ "gallery" # "" /\ "publishers" # "" /\ "vsextensions" # "" /\ "vspackage" # ""
    OBVIOUS
  <2> QED BY <2>1, WordNotBlank, Zenon
<1>3. ~IsBlank(w) /\ ~IsBlank(np) /\ ~IsBlank(vp)
  BY WordNotBlank, NotBlank, Zenon
<1>4. \A i \in 1 .. Len(path) : ~IsBlank(path[i])
  <2>1. \A i \in 1 .. Len(path) : i \in {1, 2, 3, 4, 5, 6, 7, 8, 9}
    BY Counted, Zenon
  <2>2. \A i \in {1, 2, 3, 4, 5, 6, 7, 8, 9} : ~IsBlank(path[i])
    BY <1>2, <1>3, Zenon
  <2> QED BY <2>1, <2>2, Zenon
<1>5. AtPositions(path, {i \in DOMAIN path : ~IsBlank(path[i])}) = path
  BY <1>4, SegmentsOf, Zenon
<1>6. SubSeq(path, 1, 4) = <<Word("_apis"), Word("public"), Word("gallery"), Word("publishers")>>
  <2>1. SubSeq(path, 1, 4) = <<path[1], path[2], path[3], path[4]>>
    BY Lengths, Sub4, Zenon
  <2> QED BY <2>1, Zenon
<1>7. path[5].parts[1] = s /\ path[7].parts = n /\ Version(path[8]) = v
  <2>1. w.parts[1] = s
    BY FirstOfWord, Zenon
  <2>2. np.parts = n /\ Version(vp) = v
    BY PlainSeg, Zenon
  <2> QED BY <2>1, <2>2, Zenon
<1>8. ParseVsixDownloadPath(path) = Id("vscode", Name(path[5].parts[1], path[7].parts), Version(path[8]))
  BY <1>5, <1>6, Lengths, Zenon DEF ParseVsixDownloadPath
<1> QED BY <1>7, <1>8, Zenon

LEMMA ParsesOpenVsx ==
  ASSUME NEW s, s # "", NEW n \in NonBlank, NEW v \in NonBlank, NEW path \in Seq(Segment),
         NEW np, np = Seg(n, ""), NEW vp, vp = Seg(v, ""),
         Len(path) = 6, path[1] = Word("api"), path[2] = Word(s), path[3] = np,
         path[4] = vp, path[5] = Word("file"), path[6].ext = "vsix"
  PROVE  ParseVsixDownloadPath(path) = Id("vscode", Name(s, n), v)
<1>2. ~IsBlank(path[1]) /\ ~IsBlank(path[5])
  <2>1. "api" # "" /\ "file" # ""
    OBVIOUS
  <2> QED BY <2>1, WordNotBlank, Zenon
<1>3. ~IsBlank(path[2]) /\ ~IsBlank(path[3]) /\ ~IsBlank(path[4])
  BY WordNotBlank, NotBlank, Zenon
<1>33. ~IsBlank(path[6])
  <2>1. PICK f : f = path[6]
    OBVIOUS
  <2>2. f.ext = "vsix"
    BY <2>1, Zenon
  <2>3. "vsix" # ""
    OBVIOUS
  <2> QED BY <2>1, <2>2, <2>3, NamedNotBlank, Zenon
<1>4. \A i \in 1 .. Len(path) : ~IsBlank(path[i])
  <2>1. \A i \in 1 .. Len(path) : i \in {1, 2, 3, 4, 5, 6}
    BY Counted, Zenon
  <2>2. \A i \in {1, 2, 3, 4, 5, 6} : ~IsBlank(path[i])
    BY <1>2, <1>3, <1>33, Zenon
  <2> QED BY <2>1, <2>2, Zenon
<1>5. AtPositions(path, {i \in DOMAIN path : ~IsBlank(path[i])}) = path
  BY <1>4, SegmentsOf, Zenon
<1>7. path[2].parts[1] = s /\ path[3].parts = n /\ Version(path[4]) = v
  <2>1. path[2].parts[1] = s
    BY FirstOfWord, Zenon
  <2>2. np.parts = n /\ Version(vp) = v
    BY PlainSeg, Zenon
  <2> QED BY <2>1, <2>2, Zenon
<1>8. Len(path) # 9
  BY Lengths, Zenon
<1>9. ParseVsixDownloadPath(path) = Id("vscode", Name(path[2].parts[1], path[3].parts), Version(path[4]))
  BY <1>5, <1>8, Zenon DEF ParseVsixDownloadPath
<1> QED BY <1>7, <1>9, Zenon

(* A path too short to be a .vsix.                                           *)
LEMMA Short ==
  ASSUME NEW x \in Nat, NEW y \in Nat, x <= y, y <= 4
  PROVE  x # 9 /\ x # 6
OBVIOUS

LEMMA ShortIsNoVsix ==
  ASSUME NEW path \in Seq(Segment), Len(path) <= 4
  PROVE  ParseVsixDownloadPath(path) = Nothing
<1>1. Len(path) \in Nat /\ DOMAIN path = 1 .. Len(path)
  BY LenProperties
<1>2. PICK I, segs : I = {i \in DOMAIN path : ~IsBlank(path[i])} /\ segs = AtPositions(path, I)
  OBVIOUS
<1>3. I \subseteq 1 .. Len(path)
  BY <1>1, <1>2
<1>4. Len(segs) \in Nat /\ Len(segs) <= Len(path)
  BY <1>1, <1>2, <1>3, PositionsBound
<1>5. Len(segs) # 9 /\ Len(segs) # 6
  BY <1>1, <1>4, Short, Zenon
<1> QED BY <1>2, <1>5, Zenon DEF ParseVsixDownloadPath

(* A .vsix is recognised as the extension it is.                             *)
LEMMA VsixAreParsed ==
  ASSUME NEW r, NEW hosts, WellFormed(r, hosts), r.doc.form = "vsix"
  PROVE  /\ ParseVsixDownloadPath(r.path) = r.doc.id
         /\ HostIn(hosts, "vscode_marketplace", r.host)
         /\ ShouldIntercept(hosts, r.host)
         /\ r.doc.id.eco = "vscode"
<1> DEFINE id == r.doc.id  path == r.path
<1>1. PICK e, s, n, v :
        /\ e \in Ecosystems /\ n \in NonBlank
        /\ id = Id(e, Name(s, n), v)
        /\ r.doc.form \notin {"index", "other"} => v \in NonBlank
  BY OfUrl
<1>2. n \in NonBlank /\ v \in NonBlank
  BY <1>1
<1>3. path \in Seq(Segment) /\ Url(r.doc, r.host, path, r.escaped)
  BY Zenon DEF WellFormed
<1>4. id.eco = e /\ id.name.scope = s /\ id.name.parts = n /\ id.version = v
  BY <1>1, IdParts
<1>5. VsixUrl(id, path)
  BY <1>3, Zenon DEF Url
<1>6. ListOf(r.doc) = "vscode_marketplace" /\ "vscode_marketplace" \in Lists
  BY ListIs DEF Lists
<1>7. HostIn(hosts, "vscode_marketplace", r.host) /\ ShouldIntercept(hosts, r.host)
  BY <1>6, ListedAs
<1> HIDE DEF id, path
<1>8. id.eco = "vscode" /\ s # "" /\ e = "vscode"
  BY <1>4, <1>5, Zenon DEF VsixUrl
<1>9. PICK w, np, vp : w = Word(s) /\ np = Seg(n, "") /\ vp = Seg(v, "")
  BY Zenon
<1>12. path \in Seq(Segment) /\ s # ""
  BY <1>3, <1>8, Zenon
<1>10. ParseVsixDownloadPath(path) = Id("vscode", Name(s, n), v)
  <2>1. CASE path = <<Word("_apis"), Word("public"), Word("gallery"), Word("publishers"),
                      w, Word("vsextensions"), np, vp, Word("vspackage")>>
    <3>1. /\ Len(path) = 9 /\ path[1] = Word("_apis") /\ path[2] = Word("public") /\ path[3] = Word("gallery")
          /\ path[4] = Word("publishers") /\ path[5] = w /\ path[6] = Word("vsextensions") /\ path[7] = np
          /\ path[8] = vp /\ path[9] = Word("vspackage")
      BY <2>1, Tuple9, Zenon
    <3> QED BY <1>2, <1>12, <1>9, <3>1, ParsesGallery, Zenon
  <2>2. CASE /\ Len(path) = 6 /\ path[1] = Word("api") /\ path[2] = Word(s)
             /\ path[3] = np /\ path[4] = vp /\ path[5] = Word("file") /\ path[6].ext = "vsix"
    BY <1>2, <1>12, <1>9, <2>2, ParsesOpenVsx, Zenon
  <2> QED BY <1>4, <1>5, <1>9, <2>1, <2>2, Zenon DEF VsixUrl
<1>11. ParseVsixDownloadPath(path) = id
  BY <1>1, <1>8, <1>10, Zenon
<1> QED BY <1>7, <1>8, <1>11 DEF id, path

(* Nothing else is recognised as an extension.                               *)
LEMMA OthersAreNoVsix ==
  ASSUME NEW r, NEW hosts, WellFormed(r, hosts), r.doc.form # "vsix"
  PROVE  ~HostIn(hosts, "vscode_marketplace", r.host) \/ ParseVsixDownloadPath(r.path) = Nothing
<1> DEFINE id == r.doc.id  path == r.path
<1>1. path \in Seq(Segment) /\ Url(r.doc, r.host, path, r.escaped) /\ r.doc.form \in Forms /\ r.doc.id.eco \in Ecosystems
  BY Zenon DEF WellFormed
<1>2. "vscode_marketplace" \in Lists
  BY DEF Lists
<1>3. HostIn(hosts, "vscode_marketplace", r.host) <=> ListOf(r.doc) = "vscode_marketplace"
  BY <1>2, ListedAs
<1>4. CASE r.doc.form \in PinnedForms
  BY <1>3, <1>4, PinnedAreParsed
<1>5. CASE r.doc.form = "git"
  <2>1. id.eco = "git"
    BY <1>1, <1>5, Zenon DEF Url, GitUrl
  <2> QED BY <1>3, <1>5, <2>1, ListIs
<1>6. CASE r.doc.form = "other"
  BY <1>3, <1>6, ListIs
<1>7. CASE r.doc.form = "index" /\ id.eco # "vscode"
  BY <1>1, <1>3, <1>7, ListIs DEF Ecosystems
<1>8. CASE r.doc.form = "index" /\ id.eco = "vscode"
  <2>1. IndexUrl(id, path, r.escaped)
    BY <1>1, <1>8, Zenon DEF Url
  <2>2. id.eco # "crates" /\ id.eco # "npm" /\ id.eco # "pypi" /\ id.eco # "nuget"
    BY <1>8
  <2>3. path \in {<<Word("_apis"), Word("public"), Word("gallery"), Word("extensionquery")>>,
                  <<Word("vscode"), Word("gallery"), Word("extensionquery")>>}
    BY <2>1, <2>2, Zenon DEF IndexUrl
  <2>4. Len(path) = 4 \/ Len(path) = 3
    <3>1. CASE path = <<Word("_apis"), Word("public"), Word("gallery"), Word("extensionquery")>>
      BY <3>1, Tuple4, Zenon
    <3>2. CASE path = <<Word("vscode"), Word("gallery"), Word("extensionquery")>>
      BY <3>2, Tuple3, Zenon
    <3> QED BY <2>3, <3>1, <3>2, Zenon
  <2> HIDE DEF id, path
  <2>5. Len(path) <= 4
    BY <2>4
  <2>6. ParseVsixDownloadPath(path) = Nothing
    BY <1>1, <2>5, ShortIsNoVsix, Zenon
  <2> QED BY <2>6 DEF path
<1> QED BY <1>1, <1>4, <1>5, <1>6, <1>7, <1>8 DEF Forms, PinnedForms

(* The list that has the host decides which rewriters are asked.             *)
LEMMA RewrittenAs ==
  ASSUME NEW hosts, NEW host, NEW path, NEW list, \A l \in Lists : HostIn(hosts, l, host) <=> l = list
  PROVE  /\ list = "crates_sparse" => RewriteTarget(hosts, host, path) = "CratesSparse"
         /\ list = "npm" /\ IsNpmPackumentPath(path) => RewriteTarget(hosts, host, path) = "NpmPackument"
         /\ list = "npm" /\ ~IsNpmPackumentPath(path) => RewriteTarget(hosts, host, path) = Nothing
         /\ list = "pypi_index" /\ IsPypiJsonApiPath(path)
              => RewriteTarget(hosts, host, path) = "PypiJsonApi"
         /\ list = "pypi_index" /\ ~IsPypiJsonApiPath(path) /\ ParsePypiSimplePkg(path)
              => RewriteTarget(hosts, host, path) = "PypiSimpleIndex"
         /\ list = "nuget" /\ IsNugetRegistrationPath(path)
              => RewriteTarget(hosts, host, path) = "NugetRegistration"
         /\ list = "nuget" /\ ~IsNugetRegistrationPath(path) /\ ParseNugetFlatcontainerIndexPath(path)
              => RewriteTarget(hosts, host, path) = "NugetFlatContainerIndex"
         /\ list = "nuget" /\ ~IsNugetRegistrationPath(path) /\ ~ParseNugetFlatcontainerIndexPath(path)
              => RewriteTarget(hosts, host, path) = Nothing
         /\ list = "vscode_marketplace" /\ IsExtensionqueryPath(path)
              => RewriteTarget(hosts, host, path) = "VscodeExtensionQuery"
         /\ list = "vscode_marketplace" /\ ~IsExtensionqueryPath(path)
              => RewriteTarget(hosts, host, path) = Nothing
         /\ list \in {"crates", "pypi_files"} \/ list \notin Lists
              => RewriteTarget(hosts, host, path) = Nothing
<1>1. {"crates_sparse", "npm", "pypi_index", "nuget", "vscode_marketplace"} \subseteq Lists
  BY DEF Lists
<1>2. /\ HostIn(hosts, "crates_sparse", host) <=> list = "crates_sparse"
      /\ HostIn(hosts, "npm", host) <=> list = "npm"
      /\ HostIn(hosts, "pypi_index", host) <=> list = "pypi_index"
      /\ HostIn(hosts, "nuget", host) <=> list = "nuget"
      /\ HostIn(hosts, "vscode_marketplace", host) <=> list = "vscode_marketplace"
  BY <1>1
<1>3. CASE list = "crates_sparse"
  BY <1>2, <1>3 DEF RewriteTarget, Lists
<1>4. CASE list = "npm"
  BY <1>2, <1>4 DEF RewriteTarget, Lists
<1>5. CASE list = "pypi_index"
  BY <1>2, <1>5 DEF RewriteTarget, Lists
<1>6. CASE list = "nuget"
  BY <1>2, <1>6 DEF RewriteTarget, Lists
<1>7. CASE list = "vscode_marketplace"
  BY <1>2, <1>7 DEF RewriteTarget, Lists
<1>8. CASE list \in {"crates", "pypi_files"} \/ list \notin Lists
  BY <1>1, <1>2, <1>8 DEF RewriteTarget
<1> QED BY <1>3, <1>4, <1>5, <1>6, <1>7, <1>8 DEF Lists

(* Trailing slashes are trimmed before a Simple index is recognised.         *)
LEMMA TrimmedIs ==
  ASSUME NEW path, ~IsBlank(path[Len(path)])
  PROVE  Trimmed(path) = path
BY DEF Trimmed

LEMMA TrimmedSlash ==
  ASSUME NEW path \in Seq(Segment), Len(path) = 3, IsBlank(path[3])
  PROVE  Len(Trimmed(path)) = 2 /\ Trimmed(path)[1] = path[1] /\ Trimmed(path)[2] = path[2]
<1>1. path # <<>> /\ path[Len(path)] = path[3]
  OBVIOUS
<1>2. Trimmed(path) = SubSeq(path, 1, 2)
  <2>1. Trimmed(path) = Front(path)
    BY <1>1, Zenon DEF Trimmed
  <2>2. Len(path) - 1 = 2
    OBVIOUS
  <2> QED BY <2>1, <2>2, Zenon DEF Front
<1>3. Len(SubSeq(path, 1, 2)) = 2 /\ \A i \in 1 .. 2 : SubSeq(path, 1, 2)[i] = path[i]
  BY SubSeqProperties
<1> QED BY <1>2, <1>3

LEMMA OneOrTwo ==
  ASSUME NEW S, NEW path \in Seq(S), Len(path) = 1 \/ Len(path) = 2
  PROVE  /\ path # <<>> /\ 1 \in DOMAIN path /\ Len(path) \in DOMAIN path
         /\ Len(path) = 2 => 2 \in DOMAIN path
OBVIOUS

(* Every index that a package manager asks for, escaped names aside, goes    *)
(* to a rewriter of its ecosystem.                                           *)
LEMMA NpmIndex ==
  ASSUME NEW path \in Seq(Segment), \A i \in DOMAIN path : ~IsBlank(path[i]),
         Len(path) = IF path[1].parts[1] \in ScopeTokens THEN 2 ELSE 1
  PROVE  IsNpmPackumentPath(path)
<1>1. /\ path # <<>> /\ 1 \in DOMAIN path /\ Len(path) \in DOMAIN path
      /\ Len(path) = 2 => 2 \in DOMAIN path
  BY OneOrTwo, Zenon
<1>2. ~IsBlank(path[1]) /\ ~IsBlank(path[Len(path)])
  BY <1>1, Zenon
<1>3. Trimmed(path) = path
  BY <1>2, TrimmedIs, Zenon
<1>4. path[1].parts[1] \in ScopeTokens => Len(path) = 2 /\ ~IsBlank(path[2])
  BY <1>1, Zenon
<1> QED BY <1>1, <1>2, <1>3, <1>4, Zenon DEF IsNpmPackumentPath

LEMMA PypiIndex ==
  ASSUME NEW path \in Seq(Segment), Len(path) = 2 \/ Len(path) = 3, ~IsBlank(path[2]),
         \/ path[1] = Word("simple") /\ (Len(path) = 3 => IsBlank(path[3]))
         \/ path[1] = Word("pypi") /\ Len(path) = 3 /\ path[3] = Word("json")
  PROVE  IsPypiJsonApiPath(path) \/ ParsePypiSimplePkg(path)
<1>1. CASE path[1] = Word("simple") /\ Len(path) = 2
  <2>1. Trimmed(path) = path
    BY <1>1, TrimmedIs, Zenon
  <2> QED BY <1>1, <2>1, Zenon DEF ParsePypiSimplePkg
<1>2. CASE path[1] = Word("simple") /\ Len(path) = 3 /\ IsBlank(path[3])
  <2>1. Len(Trimmed(path)) = 2 /\ Trimmed(path)[1] = path[1] /\ Trimmed(path)[2] = path[2]
    BY <1>2, TrimmedSlash, Zenon
  <2> QED BY <1>2, <2>1, Zenon DEF ParsePypiSimplePkg
<1>3. CASE path[1] = Word("pypi") /\ Len(path) = 3 /\ path[3] = Word("json")
  <2>1. ~IsBlank(path[3])
    <3>1. "json" # ""
      OBVIOUS
    <3> QED BY <1>3, <3>1, WordNotBlank, Zenon
  <2>2. Trimmed(path) = path
    BY <1>3, <2>1, TrimmedIs, Zenon
  <2>3. Len(path) >= 2
    <3>1. \A x : x = 3 => x >= 2
      OBVIOUS
    <3> QED BY <1>3, <3>1, Zenon
  <2> QED BY <1>3, <2>2, <2>3, Zenon DEF IsPypiJsonApiPath
<1> QED BY <1>1, <1>2, <1>3, Zenon

LEMMA IndexFile ==
  ASSUME NEW s \in Segment, s.parts = <<"index">>, s.ext = "json"
  PROVE  s = Seg(<<"index">>, "json")
BY DEF Seg, Segment

LEMMA NugetIndex ==
  ASSUME NEW path \in Seq(Segment), FileOf(path).ext = "json",
         \/ /\ Len(path) = 3 /\ path[1] = Word("v3-flatcontainer") /\ ~IsBlank(path[2])
            /\ path[3].parts = <<"index">>
         \/ /\ Len(path) >= 4 /\ path[1] = Word("v3") /\ path[2].parts[1] \in RegistryBases
            /\ \/ FileOf(path).parts = <<"index">>
               \/ \E i \in 4 .. Len(path) - 1 : path[i] = Word("page")
  PROVE  IsNugetRegistrationPath(path) \/ ParseNugetFlatcontainerIndexPath(path)
<1>1. CASE /\ Len(path) = 3 /\ path[1] = Word("v3-flatcontainer") /\ ~IsBlank(path[2])
           /\ path[3].parts = <<"index">>
  <2>1. path[3] \in Segment /\ path[3].ext = "json"
    BY <1>1, ElementOfSeq DEF FileOf
  <2>2. path[3] = Seg(<<"index">>, "json")
    BY <1>1, <2>1, IndexFile
  <2> QED BY <1>1, <2>2, Zenon DEF ParseNugetFlatcontainerIndexPath
<1>2. CASE /\ Len(path) >= 4 /\ path[1] = Word("v3") /\ path[2].parts[1] \in RegistryBases
           /\ \/ FileOf(path).parts = <<"index">>
              \/ \E i \in 4 .. Len(path) - 1 : path[i] = Word("page")
  <2>1. FileOf(path) \in Segment
    BY <1>2, ElementOfSeq, LenProperties DEF FileOf
  <2>2. FileOf(path).parts = <<"index">> => FileOf(path) = Seg(<<"index">>, "json")
    BY <2>1, IndexFile
  <2> QED BY <1>2, <2>2, Zenon DEF IsNugetRegistrationPath, FileOf
<1> QED BY <1>1, <1>2, Zenon

(* The gallery's query, and where each index is rewritten.                   *)
LEMMA QueryPath ==
  ASSUME NEW path \in {<<Word("_apis"), Word("public"), Word("gallery"), Word("extensionquery")>>,
                       <<Word("vscode"), Word("gallery"), Word("extensionquery")>>}
  PROVE  IsExtensionqueryPath(path)
<1>1. "extensionquery" # ""
  OBVIOUS
<1>2. ~IsBlank(Word("extensionquery"))
  BY <1>1, WordNotBlank, Zenon
<1>3. path[Len(path)] = Word("extensionquery")
  <2>1. CASE path = <<Word("_apis"), Word("public"), Word("gallery"), Word("extensionquery")>>
    BY <2>1, Tuple4, Zenon
  <2>2. CASE path = <<Word("vscode"), Word("gallery"), Word("extensionquery")>>
    BY <2>2, Tuple3, Zenon
  <2> QED BY <2>1, <2>2, Zenon
<1>4. Trimmed(path) = path
  BY <1>2, <1>3, TrimmedIs, Zenon
<1> QED BY <1>4, Zenon DEF IsExtensionqueryPath

(* The rewriter of an index is one of its ecosystem.                         *)
LEMMA IndexGoesTo ==
  ASSUME NEW r, NEW hosts, WellFormed(r, hosts), r.doc.form = "index", ~r.escaped,
         NEW eco, eco = r.doc.id.eco, NEW to, to = RewriteTarget(hosts, r.host, r.path)
  PROVE  /\ eco = "crates" => to = "CratesSparse"
         /\ eco = "npm" => to = "NpmPackument"
         /\ eco = "pypi" => to \in {"PypiJsonApi", "PypiSimpleIndex"}
         /\ eco = "nuget" => to \in {"NugetRegistration", "NugetFlatContainerIndex"}
         /\ eco = "vscode" => to = "VscodeExtensionQuery"
         /\ eco \in {"crates", "npm", "pypi", "nuget", "vscode"}
<1>1. PICK path, list, host, id : path = r.path /\ list = ListOf(r.doc) /\ host = r.host /\ id = r.doc.id
  OBVIOUS
<1>2. path \in Seq(Segment) /\ Url(r.doc, host, path, r.escaped) /\ eco \in Ecosystems
  BY <1>1, Zenon DEF WellFormed
<1>3. \A l \in Lists : HostIn(hosts, l, host) <=> l = list
  BY <1>1, ListedAs
<1>4. IndexUrl(id, path, r.escaped) /\ id.eco = eco
  BY <1>1, <1>2, Zenon DEF Url
<1>5. /\ eco = "crates" => list = "crates_sparse"
      /\ eco = "pypi" => list = "pypi_index"
      /\ eco = "vscode" => list = "vscode_marketplace"
      /\ eco \in {"npm", "nuget", "git"} => list = eco
  BY <1>1, ListIs
<1>6. to = RewriteTarget(hosts, host, path)
  BY <1>1, Zenon
<1>7. CASE eco = "crates"
  BY <1>3, <1>5, <1>6, <1>7, RewrittenAs
<1>8. CASE eco = "npm"
  <2>1. /\ \A i \in DOMAIN path : ~IsBlank(path[i])
        /\ Len(path) = IF path[1].parts[1] \in ScopeTokens THEN 2 ELSE 1
    <3>1. eco # "crates" /\ eco # "pypi" /\ eco # "nuget" /\ eco # "vscode"
      BY <1>8
    <3> QED BY <1>4, <1>8, <3>1, Zenon DEF IndexUrl
  <2>2. IsNpmPackumentPath(path)
    BY <1>2, <2>1, NpmIndex, Zenon
  <2>3. list = "npm"
    BY <1>5, <1>8
  <2>4. to = "NpmPackument"
    BY <1>3, <1>6, <2>2, <2>3, RewrittenAs, Zenon
  <2> QED BY <1>8, <2>4
<1>9. CASE eco = "pypi"
  <2>1. /\ Len(path) = 2 \/ Len(path) = 3
        /\ ~IsBlank(path[2])
        /\ \/ path[1] = Word("simple") /\ (Len(path) = 3 => IsBlank(path[3]))
           \/ path[1] = Word("pypi") /\ Len(path) = 3 /\ path[3] = Word("json")
    <3>1. eco # "crates" /\ eco # "npm" /\ eco # "nuget" /\ eco # "vscode"
      BY <1>9
    <3>2. \A x : x \in {2, 3} => x = 2 \/ x = 3
      OBVIOUS
    <3> QED BY <1>4, <1>9, <3>1, <3>2, Zenon DEF IndexUrl
  <2>2. IsPypiJsonApiPath(path) \/ ParsePypiSimplePkg(path)
    BY <1>2, <2>1, PypiIndex, Zenon
  <2>3. list = "pypi_index"
    BY <1>5, <1>9
  <2>4. to = "PypiJsonApi" \/ to = "PypiSimpleIndex"
    BY <1>3, <1>6, <2>2, <2>3, RewrittenAs, Zenon
  <2> QED BY <1>9, <2>4
<1>10. CASE eco = "nuget"
  <2>1. /\ FileOf(path).ext = "json"
        /\ \/ /\ Len(path) = 3 /\ path[1] = Word("v3-flatcontainer") /\ ~IsBlank(path[2])
              /\ path[3].parts = <<"index">>
           \/ /\ Len(path) >= 4 /\ path[1] = Word("v3") /\ path[2].parts[1] \in RegistryBases
              /\ \/ FileOf(path).parts = <<"index">>
                 \/ \E i \in 4 .. Len(path) - 1 : path[i] = Word("page")
    <3>1. eco # "crates" /\ eco # "npm" /\ eco # "pypi" /\ eco # "vscode"
      BY <1>10
    <3> QED BY <1>4, <1>10, <3>1, Zenon DEF IndexUrl
  <2>2. IsNugetRegistrationPath(path) \/ ParseNugetFlatcontainerIndexPath(path)
    BY <1>2, <2>1, NugetIndex, Zenon
  <2>3. list = "nuget"
    BY <1>5, <1>10
  <2>4. to = "NugetRegistration" \/ to = "NugetFlatContainerIndex"
    BY <1>3, <1>6, <2>2, <2>3, RewrittenAs, Zenon
  <2> QED BY <1>10, <2>4
<1>11. CASE eco = "vscode"
  <2>1. IsExtensionqueryPath(path)
    <3>1. eco # "crates" /\ eco # "npm" /\ eco # "pypi" /\ eco # "nuget"
      BY <1>11
    <3> QED BY <1>4, <1>11, <3>1, QueryPath, Zenon DEF IndexUrl
  <2>2. list = "vscode_marketplace"
    BY <1>5, <1>11
  <2>3. to = "VscodeExtensionQuery"
    BY <1>3, <1>6, <2>1, <2>2, RewrittenAs, Zenon
  <2> QED BY <1>11, <2>3
<1>12. eco # "git"
  <2>1. eco = "git" => eco # "crates" /\ eco # "npm" /\ eco # "pypi" /\ eco # "nuget" /\ eco # "vscode"
    OBVIOUS
  <2> QED BY <1>4, <2>1, Zenon DEF IndexUrl
<1> QED BY <1>2, <1>7, <1>8, <1>9, <1>10, <1>11, <1>12 DEF Ecosystems

(* What is not an index has no rewriter.                                     *)
LEMMA NoPackument ==
  ASSUME NEW path, ~IsBlank(path[Len(path)]),
         \/ Len(path) = 3 \/ Len(path) = 4
         \/ Len(path) = 2 /\ path[1].parts[1] \notin ScopeTokens
  PROVE  ~IsNpmPackumentPath(path)
<1>1. Trimmed(path) = path
  BY TrimmedIs, Zenon
<1>2. \A x : x = 3 \/ x = 4 => x # 1 /\ x # 2
  OBVIOUS
<1>3. \A x : x = 2 => x # 1
  OBVIOUS
<1> QED BY <1>1, <1>2, <1>3, Zenon DEF IsNpmPackumentPath

LEMMA NoQuery ==
  ASSUME NEW path, ~IsBlank(path[Len(path)]), Len(path) = 9 \/ Len(path) = 6
  PROVE  ~IsExtensionqueryPath(path)
<1>1. Trimmed(path) = path
  BY TrimmedIs, Zenon
<1>2. Len(path) # 4 /\ Len(path) # 3
  BY Lengths, Zenon
<1>3. CASE path = <<Word("_apis"), Word("public"), Word("gallery"), Word("extensionquery")>>
  <2>1. Len(path) = 4
    BY <1>3, Tuple4, Zenon
  <2> QED BY <1>2, <2>1, Zenon
<1>4. CASE path = <<Word("vscode"), Word("gallery"), Word("extensionquery")>>
  <2>1. Len(path) = 3
    BY <1>4, Tuple3, Zenon
  <2> QED BY <1>2, <2>1, Zenon
<1>5. IsExtensionqueryPath(path) =>
        \/ path = <<Word("_apis"), Word("public"), Word("gallery"), Word("extensionquery")>>
        \/ path = <<Word("vscode"), Word("gallery"), Word("extensionquery")>>
  BY <1>1, Zenon DEF IsExtensionqueryPath
<1> QED BY <1>3, <1>4, <1>5, Zenon

LEMMA NoNugetIndex ==
  ASSUME NEW path, Len(path) = 4, path[1] = Word("v3-flatcontainer")
  PROVE  ~IsNugetRegistrationPath(path) /\ ~ParseNugetFlatcontainerIndexPath(path)
<1>1. "v3" # "v3-flatcontainer"
  OBVIOUS
<1>2. Word("v3") # Word("v3-flatcontainer")
  BY <1>1, WordsDiffer, Zenon
<1>3. Len(path) # 3
  BY Lengths, Zenon
<1> QED BY <1>2, <1>3, Zenon DEF IsNugetRegistrationPath, ParseNugetFlatcontainerIndexPath

(* No artifact is rewritten like an index.                                   *)
LEMMA NothingElseGoes ==
  ASSUME NEW r, NEW hosts, WellFormed(r, hosts), r.doc.form # "index"
  PROVE  RewriteTarget(hosts, r.host, r.path) = Nothing
<1>1. PICK path, list, host, id, form :
        path = r.path /\ list = ListOf(r.doc) /\ host = r.host /\ id = r.doc.id /\ form = r.doc.form
  OBVIOUS
<1>2. path \in Seq(Segment) /\ Url(r.doc, host, path, r.escaped) /\ form \in Forms
  BY <1>1, Zenon DEF WellFormed
<1>3. \A l \in Lists : HostIn(hosts, l, host) <=> l = list
  BY <1>1, ListedAs
<1>4. /\ form = "crate" => list = "crates"
      /\ form = "tgz" => list = "npm"
      /\ form \in {"sdist", "zip", "wheel"} => list = "pypi_files"
      /\ form = "nupkg" => list = "nuget"
      /\ form = "vsix" => list = "vscode_marketplace"
      /\ form = "git" /\ id.eco # "npm" => list = "none"
      /\ form = "other" => list = IF id.eco = "npm" THEN "npm" ELSE "none"
  BY <1>1, ListIs
<1>5. PICK e, s, n, v :
        /\ e \in Ecosystems /\ n \in NonBlank
        /\ id = Id(e, Name(s, n), v)
        /\ r.doc.form \notin {"index", "other"} => v \in NonBlank
  BY <1>1, OfUrl
<1>6. id.eco = e /\ id.name.scope = s /\ id.name.parts = n /\ id.version = v
  BY <1>5, IdParts
<1>7. list \in {"crates", "pypi_files", "none"} => RewriteTarget(hosts, host, path) = Nothing
  <2>1. "none" \notin Lists
    BY DEF Lists
  <2> QED BY <1>3, <2>1, RewrittenAs, Zenon
<1>8. CASE form = "tgz"
  <2>1. TarballUrl(id, path)
    BY <1>1, <1>2, <1>8, Zenon DEF Url
  <2>2. PICK np, vp : np = Seg(n, "") /\ vp = Seg(n \o v, "tgz")
    BY Zenon
  <2>3. \/ path = <<np, Word("-"), vp>>
        \/ path = <<Word(s), np, Word("-"), vp>>
    BY <1>6, <2>1, <2>2, Zenon DEF TarballUrl
  <2>4. (Len(path) = 3 \/ Len(path) = 4) /\ path[Len(path)] = vp
    <3>1. CASE path = <<np, Word("-"), vp>>
      BY <3>1, Tuple3, Zenon
    <3>2. CASE path = <<Word(s), np, Word("-"), vp>>
      BY <3>2, Tuple4, Zenon
    <3> QED BY <2>3, <3>1, <3>2, Zenon
  <2>5. ~IsBlank(vp)
    <3>1. vp.ext = "tgz"
      BY <2>2, SegTgz, Zenon
    <3>2. "tgz" # ""
      OBVIOUS
    <3> QED BY <3>1, <3>2, NamedNotBlank, Zenon
  <2>6. ~IsNpmPackumentPath(path)
    BY <2>4, <2>5, NoPackument, Zenon
  <2>7. list = "npm"
    BY <1>4, <1>8
  <2> QED BY <1>1, <1>3, <2>6, <2>7, RewrittenAs, Zenon
<1>9. CASE form = "nupkg"
  <2>1. Len(path) = 4 /\ path[1] = Word("v3-flatcontainer")
    BY <1>1, <1>2, <1>9, Zenon DEF Url, NupkgUrl
  <2>2. ~IsNugetRegistrationPath(path) /\ ~ParseNugetFlatcontainerIndexPath(path)
    BY <2>1, NoNugetIndex, Zenon
  <2>3. list = "nuget"
    BY <1>4, <1>9
  <2> QED BY <1>1, <1>3, <2>2, <2>3, RewrittenAs, Zenon
<1>10. CASE form = "vsix"
  <2>1. VsixUrl(id, path)
    BY <1>1, <1>2, <1>10, Zenon DEF Url
  <2>2. PICK np, vp : np = Seg(n, "") /\ vp = Seg(v, "")
    BY Zenon
  <2>3. \/ path = <<Word("_apis"), Word("public"), Word("gallery"), Word("publishers"),
                    Word(s), Word("vsextensions"), np, vp, Word("vspackage")>>
        \/ Len(path) = 6 /\ path[6].ext = "vsix"
    BY <1>6, <2>1, <2>2, Zenon DEF VsixUrl
  <2>4. (Len(path) = 9 \/ Len(path) = 6) /\ ~IsBlank(path[Len(path)])
    <3>1. CASE path = <<Word("_apis"), Word("public"), Word("gallery"), Word("publishers"),
                        Word(s), Word("vsextensions"), np, vp, Word("vspackage")>>
      <4>1. Len(path) = 9 /\ path[Len(path)] = Word("vspackage")
        BY <3>1, Tuple9, Zenon
      <4>2. "vspackage" # ""
        OBVIOUS
      <4> QED BY <4>1, <4>2, WordNotBlank, Zenon
    <3>2. CASE Len(path) = 6 /\ path[6].ext = "vsix"
      <4>1. PICK f : f = path[6]
        OBVIOUS
      <4>2. f.ext = "vsix" /\ f = path[Len(path)]
        BY <3>2, <4>1, Zenon
      <4>3. "vsix" # ""
        OBVIOUS
      <4> QED BY <3>2, <4>2, <4>3, NamedNotBlank, Zenon
    <3> QED BY <2>3, <3>1, <3>2, Zenon
  <2>5. ~IsExtensionqueryPath(path)
    BY <2>4, NoQuery, Zenon
  <2>6. list = "vscode_marketplace"
    BY <1>4, <1>10
  <2> QED BY <1>1, <1>3, <2>5, <2>6, RewrittenAs, Zenon
<1>11. CASE form = "git"
  <2>1. id.eco = "git"
    BY <1>1, <1>2, <1>11, Zenon DEF Url, GitUrl
  <2>2. list = "none"
    BY <1>4, <1>11, <2>1
  <2> QED BY <1>1, <1>7, <2>2
<1>12. CASE form = "other"
  <2>1. CASE id.eco = "npm"
    <3>1. Len(path) = 2 /\ path[1].parts[1] \notin ScopeTokens /\ ~IsBlank(path[2])
      BY <1>1, <1>2, <1>12, <2>1, Zenon DEF Url, OtherUrl
    <3>2. ~IsBlank(path[Len(path)])
      BY <3>1, Zenon
    <3>3. ~IsNpmPackumentPath(path)
      BY <3>1, <3>2, NoPackument, Zenon
    <3>4. list = "npm"
      BY <1>4, <1>12, <2>1
    <3> QED BY <1>1, <1>3, <3>3, <3>4, RewrittenAs, Zenon
  <2>2. CASE id.eco # "npm"
    BY <1>1, <1>4, <1>7, <1>12, <2>2
  <2> QED BY <2>1, <2>2
<1>13. CASE form \in {"crate", "sdist", "zip", "wheel"}
  <2>1. list \in {"crates", "pypi_files"}
    BY <1>4, <1>13
  <2> QED BY <1>1, <1>7, <2>1
<1> QED BY <1>1, <1>2, <1>8, <1>9, <1>10, <1>11, <1>12, <1>13 DEF Forms

(* A source distribution is recognised by its name.                          *)
LEMMA SdistsAreKnown ==
  ASSUME NEW r, NEW hosts, WellFormed(r, hosts), r.doc.form = "sdist", ~r.query
  PROVE  PathIsPypiSdist(r.path, r.query)
<1>1. PypiUrl(r.doc.id, r.path, {"tar.gz"})
  BY Zenon DEF WellFormed, Url
<1> QED BY <1>1 DEF PypiUrl, PathIsPypiSdist, FileOf

-----------------------------------------------------------------------------
(* What handle_request learns from a request, and what it records.           *)

(* What the code finds out of a request, by the form of what is asked for.   *)
LEMMA Learnt ==
  ASSUME config \in Configs, NEW r \in Requests
  PROVE  /\ WellFormed(r, Hosts)
         /\ r.doc.form \in PinnedForms => /\ ParseForHost(Hosts, r.host, r.path) = r.doc.id
                                          /\ ShouldIntercept(Hosts, r.host)
                                          /\ r.doc.id.eco \in {"crates", "npm", "pypi", "nuget"}
         /\ r.doc.form \notin PinnedForms => ParseForHost(Hosts, r.host, r.path) = Nothing
         /\ r.doc.form = "vsix" => /\ VsixOf(r) = r.doc.id
                                   /\ ShouldIntercept(Hosts, r.host)
                                   /\ r.doc.id.eco = "vscode"
         /\ r.doc.form # "vsix" => VsixOf(r) = Nothing
         /\ r.doc.form = "git" => /\ ClassifyGit(r.host, r.path) # Nothing
                                  /\ ClassifyGit(r.host, r.path).id = r.doc.id
                                  /\ ~ShouldIntercept(Hosts, r.host)
                                  /\ r.doc.id.eco = "git"
         /\ r.doc.form # "git" => ClassifyGit(r.host, r.path) = Nothing
<1>1. WellFormed(r, Hosts)
  BY RequestsAssumption DEF Hosts
<1>2. r.doc.form \in PinnedForms => /\ ParseForHost(Hosts, r.host, r.path) = r.doc.id
                                    /\ ShouldIntercept(Hosts, r.host)
                                    /\ r.doc.id.eco \in {"crates", "npm", "pypi", "nuget"}
  BY <1>1, PinnedAreParsed
<1>3. r.doc.form \notin PinnedForms => ParseForHost(Hosts, r.host, r.path) = Nothing
  BY <1>1, UnpinnedAreNot
<1>4. r.doc.form = "vsix" => /\ VsixOf(r) = r.doc.id
                             /\ ShouldIntercept(Hosts, r.host)
                             /\ r.doc.id.eco = "vscode"
  BY <1>1, VsixAreParsed DEF VsixOf
<1>5. r.doc.form # "vsix" => VsixOf(r) = Nothing
  BY <1>1, OthersAreNoVsix DEF VsixOf
<1>6. r.doc.form = "git" => ClassifyGit(r.host, r.path) # Nothing /\ ClassifyGit(r.host, r.path).id = r.doc.id
  BY <1>1, GitIsClassified
<1>7. r.doc.form = "git" => ~ShouldIntercept(Hosts, r.host) /\ r.doc.id.eco = "git"
  <2> SUFFICES ASSUME r.doc.form = "git" PROVE ~ShouldIntercept(Hosts, r.host) /\ r.doc.id.eco = "git"
    OBVIOUS
  <2>1. r.doc.id.eco = "git"
    BY <1>1, Zenon DEF WellFormed, Url, GitUrl
  <2>2. ListOf(r.doc) = "none" /\ "none" \notin Lists
    BY <2>1, ListIs DEF Lists
  <2>3. ~ShouldIntercept(Hosts, r.host)
    BY <1>1, <2>2, Nowhere
  <2> QED BY <2>1, <2>3
<1>8. r.doc.form # "git" => ClassifyGit(r.host, r.path) = Nothing
  BY <1>1, GitOnlyOfForges
<1> QED BY <1>1, <1>2, <1>3, <1>4, <1>5, <1>6, <1>7, <1>8, Zenon

(* The parts of a request that later steps use.                              *)
LEMMA IdIs ==
  ASSUME config \in Configs, NEW r \in Requests
  PROVE  /\ r.doc.id \in Identity /\ r.doc.id # Nothing
         /\ r.host # Nothing /\ r.path # Nothing /\ r.host \in Host
         /\ r.doc.form \in Forms
<1>1. WellFormed(r, Hosts)
  BY RequestsAssumption DEF Hosts
<1>2. r.doc.id = Id(r.doc.id.eco, Name(r.doc.id.name.scope, r.doc.id.name.parts), r.doc.id.version)
      /\ r.doc.id.eco \in Ecosystems
  BY <1>1, Zenon DEF WellFormed
<1>3. r.doc.id \in Identity
  <2>1. PICK e, n, v : e = r.doc.id.eco /\ v = r.doc.id.version
                       /\ n = Name(r.doc.id.name.scope, r.doc.id.name.parts)
    OBVIOUS
  <2>2. r.doc.id = [eco |-> e, name |-> n, version |-> v]
    BY <1>2, <2>1, Zenon DEF Id
  <2>3. r.doc.id.name = n
    BY <2>2
  <2> QED BY <1>2, <2>1, <2>2, <2>3 DEF Identity
<1>4. r.doc.id # Nothing /\ r.host # Nothing /\ r.path # Nothing
  <2>1. Nothing \notin {r.host, r.path, r.doc.id}
    BY <1>1, Zenon DEF WellFormed
  <2> QED BY <2>1
<1>5. r.host \in Host /\ r.doc.form \in Forms
  BY <1>1, Zenon DEF WellFormed
<1> QED BY <1>3, <1>4, <1>5

(* The rewriter chosen when host and path are those of a request.            *)
LEMMA Aimed ==
  ASSUME config \in Configs, NEW r \in Requests
  PROVE  /\ r.doc.form # "index" => RewriteTarget(Hosts, r.host, r.path) = Nothing
         /\ r.doc.form = "index" /\ ~r.escaped =>
              /\ RewriteTarget(Hosts, r.host, r.path) \in FilteredAs(r)
              /\ ShouldIntercept(Hosts, r.host)
<1>1. WellFormed(r, Hosts)
  BY RequestsAssumption DEF Hosts
<1>2. r.doc.form # "index" => RewriteTarget(Hosts, r.host, r.path) = Nothing
  BY <1>1, NothingElseGoes
<1>3. ASSUME r.doc.form = "index", ~r.escaped
      PROVE  RewriteTarget(Hosts, r.host, r.path) \in FilteredAs(r) /\ ShouldIntercept(Hosts, r.host)
  <2>1. PICK eco, to : eco = r.doc.id.eco /\ to = RewriteTarget(Hosts, r.host, r.path)
    OBVIOUS
  <2>2. /\ eco = "crates" => to = "CratesSparse"
        /\ eco = "npm" => to = "NpmPackument"
        /\ eco = "pypi" => to \in {"PypiJsonApi", "PypiSimpleIndex"}
        /\ eco = "nuget" => to \in {"NugetRegistration", "NugetFlatContainerIndex"}
        /\ eco = "vscode" => to = "VscodeExtensionQuery"
        /\ eco \in {"crates", "npm", "pypi", "nuget", "vscode"}
    BY <1>1, <1>3, <2>1, IndexGoesTo
  <2>3. to \in FilteredAs(r)
    BY <2>1, <2>2 DEF FilteredAs
  <2>4. ListOf(r.doc) \in Lists
    BY <1>3, <2>1, <2>2, ListIs DEF Lists
  <2>5. ShouldIntercept(Hosts, r.host)
    BY <1>1, <2>4, ListedAs
  <2> QED BY <2>1, <2>3, <2>5
<1> QED BY <1>2, <1>3

(* Records.                                                                  *)
LEMMA Prepended ==
  ASSUME NEW S, NEW s \in Seq(S)
  PROVE  <<>> \o s = s
BY ConcatEmptySeq

(* A record of an ecosystem that the hub knows.                              *)
Hubbed(ev) == ev.id.eco \in {"crates", "npm", "pypi", "nuget"}

(* The hub gets a record under the name it has for the ecosystem.            *)
LEMMA WireOne ==
  ASSUME NEW ev, Hubbed(ev)
  PROVE  \E eco : WireEvents(<<ev>>) = <<[ev EXCEPT !.id.eco = eco]>>
<1>1. MapEcosystem(ev.id.eco) # Nothing
  <2>1. Nothing \notin {"cargo", "npm", "pypi", "nuget"}
    BY RequestsAssumption DEF Ecosystems
  <2>2. MapEcosystem(ev.id.eco) \in {"cargo", "npm", "pypi", "nuget"}
    BY DEF MapEcosystem, Hubbed
  <2> QED BY <2>1, <2>2
<1>2. PICK evs : evs = <<ev>>
  OBVIOUS
<1>3. evs \in Seq({ev}) /\ DOMAIN evs = {1} /\ evs[1] = ev
  BY <1>2
<1>4. {i \in DOMAIN evs : MapEcosystem(evs[i].id.eco) # Nothing} = DOMAIN evs
  BY <1>1, <1>3
<1>5. AtPositions(evs, {i \in DOMAIN evs : MapEcosystem(evs[i].id.eco) # Nothing}) = evs
  BY <1>3, <1>4, AllPositions
<1>6. WireEvents(evs) = [i \in DOMAIN evs |-> [evs[i] EXCEPT !.id.eco = MapEcosystem(@)]]
  BY <1>5, Zenon DEF WireEvents
<1>7. PICK eco : eco = MapEcosystem(ev.id.eco)
  OBVIOUS
<1>8. WireEvents(evs) = [i \in {1} |-> [ev EXCEPT !.id.eco = eco]]
  BY <1>3, <1>6, <1>7
<1>9. <<[ev EXCEPT !.id.eco = eco]>> = [i \in {1} |-> [ev EXCEPT !.id.eco = eco]]
  OBVIOUS
<1> QED BY <1>2, <1>8, <1>9

(* One record of a request's own, or none.                                   *)
LEMMA OneOwn ==
  ASSUME NEW r, NEW f, NEW m, m = ExecutionMode(r.ua), f.mode = m, f.id.name = r.doc.id.name,
         f.id.version = r.doc.id.version
  PROVE  Cardinality(OwnRecords(<<f>>, r)) = 1
<1>1. OwnRecords(<<f>>, r) = {1}
  BY DEF OwnRecords
<1> QED BY <1>1, FS_Singleton

LEMMA NoneOwn ==
  ASSUME NEW r
  PROVE  Cardinality(OwnRecords(<<>>, r)) = 0
<1>1. OwnRecords(<<>>, r) = {}
  BY DEF OwnRecords
<1> QED BY <1>1, FS_EmptySet

(* A sequence of at most n elements.                                         *)
Listed(s, n) == \E S : s \in Seq(S) /\ Len(s) <= n

(* Lengths of what is sent.                                                  *)
LEMMA ListedOne ==
  ASSUME NEW f
  PROVE  Listed(<<f>>, 1) /\ Listed(<<>>, 1)
<1>1. <<f>> \in Seq({f}) /\ Len(<<f>>) <= 1 /\ <<>> \in Seq({f}) /\ Len(<<>>) <= 1
  OBVIOUS
<1> QED BY <1>1, Zenon DEF Listed

LEMMA ListedConcat ==
  ASSUME NEW s, NEW t, NEW m \in Nat, NEW n \in Nat, Listed(s, m), Listed(t, n)
  PROVE  Listed(s \o t, m + n)
<1>1. PICK S : s \in Seq(S) /\ Len(s) <= m
  BY Zenon DEF Listed
<1>2. PICK T : t \in Seq(T) /\ Len(t) <= n
  BY Zenon DEF Listed
<1>3. s \in Seq(S \cup T) /\ t \in Seq(S \cup T)
  BY <1>1, <1>2
<1>4. s \o t \in Seq(S \cup T) /\ Len(s \o t) = Len(s) + Len(t) /\ Len(s) \in Nat /\ Len(t) \in Nat
  BY <1>3, ConcatProperties, LenProperties
<1>5. Len(s \o t) <= m + n
  BY <1>1, <1>2, <1>4
<1> QED BY <1>4, <1>5, Zenon DEF Listed

LEMMA ListedMore ==
  ASSUME NEW s, NEW m \in Nat, NEW n \in Nat, m <= n, Listed(s, m)
  PROVE  Listed(s, n) /\ Len(s) <= n
<1>1. PICK S : s \in Seq(S) /\ Len(s) <= m
  BY Zenon DEF Listed
<1>2. Len(s) \in Nat /\ Len(s) <= n
  BY <1>1
<1> QED BY <1>1, <1>2, Zenon DEF Listed

(* What one record becomes in each sink.                                     *)
LEMMA EmitOne ==
  ASSUME NEW ev, NEW to, NEW s \in Sinks, s = "hub" /\ s \in to => Hubbed(ev)
  PROVE  /\ s \in to /\ s = "log" => Emit(Silent, <<ev>>, to)[s] =
              IF config.logging /\ ~config.unwritable THEN <<ev>> ELSE <<>>
         /\ s \in to /\ s = "otlp" => Emit(Silent, <<ev>>, to)[s] = IF config.otlp THEN <<ev>> ELSE <<>>
         /\ s \in to /\ s = "hub" => \E eco : Emit(Silent, <<ev>>, to)[s] =
              IF HubExports THEN <<[ev EXCEPT !.id.eco = eco]>> ELSE <<>>
         /\ s \notin to => Emit(Silent, <<ev>>, to)[s] = <<>>
<1>1. Silent[s] = <<>>
  BY DEF Silent
<1>2. <<ev>> \in Seq({ev}) /\ <<>> \o <<ev>> = <<ev>>
  OBVIOUS
<1>3. s \notin to => Emit(Silent, <<ev>>, to)[s] = <<>>
  BY <1>1, Zenon DEF Emit
<1>4. s \in to /\ s = "log" => Emit(Silent, <<ev>>, to)[s] = IF config.logging /\ ~config.unwritable THEN <<ev>> ELSE <<>>
  <2>1. s \in to /\ s = "log" => Emit(Silent, <<ev>>, to)[s] = Record(Silent[s], <<ev>>)
    BY DEF Emit
  <2> QED BY <1>1, <1>2, <2>1, Zenon DEF Record
<1>5. s \in to /\ s = "otlp" => Emit(Silent, <<ev>>, to)[s] = IF config.otlp THEN <<ev>> ELSE <<>>
  <2>1. s \in to /\ s = "otlp" => Emit(Silent, <<ev>>, to)[s] = ExportTo(Silent[s], <<ev>>)
    BY DEF Emit
  <2> QED BY <1>1, <1>2, <2>1, Zenon DEF ExportTo
<1>6. s \in to /\ s = "hub" => Emit(Silent, <<ev>>, to)[s] = Ingest(Silent[s], <<ev>>)
  BY DEF Emit
<1>7. ASSUME Hubbed(ev)
      PROVE  \E eco : Ingest(Silent[s], <<ev>>) = IF HubExports THEN <<[ev EXCEPT !.id.eco = eco]>> ELSE <<>>
  <2>2. PICK eco : WireEvents(<<ev>>) = <<[ev EXCEPT !.id.eco = eco]>>
    BY <1>7, WireOne, Zenon
  <2>3. PICK f : f = [ev EXCEPT !.id.eco = eco]
    OBVIOUS
  <2>4. <<>> \o <<f>> = <<f>>
    OBVIOUS
  <2>5. Ingest(Silent[s], <<ev>>) = IF HubExports THEN <<f>> ELSE <<>>
    BY <1>1, <2>2, <2>3, <2>4, Zenon DEF Ingest
  <2> QED BY <2>3, <2>5, Zenon
<1>8. s \in to /\ s = "hub" => \E eco : Emit(Silent, <<ev>>, to)[s] = IF HubExports THEN <<[ev EXCEPT !.id.eco = eco]>> ELSE <<>>
  BY <1>6, <1>7, Zenon
<1> QED BY <1>3, <1>4, <1>5, <1>8

(* The records that a request is to leave when it is let through.            *)
SentOnce(S, r) ==
  \A s \in Sinks :
    /\ Listed(S[s], 1)
    /\ Cardinality(OwnRecords(S[s], r)) = IF Artifact(r) /\ s \in SinksFor(r) THEN 1 ELSE 0

(* One record in each sink that is on, none elsewhere.                       *)
LEMMA OneOrNone ==
  ASSUME NEW r, NEW f, NEW m, m = ExecutionMode(r.ua), f.mode = m, f.id.name = r.doc.id.name,
         f.id.version = r.doc.id.version, NEW x, NEW b \in BOOLEAN, x = IF b THEN <<f>> ELSE <<>>
  PROVE  Listed(x, 1) /\ Cardinality(OwnRecords(x, r)) = IF b THEN 1 ELSE 0
<1>1. CASE b
  <2>1. x = <<f>>
    BY <1>1
  <2>2. Cardinality(OwnRecords(<<f>>, r)) = 1
    BY OneOwn
  <2> QED BY <1>1, <2>1, <2>2, ListedOne
<1>2. CASE ~b
  <2>1. x = <<>>
    BY <1>2
  <2> QED BY <1>2, <2>1, NoneOwn, ListedOne
<1> QED BY <1>1, <1>2

LEMMA SinksAre ==
  ASSUME NEW r
  PROVE  /\ "log" \in SinksFor(r) <=> config.logging /\ ~config.unwritable
         /\ "otlp" \in SinksFor(r) <=> config.otlp
         /\ "hub" \in SinksFor(r) <=> HubExports /\ r.doc.form \notin {"git", "vsix"}
BY DEF SinksFor

(* ev records what r asks for, under its own name.                           *)
IsRecordOf(ev, r) ==
  \E e, n, v, x :
    /\ ev = [id |-> [eco |-> e, name |-> n, version |-> v], mode |-> ExecutionMode(r.ua), commit |-> x]
    /\ r.doc.id.name = n /\ r.doc.id.version = v

LEMMA RecordFields ==
  ASSUME NEW r, NEW ev, IsRecordOf(ev, r), NEW m, m = ExecutionMode(r.ua)
  PROVE  /\ ev.mode = m /\ ev.id.name = r.doc.id.name /\ ev.id.version = r.doc.id.version
         /\ \A eco, f : f = [ev EXCEPT !.id.eco = eco] =>
              f.mode = m /\ f.id.name = r.doc.id.name /\ f.id.version = r.doc.id.version
BY DEF IsRecordOf

LEMMA EmitHub ==
  ASSUME NEW ev, NEW to, "hub" \in to, Hubbed(ev)
  PROVE  \E eco : Emit(Silent, <<ev>>, to)["hub"] = IF HubExports THEN <<[ev EXCEPT !.id.eco = eco]>> ELSE <<>>
BY EmitOne DEF Sinks

(* Emit leaves one record in each sink that is to have one.                  *)
LEMMA EmittedOnce ==
  ASSUME config \in Configs, NEW r, Artifact(r), NEW ev, IsRecordOf(ev, r), NEW to, "log" \in to, "otlp" \in to,
         "hub" \in to => Hubbed(ev), "hub" \in to <=> r.doc.form \notin {"git", "vsix"}
  PROVE  SentOnce(Emit(Silent, <<ev>>, to), r)
<1>0. PICK m : m = ExecutionMode(r.ua)
  OBVIOUS
<1>1. /\ ev.mode = m /\ ev.id.name = r.doc.id.name /\ ev.id.version = r.doc.id.version
      /\ \A eco, f : f = [ev EXCEPT !.id.eco = eco] =>
           f.mode = m /\ f.id.name = r.doc.id.name /\ f.id.version = r.doc.id.version
  BY <1>0, RecordFields
<1> DEFINE S == Emit(Silent, <<ev>>, to)
<1>2. /\ (config.logging /\ ~config.unwritable) \in BOOLEAN /\ config.otlp \in BOOLEAN
      /\ HubExports \in BOOLEAN
  BY ConfigsAssumption DEF HubExports, ValidEndpoint
<1>3. \A s \in Sinks : s = "hub" /\ s \in to => Hubbed(ev)
  OBVIOUS
<1> HIDE DEF S
<1>4. Listed(S["log"], 1) /\ Cardinality(OwnRecords(S["log"], r)) = IF Artifact(r) /\ "log" \in SinksFor(r) THEN 1 ELSE 0
  <2>1. S["log"] = IF config.logging /\ ~config.unwritable THEN <<ev>> ELSE <<>>
    BY <1>3, EmitOne DEF S, Sinks
  <2> QED BY <1>0, <1>1, <1>2, <2>1, OneOrNone, SinksAre
<1>5. Listed(S["otlp"], 1) /\ Cardinality(OwnRecords(S["otlp"], r)) = IF Artifact(r) /\ "otlp" \in SinksFor(r) THEN 1 ELSE 0
  <2>1. S["otlp"] = IF config.otlp THEN <<ev>> ELSE <<>>
    BY <1>3, EmitOne DEF S, Sinks
  <2> QED BY <1>0, <1>1, <1>2, <2>1, OneOrNone, SinksAre
<1>6. Listed(S["hub"], 1) /\ Cardinality(OwnRecords(S["hub"], r)) = IF Artifact(r) /\ "hub" \in SinksFor(r) THEN 1 ELSE 0
  <2>1. CASE "hub" \in to
    <3>0. Hubbed(ev)
      BY <2>1, Zenon
    <3>5. \E eco : Emit(Silent, <<ev>>, to)["hub"] = IF HubExports THEN <<[ev EXCEPT !.id.eco = eco]>> ELSE <<>>
      BY <2>1, <3>0, EmitHub, Zenon
    <3>1. PICK eco : S["hub"] = IF HubExports THEN <<[ev EXCEPT !.id.eco = eco]>> ELSE <<>>
      BY <3>5, Zenon DEF S
    <3>2. PICK f : f = [ev EXCEPT !.id.eco = eco]
      OBVIOUS
    <3>3. f.mode = m /\ f.id.name = r.doc.id.name /\ f.id.version = r.doc.id.version
      BY <1>1, <3>2
    <3>4. S["hub"] = IF HubExports THEN <<f>> ELSE <<>>
      BY <3>1, <3>2
    <3> QED BY <1>0, <1>2, <2>1, <3>3, <3>4, OneOrNone, SinksAre
  <2>2. CASE "hub" \notin to
    <3>1. S["hub"] = <<>>
      BY <1>3, <2>2, EmitOne DEF S, Sinks
    <3> QED BY <2>2, <3>1, NoneOwn, ListedOne, SinksAre
  <2> QED BY <2>1, <2>2
<1>7. Sinks = {"log", "otlp", "hub"}
  BY DEF Sinks
<1>8. SentOnce(S, r)
  BY <1>4, <1>5, <1>6, <1>7, Zenon DEF SentOnce
<1> QED BY <1>8 DEF S

(* Nothing is sent of what is no artifact, or when every sink is off.        *)
LEMMA SilentOnce ==
  ASSUME NEW r, ~Artifact(r) \/ SinksFor(r) = {}
  PROVE  SentOnce(Silent, r)
<1>1. \A s \in Sinks : Silent[s] = <<>>
  BY DEF Silent
<1> QED BY <1>1, NoneOwn, ListedOne DEF SentOnce

(* The records made of an identity are records of it.                        *)
LEMMA EventsAre ==
  ASSUME config \in Configs, NEW r \in Requests, NEW x
  PROVE  IsRecordOf(Event(r.doc.id, ExecutionMode(r.ua), x), r)
<1>1. r.doc.id \in Identity
  BY IdIs
<1>2. PICK e, n, v : r.doc.id = [eco |-> e, name |-> n, version |-> v]
  BY <1>1 DEF Identity
<1>3. r.doc.id.name = n /\ r.doc.id.version = v
  BY <1>2
<1> QED BY <1>2, <1>3, Zenon DEF IsRecordOf, Event

(* Everything but a git fetch leaves the first recorder silent, and          *)
(* everything but a .vsix the second.                                        *)
LEMMA NoRecord ==
  ASSUME config \in Configs, NEW r \in Requests
  PROVE  /\ r.doc.form # "git" => LogGitFetch(Silent, r) = Silent
         /\ r.doc.form # "vsix" => LogVsix(LogGitFetch(Silent, r), r) = LogGitFetch(Silent, r)
<1>1. /\ r.doc.form # "vsix" => VsixOf(r) = Nothing
      /\ r.doc.form # "git" => ClassifyGit(r.host, r.path) = Nothing
  BY Learnt
<1> QED BY <1>1, Zenon DEF LogGitFetch, LogVsix

(* A fetch of a repository is recorded once.                                 *)
LEMMA GitSends ==
  ASSUME config \in Configs, NEW r \in Requests, r.doc.form = "git"
  PROVE  SentOnce(LogGitFetch(Silent, r), r)
<1>1. PICK fetch : fetch = ClassifyGit(r.host, r.path)
  OBVIOUS
<1>2. fetch # Nothing /\ fetch.id = r.doc.id
  BY <1>1, Learnt
<1>3. Artifact(r)
  BY DEF Artifact
<1>4. CASE config.logging \/ config.otlp
  <2>1. PICK ev, to : ev = Event(r.doc.id, ExecutionMode(r.ua), fetch.commit) /\ to = {"log", "otlp"}
    OBVIOUS
  <2>2. IsRecordOf(ev, r)
    BY <2>1, EventsAre, Zenon
  <2>3. "log" \in to /\ "otlp" \in to /\ "hub" \notin to
    BY <2>1
  <2>4. LogGitFetch(Silent, r) = Emit(Silent, <<ev>>, to)
    BY <1>1, <1>2, <1>4, <2>1, Zenon DEF LogGitFetch
  <2>5. SentOnce(Emit(Silent, <<ev>>, to), r)
    BY <1>3, <2>2, <2>3, EmittedOnce
  <2> QED BY <2>4, <2>5, Zenon
<1>5. CASE ~config.logging /\ ~config.otlp
  <2>1. LogGitFetch(Silent, r) = Silent
    BY <1>5, Zenon DEF LogGitFetch
  <2>2. SinksFor(r) = {}
    BY <1>5 DEF SinksFor
  <2> QED BY <2>1, <2>2, SilentOnce
<1> QED BY <1>4, <1>5

(* An extension is recorded once.                                            *)
LEMMA VsixSends ==
  ASSUME config \in Configs, NEW r \in Requests, r.doc.form = "vsix"
  PROVE  SentOnce(LogVsix(LogGitFetch(Silent, r), r), r)
<1>1. VsixOf(r) = r.doc.id
  BY Learnt
<1>2. r.doc.id # Nothing
  BY IdIs
<1>3. Artifact(r)
  BY DEF Artifact
<1>4. LogGitFetch(Silent, r) = Silent
  BY NoRecord
<1>5. PICK ev, to : ev = Event(r.doc.id, ExecutionMode(r.ua), Nothing) /\ to = {"log", "otlp"}
  OBVIOUS
<1>6. IsRecordOf(ev, r)
  BY <1>5, EventsAre, Zenon
<1>7. "log" \in to /\ "otlp" \in to /\ "hub" \notin to
  BY <1>5
<1>8. LogVsix(LogGitFetch(Silent, r), r) = Emit(Silent, <<ev>>, to)
  BY <1>1, <1>2, <1>4, <1>5, Zenon DEF LogVsix, Events
<1>9. SentOnce(Emit(Silent, <<ev>>, to), r)
  BY <1>3, <1>6, <1>7, EmittedOnce
<1> QED BY <1>8, <1>9, Zenon

(* A pinned version is recorded once if it goes on, and not at all           *)
(* otherwise.                                                                *)
LEMMA PinnedSends ==
  ASSUME config \in Configs, NEW r \in Requests, r.doc.form \in PinnedForms
  PROVE  /\ LogVsix(LogGitFetch(Silent, r), r) = Silent
         /\ SentOnce(Emit(Silent, Events(r.doc.id, r), Sinks), r)
<1>1. r.doc.form # "git" /\ r.doc.form # "vsix" /\ Artifact(r)
  BY DEF PinnedForms, Artifact
<1>2. LogVsix(LogGitFetch(Silent, r), r) = Silent
  BY <1>1, NoRecord
<1>3. r.doc.id.eco \in {"crates", "npm", "pypi", "nuget"}
  BY Learnt
<1>4. PICK ev : ev = Event(r.doc.id, ExecutionMode(r.ua), Nothing)
  OBVIOUS
<1>5. IsRecordOf(ev, r)
  BY <1>4, EventsAre, Zenon
<1>6. Hubbed(ev)
  <2>1. ev.id = r.doc.id
    BY <1>4 DEF Event
  <2> QED BY <1>3, <2>1 DEF Hubbed
<1>7. "log" \in Sinks /\ "otlp" \in Sinks /\ "hub" \in Sinks
  BY DEF Sinks
<1>8. SentOnce(Emit(Silent, <<ev>>, Sinks), r)
  BY <1>1, <1>5, <1>6, <1>7, EmittedOnce
<1>9. Events(r.doc.id, r) = <<ev>>
  BY <1>4, Zenon DEF Events
<1> QED BY <1>2, <1>8, <1>9, Zenon

(* What pins no version leaves a record only if it is a .vsix or git.        *)
LEMMA UnpinnedSends ==
  ASSUME config \in Configs, NEW r \in Requests, r.doc.form \notin PinnedForms
  PROVE  /\ ShouldIntercept(Hosts, r.host) => SentOnce(LogVsix(LogGitFetch(Silent, r), r), r)
         /\ ~ShouldIntercept(Hosts, r.host) => SentOnce(LogGitFetch(Silent, r), r)
<1>1. r.doc.form \in Forms
  BY IdIs
<1>2. CASE r.doc.form = "git"
  <2>1. ~ShouldIntercept(Hosts, r.host)
    BY <1>2, Learnt
  <2> QED BY <1>2, <2>1, GitSends
<1>3. CASE r.doc.form = "vsix"
  <2>1. ShouldIntercept(Hosts, r.host)
    BY <1>3, Learnt
  <2> QED BY <1>3, <2>1, VsixSends
<1>4. CASE r.doc.form \in {"index", "other"}
  <2>1. LogGitFetch(Silent, r) = Silent /\ LogVsix(LogGitFetch(Silent, r), r) = Silent
    BY <1>4, NoRecord
  <2>2. ~Artifact(r)
    BY <1>4 DEF Artifact
  <2>3. SentOnce(Silent, r)
    BY <2>2, SilentOnce
  <2> QED BY <2>1, <2>3, Zenon
<1> QED BY <1>1, <1>2, <1>3, <1>4 DEF Forms, PinnedForms

-----------------------------------------------------------------------------
(* The gates of handle_response.                                             *)

(* b may be let through to a client that asked for doc.                      *)
MayPass(doc, b) ==
  RunsOnInstall(doc, b) =>
    \/ b.large /\ doc.form = "vsix"
    \/ b.format # FormatOf(doc.form)
    \/ \E i \in DOMAIN b.entries : ~b.entries[i].readable
    \/ /\ config.policy = "strip" /\ config.onFailure = "passthrough"
       /\ StripNpmTarball(b) = "failed"

(* An archive names each file at its root once.                              *)
NamesOnce(b) ==
  /\ b = Archive(b.format, b.large, b.entries)
  /\ b.entries \in Seq(ArchiveEntry)
  /\ \A i, j \in DOMAIN b.entries :
       b.entries[i].depth = 2 /\ b.entries[j].depth = 2 /\ b.entries[i].name = b.entries[j].name => i = j

(* What a registry answers with names no file at its root twice.             *)
LEMMA ArchivesNameOnce ==
  ASSUME NEW a \in Archives
  PROVE  NamesOnce(a.body)
BY ArchivesAssumption DEF NamesOnce

(* The fields of an answer.                                                  *)
LEMMA AnswersAre ==
  /\ \A b : AsItCame(b).body = b /\ AsItCame(b).status = "2xx" /\ AsItCame(b).how = "as it came"
  /\ Deny.status = "403"
  /\ \A s, b, h : Reply(s, b, h).status = s /\ Reply(s, b, h).body = b /\ Reply(s, b, h).how = h
BY DEF AsItCame, Deny, Reply

(* An empty body runs nothing.                                               *)
LEMMA NothingRuns ==
  ASSUME NEW doc
  PROVE  MayPass(doc, NoArchive)
BY DEF MayPass, RunsOnInstall, NoArchive, Archive

(* The first entry that satisfies a predicate, when only one can.            *)
LEMMA OnlyEntry ==
  ASSUME NEW S \in SUBSET Nat, NEW i \in S, \A j \in S : j = i
  PROVE  (CHOOSE k \in S : \A j \in S : k <= j) = i /\ (CHOOSE k \in S : \A j \in S : k >= j) = i
<1>1. S = {i}
  OBVIOUS
<1>2. (CHOOSE k \in {i} : \A j \in {i} : k <= j) = i /\ (CHOOSE k \in {i} : \A j \in {i} : k >= j) = i
  OBVIOUS
<1> QED BY <1>1, <1>2

(* The only package.json at the root is the one the gates look at.           *)
LEMMA RootManifest ==
  ASSUME NEW b, NamesOnce(b), NEW i \in DOMAIN b.entries, b.entries[i].depth = 2,
         b.entries[i].name = "package.json"
  PROVE  /\ FirstEntry(b, RootPackageJson) = i /\ i # 0
         /\ {j \in DOMAIN b.entries : Manifest(b.entries[j])} = {i}
<1> DEFINE there == {j \in DOMAIN b.entries : RootPackageJson(b.entries[j])}
<1>1. DOMAIN b.entries \subseteq Nat \ {0}
  BY DEF NamesOnce
<1>2. i \in there /\ \A j \in there : j = i
  BY DEF RootPackageJson, NamesOnce
<1>3. FirstEntry(b, RootPackageJson) = IF there = {} THEN 0 ELSE CHOOSE k \in there : \A j \in there : k <= j
  BY DEF FirstEntry
<1>4. FirstEntry(b, RootPackageJson) = i
  <2>1. there # {} /\ there \in SUBSET Nat
    BY <1>1, <1>2
  <2>2. (CHOOSE k \in there : \A j \in there : k <= j) = i
    BY <1>2, <2>1, OnlyEntry
  <2> QED BY <1>3, <2>1, <2>2
<1>5. {j \in DOMAIN b.entries : Manifest(b.entries[j])} = there
  BY DEF Manifest, RootPackageJson
<1>6. there = {i}
  BY <1>2
<1> QED BY <1>1, <1>4, <1>5, <1>6

(* A tarball that is let through has no install script that could be seen.   *)
LEMMA NpmGate ==
  ASSUME config \in Configs, config.policy \in {"block", "strip"}, NEW doc, doc.form = "tgz",
         NEW b, NamesOnce(b), LifecycleNpm(b).status = "2xx"
  PROVE  MayPass(doc, LifecycleNpm(b).body)
<1> DEFINE first == FirstEntry(b, RootPackageJson)
<1>1. FormatOf(doc.form) = "gzip"
  BY DEF FormatOf
<1>2. ASSUME RunsOnInstall(doc, b)
      PROVE  \E i \in DOMAIN b.entries : first = i /\ i # 0 /\ "script" \in b.entries[i].says
  <2>1. PICK i \in DOMAIN b.entries : b.entries[i].depth = 2 /\ b.entries[i].name = "package.json"
                                      /\ "script" \in b.entries[i].says
    BY <1>2 DEF RunsOnInstall
  <2> QED BY <2>1, RootManifest
<1>3. LifecycleNpm(b) # Deny
  BY DEF Deny, Reply
<1>4. ASSUME "script" \notin InspectNpmTarball(b).found
      PROVE  MayPass(doc, b)
  <2> SUFFICES ASSUME RunsOnInstall(doc, b), b.format = "gzip", \A i \in DOMAIN b.entries : b.entries[i].readable
               PROVE  FALSE
    BY <1>1 DEF MayPass
  <2>1. PICK i \in DOMAIN b.entries : first = i /\ i # 0 /\ "script" \in b.entries[i].says
    BY <1>2
  <2>2. InspectNpmTarball(b) = Found(b.entries[i].says \cap {"script"})
    BY <2>1 DEF InspectNpmTarball
  <2> QED BY <1>4, <2>1, <2>2 DEF Found
<1>5. ASSUME "script" \in InspectNpmTarball(b).found, LifecycleNpm(b) = AsItCame(b)
      PROVE  MayPass(doc, b)
  <2> SUFFICES ASSUME RunsOnInstall(doc, b), ~MayPass(doc, b)
               PROVE  FALSE
    BY DEF MayPass
  <2>1. PICK i \in DOMAIN b.entries : first = i /\ i # 0 /\ "script" \in b.entries[i].says
    BY <1>2
  <2>2. StripNpmTarball(b) # "nothing to strip"
    BY <2>1 DEF StripNpmTarball, Removed
  <2>3. config.policy = "strip" /\ StripNpmTarball(b) # "stripped"
    BY <1>3, <1>5 DEF LifecycleNpm, AsItCame, Reply
  <2>4. StripNpmTarball(b) = "failed"
    BY <2>2, <2>3 DEF StripNpmTarball
  <2>5. LifecycleNpm(b) = StripFailed(b)
    BY <1>5, <2>3, <2>4 DEF LifecycleNpm
  <2>6. config.onFailure = "passthrough"
    BY <1>3, <2>5, ConfigsAssumption DEF StripFailed
  <2> QED BY <2>3, <2>4, <2>6 DEF MayPass
<1>6. ~RunsOnInstall(doc, Stripped(b))
  <2> SUFFICES ASSUME RunsOnInstall(doc, Stripped(b)) PROVE FALSE
    OBVIOUS
  <2>1. Stripped(b).entries = [b.entries EXCEPT ![first].says = Removed(@)]
    <3>1. PICK es : es = [b.entries EXCEPT ![first].says = Removed(@)]
      OBVIOUS
    <3>2. b = [format |-> b.format, large |-> b.large, entries |-> b.entries]
      BY DEF NamesOnce, Archive
    <3>3. Stripped(b) = [b EXCEPT !.entries = es]
      BY <3>1, Zenon DEF Stripped
    <3>4. [b EXCEPT !.entries = es].entries = es
      BY <3>2
    <3> QED BY <3>1, <3>3, <3>4
  <2>2. PICK es : es = Stripped(b).entries
    OBVIOUS
  <2> HIDE DEF first
  <2>3. DOMAIN es = DOMAIN b.entries
    BY <2>1, <2>2
  <2>4. \A i \in DOMAIN es : /\ es[i].depth = b.entries[i].depth /\ es[i].name = b.entries[i].name
                             /\ i = first => es[i].says = Removed(b.entries[i].says)
    <3> SUFFICES ASSUME NEW i \in DOMAIN es
                 PROVE  /\ es[i].depth = b.entries[i].depth /\ es[i].name = b.entries[i].name
                        /\ i = first => es[i].says = Removed(b.entries[i].says)
      OBVIOUS
    <3>1. b.entries[i] \in ArchiveEntry
      BY <2>3 DEF NamesOnce
    <3>2. i # first => es[i] = b.entries[i]
      BY <2>1, <2>2, <2>3
    <3>3. i = first => es[i] = [b.entries[i] EXCEPT !.says = Removed(@)]
      BY <2>1, <2>2, <2>3
    <3> QED BY <3>1, <3>2, <3>3 DEF ArchiveEntry
  <2>5. PICK i \in DOMAIN es : es[i].depth = 2 /\ es[i].name = "package.json" /\ "script" \in es[i].says
    BY <2>2 DEF RunsOnInstall
  <2>6. b.entries[i].depth = 2 /\ b.entries[i].name = "package.json" /\ i \in DOMAIN b.entries
    BY <2>3, <2>4, <2>5
  <2>7. first = i
    BY <2>6, RootManifest DEF first
  <2>8. es[i].says = Removed(b.entries[i].says)
    BY <2>4, <2>7
  <2> QED BY <2>5, <2>8 DEF Removed
<1>7. \/ LifecycleNpm(b) = Reply("2xx", Stripped(b), "stripped")
      \/ LifecycleNpm(b) = AsItCame(b)
  BY <1>3 DEF LifecycleNpm, StripFailed
<1>8. CASE LifecycleNpm(b) = Reply("2xx", Stripped(b), "stripped")
  <2>1. LifecycleNpm(b).body = Stripped(b)
    BY <1>8 DEF Reply
  <2> QED BY <1>6, <1>8, <2>1 DEF MayPass
<1>9. CASE LifecycleNpm(b) = AsItCame(b)
  <2>1. LifecycleNpm(b).body = b
    BY <1>9, AnswersAre, Zenon
  <2>2. MayPass(doc, b)
    BY <1>4, <1>5, <1>9
  <2> QED BY <2>1, <2>2
<1> QED BY <1>7, <1>8, <1>9

(* A source distribution that is let through has no setup.py.                *)
LEMMA SdistGate ==
  ASSUME config.policy \in {"block", "strip"}, NEW doc, doc.form = "sdist",
         NEW b, NamesOnce(b), LifecyclePypi(b).status = "2xx"
  PROVE  MayPass(doc, LifecyclePypi(b).body)
<1>1. LifecyclePypi(b) = AsItCame(b) /\ "setup.py" \notin InspectPypiSdist(b).found
  BY DEF LifecyclePypi, Deny, Reply
<1>2. LifecyclePypi(b).body = b
  BY <1>1, AnswersAre, Zenon
<1>3. MayPass(doc, b)
  <2> DEFINE setup == FirstEntry(b, LAMBDA e : RootChild(e) /\ e.name = "setup.py")
             there == {i \in DOMAIN b.entries : RootChild(b.entries[i]) /\ b.entries[i].name = "setup.py"}
  <2> SUFFICES ASSUME RunsOnInstall(doc, b), b.format = "gzip", \A i \in DOMAIN b.entries : b.entries[i].readable
               PROVE  FALSE
    BY DEF MayPass, FormatOf
  <2>1. PICK i \in DOMAIN b.entries : b.entries[i].depth = 2 /\ b.entries[i].name = "setup.py"
    BY DEF RunsOnInstall
  <2>2. DOMAIN b.entries \subseteq Nat \ {0}
    BY DEF NamesOnce
  <2>3. i \in there /\ (\A j \in there : j = i) /\ there \in SUBSET Nat
    BY <2>1, <2>2 DEF RootChild, NamesOnce
  <2>4. (CHOOSE k \in there : \A j \in there : k <= j) = i
    BY <2>3, OnlyEntry
  <2>5. setup = i /\ i # 0
    <3>1. there # {}
      BY <2>3
    <3> QED BY <2>2, <2>4, <3>1, Zenon DEF FirstEntry
  <2>6. InspectPypiSdist(b).found = {"setup.py"} \/ "setup.py" \in InspectPypiSdist(b).found
    BY <2>5 DEF InspectPypiSdist, Found
  <2> QED BY <1>1, <2>6
<1> QED BY <1>2, <1>3

(* An extension that is let through does not start by itself.                *)
LEMMA VsixGate ==
  ASSUME config.policy \in {"block", "strip"}, NEW doc, doc.form = "vsix",
         NEW b, NamesOnce(b), LifecycleVsix(b).status = "2xx"
  PROVE  MayPass(doc, LifecycleVsix(b).body)
<1>1. LifecycleVsix(b) = AsItCame(b) /\ "startup" \notin InspectVsix(b).found
  BY DEF LifecycleVsix, Deny, Reply
<1>2. LifecycleVsix(b).body = b
  BY <1>1, AnswersAre, Zenon
<1>3. MayPass(doc, b)
  <2> SUFFICES ASSUME RunsOnInstall(doc, b), ~b.large, b.format = "zip", \A i \in DOMAIN b.entries : b.entries[i].readable
               PROVE  FALSE
    BY DEF MayPass, FormatOf
  <2>1. PICK i \in DOMAIN b.entries : b.entries[i].depth = 2 /\ b.entries[i].name = "package.json"
                                      /\ "startup" \in b.entries[i].says
    BY DEF RunsOnInstall
  <2>2. {j \in DOMAIN b.entries : Manifest(b.entries[j])} = {i}
    BY <2>1, RootManifest
  <2>3. Max({i}) = i
    BY <2>1 DEF Max, NamesOnce
  <2>4. "startup" \in InspectVsix(b).found
    BY <2>1, <2>2, <2>3 DEF InspectVsix
  <2> QED BY <1>1, <2>4
<1> QED BY <1>2, <1>3

-----------------------------------------------------------------------------
(* The inductive invariant of ProxyRequests.                                 *)

(* What handle_request has left in the handler for the answer to r.          *)
TagsMatch(h, r) ==
  /\ \A t \in Tagging : h[t] \in {Nothing, r.doc.id}
  /\ ~Artifact(r) => \A t \in Tagging : h[t] = Nothing
  /\ (r.doc.form = "index" /\ ~r.escaped) \/ h.host # Nothing => h.host = r.host /\ h.path = r.path
  /\ Gating /\ r.doc.id.name \notin config.allow =>
       /\ r.doc.form = "tgz" => h.npm = r.doc.id
       /\ r.doc.form = "sdist" /\ ~r.query => h.npm = Nothing /\ h.sdist = r.doc.id
       /\ r.doc.form = "vsix" => h.npm = Nothing /\ h.sdist = Nothing /\ h.vsix = r.doc.id

Waiting(c) ==
  /\ looked[c] = Nothing
  /\ req[c].host = dialled[c] /\ Egress(req[c])
  /\ Artifact(req[c]) => req[c].doc.id \notin Refused
  /\ SentOnce(sent[c], req[c])
  /\ TagsMatch(handler[c], req[c])

Answered(c) ==
  /\ looked[c] \in {Nothing, req[c].doc.id}
  /\ reply[c].status = "403" /\ looked[c] = Nothing => sent[c] = Silent
  /\ reply[c].status = "2xx" =>
       /\ Artifact(req[c]) => req[c].doc.id \notin Refused
       /\ IF req[c].doc.form = "index" THEN looked[c] = Nothing
          ELSE reply[c].how \in {"as it came", "stripped", "cut short"}
       /\ config.policy \in {"block", "strip"} /\ ~req[c].query /\ req[c].doc.id.name \notin config.allow
            => MayPass(req[c].doc, reply[c].body)

Tagged(h) == h = [host |-> h.host, path |-> h.path, query |-> h.query, npm |-> h.npm,
                  sdist |-> h.sdist, vsix |-> h.vsix]
             /\ \A t \in Tagging : h[t] \in Identity \cup {Nothing}

ConnInv(c) ==
  /\ req[c] \in Requests
  /\ Tagged(handler[c]) /\ Tagged(opened[c])
  /\ looked[c] \in Identity \cup {Nothing}
  /\ reply[c].status \in Statuses
  /\ \A s \in Sinks : Listed(sent[c][s], 1 + MaxBundled)
  /\ \/ /\ pc[c] = "closed" /\ looked[c] = Nothing /\ sent[c] = Silent
        /\ reply[c].status \in {"none", "403"}
     \/ pc[c] = "upstream" /\ Waiting(c)
     \/ pc[c] = "open" /\ Answered(c)

RequestsInv ==
  /\ config \in Configs
  /\ DOMAIN pc = Conns /\ DOMAIN dialled = Conns /\ DOMAIN handler = Conns /\ DOMAIN opened = Conns
  /\ DOMAIN req = Conns /\ DOMAIN sent = Conns /\ DOMAIN looked = Conns /\ DOMAIN reply = Conns
  /\ \A c \in Conns : ConnInv(c)

(* A step that changes nothing of a connection keeps its part.               *)
LEMMA ConnKept ==
  ASSUME config' = config, NEW d, ConnInv(d), pc'[d] = pc[d], dialled'[d] = dialled[d], handler'[d] = handler[d],
         opened'[d] = opened[d], req'[d] = req[d], sent'[d] = sent[d], looked'[d] = looked[d], reply'[d] = reply[d]
  PROVE  ConnInv(d)'
<1>1. pc[d] = "upstream" /\ Waiting(d) => Waiting(d)'
  <2>1. SentOnce(sent[d], req[d]) => SentOnce(sent[d], req[d])'
    BY DEF SentOnce, SinksFor, HubExports, ValidEndpoint
  <2>2. TagsMatch(handler[d], req[d]) => TagsMatch(handler[d], req[d])'
    BY DEF TagsMatch, Gating
  <2>3. Egress(req[d]) => Egress(req[d])'
    BY DEF Egress
  <2> QED BY <2>1, <2>2, <2>3 DEF Waiting
<1>2. pc[d] = "open" /\ Answered(d) => Answered(d)'
  <2>1. MayPass(req[d].doc, reply[d].body) => MayPass(req[d].doc, reply[d].body)'
    BY DEF MayPass
  <2> QED BY <2>1 DEF Answered
<1> QED BY <1>1, <1>2 DEF ConnInv, Tagged, Identity

(* A wildcard of the allow-list matches a longer host, label by label.       *)
LEMMA SuffixIs ==
  ASSUME NEW p \in Seq(STRING), NEW d \in Seq(STRING), IsStrictSuffix(p, d)
  PROVE  Len(d) >= Len(p) + 1 /\ \A i \in 0 .. Len(p) - 1 : d[Len(d) - i] = p[Len(p) - i]
<1> DEFINE n == Len(p)  m == Len(d)
<1>1. n \in Nat /\ m \in Nat
  OBVIOUS
<1>2. /\ Reverse(p) \in Seq(STRING) /\ Len(Reverse(p)) = n
      /\ Reverse(d) \in Seq(STRING) /\ Len(Reverse(d)) = m
      /\ \A k \in 1 .. n : Reverse(p)[k] = p[n - k + 1]
      /\ \A k \in 1 .. m : Reverse(d)[k] = d[m - k + 1]
  BY DEF Reverse
<1>3. n <= m /\ SubSeq(Reverse(p), 1, n) = SubSeq(Reverse(d), 1, n) /\ p # d
  BY <1>2 DEF IsStrictSuffix, IsSuffix, IsPrefix
<1>4. \A k \in 1 .. n : Reverse(p)[k] = Reverse(d)[k]
  <2> SUFFICES ASSUME NEW k \in 1 .. n PROVE Reverse(p)[k] = Reverse(d)[k]
    OBVIOUS
  <2>1. SubSeq(Reverse(p), 1, n)[k] = Reverse(p)[k] /\ SubSeq(Reverse(d), 1, n)[k] = Reverse(d)[k]
    BY <1>1, <1>2, <1>3, SubSeqProperties
  <2> QED BY <1>3, <2>1
<1>5. \A i \in 0 .. n - 1 : d[m - i] = p[n - i]
  <2> SUFFICES ASSUME NEW i \in 0 .. n - 1 PROVE d[m - i] = p[n - i]
    OBVIOUS
  <2>1. i + 1 \in 1 .. n /\ i + 1 \in 1 .. m /\ n - (i + 1) + 1 = n - i /\ m - (i + 1) + 1 = m - i
    BY <1>1, <1>3
  <2> QED BY <1>2, <1>4, <2>1
<1>6. n # m
  <2> SUFFICES ASSUME n = m PROVE FALSE
    OBVIOUS
  <2>1. \A j \in 1 .. n : p[j] = d[j]
    <3> SUFFICES ASSUME NEW j \in 1 .. n PROVE p[j] = d[j]
      OBVIOUS
    <3>1. n - j \in 0 .. n - 1 /\ m - (n - j) = j /\ n - (n - j) = j
      BY <1>1
    <3> QED BY <1>5, <3>1
  <2>2. p = d
    BY <1>1, <2>1, SeqEqual
  <2> QED BY <1>3, <2>2
<1> QED BY <1>1, <1>3, <1>5, <1>6

(* What the allow-list allows is on it.                                      *)
LEMMA EgressIs ==
  ASSUME config \in Configs, NEW r \in Requests, Egress(r), config.egress # {}
  PROVE  \E p \in config.egress :
           /\ Len(r.host) >= Len(p.host) + (IF p.wild THEN 1 ELSE 0)
           /\ p.wild \/ Len(r.host) = Len(p.host)
           /\ \A i \in 0 .. Len(p.host) - 1 : r.host[Len(r.host) - i] = p.host[Len(p.host) - i]
<1>1. PICK p \in config.egress : PatternMatches(p, r.host)
  BY DEF Egress, Allows
<1>2. p.wild \in BOOLEAN /\ p.host \in Seq(STRING)
  BY <1>1, ConfigsAssumption
<1>3. r.host \in Seq(STRING)
  BY IdIs DEF Host, Dashed
<1>4. PICK d, q : d = r.host /\ q = p.host
  OBVIOUS
<1>5. /\ p.wild => Len(d) >= Len(q) + 1 /\ \A i \in 0 .. Len(q) - 1 : d[Len(d) - i] = q[Len(q) - i]
      /\ ~p.wild => d = q
  <2>1. p.wild => IsStrictSuffix(q, d)
    BY <1>1, <1>4 DEF PatternMatches
  <2>2. ~p.wild => d = q
    BY <1>1, <1>4 DEF PatternMatches
  <2>3. d \in Seq(STRING) /\ q \in Seq(STRING)
    BY <1>2, <1>3, <1>4
  <2> QED BY <2>1, <2>2, <2>3, SuffixIs
<1>6. Len(q) \in Nat
  BY <1>2, <1>4
<1>7. /\ Len(d) >= Len(q) + (IF p.wild THEN 1 ELSE 0)
      /\ p.wild \/ Len(d) = Len(q)
      /\ \A i \in 0 .. Len(q) - 1 : d[Len(d) - i] = q[Len(q) - i]
  <2>1. CASE p.wild
    BY <1>5, <2>1
  <2>2. CASE ~p.wild
    <3>1. d = q /\ \A i \in 0 .. Len(q) - 1 : d[Len(d) - i] = q[Len(q) - i]
      BY <1>5, <2>2
    <3>2. Len(q) >= Len(q) + 0
      BY <1>6
    <3> QED BY <2>2, <3>1, <3>2
  <2> QED BY <2>1, <2>2
<1> QED BY <1>1, <1>4, <1>7

(* What the invariant says of the properties.                                *)
LEMMA InvGivesTypes ==
  ASSUME RequestsInv
  PROVE  RequestsTypeOK
<1> SUFFICES ASSUME NEW c \in Conns
             PROVE  /\ pc[c] \in {"closed", "open", "upstream"}
                    /\ req[c] \in Requests
                    /\ \A h \in {handler[c], opened[c]}, t \in Tagging : h[t] \in Identity \cup {Nothing}
                    /\ looked[c] \in Identity \cup {Nothing}
                    /\ reply[c].status \in Statuses
                    /\ \A s \in Sinks : Len(sent[c][s]) <= 1 + MaxBundled
  BY DEF RequestsInv, RequestsTypeOK
<1>1. ConnInv(c)
  BY DEF RequestsInv
<1>2. \A s \in Sinks : Len(sent[c][s]) <= 1 + MaxBundled
  BY <1>1, ListedMore, LimitsAssumption DEF ConnInv
<1> QED BY <1>1, <1>2 DEF ConnInv, Tagged

LEMMA InvGivesAnswers ==
  ASSUME RequestsInv
  PROVE  AnsweredAsItself
<1> SUFFICES ASSUME NEW c \in Conns
             PROVE  /\ looked[c] # Nothing => looked[c] = req[c].doc.id
                    /\ Delivered(c) => IF req[c].doc.form = "index" THEN looked[c] = Nothing
                                       ELSE reply[c].how \in {"as it came", "stripped", "cut short"}
  BY DEF AnsweredAsItself, LookedIntoAsItself, OnlyIndexesAreFiltered
<1>1. ConnInv(c)
  BY DEF RequestsInv
<1> QED BY <1>1 DEF ConnInv, Waiting, Answered, Delivered

LEMMA InvGivesRecords ==
  ASSUME RequestsInv
  PROVE  InstallsAreRecordedOnce
<1> SUFFICES ASSUME NEW c \in Conns PROVE RecordedOnce(c)
  BY DEF InstallsAreRecordedOnce
<1>1. ConnInv(c)
  BY DEF RequestsInv
<1>2. pc[c] = "upstream" => SentOnce(sent[c], req[c])
  BY <1>1 DEF ConnInv, Waiting
<1>3. pc[c] = "open" /\ reply[c].status = "403" /\ looked[c] = Nothing => sent[c] = Silent
  BY <1>1 DEF ConnInv, Answered
<1>4. \A s \in Sinks : Silent[s] = <<>>
  BY DEF Silent
<1> QED BY <1>2, <1>3, <1>4, Zenon DEF RecordedOnce, SentOnce

LEMMA InvGivesKeptOut ==
  ASSUME RequestsInv
  PROVE  KeptOut
<1>1. config \in Configs /\ \A c \in Conns : ConnInv(c)
  BY DEF RequestsInv
<1>2. RefusedStaysOut
  BY <1>1 DEF RefusedStaysOut, ConnInv, Answered, Delivered
<1>3. HooksStayOut
  <2> SUFFICES ASSUME NEW c \in Conns PROVE HookStaysOut(c)
    BY DEF HooksStayOut
  <2>1. Delivered(c) => Answered(c)
    BY <1>1 DEF Delivered, ConnInv
  <2> QED BY <2>1, Zenon DEF HookStaysOut, Delivered, Answered, MayPass
<1>4. EgressHolds
  <2> SUFFICES ASSUME NEW c \in Conns, pc[c] = "upstream", config.egress # {}
               PROVE  \E p \in config.egress :
                        LET d == dialled[c]
                        IN /\ Len(d) >= Len(p.host) + (IF p.wild THEN 1 ELSE 0)
                           /\ p.wild \/ Len(d) = Len(p.host)
                           /\ \A i \in 0 .. Len(p.host) - 1 : d[Len(d) - i] = p.host[Len(p.host) - i]
    BY DEF EgressHolds
  <2>1. req[c] \in Requests /\ Egress(req[c]) /\ req[c].host = dialled[c]
    BY <1>1 DEF ConnInv, Waiting
  <2> QED BY <1>1, <2>1, EgressIs
<1>5. IndexesAreFiltered
  <2> SUFFICES ASSUME NEW c \in Conns, pc[c] = "upstream", req[c].doc.form = "index", ~req[c].escaped
               PROVE  Target(c) \in FilteredAs(req[c])
    BY DEF IndexesAreFiltered
  <2>1. req[c] \in Requests /\ handler[c].host = req[c].host /\ handler[c].path = req[c].path
    BY <1>1 DEF ConnInv, Waiting, TagsMatch
  <2>2. req[c].host # Nothing /\ req[c].path # Nothing
    BY <1>1, <2>1, IdIs
  <2>3. RewriteTarget(Hosts, req[c].host, req[c].path) \in FilteredAs(req[c])
    BY <1>1, <2>1, Aimed
  <2>4. Target(c) = RewriteTarget(Hosts, req[c].host, req[c].path)
    BY <2>1, <2>2, Zenon DEF Target
  <2> QED BY <2>3, <2>4, Zenon
<1> QED BY <1>2, <1>3, <1>4, <1>5 DEF KeptOut

-----------------------------------------------------------------------------
(* handle_request keeps the invariant.                                       *)

(* What a request of a form is of.                                           *)
LEMMA EcoOf ==
  ASSUME config \in Configs, NEW r \in Requests
  PROVE  /\ r.doc.form = "tgz" => r.doc.id.eco = "npm"
         /\ r.doc.form = "sdist" => r.doc.id.eco = "pypi"
<1>1. Url(r.doc, r.host, r.path, r.escaped)
  <2>1. WellFormed(r, Hosts)
    BY Learnt
  <2> QED BY <2>1, Zenon DEF WellFormed
<1>2. r.doc.form = "tgz" => TarballUrl(r.doc.id, r.path)
  BY <1>1, Zenon DEF Url
<1>3. r.doc.form = "sdist" => PypiUrl(r.doc.id, r.path, {"tar.gz"})
  BY <1>1, Zenon DEF Url
<1>4. r.doc.form = "tgz" => r.doc.id.eco = "npm"
  BY <1>2, Zenon DEF TarballUrl
<1>5. r.doc.form = "sdist" => r.doc.id.eco = "pypi"
  BY <1>3, Zenon DEF PypiUrl
<1> QED BY <1>4, <1>5, Zenon

(* What pins no version is never refused.                                    *)
LEMMA NotRefused ==
  ASSUME config \in Configs, NEW r \in Requests, r.doc.form \notin PinnedForms, Artifact(r)
  PROVE  r.doc.id \notin Refused
<1>1. r.doc.form \in {"vsix", "git"}
  BY IdIs DEF Forms, PinnedForms, Artifact
<1>2. r.doc.id.eco \in {"vscode", "git"}
  BY <1>1, Learnt
<1>3. \A id \in Refused : id.eco \in {"crates", "npm", "pypi", "nuget"}
  BY RequestsAssumption
<1> QED BY <1>2, <1>3

(* A handler that is reset matches what is not intercepted.                  *)
LEMMA HandlerMatches ==
  ASSUME config \in Configs, NEW r \in Requests, ~ShouldIntercept(Hosts, r.host)
  PROVE  /\ r.doc.form \notin PinnedForms /\ r.doc.form # "vsix"
         /\ TagsMatch(Handler, r)
<1>1. r.doc.form \notin PinnedForms /\ r.doc.form # "vsix"
  BY Learnt
<1>2. ~(r.doc.form = "index" /\ ~r.escaped)
  BY Aimed
<1>3. r.doc.form # "tgz" /\ r.doc.form # "sdist"
  BY <1>1 DEF PinnedForms
<1>4. Handler.host = Nothing /\ \A t \in Tagging : Handler[t] = Nothing
  BY DEF Handler, Tagging
<1>5. TagsMatch(Handler, r)
  BY <1>1, <1>2, <1>3, <1>4, Zenon DEF TagsMatch
<1> QED BY <1>1, <1>5

(* The fields handle_request sets are those of the request, whatever the     *)
(* request before it has left.                                               *)
LEMMA TagsAre ==
  ASSUME config \in Configs, NEW r \in Requests, NEW h, NEW g, g = Tags(h, r)
  PROVE  TagsMatch(g, r) /\ Tagged(g)
<1>1. PICK id, v, doc : id = ParseForHost(Hosts, r.host, r.path) /\ v = VsixOf(r) /\ doc = r.doc.id
  OBVIOUS
<1>2. /\ r.doc.form \in PinnedForms => id = doc
      /\ r.doc.form \notin PinnedForms => id = Nothing
      /\ r.doc.form = "vsix" => v = doc
      /\ r.doc.form # "vsix" => v = Nothing
  BY <1>1, Learnt
<1>3. /\ r.doc.form = "tgz" => doc.eco = "npm"
      /\ r.doc.form = "sdist" => doc.eco = "pypi"
      /\ doc \in Identity /\ doc # Nothing
  BY <1>1, EcoOf, IdIs
<1>4. r.doc.form = "sdist" /\ ~r.query => PathIsPypiSdist(r.path, r.query)
  BY Learnt, SdistsAreKnown
<1>5. PICK P : P = PathIsPypiSdist(r.path, r.query)
  OBVIOUS
<1>6. g = [host |-> r.host, path |-> r.path, query |-> r.query,
           npm |-> IF Gating /\ id # Nothing /\ id.eco = "npm" /\ id.name \notin config.allow THEN id ELSE Nothing,
           sdist |-> IF Gating /\ id # Nothing /\ id.eco = "pypi" /\ id.name \notin config.allow
                        /\ PathIsPypiSdist(r.path, r.query) THEN id ELSE Nothing,
           vsix |-> IF Gating /\ v # Nothing /\ v.name \notin config.allow THEN v ELSE Nothing]
  BY <1>1, Zenon DEF Tags
<1>7. /\ g.host = r.host /\ g.path = r.path
      /\ g.npm = IF Gating /\ id # Nothing /\ id.eco = "npm" /\ id.name \notin config.allow THEN id ELSE Nothing
      /\ g.sdist = IF Gating /\ id # Nothing /\ id.eco = "pypi" /\ id.name \notin config.allow
                      /\ PathIsPypiSdist(r.path, r.query) THEN id ELSE Nothing
      /\ g.vsix = IF Gating /\ v # Nothing /\ v.name \notin config.allow THEN v ELSE Nothing
  BY <1>6
<1>8. Tagged(g)
  <2>1. g = [host |-> g.host, path |-> g.path, query |-> g.query, npm |-> g.npm,
             sdist |-> g.sdist, vsix |-> g.vsix]
    BY <1>6
  <2>2. \A t \in Tagging : g[t] \in Identity \cup {Nothing}
    BY <1>2, <1>3, <1>7 DEF Tagging, PinnedForms
  <2> QED BY <2>1, <2>2, Zenon DEF Tagged
<1>9. \A t \in Tagging : g[t] \in {Nothing, doc}
  BY <1>2, <1>7 DEF Tagging
<1>10. ~Artifact(r) => \A t \in Tagging : g[t] = Nothing
  BY <1>2, <1>7 DEF Tagging, Artifact, PinnedForms
<1>11. Gating /\ doc.name \notin config.allow =>
         /\ r.doc.form = "tgz" => g.npm = doc
         /\ r.doc.form = "sdist" /\ ~r.query => g.npm = Nothing /\ g.sdist = doc
         /\ r.doc.form = "vsix" => g.npm = Nothing /\ g.sdist = Nothing /\ g.vsix = doc
  BY <1>2, <1>3, <1>4, <1>7 DEF PinnedForms
<1>12. TagsMatch(g, r)
  BY <1>1, <1>7, <1>9, <1>10, <1>11, Zenon DEF TagsMatch
<1> QED BY <1>8, <1>12

(* A step of c leaves the other connections alone.                           *)
Others(c) ==
  /\ config' = config
  /\ DOMAIN pc' = Conns /\ DOMAIN dialled' = Conns /\ DOMAIN handler' = Conns /\ DOMAIN opened' = Conns
  /\ DOMAIN req' = Conns /\ DOMAIN sent' = Conns /\ DOMAIN looked' = Conns /\ DOMAIN reply' = Conns
  /\ \A d \in Conns \ {c} :
       /\ pc'[d] = pc[d] /\ dialled'[d] = dialled[d] /\ handler'[d] = handler[d] /\ opened'[d] = opened[d]
       /\ req'[d] = req[d] /\ sent'[d] = sent[d] /\ looked'[d] = looked[d] /\ reply'[d] = reply[d]

(* A step of one connection keeps the invariant if that connection's part is *)
(* kept.                                                                     *)
LEMMA Frame ==
  ASSUME RequestsInv, NEW c \in Conns, Others(c), ConnInv(c)'
  PROVE  RequestsInv'
<1>1. \A d \in Conns \ {c} : ConnInv(d)'
  <2> SUFFICES ASSUME NEW d \in Conns \ {c} PROVE ConnInv(d)'
    OBVIOUS
  <2>1. ConnInv(d)
    BY DEF RequestsInv
  <2>2. /\ config' = config
        /\ pc'[d] = pc[d] /\ dialled'[d] = dialled[d] /\ handler'[d] = handler[d] /\ opened'[d] = opened[d]
        /\ req'[d] = req[d] /\ sent'[d] = sent[d] /\ looked'[d] = looked[d] /\ reply'[d] = reply[d]
    BY DEF Others
  <2> QED BY <2>1, <2>2, ConnKept
<1>2. \A d \in Conns : ConnInv(d)'
  BY <1>1
<1> QED BY <1>2, Zenon DEF RequestsInv, Others

(* Lengths.                                                                  *)
LEMMA SilentListed ==
  \A s \in Sinks : Listed(Silent[s], 1 + MaxBundled)
<1>1. \A s \in Sinks : Silent[s] = <<>>
  BY DEF Silent
<1>2. Listed(<<>>, 1 + MaxBundled)
  <2>1. 1 \in Nat /\ 1 + MaxBundled \in Nat /\ 1 <= 1 + MaxBundled
    BY LimitsAssumption
  <2> QED BY <2>1, ListedOne, ListedMore
<1> QED BY <1>1, <1>2

LEMMA OnceListed ==
  ASSUME NEW S, NEW r, SentOnce(S, r)
  PROVE  \A s \in Sinks : Listed(S[s], 1 + MaxBundled)
<1>1. 1 \in Nat /\ 1 + MaxBundled \in Nat /\ 1 <= 1 + MaxBundled
  BY LimitsAssumption
<1> QED BY <1>1, ListedMore DEF SentOnce

(* The handlers that are not made by Tags.                                   *)
LEMMA HandlersAre ==
  /\ Tagged(Handler)
  /\ \A h : Tagged([Handler EXCEPT !.host = h, !.path = <<>>])
  /\ \A g : Tagged(g) => Tagged([g EXCEPT !.host = Nothing, !.path = Nothing])
<1>1. Tagged(Handler)
  BY DEF Tagged, Handler, Tagging
<1>2. ASSUME NEW h PROVE Tagged([Handler EXCEPT !.host = h, !.path = <<>>])
  <2>1. PICK g : g = [Handler EXCEPT !.host = h, !.path = <<>>]
    OBVIOUS
  <2>2. g = [host |-> h, path |-> <<>>, query |-> FALSE, npm |-> Nothing, sdist |-> Nothing, vsix |-> Nothing]
    BY <2>1 DEF Handler
  <2>3. Tagged(g)
    BY <2>2 DEF Tagged, Tagging
  <2> QED BY <2>1, <2>3
<1>3. ASSUME NEW g, Tagged(g) PROVE Tagged([g EXCEPT !.host = Nothing, !.path = Nothing])
  <2>1. PICK k : k = [g EXCEPT !.host = Nothing, !.path = Nothing]
    OBVIOUS
  <2>2. /\ g = [host |-> g.host, path |-> g.path, query |-> g.query, npm |-> g.npm,
                sdist |-> g.sdist, vsix |-> g.vsix]
        /\ \A t \in Tagging : g[t] \in Identity \cup {Nothing}
    BY <1>3, Zenon DEF Tagged
  <2>3. k = [host |-> Nothing, path |-> Nothing, query |-> g.query, npm |-> g.npm,
             sdist |-> g.sdist, vsix |-> g.vsix]
    BY <2>1, <2>2
  <2>4. Tagged(k)
    BY <2>2, <2>3 DEF Tagged, Tagging
  <2> QED BY <2>1, <2>4
<1> QED BY <1>1, <1>2, <1>3

(* One lemma for each action.                                                *)
LEMMA ConnectStep ==
  ASSUME RequestsInv, NEW c \in Conns, NEW host, Connect(c, host)
  PROVE  RequestsInv'
<1>0. ConnInv(c) /\ pc[c] = "closed"
  BY DEF RequestsInv, Connect
<1>1. Others(c)
  BY DEF Connect, Keep, Others, RequestsInv
<1>2. /\ pc'[c] = "open" /\ req'[c] = req[c] /\ looked'[c] = Nothing /\ sent'[c] = Silent
      /\ reply'[c].status \in {"none", "403"}
      /\ \A s \in Sinks : Listed(sent'[c][s], 1 + MaxBundled)
  BY <1>0, SilentListed DEF Connect, RequestsInv, ConnInv
<1>3. Tagged(handler'[c]) /\ opened'[c] = handler'[c]
  BY HandlersAre DEF Connect, Keep, RequestsInv
<1>4. Answered(c)'
  BY <1>2 DEF Answered
<1>5. ConnInv(c)'
  BY <1>0, <1>2, <1>3, <1>4 DEF ConnInv, Identity, Statuses, Tagged
<1> QED BY <1>1, <1>5, Frame

LEMMA CloseStep ==
  ASSUME RequestsInv, NEW c \in Conns, Close(c)
  PROVE  RequestsInv'
<1>0. ConnInv(c)
  BY DEF RequestsInv
<1>1. Others(c)
  BY DEF Close, Keep, Answer, Others, RequestsInv
<1>2. /\ pc'[c] = "closed" /\ req'[c] = req[c] /\ looked'[c] = Nothing /\ sent'[c] = Silent
      /\ reply'[c] = NoReply
      /\ \A s \in Sinks : Listed(sent'[c][s], 1 + MaxBundled)
  BY SilentListed DEF Close, Answer, RequestsInv
<1>3. handler'[c] = Handler /\ opened'[c] = Handler
  BY DEF Close, Keep, RequestsInv
<1>4. reply'[c].status = "none"
  BY <1>2 DEF NoReply, Reply
<1>5. Tagged(handler'[c]) /\ Tagged(opened'[c])
  BY <1>3, HandlersAre
<1>6. ConnInv(c)'
  BY <1>0, <1>2, <1>4, <1>5 DEF ConnInv, Identity, Statuses, Tagged
<1> QED BY <1>1, <1>6, Frame

LEMMA DeniedEarlyStep ==
  ASSUME RequestsInv, NEW c \in Conns, NEW r \in Requests, EgressDenied(c, r)
  PROVE  RequestsInv'
<1>0. ConnInv(c)
  BY DEF RequestsInv
<1>1. Others(c)
  BY DEF EgressDenied, Keep, Answer, Others, RequestsInv
<1>2. /\ pc'[c] \in {"closed", "open"} /\ req'[c] = r /\ looked'[c] = Nothing /\ sent'[c] = Silent
      /\ reply'[c] = Reply("403", NoArchive, "denied")
      /\ \A s \in Sinks : Listed(sent'[c][s], 1 + MaxBundled)
  BY SilentListed DEF EgressDenied, Answer, RequestsInv
<1>3. reply'[c].status = "403"
  <2>1. reply'[c] = Deny
    BY <1>2, Zenon DEF Deny
  <2> QED BY <2>1, AnswersAre, Zenon
<1>4. Tagged(handler'[c]) /\ opened'[c] = opened[c]
  <2>1. Tagged(Current(c))
    BY <1>0 DEF Current, ConnInv
  <2>2. handler'[c] = [Current(c) EXCEPT !.host = Nothing, !.path = Nothing] /\ opened'[c] = opened[c]
    BY DEF EgressDenied, Keep, RequestsInv
  <2> QED BY <2>1, <2>2, HandlersAre, Zenon
<1>5. Answered(c)'
  BY <1>2, <1>3 DEF Answered
<1>6. ConnInv(c)'
  BY <1>0, <1>2, <1>3, <1>4, <1>5 DEF ConnInv, Identity, Statuses, Tagged
<1> QED BY <1>1, <1>6, Frame

(* A request that is let through waits for its answer.                       *)
LEMMA Waits ==
  ASSUME RequestsInv, NEW c \in Conns, NEW r \in Requests, Others(c),
         pc'[c] = "upstream", req'[c] = r, looked'[c] = Nothing, dialled'[c] = r.host,
         opened'[c] = opened[c], reply'[c] = NoReply, Egress(r),
         Artifact(r) => r.doc.id \notin Refused,
         NEW S, sent'[c] = S, SentOnce(S, r),
         NEW g, handler'[c] = g, TagsMatch(g, r), Tagged(g)
  PROVE  RequestsInv'
<1>0. ConnInv(c) /\ config' = config
  BY DEF RequestsInv, Others
<1>1. SentOnce(sent[c], req[c])'
  BY <1>0 DEF SentOnce, SinksFor, HubExports, ValidEndpoint
<1>2. TagsMatch(handler[c], req[c])'
  BY <1>0 DEF TagsMatch, Gating
<1>3. Waiting(c)'
  BY <1>0, <1>1, <1>2 DEF Waiting, Egress
<1>4. \A s \in Sinks : Listed(sent'[c][s], 1 + MaxBundled)
  BY OnceListed
<1>5. reply'[c].status = "none"
  BY DEF NoReply, Reply
<1>6. Tagged(opened[c]) /\ Tagged(g)
  BY <1>0 DEF ConnInv
<1>7. ConnInv(c)'
  BY <1>3, <1>4, <1>5, <1>6 DEF ConnInv, Statuses, Tagged, Identity
<1> QED BY <1>7, Frame

LEMMA NotInterceptedStep ==
  ASSUME RequestsInv, NEW c \in Conns, NEW r \in Requests, NotIntercepted(c, r)
  PROVE  RequestsInv'
<1>1. Others(c)
  BY DEF NotIntercepted, Ask, Keep, Forward, Answer, Others, RequestsInv
<1>2. /\ pc'[c] = "upstream" /\ req'[c] = r /\ looked'[c] = Nothing /\ dialled'[c] = r.host
      /\ opened'[c] = opened[c] /\ reply'[c] = NoReply /\ handler'[c] = Handler
      /\ Egress(r) /\ ~ShouldIntercept(Hosts, r.host)
  BY DEF NotIntercepted, Ask, Keep, Forward, Answer, RequestsInv
<1>3. PICK S : S = LogGitFetch(Silent, r) /\ sent'[c] = S
  BY DEF NotIntercepted, RequestsInv
<1>4. config \in Configs
  BY DEF RequestsInv
<1>5. r.doc.form \notin PinnedForms /\ TagsMatch(Handler, r)
  BY <1>2, <1>4, HandlerMatches
<1>6. SentOnce(S, r)
  BY <1>2, <1>3, <1>4, <1>5, UnpinnedSends, Zenon
<1>7. Artifact(r) => r.doc.id \notin Refused
  BY <1>4, <1>5, NotRefused
<1> QED BY <1>1, <1>2, <1>3, <1>5, <1>6, <1>7, HandlersAre, Waits, Zenon

(* What an intercepted request leaves, whatever becomes of it.               *)
LEMMA InterceptedIs ==
  ASSUME RequestsInv, NEW c \in Conns, NEW r \in Requests, Intercepted(c, r)
  PROVE  /\ config \in Configs /\ ConnInv(c) /\ pc[c] = "open"
         /\ req'[c] = r /\ looked'[c] = Nothing /\ r.host = dialled[c]
         /\ Egress(r) /\ ShouldIntercept(Hosts, r.host)
         /\ TagsMatch(handler'[c], r) /\ Tagged(handler'[c])
         /\ r.doc.form \in PinnedForms => ParseForHost(Hosts, r.host, r.path) = r.doc.id
         /\ r.doc.form \notin PinnedForms => ParseForHost(Hosts, r.host, r.path) = Nothing
         /\ r.doc.id # Nothing
<1>1. config \in Configs /\ ConnInv(c)
  BY DEF RequestsInv
<1>2. /\ pc[c] = "open" /\ req'[c] = r /\ looked'[c] = Nothing /\ r.host = dialled[c]
      /\ Egress(r) /\ ShouldIntercept(Hosts, r.host)
  BY DEF Intercepted, Ask, RequestsInv
<1>3. PICK h, g : h = Current(c) /\ g = Tags(h, r) /\ handler'[c] = g
  BY DEF Intercepted, Keep, RequestsInv
<1>4. TagsMatch(g, r) /\ Tagged(g)
  BY <1>1, <1>3, TagsAre, Zenon
<1>5. /\ r.doc.form \in PinnedForms => ParseForHost(Hosts, r.host, r.path) = r.doc.id
      /\ r.doc.form \notin PinnedForms => ParseForHost(Hosts, r.host, r.path) = Nothing
      /\ r.doc.id # Nothing
  BY <1>1, Learnt, IdIs
<1> QED BY <1>1, <1>2, <1>3, <1>4, <1>5

LEMMA ForwardUnpinnedStep ==
  ASSUME RequestsInv, NEW c \in Conns, NEW r \in Requests, ForwardUnpinned(c, r)
  PROVE  RequestsInv'
<1>1. Others(c)
  BY DEF ForwardUnpinned, Intercepted, Ask, Keep, Forward, Answer, Others, RequestsInv
<1>2. Intercepted(c, r) /\ ParseForHost(Hosts, r.host, r.path) = Nothing
  BY DEF ForwardUnpinned
<1>3. PICK g : handler'[c] = g
  OBVIOUS
<1>4. /\ config \in Configs /\ req'[c] = r /\ looked'[c] = Nothing /\ r.host = dialled[c]
      /\ Egress(r) /\ ShouldIntercept(Hosts, r.host) /\ TagsMatch(g, r) /\ Tagged(g)
      /\ r.doc.form \notin PinnedForms
  BY <1>2, <1>3, InterceptedIs
<1>5. /\ pc'[c] = "upstream" /\ dialled'[c] = r.host /\ opened'[c] = opened[c] /\ reply'[c] = NoReply
  BY <1>4 DEF ForwardUnpinned, Forward, Answer, RequestsInv
<1>6. PICK S : S = LogVsix(LogGitFetch(Silent, r), r) /\ sent'[c] = S
  BY DEF ForwardUnpinned, RequestsInv
<1>7. SentOnce(S, r)
  BY <1>4, <1>6, UnpinnedSends, Zenon
<1>8. Artifact(r) => r.doc.id \notin Refused
  BY <1>4, NotRefused
<1> QED BY <1>1, <1>3, <1>4, <1>5, <1>6, <1>7, <1>8, Waits, Zenon

LEMMA ForwardAllowedStep ==
  ASSUME RequestsInv, NEW c \in Conns, NEW r \in Requests, ForwardAllowed(c, r)
  PROVE  RequestsInv'
<1>1. Others(c)
  BY DEF ForwardAllowed, Intercepted, Ask, Keep, Forward, Answer, Others, RequestsInv
<1>2. PICK id : /\ id = ParseForHost(Hosts, r.host, r.path) /\ Intercepted(c, r) /\ id # Nothing /\ id \notin Refused
                /\ sent' = [sent EXCEPT ![c] = Emit(LogVsix(LogGitFetch(Silent, r), r), Events(id, r), Sinks)]
  BY DEF ForwardAllowed
<1>3. PICK g : handler'[c] = g
  OBVIOUS
<1>4. /\ config \in Configs /\ req'[c] = r /\ looked'[c] = Nothing /\ r.host = dialled[c]
      /\ Egress(r) /\ ShouldIntercept(Hosts, r.host) /\ TagsMatch(g, r) /\ Tagged(g)
      /\ r.doc.form \in PinnedForms /\ id = r.doc.id
  BY <1>2, <1>3, InterceptedIs
<1>5. /\ pc'[c] = "upstream" /\ dialled'[c] = r.host /\ opened'[c] = opened[c] /\ reply'[c] = NoReply
  BY <1>4 DEF ForwardAllowed, Forward, Answer, RequestsInv
<1>6. PICK S : S = Emit(LogVsix(LogGitFetch(Silent, r), r), Events(id, r), Sinks) /\ sent'[c] = S
  BY <1>2 DEF RequestsInv
<1>7. SentOnce(S, r)
  BY <1>4, <1>6, PinnedSends, Zenon
<1>8. r.doc.id \notin Refused
  BY <1>2, <1>4, Zenon
<1> QED BY <1>1, <1>3, <1>4, <1>5, <1>6, <1>7, <1>8, Waits, Zenon

LEMMA DeniedStep ==
  ASSUME RequestsInv, NEW c \in Conns, NEW r \in Requests, Denied(c, r)
  PROVE  RequestsInv'
<1>1. Others(c)
  BY DEF Denied, Intercepted, Ask, Keep, Answer, Others, RequestsInv
<1>2. PICK id : id = ParseForHost(Hosts, r.host, r.path) /\ Intercepted(c, r) /\ id # Nothing
  BY DEF Denied
<1>3. PICK g : handler'[c] = g
  OBVIOUS
<1>4. /\ config \in Configs /\ ConnInv(c) /\ pc[c] = "open" /\ req'[c] = r /\ looked'[c] = Nothing /\ Tagged(g)
      /\ r.doc.form \in PinnedForms
  BY <1>2, <1>3, InterceptedIs
<1>5. pc'[c] = "open" /\ opened'[c] = opened[c]
  BY <1>4 DEF Denied
<1>6. reply'[c].status = "403"
  <2>1. reply'[c] = Reply("403", NoArchive, "denied")
    BY DEF Denied, Answer, RequestsInv
  <2>2. reply'[c] = Deny
    BY <2>1, Zenon DEF Deny
  <2> QED BY <2>2, AnswersAre, Zenon
<1>7. sent'[c] = Silent
  <2>1. sent'[c] = LogVsix(LogGitFetch(Silent, r), r)
    BY DEF Denied, RequestsInv
  <2> QED BY <1>4, <2>1, PinnedSends, Zenon
<1>8. \A s \in Sinks : Listed(sent'[c][s], 1 + MaxBundled)
  BY <1>7, SilentListed
<1>9. Answered(c)'
  BY <1>4, <1>6, <1>7 DEF Answered
<1>10. Tagged(opened[c])
  BY <1>4 DEF ConnInv
<1>11. ConnInv(c)'
  BY <1>3, <1>4, <1>5, <1>6, <1>8, <1>9, <1>10 DEF ConnInv, Statuses, Tagged, Identity
<1> QED BY <1>1, <1>11, Frame

-----------------------------------------------------------------------------
(* handle_response keeps the invariant.                                      *)

(* A function on 1..k is a sequence of at most n.                            *)
LEMMA FunctionListed ==
  ASSUME NEW k \in Nat, NEW n \in Nat, k <= n, NEW s, s = [j \in 1 .. k |-> s[j]]
  PROVE  Listed(s, n)
<1>1. PICK S : S = {s[j] : j \in 1 .. k}
  OBVIOUS
<1>2. s \in Seq(S) /\ Len(s) = k
  BY <1>1
<1> QED BY <1>2, Zenon DEF Listed

(* What is found in an extension is bounded, and so is what is recorded.     *)
LEMMA BundledListed ==
  ASSUME NEW b, NamesOnce(b)
  PROVE  /\ Listed(BundledEvents(b), MaxBundled)
         /\ Listed(WireEvents(BundledEvents(b)), MaxBundled)
<1> DEFINE found == InspectVsix(b).bundled
           all(I) == AtPositions(b.entries, I)
           I1 == {j \in DOMAIN b.entries : BundledManifest(b.entries[j])}
           bundled == UpTo(MaxBundled, all(I1))
           I2 == {j \in DOMAIN bundled : bundled[j].readable /\ bundled[j].package # <<>>}
           deps == AtPositions(bundled, I2)
<1>0. MaxBundled \in Nat
  BY LimitsAssumption
<1>1. \E k \in Nat : k <= MaxBundled /\ DOMAIN bundled = 1 .. k
  <2>1. Len(b.entries) \in Nat /\ I1 \subseteq 1 .. Len(b.entries)
    BY DEF NamesOnce
  <2> HIDE DEF I1
  <2>2. Cardinality(I1) \in Nat /\ Len(all(I1)) = Cardinality(I1)
    BY <2>1, PositionsBound, Zenon
  <2>3. PICK n, m : /\ n = Len(all(I1)) /\ m = (IF n < MaxBundled THEN n ELSE MaxBundled)
                    /\ bundled = SubSeq(all(I1), 1, m)
    BY Zenon DEF UpTo
  <2>4. m \in Nat /\ m <= MaxBundled
    BY <1>0, <2>2, <2>3
  <2>5. DOMAIN bundled = 1 .. m
    BY <2>3, <2>4
  <2> QED BY <2>4, <2>5
<1> HIDE DEF bundled
<1>2. \E k \in Nat : k <= MaxBundled /\ DOMAIN found = 1 .. k
  <2>1. PICK k \in Nat : k <= MaxBundled /\ DOMAIN bundled = 1 .. k
    BY <1>1
  <2>2. I2 \subseteq 1 .. k
    BY <2>1
  <2> HIDE DEF I2
  <2>3. /\ Cardinality(I2) \in Nat /\ Cardinality(I2) <= k /\ DOMAIN deps = 1 .. Cardinality(I2)
    BY <2>1, <2>2, PositionsBound, Zenon
  <2>4. found = <<>> \/ found = [j \in DOMAIN deps |-> deps[j].package]
    <3> USE DEF I2, bundled
    <3>1. InspectVsix(b) = Unreadable
          \/ \E says : InspectVsix(b) = [readable |-> TRUE, bundled |-> [j \in DOMAIN deps |-> deps[j].package],
                                         found |-> says]
      BY Zenon DEF InspectVsix
    <3>2. Unreadable.bundled = <<>>
      BY DEF Unreadable
    <3> HIDE DEF I2, bundled
    <3>3. CASE InspectVsix(b) = Unreadable
      BY <3>2, <3>3, Zenon
    <3>4. CASE InspectVsix(b) # Unreadable
      <4>1. PICK says, x : /\ InspectVsix(b) = [readable |-> TRUE, bundled |-> x, found |-> says]
                           /\ x = [j \in DOMAIN deps |-> deps[j].package]
        BY <3>1, <3>4, Zenon
      <4>2. found = x
        BY <4>1
      <4> QED BY <4>1, <4>2, Zenon
    <3> QED BY <3>3, <3>4
  <2>5. DOMAIN <<>> = 1 .. 0 /\ 0 \in Nat /\ 0 <= MaxBundled
    BY <1>0
  <2>6. Cardinality(I2) <= MaxBundled
    BY <1>0, <2>1, <2>3
  <2>7. CASE found = <<>>
    BY <2>5, <2>7, Zenon
  <2>8. CASE found = [j \in DOMAIN deps |-> deps[j].package]
    <3>1. DOMAIN found = 1 .. Cardinality(I2)
      BY <2>3, <2>8, Zenon
    <3> QED BY <2>3, <2>6, <3>1, Zenon
  <2> QED BY <2>4, <2>7, <2>8
<1>3. PICK k \in Nat : k <= MaxBundled /\ DOMAIN found = 1 .. k
  BY <1>2
<1> HIDE DEF found
<1>4. PICK f, I : /\ f = found /\ I = {i \in DOMAIN f : f[i][2] # <<>>}
                  /\ BundledEvents(b) = [i \in DOMAIN AtPositions(f, I) |->
                       Event(Id("npm", Name("", AtPositions(f, I)[i][1]), AtPositions(f, I)[i][2]), "unknown", Nothing)]
  BY Zenon DEF BundledEvents, found
<1>5. I \subseteq 1 .. k
  BY <1>3, <1>4
<1>6. Cardinality(I) \in Nat /\ Cardinality(I) <= k /\ DOMAIN AtPositions(f, I) = 1 .. Cardinality(I)
  BY <1>5, PositionsBound, Zenon
<1>7. Cardinality(I) <= MaxBundled
  BY <1>0, <1>3, <1>6
<1>8. PICK evs : evs = BundledEvents(b)
  OBVIOUS
<1>9. evs = [i \in 1 .. Cardinality(I) |-> evs[i]]
  BY <1>4, <1>6, <1>8, Zenon
<1>10. Listed(evs, MaxBundled)
  BY <1>0, <1>6, <1>7, <1>9, FunctionListed, Zenon
<1>11. Listed(WireEvents(evs), MaxBundled)
  <2>1. PICK J : /\ J = {i \in DOMAIN evs : MapEcosystem(evs[i].id.eco) # Nothing}
                 /\ WireEvents(evs) = [i \in DOMAIN AtPositions(evs, J) |->
                      [AtPositions(evs, J)[i] EXCEPT !.id.eco = MapEcosystem(@)]]
    BY Zenon DEF WireEvents
  <2>2. DOMAIN evs = 1 .. Cardinality(I)
    BY <1>9, Zenon
  <2>3. J \subseteq 1 .. Cardinality(I)
    BY <2>1, <2>2
  <2>4. /\ Cardinality(J) \in Nat /\ Cardinality(J) <= Cardinality(I)
        /\ DOMAIN AtPositions(evs, J) = 1 .. Cardinality(J)
    BY <1>6, <2>3, PositionsBound, Zenon
  <2>5. Cardinality(J) <= MaxBundled
    BY <1>0, <1>6, <1>7, <2>4
  <2>6. WireEvents(evs) = [i \in 1 .. Cardinality(J) |-> WireEvents(evs)[i]]
    BY <2>1, <2>4, Zenon
  <2> QED BY <1>0, <2>4, <2>5, <2>6, FunctionListed, Zenon
<1> QED BY <1>8, <1>10, <1>11, Zenon

(* Emit adds no more than it is given.                                       *)
LEMMA EmittedListed ==
  ASSUME NEW S, NEW evs, NEW m \in Nat, NEW n \in Nat, \A s \in Sinks : Listed(S[s], m),
         Listed(evs, n), Listed(WireEvents(evs), n)
  PROVE  \A s \in Sinks : Listed(Emit(S, evs, Sinks)[s], m + n)
<1> SUFFICES ASSUME NEW s \in Sinks PROVE Listed(Emit(S, evs, Sinks)[s], m + n)
  OBVIOUS
<1>1. Listed(S[s], m + n) /\ Listed(S[s] \o evs, m + n) /\ Listed(S[s] \o WireEvents(evs), m + n)
  <2>1. m + n \in Nat /\ m <= m + n
    OBVIOUS
  <2> QED BY <2>1, ListedMore, ListedConcat
<1>2. PICK x : x = Emit(S, evs, Sinks)[s]
  OBVIOUS
<1>3. x \in {Record(S[s], evs), ExportTo(S[s], evs), Ingest(S[s], evs)}
  BY <1>2 DEF Emit, Sinks
<1>4. \A y \in {Record(S[s], evs), ExportTo(S[s], evs), Ingest(S[s], evs)} :
         y \in {S[s], S[s] \o evs, S[s] \o WireEvents(evs)}
  BY DEF Record, ExportTo, Ingest
<1> QED BY <1>1, <1>2, <1>3, <1>4

(* An answer to a request that was let through.                              *)
LEMMA AnswerStep ==
  ASSUME RequestsInv, NEW c \in Conns, Others(c), pc[c] = "upstream", pc'[c] = "open",
         opened'[c] = opened[c], req'[c] = req[c], Tagged(handler'[c]),
         looked'[c] \in {Nothing, req[c].doc.id},
         NEW a, reply'[c] = a, a.status \in Statuses, a.status = "403" => looked'[c] # Nothing,
         \A s \in Sinks : Listed(sent'[c][s], 1 + MaxBundled),
         a.status = "2xx" =>
           /\ IF req[c].doc.form = "index" THEN looked'[c] = Nothing
              ELSE a.how \in {"as it came", "stripped", "cut short"}
           /\ config.policy \in {"block", "strip"} /\ ~req[c].query /\ req[c].doc.id.name \notin config.allow
                => MayPass(req[c].doc, a.body)
  PROVE  RequestsInv'
<1>1. config' = config /\ ConnInv(c)
  BY DEF RequestsInv, Others
<1>2. req[c] \in Requests /\ Tagged(opened[c]) /\ looked[c] \in Identity \cup {Nothing} /\ Waiting(c)
  BY <1>1 DEF ConnInv
<1>3. req[c].doc.id \in Identity
  BY <1>2, IdIs DEF RequestsInv
<1>4. Artifact(req[c]) => req[c].doc.id \notin Refused
  BY <1>2 DEF Waiting
<1>5. MayPass(req[c].doc, a.body) => MayPass(req[c].doc, reply[c].body)'
  BY <1>1 DEF MayPass
<1>6. Answered(c)'
  BY <1>1, <1>4, <1>5 DEF Answered, Artifact
<1>7. ConnInv(c)'
  BY <1>2, <1>3, <1>6 DEF ConnInv, Tagged, Identity
<1> QED BY <1>7, Frame

(* A field that is set holds what was asked for, and is reset by the look.   *)
LEMMA LookedAt ==
  ASSUME RequestsInv, NEW c \in Conns, pc[c] = "upstream", NEW t \in Tagging
  PROVE  /\ ConnInv(c) /\ Waiting(c) /\ TagsMatch(handler[c], req[c])
         /\ \A s \in Sinks : Listed(sent[c][s], 1)
         /\ handler[c][t] \in {Nothing, req[c].doc.id}
         /\ handler[c][t] # Nothing => req[c].doc.form # "index"
         /\ Tagged(handler[c])
<1>1. ConnInv(c) /\ Waiting(c)
  BY DEF RequestsInv, ConnInv
<1>2. TagsMatch(handler[c], req[c]) /\ SentOnce(sent[c], req[c])
  BY <1>1 DEF Waiting
<1>3. Tagged(handler[c])
  BY <1>1 DEF ConnInv
<1>4. \A s \in Sinks : Listed(sent[c][s], 1)
  BY <1>2 DEF SentOnce
<1> QED BY <1>1, <1>2, <1>3, <1>4 DEF TagsMatch, Artifact

(* Resetting a field leaves a handler.                                       *)
LEMMA TagReset ==
  ASSUME NEW g, Tagged(g)
  PROVE  /\ \A t \in Tagging : Tagged([g EXCEPT ![t] = Nothing])
         /\ Tagged([g EXCEPT !.npm = Nothing, !.sdist = Nothing, !.vsix = Nothing])
<1>1. /\ g = [host |-> g.host, path |-> g.path, query |-> g.query, npm |-> g.npm,
              sdist |-> g.sdist, vsix |-> g.vsix]
      /\ \A t \in Tagging : g[t] \in Identity \cup {Nothing}
  BY Zenon DEF Tagged
<1>2. ASSUME NEW n \in Identity \cup {Nothing}, NEW s \in Identity \cup {Nothing}, NEW v \in Identity \cup {Nothing},
             NEW k, k = [host |-> g.host, path |-> g.path, query |-> g.query, npm |-> n, sdist |-> s, vsix |-> v]
      PROVE  Tagged(k)
  BY <1>2 DEF Tagged, Tagging
<1>3. g.npm \in Identity \cup {Nothing} /\ g.sdist \in Identity \cup {Nothing} /\ g.vsix \in Identity \cup {Nothing}
  BY <1>1, Zenon DEF Tagging
<1>4. Tagged([g EXCEPT !["npm"] = Nothing])
  <2>1. PICK k : k = [g EXCEPT !["npm"] = Nothing]
    OBVIOUS
  <2>2. k = [host |-> g.host, path |-> g.path, query |-> g.query, npm |-> Nothing, sdist |-> g.sdist, vsix |-> g.vsix]
    BY <1>1, <2>1
  <2>3. Tagged(k)
    BY <1>2, <1>3, <2>2
  <2> QED BY <2>1, <2>3, Zenon
<1>5. Tagged([g EXCEPT !["sdist"] = Nothing])
  <2>1. PICK k : k = [g EXCEPT !["sdist"] = Nothing]
    OBVIOUS
  <2>2. k = [host |-> g.host, path |-> g.path, query |-> g.query, npm |-> g.npm, sdist |-> Nothing, vsix |-> g.vsix]
    BY <1>1, <2>1
  <2>3. Tagged(k)
    BY <1>2, <1>3, <2>2
  <2> QED BY <2>1, <2>3, Zenon
<1>6. Tagged([g EXCEPT !["vsix"] = Nothing])
  <2>1. PICK k : k = [g EXCEPT !["vsix"] = Nothing]
    OBVIOUS
  <2>2. k = [host |-> g.host, path |-> g.path, query |-> g.query, npm |-> g.npm, sdist |-> g.sdist, vsix |-> Nothing]
    BY <1>1, <2>1
  <2>3. Tagged(k)
    BY <1>2, <1>3, <2>2
  <2> QED BY <2>1, <2>3, Zenon
<1>7. Tagged([g EXCEPT !.npm = Nothing, !.sdist = Nothing, !.vsix = Nothing])
  <2>1. PICK k : k = [g EXCEPT !.npm = Nothing, !.sdist = Nothing, !.vsix = Nothing]
    OBVIOUS
  <2>2. k = [host |-> g.host, path |-> g.path, query |-> g.query, npm |-> Nothing, sdist |-> Nothing, vsix |-> Nothing]
    BY <1>1, <2>1
  <2> QED BY <1>2, <2>1, <2>2
<1> QED BY <1>4, <1>5, <1>6, <1>7 DEF Tagging

(* What nothing is run from.                                                 *)
LEMMA NothingToRun ==
  ASSUME NEW doc, doc.form \notin {"tgz", "sdist", "vsix"}, NEW b
  PROVE  MayPass(doc, b)
BY DEF MayPass, RunsOnInstall

(* What the gates answer.                                                    *)
LEMMA GatesAnswer ==
  ASSUME NEW b, NEW x, x \in {LifecycleNpm(b), LifecyclePypi(b), LifecycleVsix(b)}
  PROVE  /\ x.status \in {"2xx", "403"}
         /\ x.status = "2xx" => x.how \in {"as it came", "stripped"}
<1>1. x \in {Deny, AsItCame(b), Reply("2xx", Stripped(b), "stripped")}
  <2>1. LifecycleNpm(b) \in {Deny, AsItCame(b), Reply("2xx", Stripped(b), "stripped")}
    BY Zenon DEF LifecycleNpm, StripFailed
  <2>2. LifecyclePypi(b) \in {Deny, AsItCame(b)}
    BY Zenon DEF LifecyclePypi
  <2>3. LifecycleVsix(b) \in {Deny, AsItCame(b)}
    BY Zenon DEF LifecycleVsix
  <2> QED BY <2>1, <2>2, <2>3
<1>2. /\ Deny.status = "403" /\ Deny.how = "denied"
      /\ AsItCame(b).status = "2xx" /\ AsItCame(b).how = "as it came"
      /\ Reply("2xx", Stripped(b), "stripped").status = "2xx"
      /\ Reply("2xx", Stripped(b), "stripped").how = "stripped"
  BY DEF Deny, AsItCame, Reply
<1> QED BY <1>1, <1>2, Zenon

(* The gates.                                                                *)
LEMMA GateNpmStep ==
  ASSUME RequestsInv, NEW c \in Conns, NEW b, NamesOnce(b), GateNpm(c, b)
  PROVE  RequestsInv'
<1>1. Others(c)
  BY DEF GateNpm, Ends, Look, Keep, Answer, Others, RequestsInv
<1>2. /\ pc[c] = "upstream" /\ pc'[c] = "open" /\ opened'[c] = opened[c] /\ req'[c] = req[c]
      /\ Gating /\ handler[c].npm # Nothing /\ sent'[c] = sent[c]
      /\ looked'[c] = handler[c]["npm"] /\ handler'[c] = [handler[c] EXCEPT !["npm"] = Nothing]
  BY DEF GateNpm, Ends, Look, Keep, RequestsInv
<1>3. PICK x : x = LifecycleNpm(b) /\ reply'[c] = x
  BY DEF GateNpm, Answer, RequestsInv
<1>4. "npm" \in Tagging
  BY DEF Tagging
<1>5. /\ TagsMatch(handler[c], req[c]) /\ Tagged(handler[c]) /\ looked'[c] = req[c].doc.id /\ looked'[c] # Nothing
      /\ req[c].doc.form # "index" /\ \A s \in Sinks : Listed(sent[c][s], 1)
  BY <1>2, <1>4, LookedAt
<1>6. Tagged(handler'[c])
  <2>1. PICK g : g = handler[c]
    OBVIOUS
  <2>2. \A t \in Tagging : Tagged([g EXCEPT ![t] = Nothing])
    BY <1>5, <2>1, TagReset, Zenon
  <2> QED BY <1>2, <1>4, <2>1, <2>2
<1>7. \A s \in Sinks : Listed(sent'[c][s], 1 + MaxBundled)
  <2>1. 1 \in Nat /\ 1 + MaxBundled \in Nat /\ 1 <= 1 + MaxBundled
    BY LimitsAssumption
  <2> QED BY <1>2, <1>5, <2>1, ListedMore
<1>8. /\ x.status \in {"2xx", "403"}
      /\ x.status = "2xx" => x.how \in {"as it came", "stripped"}
  BY <1>3, GatesAnswer, Zenon
<1>9. ASSUME x.status = "2xx", config.policy \in {"block", "strip"}, ~req[c].query,
             req[c].doc.id.name \notin config.allow
      PROVE  MayPass(req[c].doc, x.body)
  <2>1. req[c].doc.form \notin {"sdist", "vsix"}
    BY <1>2, <1>5, <1>9 DEF TagsMatch
  <2>2. CASE req[c].doc.form = "tgz"
    <3>1. config \in Configs
      BY DEF RequestsInv
    <3>2. PICK doc : doc = req[c].doc
      OBVIOUS
    <3>3. LifecycleNpm(b).status = "2xx"
      BY <1>3, <1>9, Zenon
    <3>4. MayPass(doc, LifecycleNpm(b).body)
      BY <1>9, <2>2, <3>1, <3>2, <3>3, NpmGate
    <3> QED BY <1>3, <3>2, <3>4, Zenon
  <2>3. CASE req[c].doc.form # "tgz"
    BY <2>1, <2>3, NothingToRun
  <2> QED BY <2>2, <2>3
<1>10. x.status \in Statuses
  BY <1>8 DEF Statuses
<1>11. x.status = "2xx" => x.how \in {"as it came", "stripped", "cut short"}
  BY <1>8
<1>12. looked'[c] \in {Nothing, req[c].doc.id}
  BY <1>5
<1> QED BY <1>1, <1>2, <1>3, <1>5, <1>6, <1>7, <1>9, <1>10, <1>11, <1>12, AnswerStep

LEMMA GateSdistStep ==
  ASSUME RequestsInv, NEW c \in Conns, NEW b, NamesOnce(b), GateSdist(c, b)
  PROVE  RequestsInv'
<1>1. Others(c)
  BY DEF GateSdist, Ends, Look, Keep, Answer, Others, RequestsInv
<1>2. /\ pc[c] = "upstream" /\ pc'[c] = "open" /\ opened'[c] = opened[c] /\ req'[c] = req[c]
      /\ Gating /\ handler[c].npm = Nothing /\ handler[c].sdist # Nothing /\ sent'[c] = sent[c]
      /\ looked'[c] = handler[c]["sdist"] /\ handler'[c] = [handler[c] EXCEPT !["sdist"] = Nothing]
  BY DEF GateSdist, Ends, Look, Keep, RequestsInv
<1>3. PICK x : x = LifecyclePypi(b) /\ reply'[c] = x
  BY DEF GateSdist, Answer, RequestsInv
<1>4. "sdist" \in Tagging
  BY DEF Tagging
<1>5. /\ TagsMatch(handler[c], req[c]) /\ Tagged(handler[c]) /\ looked'[c] = req[c].doc.id /\ looked'[c] # Nothing
      /\ req[c].doc.form # "index" /\ \A s \in Sinks : Listed(sent[c][s], 1)
  BY <1>2, <1>4, LookedAt
<1>6. Tagged(handler'[c])
  <2>1. PICK g : g = handler[c]
    OBVIOUS
  <2>2. \A t \in Tagging : Tagged([g EXCEPT ![t] = Nothing])
    BY <1>5, <2>1, TagReset, Zenon
  <2> QED BY <1>2, <1>4, <2>1, <2>2
<1>7. \A s \in Sinks : Listed(sent'[c][s], 1 + MaxBundled)
  <2>1. 1 \in Nat /\ 1 + MaxBundled \in Nat /\ 1 <= 1 + MaxBundled
    BY LimitsAssumption
  <2> QED BY <1>2, <1>5, <2>1, ListedMore
<1>8. /\ x.status \in {"2xx", "403"}
      /\ x.status = "2xx" => x.how \in {"as it came", "stripped"}
  BY <1>3, GatesAnswer, Zenon
<1>9. ASSUME x.status = "2xx", config.policy \in {"block", "strip"}, ~req[c].query,
             req[c].doc.id.name \notin config.allow
      PROVE  MayPass(req[c].doc, x.body)
  <2>0. req[c].doc.id # Nothing
    BY <1>5
  <2>1. req[c].doc.form \notin {"tgz", "vsix"}
    BY <1>2, <1>5, <1>9, <2>0 DEF TagsMatch
  <2>2. CASE req[c].doc.form = "sdist"
    <3>2. PICK doc : doc = req[c].doc
      OBVIOUS
    <3>3. LifecyclePypi(b).status = "2xx"
      BY <1>3, <1>9, Zenon
    <3>4. MayPass(doc, LifecyclePypi(b).body)
      BY <1>9, <2>2, <3>2, <3>3, SdistGate
    <3> QED BY <1>3, <3>2, <3>4, Zenon
  <2>3. CASE req[c].doc.form # "sdist"
    BY <2>1, <2>3, NothingToRun
  <2> QED BY <2>2, <2>3
<1>10. x.status \in Statuses
  BY <1>8 DEF Statuses
<1>11. x.status = "2xx" => x.how \in {"as it came", "stripped", "cut short"}
  BY <1>8
<1>12. looked'[c] \in {Nothing, req[c].doc.id}
  BY <1>5
<1> QED BY <1>1, <1>2, <1>3, <1>5, <1>6, <1>7, <1>9, <1>10, <1>11, <1>12, AnswerStep

LEMMA GateVsixStep ==
  ASSUME RequestsInv, NEW c \in Conns, NEW b, NamesOnce(b), GateVsix(c, b)
  PROVE  RequestsInv'
<1>1. Others(c)
  BY DEF GateVsix, Ends, Look, Keep, Answer, Others, RequestsInv
<1>2. /\ pc[c] = "upstream" /\ pc'[c] = "open" /\ opened'[c] = opened[c] /\ req'[c] = req[c]
      /\ Gating /\ handler[c].npm = Nothing /\ handler[c].sdist = Nothing /\ handler[c].vsix # Nothing
      /\ sent'[c] = Emit(sent[c], BundledEvents(b), Sinks)
      /\ looked'[c] = handler[c]["vsix"] /\ handler'[c] = [handler[c] EXCEPT !["vsix"] = Nothing]
  BY DEF GateVsix, Ends, Look, Keep, RequestsInv
<1>3. PICK x : x = LifecycleVsix(b) /\ reply'[c] = x
  BY DEF GateVsix, Answer, RequestsInv
<1>4. "vsix" \in Tagging
  BY DEF Tagging
<1>5. /\ TagsMatch(handler[c], req[c]) /\ Tagged(handler[c]) /\ looked'[c] = req[c].doc.id /\ looked'[c] # Nothing
      /\ req[c].doc.form # "index" /\ \A s \in Sinks : Listed(sent[c][s], 1)
  BY <1>2, <1>4, LookedAt
<1>6. Tagged(handler'[c])
  <2>1. PICK g : g = handler[c]
    OBVIOUS
  <2>2. \A t \in Tagging : Tagged([g EXCEPT ![t] = Nothing])
    BY <1>5, <2>1, TagReset, Zenon
  <2> QED BY <1>2, <1>4, <2>1, <2>2
<1>7. \A s \in Sinks : Listed(sent'[c][s], 1 + MaxBundled)
  <2>1. 1 \in Nat /\ MaxBundled \in Nat
    BY LimitsAssumption
  <2>2. PICK S, evs : S = sent[c] /\ evs = BundledEvents(b)
    OBVIOUS
  <2>3. Listed(evs, MaxBundled) /\ Listed(WireEvents(evs), MaxBundled)
    BY <2>2, BundledListed, Zenon
  <2>4. \A s \in Sinks : Listed(Emit(S, evs, Sinks)[s], 1 + MaxBundled)
    BY <1>5, <2>1, <2>2, <2>3, EmittedListed, Zenon
  <2> QED BY <1>2, <2>2, <2>4, Zenon
<1>8. /\ x.status \in {"2xx", "403"}
      /\ x.status = "2xx" => x.how \in {"as it came", "stripped"}
  BY <1>3, GatesAnswer, Zenon
<1>9. ASSUME x.status = "2xx", config.policy \in {"block", "strip"}, ~req[c].query,
             req[c].doc.id.name \notin config.allow
      PROVE  MayPass(req[c].doc, x.body)
  <2>0. req[c].doc.id # Nothing
    BY <1>5
  <2>1. req[c].doc.form \notin {"tgz", "sdist"}
    BY <1>2, <1>5, <1>9, <2>0 DEF TagsMatch
  <2>2. CASE req[c].doc.form = "vsix"
    <3>2. PICK doc : doc = req[c].doc
      OBVIOUS
    <3>3. LifecycleVsix(b).status = "2xx"
      BY <1>3, <1>9, Zenon
    <3>4. MayPass(doc, LifecycleVsix(b).body)
      BY <1>9, <2>2, <3>2, <3>3, VsixGate
    <3> QED BY <1>3, <3>2, <3>4, Zenon
  <2>3. CASE req[c].doc.form # "vsix"
    BY <2>1, <2>3, NothingToRun
  <2> QED BY <2>2, <2>3
<1>10. x.status \in Statuses
  BY <1>8 DEF Statuses
<1>11. x.status = "2xx" => x.how \in {"as it came", "stripped", "cut short"}
  BY <1>8
<1>12. looked'[c] \in {Nothing, req[c].doc.id}
  BY <1>5
<1> QED BY <1>1, <1>2, <1>3, <1>5, <1>6, <1>7, <1>9, <1>10, <1>11, <1>12, AnswerStep

(* What the answer finds that is not looked into.                            *)
LEMMA LeftAlone ==
  ASSUME RequestsInv, NEW c \in Conns, Ends(c), UNCHANGED <<sent, looked>>
  PROVE  /\ pc[c] = "upstream" /\ pc'[c] = "open" /\ opened'[c] = opened[c] /\ req'[c] = req[c]
         /\ config \in Configs /\ req[c] \in Requests /\ TagsMatch(handler[c], req[c]) /\ Tagged(handler[c])
         /\ looked'[c] = Nothing
         /\ \A s \in Sinks : Listed(sent'[c][s], 1 + MaxBundled)
<1>1. /\ pc[c] = "upstream" /\ pc'[c] = "open" /\ opened'[c] = opened[c] /\ req'[c] = req[c]
      /\ looked'[c] = looked[c] /\ sent'[c] = sent[c]
  BY DEF Ends, RequestsInv
<1>2. config \in Configs /\ ConnInv(c)
  BY DEF RequestsInv
<1>3. Waiting(c) /\ req[c] \in Requests /\ Tagged(handler[c]) /\ \A s \in Sinks : Listed(sent[c][s], 1 + MaxBundled)
  BY <1>1, <1>2 DEF ConnInv
<1> QED BY <1>1, <1>2, <1>3 DEF Waiting

(* Nothing that runs is asked for when no field is set.                      *)
LEMMA UntaggedRuns ==
  ASSUME NEW c, Untagged(c), TagsMatch(handler[c], req[c]), config.policy \in {"block", "strip"},
         ~req[c].query, req[c].doc.id.name \notin config.allow, req[c].doc.id # Nothing, NEW b
  PROVE  MayPass(req[c].doc, b)
<1>1. Gating
  BY DEF Gating
<1>2. handler[c].npm = Nothing /\ handler[c].sdist = Nothing /\ handler[c].vsix = Nothing
  BY <1>1 DEF Untagged
<1>3. req[c].doc.form \notin {"tgz", "sdist", "vsix"}
  BY <1>1, <1>2 DEF TagsMatch
<1> QED BY <1>3, NothingToRun

(* Only an index has a rewriter.                                             *)
LEMMA TargetsAreIndexes ==
  ASSUME config \in Configs, NEW c, req[c] \in Requests, TagsMatch(handler[c], req[c]), Target(c) # Nothing
  PROVE  req[c].doc.form = "index"
<1>1. PICK h, r : h = handler[c] /\ r = req[c] /\ r \in Requests
  OBVIOUS
<1>2. h.host # Nothing /\ Target(c) = RewriteTarget(Hosts, h.host, h.path)
  BY <1>1, Zenon DEF Target
<1>3. h.host = r.host /\ h.path = r.path
  BY <1>1, <1>2 DEF TagsMatch
<1>4. RewriteTarget(Hosts, r.host, r.path) # Nothing
  BY <1>2, <1>3, Zenon
<1> QED BY <1>1, <1>4, Aimed, Zenon

(* The fields of the other answers.                                          *)
LEMMA OtherAnswers ==
  /\ \A b, t : Reply("2xx", b, t).status = "2xx"
  /\ Reply("404", NoArchive, "as it came").status = "404"
  /\ /\ Reply("2xx", NoArchive, "cut short").status = "2xx"
     /\ Reply("2xx", NoArchive, "cut short").body = NoArchive
     /\ Reply("2xx", NoArchive, "cut short").how = "cut short"
BY DEF Reply

LEMMA UnchangedStep ==
  ASSUME RequestsInv, NEW c \in Conns, NEW b, Unchanged(c, b)
  PROVE  RequestsInv'
<1>1. Others(c)
  BY DEF Unchanged, Ends, Answer, Others, RequestsInv
<1>2. /\ Ends(c) /\ UNCHANGED <<sent, looked>> /\ Untagged(c) /\ handler'[c] = handler[c]
  BY DEF Unchanged
<1>3. PICK x : x = AsItCame(b) /\ reply'[c] = x
  BY DEF Unchanged, Answer, RequestsInv
<1>4. x.status = "2xx" /\ x.body = b /\ x.how = "as it came"
  BY <1>3, AnswersAre, Zenon
<1>5. x.status \in Statuses /\ x.status # "403" /\ x.how \in {"as it came", "stripped", "cut short"}
  BY <1>4 DEF Statuses
<1>6. /\ pc[c] = "upstream" /\ pc'[c] = "open" /\ opened'[c] = opened[c] /\ req'[c] = req[c]
      /\ config \in Configs /\ req[c] \in Requests /\ TagsMatch(handler[c], req[c]) /\ Tagged(handler[c])
      /\ looked'[c] = Nothing
      /\ \A s \in Sinks : Listed(sent'[c][s], 1 + MaxBundled)
  BY <1>2, LeftAlone
<1>7. req[c].doc.id # Nothing
  BY <1>6, IdIs
<1>8. config.policy \in {"block", "strip"} /\ ~req[c].query /\ req[c].doc.id.name \notin config.allow
        => MayPass(req[c].doc, x.body)
  BY <1>2, <1>6, <1>7, UntaggedRuns
<1>9. Tagged(handler'[c]) /\ looked'[c] \in {Nothing, req[c].doc.id}
  BY <1>2, <1>6
<1> QED BY <1>1, <1>3, <1>5, <1>6, <1>8, <1>9, AnswerStep

LEMMA RewriteStep ==
  ASSUME RequestsInv, NEW c \in Conns, NEW b, NEW plain \in BOOLEAN, Rewrite(c, b, plain)
  PROVE  RequestsInv'
<1>1. Others(c)
  BY DEF Rewrite, Ends, Answer, Others, RequestsInv
<1>2. /\ Ends(c) /\ UNCHANGED <<sent, looked>> /\ Untagged(c) /\ handler'[c] = handler[c]
      /\ Target(c) # Nothing
  BY DEF Rewrite
<1>3. PICK x, t : x = (IF plain THEN Reply("2xx", b, t) ELSE AsItCame(b)) /\ reply'[c] = x
  <2>1. reply'[c] = (IF plain THEN Reply("2xx", b, Target(c)) ELSE AsItCame(b))
    BY DEF Rewrite, Answer, RequestsInv
  <2> QED BY <2>1, Zenon
<1>4. x.status = "2xx"
  <2>1. CASE plain
    <3>1. x = Reply("2xx", b, t)
      BY <1>3, <2>1
    <3> QED BY <3>1, OtherAnswers, Zenon
  <2>2. CASE ~plain
    <3>1. x = AsItCame(b)
      BY <1>3, <2>2
    <3> QED BY <3>1, AnswersAre, Zenon
  <2> QED BY <2>1, <2>2
<1>5. x.status \in Statuses /\ x.status # "403"
  BY <1>4 DEF Statuses
<1>6. /\ pc[c] = "upstream" /\ pc'[c] = "open" /\ opened'[c] = opened[c] /\ req'[c] = req[c]
      /\ config \in Configs /\ req[c] \in Requests /\ TagsMatch(handler[c], req[c]) /\ Tagged(handler[c])
      /\ looked'[c] = Nothing
      /\ \A s \in Sinks : Listed(sent'[c][s], 1 + MaxBundled)
  BY <1>2, LeftAlone
<1>7. req[c].doc.id # Nothing /\ req[c].doc.form = "index"
  BY <1>2, <1>6, IdIs, TargetsAreIndexes
<1>8. config.policy \in {"block", "strip"} /\ ~req[c].query /\ req[c].doc.id.name \notin config.allow
        => MayPass(req[c].doc, x.body)
  BY <1>2, <1>6, <1>7, UntaggedRuns
<1>9. Tagged(handler'[c]) /\ looked'[c] \in {Nothing, req[c].doc.id}
  BY <1>2, <1>6
<1> QED BY <1>1, <1>3, <1>5, <1>6, <1>7, <1>8, <1>9, AnswerStep

LEMMA NotFoundStep ==
  ASSUME RequestsInv, NEW c \in Conns, NotFound(c)
  PROVE  RequestsInv'
<1>1. Others(c)
  BY DEF NotFound, Ends, Keep, Answer, Others, RequestsInv
<1>2. Ends(c) /\ UNCHANGED <<sent, looked>>
  BY DEF NotFound
<1>3. PICK x : x = Reply("404", NoArchive, "as it came") /\ reply'[c] = x
  BY DEF NotFound, Answer, RequestsInv
<1>4. x.status = "404"
  BY <1>3, OtherAnswers, Zenon
<1>5. x.status \in Statuses /\ x.status # "403" /\ x.status # "2xx"
  BY <1>4 DEF Statuses
<1>6. /\ pc[c] = "upstream" /\ pc'[c] = "open" /\ opened'[c] = opened[c] /\ req'[c] = req[c]
      /\ Tagged(handler[c])
      /\ looked'[c] = Nothing
      /\ \A s \in Sinks : Listed(sent'[c][s], 1 + MaxBundled)
  BY <1>2, LeftAlone
<1>7. Tagged(handler'[c])
  <2>1. PICK g : g = handler[c]
    OBVIOUS
  <2>2. Tagged([g EXCEPT !.npm = Nothing, !.sdist = Nothing, !.vsix = Nothing])
    BY <1>6, <2>1, TagReset, Zenon
  <2>3. handler'[c] = g \/ handler'[c] = [g EXCEPT !.npm = Nothing, !.sdist = Nothing, !.vsix = Nothing]
    BY <2>1 DEF NotFound, Keep, RequestsInv
  <2> QED BY <1>6, <2>1, <2>2, <2>3, Zenon
<1> QED BY <1>1, <1>3, <1>5, <1>6, <1>7, AnswerStep

LEMMA BodyBreaksStep ==
  ASSUME RequestsInv, NEW c \in Conns, BodyBreaks(c)
  PROVE  RequestsInv'
<1>1. Others(c)
  BY DEF BodyBreaks, Ends, Keep, Answer, Others, RequestsInv
<1>2. Ends(c) /\ UNCHANGED <<sent, looked>>
  BY DEF BodyBreaks
<1>3. PICK x : x = Reply("2xx", NoArchive, "cut short") /\ reply'[c] = x
  BY DEF BodyBreaks, Answer, RequestsInv
<1>4. x.status = "2xx" /\ x.body = NoArchive /\ x.how = "cut short"
  BY <1>3, OtherAnswers, Zenon
<1>5. x.status \in Statuses /\ x.status # "403" /\ x.how \in {"as it came", "stripped", "cut short"}
  BY <1>4 DEF Statuses
<1>6. /\ pc[c] = "upstream" /\ pc'[c] = "open" /\ opened'[c] = opened[c] /\ req'[c] = req[c]
      /\ Tagged(handler[c])
      /\ looked'[c] = Nothing
      /\ \A s \in Sinks : Listed(sent'[c][s], 1 + MaxBundled)
  BY <1>2, LeftAlone
<1>7. Tagged(handler'[c])
  <2>1. PICK g : g = handler[c]
    OBVIOUS
  <2>2. \A t \in Tagging : Tagged([g EXCEPT ![t] = Nothing])
    BY <1>6, <2>1, TagReset, Zenon
  <2>3. handler'[c] = g \/ \E t \in Tagging : handler'[c] = [g EXCEPT ![t] = Nothing]
    BY <2>1 DEF BodyBreaks, Keep, RequestsInv, Tagging
  <2> QED BY <1>6, <2>1, <2>2, <2>3, Zenon
<1>8. MayPass(req[c].doc, x.body)
  BY <1>4, NothingRuns, Zenon
<1> QED BY <1>1, <1>3, <1>5, <1>6, <1>7, <1>8, AnswerStep

LEMMA UpstreamFailsStep ==
  ASSUME RequestsInv, NEW c \in Conns, UpstreamFails(c)
  PROVE  RequestsInv'
<1>1. Others(c)
  BY DEF UpstreamFails, Ends, Answer, Others, RequestsInv
<1>2. Ends(c) /\ UNCHANGED <<sent, looked>> /\ handler'[c] = handler[c]
  BY DEF UpstreamFails
<1>3. PICK x : x = Reply("502", NoArchive, "failed") /\ reply'[c] = x
  BY DEF UpstreamFails, Answer, RequestsInv
<1>4. x.status = "502"
  BY <1>3 DEF Reply
<1>5. x.status \in Statuses /\ x.status # "403" /\ x.status # "2xx"
  BY <1>4 DEF Statuses
<1>6. /\ pc[c] = "upstream" /\ pc'[c] = "open" /\ opened'[c] = opened[c] /\ req'[c] = req[c]
      /\ Tagged(handler[c])
      /\ looked'[c] = Nothing
      /\ \A s \in Sinks : Listed(sent'[c][s], 1 + MaxBundled)
  BY <1>2, LeftAlone
<1> QED BY <1>1, <1>2, <1>3, <1>5, <1>6, AnswerStep

-----------------------------------------------------------------------------
(* The theorems.                                                             *)

(* The initial states, and every step.                                       *)
LEMMA RequestsInitInv ==
  ASSUME RequestsInit
  PROVE  RequestsInv
<1> SUFFICES ASSUME NEW c \in Conns PROVE ConnInv(c)
  BY DEF RequestsInit, RequestsInv
<1>1. /\ pc[c] = "closed" /\ looked[c] = Nothing /\ sent[c] = Silent /\ reply[c] = NoReply
      /\ handler[c] = Handler /\ opened[c] = Handler /\ req[c] = CHOOSE r \in Requests : TRUE
  BY DEF RequestsInit
<1>2. req[c] \in Requests
  BY <1>1, RequestsAssumption
<1>3. reply[c].status = "none"
  BY <1>1 DEF NoReply, Reply
<1>4. \A s \in Sinks : Listed(sent[c][s], 1 + MaxBundled)
  BY <1>1, SilentListed
<1>5. Tagged(handler[c]) /\ Tagged(opened[c])
  BY <1>1, HandlersAre
<1> QED BY <1>1, <1>2, <1>3, <1>4, <1>5 DEF ConnInv, Statuses

LEMMA RequestsStep ==
  ASSUME RequestsInv, [RequestsNext]_requestVars
  PROVE  RequestsInv'
<1>1. CASE UNCHANGED requestVars
  <2>1. \A c \in Conns : ConnInv(c)'
    <3> SUFFICES ASSUME NEW c \in Conns PROVE ConnInv(c)'
      OBVIOUS
    <3>1. ConnInv(c)
      BY DEF RequestsInv
    <3>2. /\ config' = config /\ pc'[c] = pc[c] /\ dialled'[c] = dialled[c] /\ handler'[c] = handler[c]
          /\ opened'[c] = opened[c] /\ req'[c] = req[c] /\ sent'[c] = sent[c] /\ looked'[c] = looked[c]
          /\ reply'[c] = reply[c]
      BY <1>1 DEF requestVars
    <3> QED BY <3>1, <3>2, ConnKept
  <2> QED BY <1>1, <2>1 DEF RequestsInv, requestVars
<1>2. CASE RequestsNext
  <2>1. PICK c \in Conns :
          \/ \E r \in Requests :
               \/ Connect(c, r.host)
               \/ EgressDenied(c, r)
               \/ NotIntercepted(c, r)
               \/ ForwardUnpinned(c, r)
               \/ ForwardAllowed(c, r)
               \/ Denied(c, r)
          \/ Close(c)
          \/ \E a \in Bodies(c) :
               \/ GateNpm(c, a.body) \/ GateSdist(c, a.body) \/ GateVsix(c, a.body)
               \/ Unchanged(c, a.body)
               \/ \E plain \in BOOLEAN : Rewrite(c, a.body, plain)
          \/ NotFound(c)
          \/ BodyBreaks(c)
          \/ UpstreamFails(c)
    BY <1>2 DEF RequestsNext
  <2>2. ASSUME NEW r \in Requests, Connect(c, r.host)
        PROVE  RequestsInv'
    BY <2>2, ConnectStep
  <2>3. ASSUME NEW r \in Requests,
               \/ EgressDenied(c, r) \/ NotIntercepted(c, r) \/ ForwardUnpinned(c, r)
               \/ ForwardAllowed(c, r) \/ Denied(c, r)
        PROVE  RequestsInv'
    BY <2>3, DeniedEarlyStep, NotInterceptedStep, ForwardUnpinnedStep, ForwardAllowedStep, DeniedStep
  <2>4. ASSUME NEW a \in Bodies(c),
               \/ GateNpm(c, a.body) \/ GateSdist(c, a.body) \/ GateVsix(c, a.body)
               \/ Unchanged(c, a.body)
               \/ \E plain \in BOOLEAN : Rewrite(c, a.body, plain)
        PROVE  RequestsInv'
    <3>1. a \in Archives
      BY DEF Bodies
    <3>2. NamesOnce(a.body)
      BY <3>1, ArchivesNameOnce
    <3> QED BY <2>4, <3>2, GateNpmStep, GateSdistStep, GateVsixStep, UnchangedStep, RewriteStep
  <2>5. CASE Close(c)
    BY <2>5, CloseStep
  <2>6. CASE NotFound(c) \/ BodyBreaks(c) \/ UpstreamFails(c)
    BY <2>6, NotFoundStep, BodyBreaksStep, UpstreamFailsStep
  <2> QED BY <2>1, <2>2, <2>3, <2>4, <2>5, <2>6
<1> QED BY <1>1, <1>2

(* The handler's fields are those that the request in flight has set.        *)
THEOREM RequestsAlways == RequestsSpec => []RequestsInv
<1>2. RequestsInit => RequestsInv
  BY RequestsInitInv
<1>3. RequestsInv /\ [RequestsNext]_requestVars => RequestsInv'
  BY RequestsStep
<1> QED BY <1>2, <1>3, PTL DEF RequestsSpec

(* Every variable keeps its type, and what is recorded of a request is       *)
(* bounded.                                                                  *)
THEOREM RequestsTyped == RequestsSpec => []RequestsTypeOK
<1>1. RequestsInv => RequestsTypeOK
  BY InvGivesTypes
<1> QED BY <1>1, RequestsAlways, PTL

(* handle_response treats an answer as what was asked for: an archive is     *)
(* looked into under the identity of the request in flight, whatever earlier *)
(* requests have left in the handler, and neither an archive nor an index is *)
(* taken for the other.                                                      *)
THEOREM RequestsAnswered == RequestsSpec => []AnsweredAsItself
<1>1. RequestsInv => AnsweredAsItself
  BY InvGivesAnswers
<1> QED BY <1>1, RequestsAlways, PTL

(* What the proxy is to keep out stays out: refused versions, indexes that   *)
(* are not filtered, install hooks that could be seen, and hosts outside the *)
(* allow-list.                                                               *)
THEOREM RequestsKeptOut == RequestsSpec => []KeptOut
<1>1. RequestsInv => KeptOut
  BY InvGivesKeptOut
<1> QED BY <1>1, RequestsAlways, PTL

(* Each sink that is on gets one record of an install that is let through,   *)
(* whether or not another sink fails, and none of one that is refused.       *)
THEOREM RequestsRecorded == RequestsSpec => []InstallsAreRecordedOnce
<1>1. RequestsInv => InstallsAreRecordedOnce
  BY InvGivesRecords
<1> QED BY <1>1, RequestsAlways, PTL
=============================================================================
