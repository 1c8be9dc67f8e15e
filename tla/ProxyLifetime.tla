---------------------------- MODULE ProxyLifetime ---------------------------
(* How proxies come up and go: the root CA they share in a directory (ca.rs),*)
(* its entry in the trust store (install.rs), the service manager that starts*)
(* a proxy again (daemon.rs), and the action that runs one for a job         *)
(* (proxy/main.js, proxy/post.js).                                           *)
(*                                                                           *)
(* Several processes may use one directory: `proxy start`, `install-ca` and  *)
(* the service.  A pair of certificate and key is known by the number under  *)
(* which it was generated, so that two files belong together when they hold  *)
(* the same number.  Writing a file takes two steps: it is empty in between. *)
EXTENDS Naturals, FiniteSets

CONSTANTS
  Procs,        \* processes that need the CA
  Installers,   \* those of them that run install-ca, as root
  Supervised,   \* those a service manager starts again
  Child,        \* the one that main.js starts
  Dirs, Dir,    \* the directory of each
  Ports, Port,  \* the address each listens on
  Absent, Torn, \* a file that is missing, one that is not written to its end
  Nobody,       \* the owner of a free port, and of no port
  MaxDeaths     \* bound on crashes and I/O errors

ASSUME ProcsAssumption ==
  /\ Installers \subseteq Procs /\ Supervised \subseteq Procs \ Installers
  /\ Child \in Procs \ (Installers \cup Supervised)
  /\ Dir \in [Procs -> Dirs] /\ Port \in [Procs -> Ports]
  /\ \A p \in Procs \ {Child} : Dir[p] # Dir[Child]
ASSUME ValuesAssumption ==
  Absent \notin Nat /\ Torn \notin Nat /\ Absent # Torn /\ Nobody \notin Procs
ASSUME MaxDeathsAssumption == MaxDeaths \in Nat

VARIABLES
  cert, key,    \* what the two files of each directory hold
  made,         \* the pairs generated so far
  at,           \* where each process is
  has,          \* the certificate and the key it holds
  listener,     \* who listens on each port
  store,        \* the certificate in the trust store
  job,          \* how far the job is
  deaths,
  raced         \* directories in which two first runs have overlapped

files == <<cert, key>>
vars == <<cert, key, made, at, has, listener, store, job, deaths, raced>>

Contents == Nat \cup {Absent, Torn}
Writing == {"cert", "cert open", "key", "key open", "chmod"}
Reading == {"read cert", "read key"}
Running == Writing \cup Reading \cup {"start", "loaded", "listening"}
Holding == [cert : Contents, key : Contents]

Empty == [cert |-> Absent, key |-> Absent]

Inside(d) == {p \in Procs : Dir[p] = d /\ at[p] \in Writing \cup Reading}
Generating(d) == {p \in Procs : Dir[p] = d /\ at[p] \in Writing}

Init ==
  /\ \E old \in [Dirs -> {0, Absent}] :
       old[Dir[Child]] = Absent /\ cert = old /\ key = old
  /\ made = 0
  /\ at = [p \in Procs |-> "off"]
  /\ has = [p \in Procs |-> Empty]
  /\ listener = [o \in Ports |-> Nobody]
  /\ store = Absent
  /\ job = "before"
  /\ deaths = 0
  /\ raced = {}

Goes(p, from, to) == at[p] = from /\ at' = [at EXCEPT ![p] = to]

-----------------------------------------------------------------------------
(* Wrong variants of definitions below.                                      *)

\* Write the certificate only where there is none, and keep what is there.
CertIfMissing(p) ==
  /\ Goes(p, "cert", IF cert[Dir[p]] = Absent THEN "cert open" ELSE "key")
  /\ cert' = [cert EXCEPT ![Dir[p]] = IF @ = Absent THEN Torn ELSE @]
  /\ UNCHANGED <<key, made, has, listener, store, job, deaths, raced>>

\* Generate on every start.
AlwaysNew(d) == FALSE

\* Wait for the certificate to appear, not for the port.
WaitForFile ==
  /\ job = "waiting" /\ cert[Dir[Child]] # Absent
  /\ job' = "up"
  /\ UNCHANGED <<cert, key, made, at, has, listener, store, deaths, raced>>

\* Wait for the port as long as it takes.
NoDeadline == FALSE /\ UNCHANGED vars

-----------------------------------------------------------------------------
(* ensure_ca.  The two checks of exists() are one step.                      *)

Exists(d) == cert[d] # Absent /\ key[d] # Absent

Reuse(p) ==
  /\ Exists(Dir[p])
  /\ Goes(p, "start", "read cert")
  /\ raced' = IF Generating(Dir[p]) # {} THEN raced \cup {Dir[p]} ELSE raced
  /\ UNCHANGED <<cert, key, made, has, listener, store, job, deaths>>

ReadCert(p) ==
  /\ Goes(p, "read cert", "read key")
  /\ has' = [has EXCEPT ![p].cert = cert[Dir[p]]]
  /\ UNCHANGED <<cert, key, made, listener, store, job, deaths, raced>>

ReadKey(p) ==
  /\ Goes(p, "read key", "loaded")
  /\ has' = [has EXCEPT ![p].key = key[Dir[p]]]
  /\ UNCHANGED <<cert, key, made, listener, store, job, deaths, raced>>

Generate(p) ==
  /\ ~Exists(Dir[p])
  /\ Goes(p, "start", "cert")
  /\ made' = made + 1
  /\ has' = [has EXCEPT ![p] = [cert |-> made + 1, key |-> made + 1]]
  /\ raced' = IF Inside(Dir[p]) # {} THEN raced \cup {Dir[p]} ELSE raced
  /\ UNCHANGED <<cert, key, listener, store, job, deaths>>

OpenCert(p) ==
  /\ Goes(p, "cert", "cert open")
  /\ cert' = [cert EXCEPT ![Dir[p]] = Torn]
  /\ UNCHANGED <<key, made, has, listener, store, job, deaths, raced>>

WriteCert(p) ==
  /\ Goes(p, "cert open", "key")
  /\ cert' = [cert EXCEPT ![Dir[p]] = has[p].cert]
  /\ UNCHANGED <<key, made, has, listener, store, job, deaths, raced>>

OpenKey(p) ==
  /\ Goes(p, "key", "key open")
  /\ key' = [key EXCEPT ![Dir[p]] = Torn]
  /\ UNCHANGED <<cert, made, has, listener, store, job, deaths, raced>>

WriteKey(p) ==
  /\ Goes(p, "key open", "chmod")
  /\ key' = [key EXCEPT ![Dir[p]] = has[p].key]
  /\ UNCHANGED <<cert, made, has, listener, store, job, deaths, raced>>

Chmod(p) ==
  /\ Goes(p, "chmod", "loaded")
  /\ UNCHANGED <<cert, key, made, has, listener, store, job, deaths, raced>>

-----------------------------------------------------------------------------
(* proxy start and install-ca, after ensure_ca.                              *)

(* What the options say goes to the requests (ProxyRequests).               *)
Launch(p) ==
  /\ p # Child
  /\ Goes(p, "off", "start")
  /\ UNCHANGED <<cert, key, made, has, listener, store, job, deaths, raced>>

(* run() parses what it holds; that the two belong together is not looked at.*)
Parses(p) == Torn \notin {has[p].cert, has[p].key}
              /\ Absent \notin {has[p].cert, has[p].key}

Listen(p) ==
  /\ p \notin Installers
  /\ Parses(p) /\ listener[Port[p]] = Nobody
  /\ Goes(p, "loaded", "listening")
  /\ listener' = [listener EXCEPT ![Port[p]] = p]
  /\ UNCHANGED <<cert, key, made, has, store, job, deaths, raced>>

Refuse(p) ==
  /\ p \notin Installers
  /\ ~Parses(p) \/ listener[Port[p]] # Nobody
  /\ Goes(p, "loaded", "dead")
  /\ has' = [has EXCEPT ![p] = Empty]
  /\ UNCHANGED <<cert, key, made, listener, store, job, deaths, raced>>

(* install_ca copies the file, not what ensure_ca has returned.              *)
Trust(p) ==
  /\ p \in Installers
  /\ Goes(p, "loaded", "done")
  /\ store' = cert[Dir[p]]
  /\ has' = [has EXCEPT ![p] = Empty]
  /\ UNCHANGED <<cert, key, made, listener, job, deaths, raced>>

Stopped(p) == [o \in Ports |-> IF listener[o] = p THEN Nobody ELSE listener[o]]

(* A crash, or an I/O error that ends the process.                           *)
Die(p) ==
  /\ deaths < MaxDeaths /\ at[p] \in Running
  /\ at' = [at EXCEPT ![p] = "dead"]
  /\ listener' = Stopped(p)
  /\ deaths' = deaths + 1
  /\ has' = [has EXCEPT ![p] = Empty]
  /\ UNCHANGED <<cert, key, made, store, job, raced>>

(* Restart=on-failure, KeepAlive, RestartOnFailure.                          *)
Restart(p) ==
  /\ p \in Supervised
  /\ Goes(p, "dead", "start")
  /\ UNCHANGED <<cert, key, made, has, listener, store, job, deaths, raced>>

-----------------------------------------------------------------------------
(* The action.  A job that is cancelled stops main.js where it is; post.js   *)
(* runs in any case, and finds the proxy through the environment that        *)
(* main.js exports when all has gone well.                                   *)

JobUnchanged == UNCHANGED <<cert, key, made, has, listener, store, deaths, raced>>

Spawn ==
  /\ job = "before" /\ job' = "waiting"
  /\ Goes(Child, "off", "start")
  /\ JobUnchanged

(* The binary cannot be had or cannot be started.                            *)
NotSpawned ==
  /\ job = "before" /\ job' = "failed"
  /\ UNCHANGED at /\ JobUnchanged

ProbeAnswered ==
  /\ job = "waiting" /\ listener[Port[Child]] # Nobody
  /\ job' = "up"
  /\ UNCHANGED at /\ JobUnchanged

DeadlinePasses ==
  /\ job = "waiting" /\ listener[Port[Child]] = Nobody
  /\ job' = "failed"
  /\ UNCHANGED at /\ JobUnchanged

(* A CA that is missing fails the action.                                    *)
Export ==
  /\ job = "up"
  /\ job' = IF cert[Dir[Child]] = Absent THEN "failed" ELSE "ready"
  /\ UNCHANGED at /\ JobUnchanged

Cancelled ==
  /\ job \in {"waiting", "up"}
  /\ job' = "failed"
  /\ UNCHANGED at /\ JobUnchanged

(* The process post.js ends: the one in the pid file.                        *)
Killed(p) == p = Child /\ at[p] \in Running

PostStops ==
  /\ job = "ready" /\ job' = "stopped"
  /\ at' = [p \in Procs |-> IF Killed(p) THEN "dead" ELSE at[p]]
  /\ listener' = [o \in Ports |-> IF listener[o] \in Procs /\ Killed(listener[o])
                                 THEN Nobody ELSE listener[o]]
  /\ cert' = [cert EXCEPT ![Dir[Child]] = Absent]
  /\ key' = [key EXCEPT ![Dir[Child]] = Absent]
  /\ has' = [has EXCEPT ![Child] = Empty]
  /\ UNCHANGED <<made, store, deaths, raced>>

PostFindsNothing ==
  /\ job = "failed" /\ job' = "over"
  /\ UNCHANGED at /\ JobUnchanged

-----------------------------------------------------------------------------
EnsureCa(p) ==
  \/ Reuse(p) \/ ReadCert(p) \/ ReadKey(p) \/ Generate(p) \/ OpenCert(p)
  \/ WriteCert(p) \/ OpenKey(p) \/ WriteKey(p) \/ Chmod(p)

Advance(p) == EnsureCa(p) \/ Listen(p) \/ Refuse(p) \/ Trust(p) \/ Restart(p)
Main == Spawn \/ ProbeAnswered \/ DeadlinePasses \/ Export
Post == PostStops \/ PostFindsNothing

Next ==
  \/ \E p \in Procs : Launch(p) \/ Advance(p) \/ Die(p)
  \/ Main \/ NotSpawned \/ Cancelled \/ Post

(* Processes run, the service manager restarts, and the runner takes a job   *)
(* to its end; nobody has to start anything, and nothing has to fail.        *)
Fairness ==
  /\ \A p \in Procs : WF_vars(Advance(p))
  /\ WF_vars(Main) /\ WF_vars(Post)

Spec == Init /\ [][Next]_vars
FairSpec == Spec /\ Fairness

-----------------------------------------------------------------------------
TypeOK ==
  /\ cert \in [Dirs -> Contents] /\ key \in [Dirs -> Contents]
  /\ made \in Nat /\ deaths \in 0..MaxDeaths
  /\ at \in [Procs -> Running \cup {"off", "dead", "done"}]
  /\ has \in [Procs -> Holding]
  /\ listener \in [Ports -> Procs \cup {Nobody}]
  /\ \A o \in Ports : listener[o] # Nobody =>
       at[listener[o]] = "listening" /\ Port[listener[o]] = o
  /\ store \in Contents
  /\ job \in {"before", "waiting", "up", "ready", "failed", "stopped", "over"}
  /\ raced \subseteq Dirs

(* A proxy that listens signs with a key that belongs to its certificate,    *)
(* whatever crash has come between the two files before; only first runs     *)
(* that overlap in one directory can mix two pairs.                          *)
ServedPairMatches ==
  \A p \in Procs :
    at[p] = "listening" => has[p].cert = has[p].key \/ Dir[p] \in raced

(* A CA that is complete is reused: no later start, crash or installation    *)
(* changes it.  Only the job's own directory goes, with the job.             *)
CompleteIsKept ==
  [][\A d \in Dirs :
       /\ cert[d] \in Nat /\ key[d] = cert[d] /\ d \notin raced'
       /\ ~(d = Dir[Child] /\ job' = "stopped")
       => cert'[d] = cert[d] /\ key'[d] = key[d]]_vars

(* The certificate in the trust store is the one a proxy of that directory   *)
(* presents: install-ca and the proxy agree, whichever has come first.       *)
TrustedIsServed ==
  \A p \in Procs, i \in Installers :
    /\ at[p] = "listening" /\ at[i] = "done" /\ Dir[i] = Dir[p] /\ Dir[p] \notin raced
    => store = has[p].cert

(* The certificate and the key that are in use, wherever they have been      *)
(* read, belong together: served pairs, and the pair that is trusted.        *)
CaAgrees == ServedPairMatches /\ TrustedIsServed

(* When main.js reports ready, what answers on the address is the proxy it   *)
(* has started, with the CA it has exported, as long as that proxy lives.    *)
ReadyIsTheChild ==
  job = "ready" =>
    \/ at[Child] = "dead"
    \/ /\ listener[Port[Child]] = Child
       /\ has[Child].cert = cert[Dir[Child]]

(* A job that was told its proxy is ready leaves neither it nor its files.   *)
NothingLeftOfJob ==
  job = "stopped" =>
    /\ at[Child] \notin Running
    /\ \A o \in Ports : listener[o] # Child
    /\ cert[Dir[Child]] = Absent /\ key[Dir[Child]] = Absent

(* The job's proxy is its own from ready to the end, and gone after it.      *)
(* proxy/main.js:345, proxy/post.js:20                                       *)
JobIsServed == ReadyIsTheChild /\ NothingLeftOfJob

(* The job reaches its end, and the service is up again after its last       *)
(* failure, unless a crash has left a file that no start repairs or somebody *)
(* else has the port.                                                        *)
JobEnds == job = "waiting" ~> job \in {"stopped", "over"}
ServiceComesBack ==
  \A p \in Supervised :
    at[p] = "dead" ~> \/ at[p] = "listening"
                      \/ Torn \in {cert[Dir[p]], key[Dir[p]]}
                      \/ listener[Port[p]] \notin {Nobody, p}

(* Both, for the starts that nobody waits for by hand.                       *)
ComesBack == JobEnds /\ ServiceComesBack
=============================================================================
