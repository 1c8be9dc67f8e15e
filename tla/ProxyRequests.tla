---------------------------- MODULE ProxyRequests ---------------------------
(* How sakimori-proxy handles the requests of a connection: the allow-list   *)
(* of hosts, the record of installs and where it is sent, the decision on a  *)
(* pinned version, the gates that look into archives, and the rewriting of   *)
(* index documents (SakimoriHandler of proxy.rs).  The handler keeps what    *)
(* handle_request has learnt in fields that handle_response reads.  The      *)
(* decision itself is module Vetting, the cache of stripped tarballs module  *)
(* StripPipeline.                                                            *)
(*                                                                           *)
(* A request says what it asks for (doc); the code sees only its host, its   *)
(* path and its User-Agent.                                                  *)
EXTENDS RegistryLayout, Inspection

CONSTANTS
  Conns,        \* connections of clients
  Configs,      \* how the proxy may be started
  Requests,     \* what clients ask for
  Archives,     \* what a registry may answer with
  Refused,      \* the identities the decider denies
  Malicious     \* the bundled npm packages the known-bad source lists

Sinks == {"log", "otlp", "hub"}

(* The NoArchive of a body that is not one.                                  *)
NoArchive == Archive("other", FALSE, <<>>)
Statuses == {"none", "2xx", "404", "403", "502"}
Reply(status, body, how) == [status |-> status, body |-> body, how |-> how]
NoReply == Reply("none", NoArchive, "none")

Handler == [host |-> Nothing, path |-> Nothing, query |-> FALSE, npm |-> Nothing,
            sdist |-> Nothing, vsix |-> Nothing]

ASSUME ConfigsAssumption ==
  \A cf \in Configs :
    /\ cf.policy \in {"off", "audit", "block", "strip"}
    /\ cf.onFailure \in {"block", "passthrough"}
    /\ cf.clones \in {"connection", "request"}
    /\ {cf.logging, cf.unwritable, cf.otlp, cf.knownBad, cf.token} \subseteq BOOLEAN
    /\ cf.url.scheme \in {"", "http", "https", "other"}
    /\ {cf.file, cf.extra} \subseteq [Lists -> SUBSET Host]
    /\ \A p \in cf.egress : p.wild \in BOOLEAN /\ p.host \in Seq(STRING)
ASSUME RequestsAssumption ==
  /\ Requests # {}
  /\ \A r \in Requests, cf \in Configs : WellFormed(r, Merge(cf.file, cf.extra))
  /\ \A id \in Refused : id.eco \in {"crates", "npm", "pypi", "nuget"}
  /\ Nothing \notin Ecosystems \cup {"cargo"}
(* An archive names a file once.                                             *)
ASSUME ArchivesAssumption ==
  \A a \in Archives :
    /\ a.body = Archive(a.body.format, a.body.large, a.body.entries)
    /\ a.body.entries \in Seq(ArchiveEntry)
    /\ \A i, j \in DOMAIN a.body.entries :
         LET d == a.body.entries[i]
             e == a.body.entries[j]
         IN d.depth = 2 /\ e.depth = 2 /\ d.name = e.name => i = j

VARIABLES
  config,
  pc,          \* "closed", "open" or "upstream"
  dialled,     \* the host the connection is for
  handler,     \* the fields last_* of the connection's handler
  opened,      \* the handler as CONNECT left it: what a clone starts from
  req,         \* the request being handled
  sent,        \* what it has put into each sink
  looked,      \* the identity under which the last answer was looked into
  reply

requestVars == <<config, pc, dialled, handler, opened, req, sent, looked, reply>>

Hosts == Merge(config.file, config.extra)
Gating == config.policy # "off"

(* validate_endpoint; the exporter needs the token as well.                  *)
ValidEndpoint(url) ==
  url.scheme \in {"http", "https"} /\ url.host /\ ~url.userinfo /\ ~url.control
HubExports == ValidEndpoint(config.url) /\ config.token

(* hudsucker gives the connection a handler and may clone it for each        *)
(* request; a clone starts from what CONNECT left.                           *)
Current(c) == IF config.clones = "connection" THEN handler[c] ELSE opened[c]

-----------------------------------------------------------------------------
(* Records of installs.                                                      *)

Event(id, mode, commit) == [id |-> id, mode |-> mode, commit |-> commit]

(* The hub calls crates.io cargo and knows no git.                           *)
MapEcosystem(eco) ==
  CASE eco = "crates" -> "cargo" [] eco = "git" -> Nothing [] OTHER -> eco

WireEvents(evs) ==
  LET known == AtPositions(evs, {i \in DOMAIN evs : MapEcosystem(evs[i].id.eco) # Nothing})
  IN [i \in DOMAIN known |-> [known[i] EXCEPT !.id.eco = MapEcosystem(@)]]

(* What a list of events adds to each sink; one that cannot be written or is *)
(* off is left as it is.                                                     *)
Record(old, evs) == IF config.logging /\ ~config.unwritable THEN old \o evs ELSE old
ExportTo(old, evs) == IF config.otlp THEN old \o evs ELSE old
Ingest(old, evs) == IF HubExports THEN old \o WireEvents(evs) ELSE old

\* A wrong variant of Emit: give up on the other sinks when the file fails.
EmitUntilFailure(old, evs, to) ==
  IF config.logging /\ config.unwritable THEN old
  ELSE [s \in Sinks |->
     IF s \notin to THEN old[s]
     ELSE CASE s = "log" -> Record(old[s], evs)
            [] s = "otlp" -> ExportTo(old[s], evs)
            [] s = "hub" -> Ingest(old[s], evs)]

(* The sinks in "to" are tried in turn; one that fails does not stop the     *)
(* others.                                                                   *)
Emit(old, evs, to) ==
  [s \in Sinks |->
     IF s \notin to THEN old[s]
     ELSE CASE s = "log" -> Record(old[s], evs)
            [] s = "otlp" -> ExportTo(old[s], evs)
            [] s = "hub" -> Ingest(old[s], evs)]

Silent == [s \in Sinks |-> <<>>]
Events(id, r) == <<Event(id, ExecutionMode(r.ua), Nothing)>>

LogGitFetch(old, r) ==
  LET fetch == ClassifyGit(r.host, r.path)
  IN IF (config.logging \/ config.otlp) /\ fetch # Nothing
     THEN Emit(old, <<Event(fetch.id, ExecutionMode(r.ua), fetch.commit)>>, {"log", "otlp"})
     ELSE old

VsixOf(r) ==
  IF HostIn(Hosts, "vscode_marketplace", r.host) THEN ParseVsixDownloadPath(r.path) ELSE Nothing

LogVsix(old, r) ==
  IF VsixOf(r) # Nothing THEN Emit(old, Events(VsixOf(r), r), {"log", "otlp"}) ELSE old

-----------------------------------------------------------------------------
(* Wrong variants of definitions below.                                      *)

\* Leave the tags of the request before where this one sets none.
TagsKept(h, r) ==
  LET id == ParseForHost(Hosts, r.host, r.path)
      tag(eco) == Gating /\ id # Nothing /\ id.eco = eco /\ id.name \notin config.allow
      vsix == IF Gating /\ VsixOf(r) # Nothing /\ VsixOf(r).name \notin config.allow
              THEN VsixOf(r) ELSE h.vsix
  IN [host |-> r.host, path |-> r.path, query |-> r.query,
      npm |-> IF tag("npm") THEN id ELSE h.npm,
      sdist |-> IF tag("pypi") /\ PathIsPypiSdist(r.path, r.query) THEN id ELSE h.sdist,
      vsix |-> vsix]

-----------------------------------------------------------------------------
(* handle_request.                                                           *)

(* What an intercepted request leaves in the handler.                        *)
Tags(h, r) ==
  LET id == ParseForHost(Hosts, r.host, r.path)
      tag(eco) == Gating /\ id # Nothing /\ id.eco = eco /\ id.name \notin config.allow
      vsix == IF Gating /\ VsixOf(r) # Nothing /\ VsixOf(r).name \notin config.allow
              THEN VsixOf(r) ELSE Nothing
  IN [host |-> r.host, path |-> r.path, query |-> r.query,
      npm |-> IF tag("npm") THEN id ELSE Nothing,
      sdist |-> IF tag("pypi") /\ PathIsPypiSdist(r.path, r.query) THEN id ELSE Nothing,
      vsix |-> vsix]

Answer(c, r) == reply' = [reply EXCEPT ![c] = r]
Keep(c, h) == handler' = [handler EXCEPT ![c] = h]
Ask(c, r) ==
  /\ pc[c] = "open" /\ r.host = dialled[c]
  /\ req' = [req EXCEPT ![c] = r]
  /\ looked' = [looked EXCEPT ![c] = Nothing]
Egress(r) == Allows(config.egress, r.host)

(* A connection opens with CONNECT, which goes through handle_request too:   *)
(* it has a host and no path.                                                *)
Connect(c, h) ==
  /\ pc[c] = "closed" /\ Allows(config.egress, h)
  /\ pc' = [pc EXCEPT ![c] = "open"]
  /\ dialled' = [dialled EXCEPT ![c] = h]
  /\ Keep(c, IF ShouldIntercept(Hosts, h)
             THEN [Handler EXCEPT !.host = h, !.path = <<>>] ELSE Handler)
  /\ opened' = [opened EXCEPT ![c] = handler'[c]]
  /\ UNCHANGED <<config, req, sent, looked, reply>>

Close(c) ==
  /\ pc[c] = "open"
  /\ pc' = [pc EXCEPT ![c] = "closed"]
  /\ Keep(c, Handler)
  /\ opened' = [opened EXCEPT ![c] = Handler]
  /\ sent' = [sent EXCEPT ![c] = Silent]
  /\ looked' = [looked EXCEPT ![c] = Nothing]
  /\ Answer(c, NoReply)
  /\ UNCHANGED <<config, dialled, req>>

(* The allow-list refuses before anything else is looked at.  The tags stay. *)
EgressDenied(c, r) ==
  /\ pc[c] = "closed" \/ (pc[c] = "open" /\ r.host = dialled[c])
  /\ ~Egress(r)
  /\ req' = [req EXCEPT ![c] = r]
  /\ looked' = [looked EXCEPT ![c] = Nothing]
  /\ Keep(c, [Current(c) EXCEPT !.host = Nothing, !.path = Nothing])
  /\ sent' = [sent EXCEPT ![c] = Silent]
  /\ Answer(c, Reply("403", NoArchive, "denied"))
  /\ UNCHANGED <<config, pc, dialled, opened>>

Forward(c) ==
  /\ pc' = [pc EXCEPT ![c] = "upstream"]
  /\ Answer(c, NoReply)
  /\ UNCHANGED <<config, dialled, opened>>

NotIntercepted(c, r) ==
  /\ Ask(c, r) /\ Egress(r) /\ ~ShouldIntercept(Hosts, r.host)
  /\ Keep(c, Handler)
  /\ sent' = [sent EXCEPT ![c] = LogGitFetch(Silent, r)]
  /\ Forward(c)

Intercepted(c, r) ==
  /\ Ask(c, r) /\ Egress(r) /\ ShouldIntercept(Hosts, r.host)
  /\ Keep(c, Tags(Current(c), r))

(* Everything that pins no version goes on, a .vsix included.                *)
ForwardUnpinned(c, r) ==
  /\ Intercepted(c, r)
  /\ ParseForHost(Hosts, r.host, r.path) = Nothing
  /\ sent' = [sent EXCEPT ![c] = LogVsix(LogGitFetch(Silent, r), r)]
  /\ Forward(c)

ForwardAllowed(c, r) ==
  LET id == ParseForHost(Hosts, r.host, r.path)
  IN /\ Intercepted(c, r)
     /\ id # Nothing /\ id \notin Refused
     /\ sent' = [sent EXCEPT ![c] = Emit(LogVsix(LogGitFetch(Silent, r), r),
                                         Events(id, r), Sinks)]
     /\ Forward(c)

Denied(c, r) ==
  LET id == ParseForHost(Hosts, r.host, r.path)
  IN /\ Intercepted(c, r)
     /\ id # Nothing /\ id \in Refused
     /\ sent' = [sent EXCEPT ![c] = LogVsix(LogGitFetch(Silent, r), r)]
     /\ Answer(c, Reply("403", NoArchive, "denied"))
     /\ UNCHANGED <<config, pc, dialled, opened>>

-----------------------------------------------------------------------------
(* handle_response.                                                          *)

AsItCame(b) == Reply("2xx", b, "as it came")
Deny == Reply("403", NoArchive, "denied")

StripFailed(b) == IF config.onFailure = "block" THEN Deny ELSE AsItCame(b)

LifecycleNpm(b) ==
  LET scripted == "script" \in InspectNpmTarball(b).found
  IN IF ~scripted \/ config.policy = "audit" THEN AsItCame(b)
     ELSE IF config.policy = "block" THEN Deny
     ELSE CASE StripNpmTarball(b) = "stripped" -> Reply("2xx", Stripped(b), "stripped")
            [] StripNpmTarball(b) = "nothing to strip" -> AsItCame(b)
            [] OTHER -> StripFailed(b)

(* Strip does not rewrite sdists and blocks them.                            *)
LifecyclePypi(b) ==
  IF config.policy # "audit" /\ "setup.py" \in InspectPypiSdist(b).found
  THEN Deny ELSE AsItCame(b)

LifecycleVsix(b) ==
  LET seen == InspectVsix(b)
      bad  == config.knownBad /\ \E i \in DOMAIN seen.bundled : seen.bundled[i] \in Malicious
  IN IF config.policy # "audit" /\ (bad \/ seen.found \cap {"high", "startup"} # {})
     THEN Deny ELSE AsItCame(b)

(* What an extension bundles is recorded whatever becomes of the extension.  *)
BundledEvents(b) ==
  LET found == InspectVsix(b).bundled
      deps == AtPositions(found, {i \in DOMAIN found : found[i][2] # <<>>})
  IN [i \in DOMAIN deps |-> Event(Id("npm", Name("", deps[i][1]), deps[i][2]),
                                  "unknown", Nothing)]

Ends(c) ==
  /\ pc[c] = "upstream"
  /\ pc' = [pc EXCEPT ![c] = "open"]
  /\ UNCHANGED <<config, dialled, opened, req>>

Look(c, field) ==
  /\ looked' = [looked EXCEPT ![c] = handler[c][field]]
  /\ Keep(c, [handler[c] EXCEPT ![field] = Nothing])

GateNpm(c, b) ==
  /\ Ends(c) /\ Gating /\ handler[c].npm # Nothing
  /\ Look(c, "npm")
  /\ Answer(c, LifecycleNpm(b))
  /\ UNCHANGED sent

GateSdist(c, b) ==
  /\ Ends(c) /\ Gating /\ handler[c].npm = Nothing /\ handler[c].sdist # Nothing
  /\ Look(c, "sdist")
  /\ Answer(c, LifecyclePypi(b))
  /\ UNCHANGED sent

GateVsix(c, b) ==
  /\ Ends(c) /\ Gating
  /\ handler[c].npm = Nothing /\ handler[c].sdist = Nothing /\ handler[c].vsix # Nothing
  /\ Look(c, "vsix")
  /\ sent' = [sent EXCEPT ![c] = Emit(@, BundledEvents(b), Sinks)]
  /\ Answer(c, LifecycleVsix(b))

Untagged(c) ==
  ~Gating \/ (handler[c].npm = Nothing /\ handler[c].sdist = Nothing
              /\ handler[c].vsix = Nothing)

Target(c) ==
  IF handler[c].host = Nothing \/ handler[c].path = Nothing THEN Nothing
  ELSE RewriteTarget(Hosts, handler[c].host, handler[c].path)

(* An index document goes through its rewriter (module Vetting) unless it is *)
(* encoded or, for a Simple index, of another media type.                    *)
Rewrite(c, b, plain) ==
  /\ Ends(c) /\ Untagged(c) /\ Target(c) # Nothing
  /\ Answer(c, IF plain THEN Reply("2xx", b, Target(c)) ELSE AsItCame(b))
  /\ UNCHANGED <<handler, sent, looked>>

Unchanged(c, b) ==
  /\ Ends(c) /\ Untagged(c) /\ Target(c) = Nothing
  /\ Answer(c, AsItCame(b))
  /\ UNCHANGED <<handler, sent, looked>>

(* Any other status passes; the tags have been taken when it is looked at.   *)
NotFound(c) ==
  /\ Ends(c)
  /\ Keep(c, IF Gating THEN [handler[c] EXCEPT !.npm = Nothing, !.sdist = Nothing,
                                               !.vsix = Nothing] ELSE handler[c])
  /\ Answer(c, Reply("404", NoArchive, "as it came"))
  /\ UNCHANGED <<sent, looked>>

(* The body breaks off where it has to be buffered: an empty one goes out.   *)
BodyBreaks(c) ==
  /\ Ends(c)
  /\ LET h == handler[c]
         field == IF h.npm # Nothing THEN "npm" ELSE IF h.sdist # Nothing THEN "sdist" ELSE "vsix"
     IN Keep(c, IF Untagged(c) THEN h ELSE [h EXCEPT ![field] = Nothing])
  /\ ~Untagged(c) \/ Target(c) # Nothing
  /\ Answer(c, Reply("2xx", NoArchive, "cut short"))
  /\ UNCHANGED <<sent, looked>>

(* The registry cannot be reached: hudsucker answers, and handle_response is *)
(* not called.                                                               *)
UpstreamFails(c) ==
  /\ Ends(c)
  /\ Answer(c, Reply("502", NoArchive, "failed"))
  /\ UNCHANGED <<handler, sent, looked>>

-----------------------------------------------------------------------------
(* run(): a bad pattern in the allow-list ends the program before it listens. *)
RequestsInit ==
  /\ config \in {cf \in Configs : \A p \in cf.egress : ~BadPattern(p)}
  /\ pc = [c \in Conns |-> "closed"]
  /\ dialled = [c \in Conns |-> Nothing]
  /\ handler = [c \in Conns |-> Handler]
  /\ opened = [c \in Conns |-> Handler]
  /\ req \in [Conns -> {CHOOSE r \in Requests : TRUE}]
  /\ sent = [c \in Conns |-> Silent]
  /\ looked = [c \in Conns |-> Nothing]
  /\ reply = [c \in Conns |-> NoReply]

(* What a registry answers a request with: archives of the form asked for.   *)
Bodies(c) == {b \in Archives : req[c].doc.form \in b.forms}

RequestsNext ==
  \E c \in Conns :
    \/ \E r \in Requests :
         \/ Connect(c, r.host)
         \/ EgressDenied(c, r)
         \/ NotIntercepted(c, r)
         \/ ForwardUnpinned(c, r)
         \/ ForwardAllowed(c, r)
         \/ Denied(c, r)
    \/ Close(c)
    \/ \E a \in Bodies(c) :
         \/ GateNpm(c, a.body) \/ GateSdist(c, a.body) \/ GateVsix(c, a.body)
         \/ Unchanged(c, a.body)
         \/ \E plain \in BOOLEAN : Rewrite(c, a.body, plain)
    \/ NotFound(c)
    \/ BodyBreaks(c)
    \/ UpstreamFails(c)

RequestsSpec == RequestsInit /\ [][RequestsNext]_requestVars

-----------------------------------------------------------------------------
Identity == [eco : Ecosystems, name : {r.doc.id.name : r \in Requests},
             version : {r.doc.id.version : r \in Requests}]
Tagging == {"npm", "sdist", "vsix"}

RequestsTypeOK ==
  /\ config \in Configs
  /\ \A c \in Conns :
       /\ pc[c] \in {"closed", "open", "upstream"}
       /\ req[c] \in Requests
       /\ \A h \in {handler[c], opened[c]}, t \in Tagging : h[t] \in Identity \cup {Nothing}
       /\ looked[c] \in Identity \cup {Nothing}
       /\ reply[c].status \in Statuses
       /\ \A s \in Sinks : Len(sent[c][s]) <= 1 + MaxBundled

Artifact(r) == r.doc.form \notin {"index", "other"}
Delivered(c) == pc[c] = "open" /\ reply[c].status = "2xx"

(* An answer is looked into under the name and version of the request it     *)
(* answers, whatever the requests before it on the connection have left in   *)
(* the handler: the verdict and the cache entry are for that package.        *)
LookedIntoAsItself == \A c \in Conns : looked[c] # Nothing => looked[c] = req[c].doc.id

(* No version the decider refuses is delivered, in whatever form the client  *)
(* asks for it.                                                              *)
RefusedStaysOut ==
  \A c \in Conns : Delivered(c) /\ Artifact(req[c]) => req[c].doc.id \notin Refused

(* What a package manager would run when it installs b.                      *)
RunsOnInstall(doc, b) ==
  \E i \in DOMAIN b.entries :
    LET e == b.entries[i]
    IN /\ e.depth = 2
       /\ \/ doc.form = "tgz" /\ e.name = "package.json" /\ "script" \in e.says
          \/ doc.form = "sdist" /\ e.name = "setup.py"
          \/ doc.form = "vsix" /\ e.name = "package.json" /\ "startup" \in e.says

FormatOf(form) == IF form = "vsix" THEN "zip" ELSE "gzip"

HookStaysOut(c) ==
  LET r == req[c]
      b == reply[c].body
  IN /\ Delivered(c) /\ config.policy \in {"block", "strip"} /\ ~r.query
     /\ ShouldIntercept(Hosts, r.host) /\ RunsOnInstall(r.doc, b)
     => \/ r.doc.id.name \in config.allow
        \/ (b.large /\ r.doc.form = "vsix")
        \/ b.format # FormatOf(r.doc.form)
        \/ \E i \in DOMAIN b.entries : ~b.entries[i].readable
        \/ /\ config.policy = "strip" /\ config.onFailure = "passthrough"
           /\ StripNpmTarball(b) = "failed"

(* Under block and strip nothing that runs code on installation is delivered *)
(* unless it is allow-listed, cannot be looked into, or could not be         *)
(* stripped where the user has chosen to let that pass.                      *)
HooksStayOut == \A c \in Conns : HookStaysOut(c)

(* An artifact reaches the client as the registry sent it or stripped, never *)
(* filtered like an index; and an index is never taken for an artifact.      *)
OnlyIndexesAreFiltered ==
  \A c \in Conns :
    Delivered(c) => IF req[c].doc.form = "index"
                    THEN looked[c] = Nothing
                    ELSE reply[c].how \in {"as it came", "stripped", "cut short"}

\* The rewriters that filter the indexes of an ecosystem.
FilteredAs(r) ==
  CASE r.doc.id.eco = "crates" -> {"CratesSparse"}
    [] r.doc.id.eco = "npm" -> {"NpmPackument"}
    [] r.doc.id.eco = "pypi" -> {"PypiJsonApi", "PypiSimpleIndex"}
    [] r.doc.id.eco = "nuget" -> {"NugetRegistration", "NugetFlatContainerIndex"}
    [] OTHER -> {"VscodeExtensionQuery"}

(* A young version must not be seen in an index either: the rewriter of its  *)
(* ecosystem is chosen for every index of a registry the proxy watches.      *)
IndexesAreFiltered ==
  \A c \in Conns :
    pc[c] = "upstream" /\ req[c].doc.form = "index" /\ ~req[c].escaped
      => Target(c) \in FilteredAs(req[c])

\* The records of what r asks for, and the sinks that are to have one.
OwnRecords(records, r) ==
  {i \in DOMAIN records : /\ records[i].mode = ExecutionMode(r.ua)
                           /\ records[i].id.name = r.doc.id.name
                           /\ records[i].id.version = r.doc.id.version}
SinksFor(r) ==
  (IF config.logging /\ ~config.unwritable THEN {"log"} ELSE {})
  \cup (IF config.otlp THEN {"otlp"} ELSE {})
  \cup (IF HubExports /\ r.doc.form \notin {"git", "vsix"} THEN {"hub"} ELSE {})

RecordedOnce(c) ==
  LET r == req[c]
  IN /\ pc[c] = "upstream" => \A s \in Sinks :
          Cardinality(OwnRecords(sent[c][s], r)) = IF Artifact(r) /\ s \in SinksFor(r) THEN 1 ELSE 0
     /\ pc[c] = "open" /\ reply[c].status = "403" /\ Artifact(r) /\ looked[c] = Nothing
          => \A s \in Sinks : sent[c][s] = <<>>

(* The sinks agree, whether or not one of them fails: each that is on has    *)
(* one record of an allowed install under its own name, and none of a        *)
(* refused one.                                                              *)
InstallsAreRecordedOnce == \A c \in Conns : RecordedOnce(c)

(* With an allow-list, nothing is asked of a host outside it.                *)
EgressHolds ==
  \A c \in Conns :
    pc[c] = "upstream" /\ config.egress # {} =>
      \E p \in config.egress :
        LET d == dialled[c]
        IN /\ Len(d) >= Len(p.host) + (IF p.wild THEN 1 ELSE 0)
           /\ p.wild \/ Len(d) = Len(p.host)
           /\ \A i \in 0..Len(p.host) - 1 : d[Len(d) - i] = p.host[Len(p.host) - i]

(* What the proxy is to keep out stays out: refused versions, young ones in  *)
(* an index, hooks that run on installation, and hosts that are not on the   *)
(* allow-list.                                                               *)
KeptOut == RefusedStaysOut /\ HooksStayOut /\ EgressHolds /\ IndexesAreFiltered

(* Whatever comes back is treated as what was asked for (handle_response):   *)
(* an archive is looked into under its own name, an index is filtered, and   *)
(* neither is taken for the other.                                           *)
AnsweredAsItself == LookedIntoAsItself /\ OnlyIndexesAreFiltered
=============================================================================
