# sakimori in TLA+

sakimori watches what a build does and vets what it downloads. On Linux a
supervisor (`crates/sakimori`, eBPF programs in `crates/sakimori-ebpf`) runs a
command or a whole CI job inside a cgroup, records what it opens, runs and
connects to, and in block mode refuses what the policy denies. A local HTTPS
proxy (`crates/sakimori-proxy`) stands between the package managers and the
registries: it hides versions that are too young or known to be malicious, and
inspects or strips install scripts. Around both there are lockfile checks and a
watcher (`crates/sakimori-core/src/deps`), an audit of workflows, GitHub Actions
(`job/`, `proxy/`, `deps/`, ...) and reports.

This directory holds TLA+ models of the parts of it that keep state or compute a
verdict, TLC configurations that check them on small instances, and proofs for
TLAPS of what matters most, for every value of the constants. Paths below are
relative to `src/`; `proxy.rs`, `strip_cache.rs`, `ca.rs` and so on are in
`crates/sakimori-proxy/src`.

Running it:

    tlc -workers 2 -config strip_cache_concurrent.cfg MCStripCache
    tlapm StripCacheProofs.tla

`PROJECT.json` lists components, runs, the lines each definition models, the
hazards, and for every property a *mutant*: a plausible bug, as an operator of
the module ("Wrong variants of definitions"), under which the property fails.
A property that a run names is often a conjunction of named parts that hang
together; the parts are stated and commented one by one in the modules.

## 1. Inventory

### Parts with a model

**Strip cache** (`strip_cache.rs`). State: a map from `(name, version, integrity of
the upstream bytes)` to a rewritten tarball or to the marker "no strip needed",
written through to a directory as `<basename>.tgz` and `<basename>.json`.
Operations: `get`, `insert` (`persist_entry`, two `atomic_write`s, then the map),
`with_persist_dir` (load at start). Called by several tokio tasks at once without
a lock around the files. Hard: the tasks of one key share one `.tmp` path; a crash
between any two file-system calls; a disk that fails; a newer binary over an old
directory. Correct when: what loads back is what was stored, an entry that would
survive a crash keeps surviving, memory never depends on the disk.

**npm lifecycle pipeline** (`proxy.rs`, `rewrite_npm.rs`, `lifecycle.rs`). State: the
strip cache, pre-strip tasks under way, and what npm holds: the packument it was
told, its lockfile. Operations: rewriting a packument, the speculative pre-strip
of the tagged versions under a budget, the second application of the cache, the
gate on the tarball. It talks to the registry, to the cache and, over HTTP, to
npm, which verifies bytes against the integrity it was told. Hard: two paths that
fill one cache, an upload that is replaced in between, tasks that outlive the
budget, conditional requests, restarts with other settings. Correct when: the
tarball handler serves the bytes whose integrity was advertised, and a client
that retries gets through or is refused by policy.

**Job daemon** (`crates/sakimori/src/daemon.rs`, `loader.rs`, `job/pre.js`,
`job/post.js`, `job/stop/action.yml`). State: the pid file, the audit log, the
ring buffer, the drain task, counters, and the stage of the job. Operations:
start, attach, publish, park, shut down, report; `daemon stop`; the hooks. The
pid file is the only signal between the processes: its presence means ready, its
absence stopped. Hard: two daemons with one file, signals before the handler,
deadlines that race, a crash anywhere. Correct when: a published daemon observes,
the job fails exactly when it must, nothing is left running.

**Version vetting** (`rewrite*.rs`, `decision.rs`, `osv.rs`, `osv_mirror.rs`,
`pypi_simple_client.rs`, `nuget_flatcontainer_client.rs`). State: caches of OSV
answers and of publish dates, each with a life, the mirror's snapshot with its
ETag. Operations: rewriting an index with or without dates in it, deciding on a
pinned version, refreshing the mirror. Hard: answers that are old by the time
they are stored, caches that hide what happened since, failures that are cached,
one age check written many times. Correct when: exposure is bounded and index and
artifact agree.

**Network enforcement and DNS refresh** (`enforcer.rs`, `resolve.rs`,
`resolve_refresh.rs`, the connect hooks of `sakimori-ebpf`). State: the eBPF map
from `(address, port)` to a verdict, the set `seen` of the refresh task, a stop
flag with a notifier. Operations: resolve and write at startup, refresh every
interval, look up in the hook, stop. Hard: DNS that rotates, lookups and map
updates that fail, a map that is full, a wake-up that is lost. Correct when:
every verdict has a rule, denials last, new answers get in, stop ends the loop.

**Event pipeline** (`loader.rs`, `stats.rs`, `matcher.rs`, the exec and open hooks of
`sakimori-ebpf`). State: the ring, the drain task with its stop flag, the counters
of `Stats` and its samples with a cap for each kind and one for all. Operations:
a hook writes a record, the drain task decodes it, adds the verdict of user space
and merges it. Hard: ring and caps at their limits, a prefix that is cut for the
kernel, the two waits of shutdown as the only order between drain and copy.
Correct when: a denied event displaces an allowed one and never the reverse.

**Supervised run** (`cli.rs`, `loader.rs`, `cgroup.rs`) with **workspace snapshots**
(`tamper.rs`, `editor_extensions.rs`, `iocs.rs`). State: the stage of
`run_supervised`, baselines, the cgroup, the child, the exit code. Operations:
take baselines, make the cgroup, attach, write the maps, start the command, wait,
shut down, compare, scan, report, decide. Hard: each step may fail, block mode
must fail closed and audit mode go on; processes outlive the command; files too
large or unreadable. Correct when: the exit code says neither more nor less than
what has happened.

**Deps watch** and **deps check** (`deps/watch`, `deps/mod.rs`, `deps/cache.rs`,
`deps/lockfile`, `deps/registry`). State: the queue of file-system events, the
debouncer's pending lockfiles, a JSON cache of dates shared by all processes.
Operations: scan, subscribe, drain, settle, check, notify, prompt, revert; `deps
check`. Hard: an error in mid-batch, a lockfile written again between check and
`git checkout`, two savers of one file without lock or rename. Correct when: every
settled change is checked, what passes is old, a lost cache costs lookups only.

**Request parsing and routing**, **archive inspection** and **install records**
(`parser.rs`, `registries.rs`, `git_fetch.rs`, `host_allow.rs`, `proxy.rs`,
`lifecycle.rs`, `vsix_inspect.rs`, `installs.rs`, `hub_ingest.rs`, `otlp.rs`). State:
what the handler of a connection remembers from `handle_request` for
`handle_response`. Operations: parse, allow-list, decide, record, forward, gate,
strip, rewrite. Hard: one handler for many requests, recognisers that share hosts
and paths, a sink that fails, limits on entries and size. Correct when: an answer
is judged as the package it is, and what is refused stays out.

**Certificate authority** and **proxy lifetime** (`ca.rs`, `install.rs`, `daemon.rs`,
`proxy/main.js`, `proxy/post.js`). State: two files per directory, the trust store,
ports, the stage of the job. Operations: load or create, listen, trust, restart;
spawn, probe, export, stop. Hard: a crash between two files or in the middle of
one, two first runs at once, a foreign listener, a child that dies early. Correct
when: a certificate is used with its own key, the trusted one is the one served,
the job ends and leaves nothing.

**Index documents** (`rewrite.rs`, `rewrite_npm.rs`, `rewrite_pypi.rs`,
`rewrite_nuget.rs`, `rewrite_vscode.rs`). No state of their own: nine forms in which
five registries list versions, each with its way to carry dates, tags, counts and
pages. Operations: parse, drop what is young or unproven, mend what pointed at it.
Hard: a resolver reads several forms of one package and the same form again later;
dates per file, per version, per page or nowhere; a lookup that reads some pages.
Correct when: no form names a young version, forms agree, nothing points at what
was taken out.

**Attribution of events** (`attribution.rs`, `cloud_secrets.rs`). State: /proc, read
one file at a time while the processes go on. Operations: the walk from an event's
process to its ancestors, the first package manager on it, the report of connections
to credential stores. Hard: the drain gets to an event late, processes exit, execute
and give their pids to others between two reads, a depth bound. Correct when: nobody
is blamed for what others did.

**Windows supervisor** (`crates/sakimori-win`). State: the rules of the machine's
firewall, a trace of its processes, the exit code. Operations: start the trace, add a
rule for each address that is denied, start the command, wait for the trace, report.
Hard: the trace tells late, commands fail with a warning, names answer differently
each time, the end of the process runs no destructor. Correct when: the run fails for
what it was told was denied, within the time it waits.

**Commands that read files and give a verdict**, each run from start to end: *package
cache verification* (`deps/verify_cache.rs`: a store beside package managers that
change it while it is read), *exotic sources* (`exotic.rs`), *typosquat detection*
(`typosquat.rs`: lists that are fetched, lists built in, a bounded edit distance), the
*install gate* (`install_gate.rs`: a block in an rc file the user edits too, written
in place), the *workflow audit* (`actions.rs`, `codeowners.rs`: tags that move during
it), and of the *policy* its suggestion, its rules for the environment and its globs
(`suggest.rs`, `policy.rs`). Hard: what they read changes under them, early exits of
algorithms, first and last matching rules. Correct when: a pass means what the command
promises, and a failure has a cause.

### Parts without one

| part | state and operations | why not |
|---|---|---|
| provenance verification (`sigstore_verify.rs`) | none; a chain of checks on one document | the cryptography is external, the chain is a conjunction |
| scanners and reports (`html.rs`, `report.rs`, `doctor`) | none beyond one call | pattern matching over files, rendering |
| kernel overrides (`kprobe_override.rs`) | a probe of the kernel's configuration | the hooks themselves are in `EventPipeline` and `Egress` |
| release scripts, workflows | none | run once from start to end |

How the parts interact: the actions start the daemon or the proxy and read pid
files and logs; the supervised run and the daemon share loader, enforcer and event
pipeline; the log of an audited run is what `policy suggest` reads, whose policy
the next run enforces; the proxy calls vetting for indexes and artifacts and the
lifecycle pipeline for npm tarballs, which calls the strip cache, and it hands what
it let through to three sinks; `deps watch` and `deps check` share a cache file.

## 2. The modules

| module | what it is |
|---|---|
| `StripCache` | the cache and its directory, one action per file-system call |
| `StripCacheSpec` | the abstract cache: a map in memory and a durable one, both atomic |
| `StripPipeline` | npm, proxy, registry: packument, pre-strip, tarball, lockfile |
| `JobDaemon` | hooks, daemons, pid file, `daemon stop`, ring and drain |
| `Vetting` | indexes, decisions, OSV, mirror, caches of dates, time |
| `Egress` | startup resolution, map, refresh loop, hook, stop |
| `EventPipeline` | hooks, ring, drain task, verdicts, counters and samples |
| `Snapshots` | snapshot, difference and indicator scan of a tree, as operators |
| `SupervisedRun` | `run_supervised` over `EventPipeline` and `Snapshots` |
| `DepsCheck` | what a lockfile lists, what the registries answer, `deps check` with its cache |
| `DepsWatch` | the watcher over `DepsCheck`, package managers, a second process |
| `Attribution` | the walk from an event to a package manager, beside the processes |
| `WindowsRun` | the run on Windows: firewall rules, trace, wait |
| `ProxyParsing` | what the proxy makes of host, path, query and User-Agent |
| `Inspection` | what the inspectors find in an archive and what strip makes of it |
| `RegistryLayout` | under which URLs the registries serve what; the requests there are |
| `Positions` | subsequences by positions, without recursion |
| `ProxyRequests` | the requests of a connection, over these |
| `IndexDocuments` | the nine forms of listing versions, and what is left of them |
| `ProxyLifetime` | CA files, proxies, trust store, service manager, the action |
| `CacheVerification` | `deps verify-cache` beside package managers |
| `ExoticSources` | `deps exotic` on lockfiles as graphs |
| `Patterns` | globs, CODEOWNERS patterns, the edit distance, and what they mean |
| `TyposquatMirror` | the detector with its mirror, over `Patterns` |
| `PolicySuggestion` | audited run, `policy suggest`, the run it allows |
| `InstallGate` | install, uninstall and the user on one rc file |
| `WorkflowAudit` | `actions audit` and `audit-repo`, over `Patterns` |
| `StripCacheProofs` | proofs about `StripCache` and its refinement of `StripCacheSpec` |
| `StripPipelineProofs` | proofs about `StripPipeline` and `IndexDocuments` |
| `JobProofs` | proofs about `JobDaemon`, `WorkflowAudit`, `CacheVerification` |
| `VettingProofs` | proofs about `Vetting`, `TyposquatMirror` and `Egress` |
| `RunProofs` | proofs about `SupervisedRun`, `PolicySuggestion`, `WindowsRun`, `Attribution` |
| `DepsProofs` | proofs about `DepsWatch`, `ExoticSources` and `InstallGate` |
| `ProxyProofs` | proofs about `ProxyLifetime` and `ProxyRequests` |
| `PatternProofs` | proofs about `Patterns` and what `WorkflowAudit` makes of it; induction over numbers, cells and recursive functions |
| `MCStripCache`, `MCStripPipeline`, `MCJobDaemon`, `MCVetting`, `MCEgress`, `MCSupervisedRun`, `MCDepsWatch`, `MCProxyLifetime` | the instances TLC checks |
| `MCProxyRequests`, `MCSequential` | the instance of `ProxyRequests`, and the one that puts it beside the commands |

`StripPipeline` uses the cache as two maps whose entry is inserted atomically, in
memory and perhaps on disk. That is what `StripCacheSpec` promises, and what
`strip_cache_sequential` shows of one writer. For several writers of one key the
promise is the weaker `QuiescentConsistent`, so a crash in mid-insert is in
`StripCache` and not in `StripPipeline`.

### StripCache

`mem` is the `HashMap`; `final` and `tmp` are the files under their final and
temporary names; `fd` says where a writer's open handle points, because a rename by
another writer moves the file under it. `Begin`, `RemoveStale`, `Create`, `Write`,
`Rename`, `StoreInMemory` are the calls of `insert` in order; `IOError` is any of
them failing, which `insert` logs. `Restart` is a crash followed by
`with_persist_dir` in the same or a newer binary. A body and its hash are one value;
`load_dir_into` does not hash the body again, and neither does `Load`. Where a file
was truncated and not yet written it holds `Partial`. A write is a single step: a
file that is written in part behaves like one not written at all.

### StripPipeline

A tarball is `[pkg, rev, by]`: whose, which upload, and who made the bytes, the
registry or the rewriter of a build. Its integrity is the tarball. `Trait` says what
the inspector and the rewriter make of a package: scripts, none, an empty script
value (`hollow`), too large to strip, unreadable. `PackumentRewritten` is the
response handler up to the pre-strip, `PreStripLookup` ... `ApplyAgain` what follows
under the strip policy, `BudgetExhausted` and `LateInsert` the abort that does not
reach a task past its last await. `TarballArrives` is the gate with its four
outcomes. A client verifies, retries after EINTEGRITY, may revalidate a packument
(`PackumentNotModified`), and may install from its lockfile (`InstallFromLock`).

### JobDaemon

One job, the daemon its pre hook spawns, and a daemon that a step starts with the
same pid file. `CheckPidFile` ... `Report` follow `daemon.rs` in program order;
`Event`, `Drain`, `DrainEnds` are the ring and the task that empties it;
`StopReads` ... `StopTimesOut` are `sakimori daemon stop`; `PreSpawns` ...
`PostDecides` are the hooks. The history variables `flagged` and `mishap` say
whether a denied event was recorded in time and what went wrong on the way, so that
a property can name the circumstances it does not cover.

### Vetting

Time is a number, and no lookup takes longer than `FetchTime`. A request takes its
time once (`Begin`), then looks things up. `LiveAsk` and `Remember` are the two ends
of one OSV query: between them other requests run and the clock moves; `DatesAsk`
and `DatesPut` likewise. `page` says how far down NuGet's index the dates of a version
are: 0 if the index has them itself, `MaxPages` the last page that a lookup reads,
one more for all that lie behind it. `Reached` is what a lookup comes to know.
`dated`, `failedAt` and `cutAt` are history variables.

### Egress

`entries` is the eBPF map of one address family, `seen` the set of the refresh task
(keys with their verdict). Startup goes through the rules (`ResolveFirst`),
`Populate` writes the map. The loop is split where `stop()` may come in between:
`LoopTop`, `CheckFlag`, `Register`, `Woken` or `BeginPass`. A pass resolves a rule at
a time and handles its endpoints one by one (`Skip`, `Insert`, `InsertFails`).
`Lookup` is the hook: the exact port, then any port, then the default.

### EventPipeline, Snapshots, SupervisedRun

In the pipeline a path is a sequence of characters, because prefixes are what the
verdicts are about. `lacks` is what the object file that `SAKIMORI_BPF_OBJ` names does
not have, out of `Objects`: a program or map that is missing is passed over, in block
mode too. `FileDenied` is the matcher of user space, `KernelDenied` the comparison in
the open hook, with slots and buffer of `PrefixLen`. `Execve`, `Openat`, `Connect` and
`UnknownRecord` are the hooks; tracepoints fire for every process of the machine, the
connect programs for the cgroup only; `OwnOpen` is what sakimori's own attribution
causes. `Emit` is the ring with its bound, `DrainNext` ... `DrainWake` the task,
`Keep` and `Victims` the caps of `Stats`. `SupervisedRun` goes through
`run_supervised` by `stage`; `Fail(part)` in an action is the call that may fail
there, and `gone` remembers which did. `Accepted` is what `Policy::validate` lets
through in block mode: a deny list with a slot for each entry. A tree maps a path,
here the sequence of its names, to `[kind, size, data]`; `Take`, `Diff` and `Scan` are
functions of it. `Walked` leaves out what lies in a directory of `SkipDirs`; a link is
kept as a link and scanned as what it leads to. An indicator is about the last names
of a path (`PathMatches`) or about the content of a file of any or of one name
(`ContentMatches`, over `Shown`, the needles that a content holds). `WriteFile` is any
process of the command, also after the command itself has ended: the stages after the
run read one file at a time (`ReadFile`), first for the snapshot (`TakeAfter`), then
the same for the extensions with a scan of their own (`TakeExtensionsAfter`,
`ScanExtensions`), and last the files of the workspace that differ once more for the
scan (`ScanWorkspace`). `recorded`, `missed`, `flagged`, `killed`, `copied`, `asOf`
and `scanned` are history variables; the last two are what the snapshots and the scans
have read.

### Attribution

`procs` are the processes, with program and parent; `ForkProcess`, `Execute`, `Exit`
and `Reap` are theirs, and an orphan is given to pid 1. `Raise` puts an event in the
ring, `Begin`, `ReadParent` and `ReadCmdline` are the reads of /proc, one to a step.
`Above` is the least set with the process that is closed under parents: the
ancestors, without recursion. The history variable keeps the processes as they were
when the event was raised, and what has happened to the ancestors since.

### WindowsRun

Time is counted in polls of the last wait. `StartTrace`, `AddRule`, `Fenced`, `Spawn`,
`ChildEnds`, `Poll`, `Report` are `run` in order, `StartFails`, `SpawnFails` and
`ReportFails` its error returns, which drop the guard and with it the rules
(`RulesRemoved`), unless the command that removes them fails, which nobody looks at
(`RulesLinger`). A name is resolved for the tags and again for the firewall, and both
answers are chosen freely. `ChildConnects` has a protocol: a rule with ports blocks TCP
only. `Happens` and `Tell` are the two ends of the trace. `passed`, `missing`, `owed`,
`untold` and `unremoved` are history variables: the connections that got through, what
the firewall was not given, which denied events the child's time saw, which of them
were lost, and whether a removal failed.

### DepsCheck, DepsWatch

`DepsCheck` is pure: the entries a parser lists, `Wanted` after `--ignore`, what each
registry client makes of several dates, `KeyOf` the key of the shared cache, `Hits`
what is too young. In `DepsWatch`, `disk` and `head` are the lockfiles and their
state in git; `inbox`, `pending` and `settled` are queue, debouncer and batch;
`job` is the check under way, `cli` a `deps check` beside it, `dates` the cache file
between truncation and write. `fate` is a history variable: what has become of the
last change of each lockfile.

### ProxyParsing, Inspection, ProxyRequests

A path is a sequence of segments, a segment a sequence of dash-separated parts and
an extension; a query is a flag, because the code only cuts it off. A request is
what a package manager asks of a registry: `RegistryLayout!WellFormed` says under which
host and path each document lies, and the recognisers of `ProxyParsing` have to find
it again. `doc` says what
the client means; the code sees host, path and User-Agent only, and the properties
compare the two. An archive is the sequence of its entries. `ProxyRequests` has one
step for the request leg and one for the answer, with `handler` the `last_*` fields
between them; HTTP/1 connections go on with the same handler, HTTP/2 requests get a
clone (`config.clones`).

### IndexDocuments

A document is the part of it that names versions and dates. `RewrittenApi` ...
`RewrittenLines` are the rewriters; `AnswerApi` ... `AnswerLines` give one form at the
time of asking, with the lookup of dates it needs, which may fail or read fewer pages
(`Followed`); for the lines of crates.io it is made line by line, and `unread` are the
lines without a date for which it fails. `offered` collects what each form has named,
so that a later answer can be compared with an earlier one.

### ProxyLifetime

A generated pair has a number, so two files belong together if they hold the same
number. `Reuse`, `ReadCert` ... `Chmod` are `ensure_ca`, call by call; a file is `Torn`
between its truncation and its write. `Launch` is somebody starting a proxy or
`install-ca`, `Restart` the service manager, `Die` a crash or a failing call. `Spawn`,
`ProbeAnswered`, `DeadlinePasses`, `Export`, `Cancelled`, `PostStops` are the action.

### The commands

`MCSequential` runs one of nine parts per behaviour, since they share no state: the
requests of a connection, the index documents and seven commands. `MCSupervisedRun`
does the same with the run on Linux, the walk of `Attribution` and the run on Windows.
`CacheVerification` has the package manager's fetches, a cache that is restored, files
lost or replaced, and the command, which finds the files of one entry (`Open`) and
hashes them one to a step (`HashNext`) before it goes on to the next, and has its exit
code at the `End`; all the others may come between any two of its reads, and the
history variable `late` notes what they change behind its back. `TyposquatMirror` has
refreshes with an entity tag, failures and lookups; `InstallGate` install, uninstall
and the user's editor on the lines of a file, where a write in place (`WriteRc`) may
fail or be cut off at any of the `Beginnings` of the text; `WorkflowAudit` reads
files, resolves tags one by one while they move, and ends with an exit code, and
`Runs` is all that a step runs which a tag or a branch stands for: also the default
branch for a `uses:` without `@`, the images of a job, and what a local or pinned
action uses in turn, which the audit does not read; `PolicySuggestion` is an audited
run, the suggestion, and what the suggested policy does to the same run.
`ExoticSources` and `Patterns` have no steps but those that choose an input and
compute: every input within the bounds is chosen. In `ExoticSources` an entry has the
name that the lockfile gives it and the key by which it is required, which differ
under an alias, and a link leads to an entry of its own. `Patterns` has the globs of
the env rules with `ChildEnv`, what is left of the environment for the command, the
patterns of CODEOWNERS and the edit distance. `PatternMeans` is what GitHub takes a
pattern of CODEOWNERS for (a directory owns all below it, with a slash behind it or
without), and `MayMiss` what the code may not see of it.

## 3. What the runs check

| run | instance | states | result |
|---|---|---|---|
| `strip_cache_concurrent` | 3 writers, 1 key, 2 builds, 2 crashes, symmetry of writers | 27 k | holds |
| `strip_cache_sequential` | 1 writer, 2 keys, a disk that fails, 2 crashes | 7 k | holds |
| `strip_pipeline_race` | 2 clients, 2 uploads, 2 configurations, 1 restart, 1 republication, conditional requests, symmetry of clients | 367 k | holds |
| `strip_pipeline_retry` | 1 client, 2 kinds of package, 4 configurations one after the other, 2 missed budgets | 229 k | holds |
| `job_daemon` | 2 daemons, ring of 1, 2 events, 1 crash, a log of an earlier job | 725 k | holds |
| `job_daemon_stop` | 1 daemon, 1 event, nothing fails | - | finding |
| `vetting` | 2 requests, 1 version, clock to 4, 1 failure, each source, dates in the index or behind the last page | 1.6 M | holds |
| `egress` | 2 addresses, 2 hosts, 2 ports, map of 3, 2 rotations, 1 failure, each configuration | 121 k | holds |
| `supervised_run` | a command, its helper, a process outside; ring of 1, caps 1 and 2, prefixes of 4, files at 4 paths, 1 failing step, 6 objects; or 5 pids and 4 changes; or 3 deny rules, 2 protocols, 2 events, 1 mishap | 3.8 M | holds |
| `deps_watch` | 2 lockfiles, one hidden, window 1, clock to 2, 1 write, 1 fault, 1 concurrent check, every `--action` | 613 k | holds |
| `proxy_lifetime` | a service and an installer in one directory, a job with its own, 1 death | 169 k | holds |
| `sequential` | 9 parts, one per behaviour; bounds of each below | 731 k | holds |

What they show:

- `strip_cache_concurrent`: `QuiescentConsistent`. Three writers of one key create,
  truncate, write and rename the same temporary files; when they are done the
  directory holds what memory holds. Two writers already interfere; the third is
  there because a rename can lose to one writer while another truncates. Two crashes
  allow an upgrade and what a second crash finds after it.
- `strip_cache_sequential`: `ImplementsAtomicCache`, the refinement of
  `StripCacheSpec` with `durable` mapped to what the directory would load, and
  `InsertReachesMemory`. It has one writer and one build because with more of either
  the refinement is false: a record can be torn (section 4), and an upgrade can
  come between the two renames.
- `strip_pipeline_race`: `NoStaleEntry` and `WordKept` (`AdvertisedHonoured`,
  `PinnedHonoured`). The package has scripts, since only such a version has rewritten
  integrity; two clients give a lazy and a speculative fill of one entry.
- `strip_pipeline_retry`: `RetrySucceeds` and `AtMostOneMismatch`. The allow-list
  does not change while scripts are stripped, and the client asks without
  `If-None-Match`: with either the retry need not end (see 4 and 6), and both
  properties name the second in their hypothesis.
- `job_daemon`: `ReadyMeansAttached`, `VerdictExact` (`VerdictOfEvents`,
  `TimeoutFails`), `JobEnds`, and `StopMeansGone` (`StopWaitsForReport`, `NoOrphan`).
  A ring of one record and two events are the least with which an event is dropped;
  the second daemon is the least with which the pid file changes hands.
- `vetting`: `AgesAgree` (`ShownIsOldEnough`, `YoungIsDenied`), `ExposuresBounded`
  (`StaleIndexBounded`, `ExposureBounded`), `ListedReachesMirror`. `MinAge` is the
  horizon, so a version published at the start just becomes old enough; each life is
  one unit, so that an entry can expire twice. The cap of pages is 0, since all that
  matters of a version's page is whether a lookup gets to it: page 1 stands for any
  behind the cap, and a publication may move a version there or back.
  `StaleIndexBounded` excepts the versions that a lookup has stopped before. Only the
  live source has `ExposureBounded`, only the mirror has `ListedReachesMirror`; the
  age filter runs without either.
- `egress`: `MapHolds` (`SeenMirrorsMap`, `VerdictJustified`, `DenySticks`),
  `AnswersReachMap`, `StopEnds`. The rules can yield four endpoints and the map holds
  three, so it fills up; two rotations move an address away and back.
- `supervised_run`: `DeniedSurface`, `BlockRunsProtected`, `ExitCodeExplained`. Each
  of the constant `Ways` to run mixes events and file writes: three events without
  snapshots reach both caps and a full ring; one write with the
  workspace snapshot, and two writes with both snapshots, reach every exit. A file
  can lie under a denied prefix that is longer than its slot, grow over the size
  limit, become unreadable and carry a listed name or content. It can also do so
  between the snapshot that lists it and the scan that reads it again, if a process
  has outlived the command, which `ExitCodeExplained` then says. The object that is
  loaded is this build's, or lacks one of the maps or programs, and `BlockRunsProtected`
  says what there is without it. The command ends with
  0 or with 3, so the code it returns and the codes of the checks are told apart.
  `AttributionHolds` (`BlamesAnElder`, `FollowsTheTree`, `TripwireFires`): four changes
  are a fork, an exit, a reap and a second fork into the pid that became free, and
  with a depth of two a chain can be longer than the walk. `WindowsHolds`
  (`DeniedIsFenced`, `DeniedFailsRun`, `RulesAfterwards`): an address, a block with a
  port, and a name that shares an address with the block; connections by TCP and UDP; a
  removal of the rules that fails; the deadline is one poll more than the trace is late.
- `deps_watch`: `OnItsWay` (a change is in an event, in the debouncer or under check
  until it has been checked), `PassedIsOld` (every date in the cache is true, what is
  settled as clean and still on disk is old enough, `deps check` exits with 0 only
  then), `YoungIsNoticed` (a young dependency is notified, gone, or lost to a fault
  or a restart). The hidden lockfile is the one that only an event reveals; a window
  of one makes a change come while another is pending.
- `proxy_lifetime`: `CaAgrees`, `JobIsServed`, `CompleteIsKept`, `ComesBack`. Two
  processes in one directory are the least that overlap in `ensure_ca`; the death can
  fall between any two of its calls. The properties name their circumstance: who
  overlaps (`raced`), who shares a port.
- `sequential`: one property or more for each part. `AnsweredAsItself`
  (`LookedIntoAsItself`, `OnlyIndexesAreFiltered`), `KeptOut` (`RefusedStaysOut`,
  `HooksStayOut`, `IndexesAreFiltered`, `EgressHolds`), `InstallsAreRecordedOnce`: any
  sequence of 37 request forms at 12 hosts with 14 archives under 7 configurations, on
  a connection that keeps its handler or clones it. `IndexesHold` (`YoungStaysHidden`,
  `AnswersAgree`, `ReferencesResolve`): projects of two versions and up to two files,
  three versions at npm of which one is no semantic version, three pages of which a
  lookup reads one of those outside the index; dates that are old, become old, or are
  missing; at crates.io every set of undated lines for which the lookup fails; any
  sequence of questions while two units of time pass. `VerdictsAreTrue`
  (`OkIsGenuine`, `SwapIsReported`, `NoFalseAlarm`): three kinds of store, with one
  swap and one loss between any two reads of the command; what changes after it was
  read is excepted. `SuggestionFits`: audited runs into one log, caps on samples,
  addresses with and without a name. `SquatsAreFlagged`: every interleaving of three
  publications, failures and lookups of eight names. `ExoticIsExact`: all lockfiles of
  a root and two entries, with aliases and links. `BlockComesAndGoes`: four edits
  between installs, among them copies of the markers, or writes that fail, with all
  that a failed one can leave. `AuditHolds`: two moves of a tag or branch during or
  after an audit, under every form of `uses:` and image. `PatternsAsMeant`: all globs
  and names of up to four letters, which is also where a swap at the end of a name and
  an early exit of the edit distance first meet; all env rules with one glob in each
  list; all patterns and paths of three segments against what CODEOWNERS means, among
  them segments with a star inside.

The bounds stand in guards only: `MaxRestarts`, `MaxRepublish`, `MaxMissed`,
`MaxEvents`, `MaxWrites`, `MaxCrashes`, `MaxDeaths`, `MaxFailures`, `MaxFaults`,
`MaxChecks`, `MaxRotations`, `MaxSwaps`, `MaxLosses`, `MaxEdits`, `MaxMoves`,
`MaxRuns`, `MaxPublished`, `MaxChanges`, `MaxTraced`, `MaxMishaps`, and `Horizon` for
the clocks; `MaxName`, `MaxGlob`, `MaxRuleGlob`, `MaxPath`, `MaxPattern` bound the
inputs of the functions; `Window`, `RingCap`, `PerKindCap`, `TotalCap`, `PrefixLen`,
`MaxSlots`, `SampleCap`, `MaxDepth`, `MaxPages`, `DrainDeadline`, `DrainFixed` and
`Capacity` are limits of the code. What is proved (section 5) holds for all their
values.

`CHECK_DEADLOCK FALSE` is set in `egress`, `supervised_run`, `deps_watch` and
`proxy_lifetime`: the loop ends, the run ends, a watcher whose clock stands at the
horizon has nothing to do, and neither has a service when the job is over.

### Fairness

- `StripCache!FaultySpec`: a task inside `insert` is run. It has no await there, so
  the runtime cannot park it.
- `StripPipeline!FairSpec`: handlers are run, responses arrive or fail (there are
  timeouts on both legs), and npm retries after EINTEGRITY. Clients need not ask for
  anything, the registry need not republish.
- `JobDaemon!Spec`: the runner runs the hooks to their end, a daemon and its drain
  task are scheduled, and a deadline that is reached is noticed. Nothing makes a step
  stop the daemon, nor `daemon stop` time out.
- `Vetting!Spec`: the refresh task runs every ten minutes and the producer is a cron
  job. Requests need not finish.
- `EgressSpec`: startup, refresh task and `stop()` are run; lookups time out. One
  weak fairness for the whole loop is enough since it has one step at a time, and
  `Register` cannot be starved by `stop()`: the wake-up may still be lost, and it is
  the next interval that ends the loop.
- `DepsWatch!FairSpec`: the watcher is run and its calls return, since the clients
  have timeouts and the prompt gives up by itself; the debouncer's clock goes on.
  Nobody need write a lockfile, run `deps check` or restart the watcher.
- `ProxyLifetime!FairSpec`: a process that has started is run, a service that died is
  restarted by the service manager, and the runner takes the job to its end. Nobody
  need start anything.

`SupervisedRun` and the parts of `sequential` have safety properties only: the
command decides when it ends.

## 4. Where code and documents disagree

With a run that ends with the counterexample: `job_daemon_stop`, `FlaggedFailsJob`.
`post.js:51` and `pre.js:353` say post.js fails a block-mode job whose daemon
flagged denied events. It ends early when the pid file is missing (`post.js:32`),
which it always is after `job/stop`.

Seen while modelling, without a run. Where a model contains the behaviour, its
properties name it as an exception.

Strip cache and pipeline:

- A crashed proxy never leaves a torn record, says `strip_cache.rs:19`. The temporary
  file is named after the final one (`:264`): of two tasks that insert one key, one
  renames what the other has just truncated; a crash then leaves metadata beside an
  empty body, and `load_dir_into` pairs them.
- npm receives integrity values that match the bytes it will be served, says
  `proxy.rs:1818`. A script key with an empty value is no script for
  `inspect_npm_tarball` and a removed key for `mutate_package_json`
  (`lifecycle.rs:505`): stripped bytes are promised, the original ones pass.
- A failed pre-strip costs a single EINTEGRITY-then-retry round-trip, says
  `proxy.rs:1825`. A client that keeps the packument of the first attempt and asks
  again with `If-None-Match` is told 304 (`proxy.rs:1563`), for the registry's ETag has
  not changed, and fails again, without end if nothing else happens:
  `AtMostOneMismatch` and `RetrySucceeds` are about clients that do not revalidate.
- An upgrade that changes the rewriter breaks lockfiles that pin the old bytes
  (`strip_cache.rs:12`, `proxy.rs:835`). The gate does not ask the strip cache before
  it strips.

Vetting, typosquats, requests:

- With mirror and live API a miss cascades, says `proxy.rs:57` (and `cli.rs:768`).
  `LayeredKnownBad` takes the mirror's `Ok(None)` for an answer (`osv_mirror.rs:307`),
  also before its first fetch.
- A slower negative OSV answer overwrites a positive one (`osv.rs:138`), which
  `osv.rs:56` keeps indefinitely.
- A lookup of NuGet's dates reads 16 pages
  (`nuget_flatcontainer_client.rs:41`, `:171`) and warns of nothing that a caller sees:
  a version on a later page is shown for as long as it is young. `cutAt` is the
  exception in `StaleIndexBounded`.
- Under `--fail-on-missing` the lines of crates.io that have no date are asked for one
  by one (`rewrite.rs:83`), and a failed lookup denies (`decision.rs:191-205`): a version
  that was offered is gone until the next answer. `AnswersAgree` excepts it.
- `typosquat.rs:382-384` describes the baseline as a fallback for a missing list; it
  is also asked when the mirror's list has no near name (`:396-405`).
- The packument of a scoped package whose slash is encoded is not recognised as an
  index (`proxy.rs:2246`), so it is not filtered. README.md (`:90`, `:94`) makes no
  exception, and `deps/registry/npm.rs:5` says that npm's registry needs the encoding.
- Every allowed install fires a post to the hub, says `proxy.rs:109`; VSIX files and
  packages from git never do. An install is recorded when it is requested, also
  if the gate then refuses its body.
- A `.tgz` source distribution on PyPI is not taken for a pinned version, and
  `foo-2-1.0.tar.gz` is read as version 2 of `foo`.
- Packages of other registries than the public ones (npm.pkg.github.com, private
  cargo registries) are neither checked for age nor reported as exotic.

Enforcement, events, the run:

- Deny wins where both lists yield an endpoint, says `enforcer.rs:115`. `seen` is
  primed from the map, which holds one verdict per endpoint, so the first refresh
  writes the allowance over the denial; the denial is in `seen` and is skipped
  (`resolve_refresh.rs:96`).
- The first bytes of a long pattern are enforced in the kernel, say
  `enforcer.rs:342-346`. The hook reads a path into a buffer as long as the slot, with
  its terminating zero, so a pattern that fills the slot never matches there.
- The hook compares prefixes (`crates/sakimori-ebpf/src/main.rs:224`), the matcher of
  user space also the boundary after them, "so `/etc/shadow` doesn't match
  `/etc/shadowed`" (`matcher.rs:112`): who opens the latter is killed in block mode,
  and the event is counted as denied in both.
- An event the ring has no room for is counted nowhere, and late events are not
  either, though `report.rs:140-145` explains the counter of lost events with an
  overflow of the ring (`loader.rs:403`) and `:191` calls the totals exact.
- If the cgroup cannot be made, the connect programs are not attached in block mode
  either, with a warning only (`loader.rs:54`).
- The firewall's rules are removed "even on panic / non-zero exit", says
  `firewall.rs:11` of `sakimori-win`. `run` ends in `process::exit` (`win.rs:303`,
  `:305`), which runs no destructor: they go when `run` returns an error, and all stay
  after a run that ended by itself. `RulesAfterwards` states both.
- Blocks and names were expanded to a flat list of addresses at startup, says
  `win.rs:408-409`. A block stays a text there, equals no address, and tags no event;
  a name is asked for twice, and the tags and the firewall may get other answers. The
  tags also pass over the ports of a rule.
- `FirewallGuard::apply` returns no error: each command that fails is a warning, so in
  block mode the command runs behind the rules that could be added.
- A rule with ports is created for TCP only (`firewall.rs:159-165`), so UDP to the same
  address and port passes; Drop does not look at whether the rules were removed
  (`firewall.rs:87-101`). `DeniedIsFenced` and `RulesAfterwards` except both.
- A program or map that the object lacks is passed over in block mode too
  (`enforcer.rs:29`, `:36`, `:46`, `:313-316`; `loader.rs:316`, `:355-365`): no deny
  list in the kernel without FILE_DENY_PREFIX, nobody killed without SETTINGS, no
  denial counted without EVENTS. `BlockRunsProtected` and `DeniedSurface` are about
  what there is.
- The workspace is snapshot after the run (`cli.rs:2663`), names are awaited
  (`:2678`), and the files that differ are read again for the scan (`:2713`): a helper
  of the command that lives on may put a benign file in between. `ExitCodeExplained`
  says so.
- `tamper.rs:117-119` records the files that cannot be read for the sake of the
  difference, which does not look at them.

Deps:

- When the cache cannot be saved the check is an error: what it found is not
  notified, and the rest of the batch is dropped (`engine.rs:53`). A lookup that
  fails is neither notified nor tried again. A lockfile made between scan and
  subscription is not checked.
- Reverting is the default, says `action.rs:17-18`; for the command it is `notify`
  (`cli.rs:1101`). A `HEAD` that violates as well is still announced as reverted.
- `verify_cache.rs:21-24` admits a coordinated rewrite of a pnpm index and its files;
  an index alone, exchanged for one whose files are in the store, passes too. After
  the first file that fails, the others are not looked at, so a missing file hides
  a changed one. Every store entry is hashed again, says `:9-11`; of two registries
  only the first that has the file is. `--strict` means anything that is not Ok
  (`cli.rs:1971`), but unsupported entries pass.
- A direct dependency (`exotic.rs:60`) is one whose name is: another version of it,
  deep in the tree, counts as direct. The names that are compared are the keys of the
  root's dependencies (`:141-151`) on one side and names of packages (`:163-166`,
  `:185-189`) on the other: a direct git dependency under an alias fails the lint as a
  transitive one. `link` entries are skipped (`:156`), but a member of an npm workspace,
  to which one leads and which has no `resolved`, is flagged.

Policy, gate, audit:

- A suggested policy covers every observed event, says `suggest.rs:4-6`; it is made of
  capped samples, and of a reverse name where there is one, which need not resolve
  to the address that was seen.
- Either direction of consuming `**` is correct, says `codeowners.rs:261`; for a
  directory pattern the longest leaves nothing behind the directory, and the file in
  it is not matched. A directory that is given without a slash behind it, as
  `/.github/workflows`, owns all below it under the semantics that `:176` and `:203`
  name; the code compares it with the whole path (`:225`) and reports workflows as
  unguarded that have an owner. `MayMiss` is both.
- `uses:` without `@` is a warning only (`actions.rs:234-241`), though it runs the default
  branch, "the most-mutable possible target" (`:1091-1093`), and passes without
  `--strict`. The images of `container:` and `services:` and local composite actions
  are not visited (`:130-163`, `:29`), so that what they name may change with it as well.
- One resolver serves all files so that its cache does (`cli.rs:2095`); the cache lives
  for one file. Template injection is independent of `on:`, says `actions.rs:566`; a
  workflow without `on:` has returned before.
- `has_block` (`install_gate.rs:280`) finds the marker anywhere in a line, so a
  commented copy of it keeps the gate from being installed; a start marker without its
  end makes `uninstall` drop the rest of the file. An rc file that is not UTF-8 reads
  as empty and is overwritten (`cli.rs:2503`). The file is written in place
  (`cli.rs:2509`, `:2538`): a full disk or a crash after the truncation loses the
  user's last lines, and may leave a marker alone, which the next `install` takes for
  the block.

Proxy and daemon:

- `cli.rs:2512-2513` advises to start the proxy in the background and then install
  the CA: two first runs (`ca.rs:47`), after which the store may trust another
  certificate than the one served. A key that a crash has cut short is never made
  again: subsequent runs reuse it (`ca.rs:5`) and fail.
- A crash between the write of the key and `chmod` leaves its mode for good.
- main.js takes any listener for its proxy (`proxy/main.js:194`). When it fails or is
  cancelled before the export, post.js has no pid and leaves the child.
- `daemon stop` removes the pid file of whoever has published since (`daemon.rs:446`),
  and a job whose daemon crashed or could not write its report passes.

## 5. What is proved

For every value of the constants, from the named assumptions of each module:

| theorem | says |
|---|---|
| `StripCacheProofs!TypeCorrect`, `QuiescentCorrect` | `TypeOK`, `QuiescentConsistent` |
| `StripCacheProofs!FilesAreAtomic` | `ImplementsAtomicCache`: the refinement of `StripCacheSpec`, for one writer at a time and one binary |
| `StripPipelineProofs!TypeCorrect`, `EntriesOwn`, `LockfilesHonoured` | `TypeOK`, `NoStaleEntry`, `PinnedHonoured` |
| `StripPipelineProofs!MetadataHonoured` | `AdvertisedHonoured`, if no package is hollow |
| `StripPipelineProofs!OneMismatch` | `AtMostOneMismatch`, if besides clients do not revalidate |
| `StripPipelineProofs!WordIsKept` | `WordKept`, if no package is hollow |
| `StripPipelineProofs!IndexesAreConsistent` | `IndexesHold` |
| `JobProofs!TypeCorrect`, `ReadyIsAttached`, `OutcomeIsExact` | `TypeOK`, `ReadyMeansAttached`, `VerdictExact` |
| `JobProofs!StopIsPatient`, `JobLeavesNoOrphan`, `StoppedIsGone` | `StopWaitsForReport`, `NoOrphan`, and both: `StopMeansGone` |
| `JobProofs!AuditSafe`, `CacheSafe` | `AuditHolds`, `VerdictsAreTrue` |
| `VettingProofs!TypeCorrect`, `IndexAgrees`, `MinAgeHolds`, `OneAge` | `TypeOK`, `ShownIsOldEnough`, `YoungIsDenied`, and both: `AgesAgree` |
| `VettingProofs!StaleDatesBounded`, `NegativesBounded`, `AllBounded` | `StaleIndexBounded`, `ExposureBounded`, and both: `ExposuresBounded` |
| `VettingProofs!SquatsSafe` | `SquatsAreFlagged` |
| `VettingProofs!EgressTypeCorrect`, `SeenAgrees`, `VerdictsHaveRules`, `DenialsStick` | `EgressTypeOK`, `SeenMirrorsMap`, `VerdictJustified`, `DenySticks` |
| `VettingProofs!RulesDecide`, `MapIsRight` | `RulesHold`, the last two; `MapHolds`, all three |
| `RunProofs!TypeCorrect`, `DenialsSurface`, `BlockIsProtected`, `ExitIsExplained` | `TypeOK`, `DeniedSurface`, `BlockRunsProtected`, `ExitCodeExplained` |
| `RunProofs!SuggestSafe`, `WindowsAreFenced`, `AttributionIsRight` | `SuggestionFits`, `WindowsHolds`, `AttributionHolds` |
| `DepsProofs!TypeCorrect`, `ChangesOnTheirWay`, `WhatPassedIsOld`, `ExoticSafe`, `BlockIsWhole` | `TypeOK`, `OnItsWay`, `PassedIsOld`, `ExoticIsExact`, `BlockComesAndGoes` |
| `ProxyProofs!TypeCorrect`, `ServedPairIsOne`, `JobCleansUp`, `CompleteCaIsKept` | `TypeOK`, `ServedPairMatches`, `NothingLeftOfJob`, `CompleteIsKept` |
| `ProxyProofs!TrustIsServed`, `ReadyIsOurs`, `CaIsOne`, `JobHasItsProxy` | `TrustedIsServed`, `ReadyIsTheChild`, `CaAgrees`, `JobIsServed` |
| `ProxyProofs!RequestsTyped`, `RequestsAnswered`, `RequestsKeptOut`, `RequestsRecorded` | `RequestsTypeOK`, `AnsweredAsItself`, `KeptOut`, `InstallsAreRecordedOnce` |
| `PatternProofs!GlobMatchIsMeant`, `PathMatchesIsMeant`, `DistanceIs` | what `GlobMatch`, `PathMatches` and `Table` are for every input; with them |
| `PatternProofs!PatternsMean` | `PatternsAsMeant` |

The assumptions state that markers differ from values, that configurations are
well-formed, and that bounds are natural numbers. Those of `ProxyRequests` say that
requests are ones that package managers make (`WellFormed`) and what an archive is;
`IndexAssumption` what documents a registry has, for instance that a NuGet version is
on one page; `AttributionAssumption` that no manager is called `init` or `sakimori`;
`WindowsAssumption` that the deadline is longer than the trace is late.
`QuiescentCorrect` is about a disk that does not fail, `FilesAreAtomic` about one that
fails at will; the theorems about `StripPipeline` are about `Spec`: one configuration
of the proxy, restarted at will. Some theorems have a hypothesis of their own.
`FilesAreAtomic` has `Alone`, one inserting task at a time and one binary, since
concurrent writers of one key do tear the files on the way. `MetadataHonoured`,
`WordIsKept` and `OneMismatch` have `NoHollow`, which the empty script value of
section 4 shows to be needed; `OneMismatch` also that clients do not send
`If-None-Match`, since the packument they keep names the integrity that failed.
`TrustIsServed` and `CaIsOne` have that all runs of `install-ca` use one directory;
`ReadyIsOurs` and `JobHasItsProxy` that no other proxy is given the port of the job.

Each proof has the same shape: `Init => IInv`, one lemma per action or group of
actions that takes `IInv` to `IInv'`, and `IInv` implies the property.

**StripCache.** `QuiescentConsistent` looks at moments without a writer and says
nothing about the way there. `IInv` adds to `TypeOK`, when there is a directory: which
calls are on whose road (`RoadOK`); after its create a writer finds in tmp what it
may rename, or somebody has renamed it and that file is in place or about to be
written through an open handle (`TmpInv`); a handle points at tmp only while there is
one (`HandleInv`); metadata is written only once the body is in place (`OrderInv`);
what memory serves is on disk or on its way (`MemInv`). "On its way" is an existential
over writers with an open handle: the truncation that can tear a record keeps the
invariant, because who truncates will write. `FilesAreAtomic` needs another one, since
the disk may fail there: every file in place is whole (`FilesWhole`), what a lone writer
has put in place follows from its stage (`OnRoad`), and a cache without a directory
touches no file (`InMemory`). Then only the rename of the metadata changes what a
restart would load, and each step of the detailed specification is a step of
`StripCacheSpec` or a stutter (`AtomicStep`).

**StripPipeline.** The key is `Maker(p)`: who makes the bytes the gate serves for a
package depends on the configuration and the package, never on the cache. `IInv`
says that every entry, in memory, on disk or in a late task, is what `Maker` would
make of the bytes of its own key (`CacheOK`, `LateOK`), and that what a client was
told, holds, or pins is of its package and by the registry or by `Maker`
(`ClientOK`). A pinned integrity is by `Maker` without any hypothesis, since it is
written down after a successful comparison. `OneMismatch` adds what is true while the
proxy and the uploads stay as they were: no insert, however late, replaces a stripped
entry by the note that nothing had to be stripped (`Lasting`), so a package is
`Settled` for good once the gate has served it, and who asks again is told what
`Maker` makes (`OnceOK`).

**JobDaemon.** Three layers. The first holds whatever goes wrong: who is named by the
pid file or by a stop has published (`Named`), a blocking daemon is attached from its
publication to the end of the shutdown (`Observing`), nobody leaves without having
been told (`Told`, `Stages`), the job's daemon keeps the file and others out until it
leaves (`Kept`), and once told it is waited for unless the stop times out (`Awaited`).
The second is about jobs that lose no report (`Reported`). The third is about jobs in
which `mishap` is empty: a denied event recorded in time is counted, or in the ring of
a daemon that still reads (`Recorded`, `Draining`, `Heeded`), and the stop deals with the
job's own daemon, whose document is the last of the log (`Course`, `Waited`).
`VerdictExact` is inductive beside them.

**Vetting.** `TimeOK`: nothing is dated later than now. `DatedOK`: what an index
showed by date was old enough. `NegativeOK`: a negative answer is at most one lookup
older than the time it is stored under. `MapOK`: a version missing in the cached map
was published, a lookup failed, or one stopped before the version's page, after the map
was asked for; `RequestOK` carries the same through the lookup. `RequestOK`: the
same for what a request carries between its two halves. The bounds of
`ExposureBounded` and `StaleIndexBounded` are the sums these parts give.

**Egress.** `AnswersYielded` and `KeysSound` tie the map to the rules through
`seen`: every key of `seen` or of the queue was yielded by a rule with its verdict.
`SeenMirrorsMap` is inductive beside them and carries that over to the entries.
`DenialsStick` needs no more: an entry for an address that no allowing rule has
yielded can only be a denial.

**SupervisedRun.** `Books` is about the pipeline alone: the ring and the samples keep
their bounds, what a counter says is the number of denied events that have been read
(`Counting`, over `HitsIn`, the denied events of a sequence, which grows by
`AppendHits`), and each of them is a sample or found nothing to displace (`Surfacing`;
`Keep` takes an allowed one away first). `Order` and `Guarded` follow the stages: what
is attached, written and running at each of them, the connect hooks exactly where
there is a cgroup. `SnapInv` says what the baselines and the difference are of,
whatever is written meanwhile (`Baselines`, `Results`), and `Counted` ties the copied
counters to those of the task. What the snapshots and scans have read of the files is
what was there at the time, and if nothing of the command is left it is what is there
(`ReadAsIs`). With the lemmas `DiffShows` and `ScanShows`, which say what an empty
difference and an empty scan mean, the exit code is explained.

**DepsWatch.** `TrueDates` are the restrictions of `Published`. Every save merges one
of them into another and the merge is again one, so the cache, and what each process
holds of it, is one or `Torn`, whoever overwrites whom (`Dated`). `OnItsWay` is
inductive with two facts: the batch is empty when the watcher polls (`Fresh`), and the
lockfile under check is what was read unless it has an unread change (`Checking`).
`CleanIsOld` and `CliPassed` follow the verdict from the lookup to the end.

**ProxyLifetime.** For a directory in which no two first runs overlapped: who
generates is alone there and has written exactly what lies there (`Alone`,
`Written`), two whole files belong together (`Matching`), and who has read them
holds that pair. `raced` remembers overlaps, so that a crash in between needs no
exception: what it leaves is torn or has no key, and `Reuse` decides by both. `Listens`
and `JobAlone` are the same for the port and the job's directory.

**ProxyRequests.** Most of the proof is about one request: for every form, host and
path that `WellFormed` allows, `ParseForHost`, the classifiers and the rewriters' tests
find what was asked for and nothing else, however segments and lists of hosts fall
together. `RequestsInv` then says of each connection what the request leg has left
for the answer: the tags are of the request in flight, or absent where it asks for no
archive (`TagsMatch`, which covers that a field of an earlier request is cleared), and
each sink has one record (`SentOnce`). The gates' lemmas say which bodies they let
through. An archive is the sequence of the entries at some positions of another;
`Positions` says it without recursion.

**IndexDocuments.** What was offered must stay offered, so the invariant says of each
version that any answer has named that it is `Held`: the documents of the registry
still give a reason to name it, in the terms of the form that did. Age only
grows, so a reason lasts. `AnswersAgree` then needs one lemma from every form's reason to
every other form: the first file's age and the version's, a page that is read and one
that is not. The newest version that is left, which tags are moved to, exists by an
argument on the least counterexample by cardinality (`GreatestOfFinite`).

**WindowsRun.** `Owing` counts: a denied event of the child's time has been told, is
lost, or is in the trace and at least as old as the wait; since no event is older than
the latency, which is below the deadline, nothing is owed when the deadline is
reached. `Fences` says which rules the firewall has for what has been applied, so that a
connection which got through was one that they do not block.

**Attribution.** `Tree`, `Still` and `Family` are about the moment of the event: the
ancestors are closed under parents and the least such set; undisturbed they are now as
they were then; with no pid of theirs used again their parents are ancestors and their
programs on record. `OfElders` and `ChainThen` carry that along the walk.
That the walk finds a manager is the least set again: the pids of a finished chain,
with the supervisor and pid 1, are closed under parents, so they are all the ancestors.

**PolicySuggestion, WorkflowAudit, CacheVerification, TyposquatMirror,
ExoticSources.** Invariants that tie an answer to what it was computed from, whatever
has changed since: the samples to what was seen (`SampledIsSeen`, `SeenIsSampled`), the
answers of an audit to the references of its files (`AnswersKnown`, `RanAsWritten`),
every file of a store that nobody has replaced to the content that the lockfile names,
every file that the command has read and that has not changed since to the verdict on
it, the lists to their tag, the verdict on a tree to the tree. The properties follow by
arguments about the functions, among them that what is left unresolved has a first
position.

**InstallGate.** The invariant is the shape of the file (`IsRc`); the work is in what
`strip_block` keeps. The lines that are kept are a set of positions (`Kept`), the
user's lines are another, and a subsequence of a subsequence has its ranks
(`SelectedAmong`): every number up to the size of a set of positions is the rank of
one of them, by the least that is not (`RankTaken`). The user's lines are among those
that are kept because a block that is whole ends two lines after it begins; nothing of
a block is, because its middle line has the marker just above. `install` adds a blank
line at most and a block (`AppendBlockIs`), and where there was none that one is
whole. What a failed write leaves is a beginning of what was to be written, and the
user's lines in it are a beginning of theirs.

**Patterns.** Here there is no invariant to find but what the inputs are (`InputOK`,
`RepoOK`); what takes proof is what recursive functions compute for words of any
length. The library's induction theorems take an operator as a parameter, which the
provers cannot instantiate, so induction is stated over sets and proved from the
least counterexample (`Induction`, `ByMeasure`, `ByCells`). That a recursive function
exists, and equals its body at every argument, is one lemma too: if what the body
says of an argument depends only on arguments of a lower measure, something solves it
(`Recursion`, from approximations up to n that agree). With it every function
has its equations (`FitsBy`, `MeansIs`, `TakenBy`, `EndsBy`, `TableBy`), and the
algorithms meet their definitions:

- a glob: if a glob's rest fits behind some place of its next part it fits behind the
  leftmost, because a star takes up what is between (`StarMeans`, `LettersMean`,
  `FitIsMeant`);
- a CODEOWNERS pattern: what `match_prefix` consumes is an end the pattern can reach
  (`TakenIsAnEnd`), and the last one, because a `**` that may begin later reaches no
  less far (`TakenFromLater`, `TakenIsLast`). So greed loses a match only where
  less is wanted: a pattern of a directory with `**`, with a slash behind it or without;
  and what is below a directory without that slash is what the code does not look for;
- the edit distance: a cell comes from its neighbours by an edit at the end of a
  prefix (`CellIsAway`), one edit moves the diagonal by one at most (`RemovedIsNear`,
  `ReplacedIsNear`, `SwappedIsNear`), the table is the same turned over
  (`TableTurned`), and below a row beyond the bound there is no cell within it,
  although a swap skips a row (`RowsGrow`).

Proofs that failed have corrected the models. `TransitiveIsFailed` excepted too little:
in a tree of five packages one of another source can come in below two names that
coincide. `AnswersAgree` and the guard on `Unresolved` had lost a pair of parentheses
and said nearly nothing. Of the names of programs nothing said that pid 1 is not itself
a manager. Of the alphabet of `Patterns` nothing said that there is a letter, without
which the empty name is two edits away from itself by no word.

Only model-checked: the liveness properties (`InsertReachesMemory`, `RetrySucceeds`,
`JobEnds`, `ListedReachesMirror`, `AnswersReachMap`, `StopEnds`, `YoungIsNoticed`,
`ComesBack`), because fairness and ENABLED are beyond the prover. Every invariant and
every action property of a run is stated by a theorem. No module has a RECURSIVE
operator.

## 6. What the models leave out

- `StripCache`: a power failure that loses renamed files (the directory is not
  synced); loads of a directory while another proxy writes it.
- `StripPipeline`: age, OSV and typosquat rewriting of the same packument (`Vetting`
  and `TyposquatMirror` have them), several versions per package, the tar format.
  `RetrySucceeds` does not cover clients that revalidate (section 4), nor a package
  that is put on the allow-list after it was stripped: the cache is still applied to
  its metadata (`proxy.rs:1600`), its tarball is no longer gated (`proxy.rs:131`). A
  cache that was loaded from disk is not fetched again (`proxy.rs:149`).
- `JobDaemon`: reuse of a pid, several jobs at once, the exit codes for drift and IOC
  matches, which no caller reads. `VerdictOfEvents` excepts whatever `mishap` names.
  Two starts of a daemon that overlap: the hooks start one, and a step comes later.
- `Vetting`: files of a PyPI version with dates of their own, the case of NuGet ids,
  provenance, wildcard advisories.
- `Egress`: the second address family, which behaves alike; what happens between the
  attachment of the hooks and the writing of the map (`enforcer.rs:49`).
- `EventPipeline`: reverse DNS, which decorates events and decides nothing; records
  that do not decode for another reason than their kind.
- `Snapshots`: hash collisions; entries that vanish while a directory is listed. A
  directory that cannot be listed is a `locked` path with nothing below it.
- `Attribution`: the table of names, start times of processes, threads.
- `WindowsRun`: several trace sessions, a policy that denies by default (a warning, then
  an audit), the removal of what earlier runs have left.
- `IndexDocuments`: everything in a document but versions, dates, tags, counts and
  pages; known-bad and typosquat filters of the same documents, also of undated lines of
  crates.io, for which the decision covers them.
- `SupervisedRun`: the refresh task beside it (`Egress`), the rendering of the report.
- `DepsWatch`: links and renames of directories, several watchers, the wording of
  notifications. `DepsCheck` takes lockfiles as what their parser lists.
- `ProxyRequests`: several connections at once, which share only the caches that are
  modelled elsewhere; the decision on a pinned version is the constant `Refused`,
  typosquats are a part of it. The posts of the exporters, torn lines of the install
  log.
- `Inspection`: bytes, compression, tar headers.
- `ProxyLifetime`: the download of the binary, unit files, `uninstall-ca`.
- `InstallGate`: an edit between the command's read of the file and its write.
- `CacheVerification`: the directories below `registry/cache` are there from the start.
- The commands: parsing of YAML, TOML and JSON, the contents of the built-in lists of
  names, hash functions (a hash is the content), presets.

## 7. Plan

Open, in this order:

1. `JobDaemon` over `EventPipeline` in place of its own ring, and `SupervisedRun` over
   `Egress`, so that the verdict of a job and the map it is decided by are in one
   model.
2. The install log: appends that a kill tears (`installs.rs:165`), its readers, and
   the upload.

Abstract specifications worth stating: a bounded log in which a denied event is never
displaced by an allowed one, for the first; a queue that hands out each change once,
for the watcher. Two actors, one or two data values and one failure have been
enough to reach every branch so far.
