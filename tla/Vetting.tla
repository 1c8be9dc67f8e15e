------------------------------- MODULE Vetting ------------------------------
(* What sakimori-proxy lets through, and when it learns what it decides on:  *)
(* the age filter of the index documents (rewrite*.rs) with the caches of    *)
(* publish dates (pypi_simple_client.rs, nuget_flatcontainer_client.rs), the *)
(* decision on one pinned version (decision.rs), the cache of OSV answers    *)
(* (osv.rs), the OSV mirror and its background refresh (osv_mirror.rs).      *)
(* One package; its versions are published and listed as malicious as time   *)
(* goes by.  Time is counted in units that no timeout of a request exceeds   *)
(* FetchTime of.                                                             *)
EXTENDS Integers

CONSTANTS
  Versions, Clients,
  Never,          \* the time of what has not happened
  None,           \* no cache entry
  Settings,       \* the configurations: known-bad source, --fail-on-missing
  MinAge,         \* --min-age
  NegativeTTL,    \* osv.rs
  CacheTTL,       \* pypi_simple_client.rs and nuget_flatcontainer_client.rs
  FetchTime,      \* the longest a lookup takes
  MaxPages,       \* MAX_PAGES_PER_LOOKUP: 16
  Horizon,        \* bound: the clock stops here
  MaxFailures     \* bound: lookups and refreshes that fail

(* indexes is a bound: where it is FALSE no index is asked for, and every    *)
(* version is there from the start.                                          *)
Setting == [source : {"off", "live", "mirror", "both"}, failOnMissing : BOOLEAN,
            indexes : BOOLEAN]
Entry == [bad : BOOLEAN, at : Int]
Dates == [known : SUBSET Versions, at : Int]
Body  == [entries : SUBSET Versions, valid : BOOLEAN]

ASSUME TimeAssumption ==
  /\ MinAge \in Nat /\ NegativeTTL \in Nat /\ CacheTTL \in Nat /\ FetchTime \in Nat
  /\ Horizon \in Nat /\ MaxFailures \in Nat /\ MaxPages \in Nat
ASSUME ValueAssumption ==
  /\ Never \notin Int
  /\ None \notin Entry /\ None \notin Dates /\ None \notin Body
  /\ \A s \in SUBSET Versions : s # None
  /\ Settings \subseteq Setting

VARIABLES
  config,
  now,
  published,    \* when the registry published each version
  page,         \* NuGet's page of it: how far down the index that refers to the
                \* pages, 0 if the index itself has the dates; PyPI has no others
  listed,       \* when OSV listed it as malicious
  dump,         \* what the mirror's producer last published; it stands for its ETag
  mirror,       \* the snapshot in memory and the ETag kept with it
  refresh,      \* what the refresh task has fetched and not yet stored
  osvCache,     \* OsvClient's cache
  dates,        \* the cached publish dates of the package
  pc, ver, started, asked, answer, shown, lost, \* the requests being handled
  dated,        \* history: the first index that showed a version knowing its
                \* date, by the time it was asked for
  failedAt,     \* history: when a lookup of dates last failed
  cutAt,        \* history: when one last stopped before each version's page
  failures

world     == <<published, page, listed, dump>>
mirrorVars == <<mirror, refresh>>
requests  == <<pc, ver, started, asked, answer, shown, lost>>
history   == <<dated, failedAt, cutAt, failures>>
vars == <<config, now, world, mirrorVars, osvCache, dates, requests, history>>

Resting == {"idle", "allowed", "known bad", "too young", "unknown age", "offered"}

Happened(t) == t # Never
Listed == {v \in Versions : Happened(listed[v])}

Become(c, label) == pc' = [pc EXCEPT ![c] = label]
Fail(c, what) ==
  /\ failures < MaxFailures
  /\ failures' = failures + 1
  /\ lost' = [lost EXCEPT ![c] = @ \cup {what}]

(* A request takes its time once, before it looks anything up.               *)
Begin(c, v, label) ==
  /\ pc[c] \in Resting
  /\ Become(c, label)
  /\ ver' = [ver EXCEPT ![c] = v]
  /\ started' = [started EXCEPT ![c] = now]
  /\ lost' = [lost EXCEPT ![c] = {}]
  /\ asked' = [asked EXCEPT ![c] = now]
  /\ answer' = [answer EXCEPT ![c] = FALSE]

-----------------------------------------------------------------------------
(* Wrong variants of definitions below.                                      *)

\* Keep a negative answer of OSV for good.
ForeverFresh(v) == osvCache[v] # None

\* Keep the dates of a package for good.
DatesForeverFresh == dates # None

\* An off-by-one in a rewriter's copy of the age check.
DropsLess(t, v) == t - published[v] < MinAge - 1

\* Keep the ETag of a body that does not parse.
StoreEtagFirst ==
  /\ refresh # None
  /\ mirror' = [entries |-> IF refresh.valid THEN refresh.entries ELSE mirror.entries,
                etag |-> refresh.entries]
  /\ refresh' = None
  /\ UNCHANGED <<config, now, world, osvCache, dates, requests, history>>

-----------------------------------------------------------------------------
Init ==
  /\ config \in Settings
  /\ now = 0
  /\ published = [v \in Versions |-> IF config.indexes THEN Never ELSE 0]
  /\ page = [v \in Versions |-> 0]
  /\ listed = [v \in Versions |-> Never]
  /\ dump = {}
  /\ mirror = [entries |-> {}, etag |-> None]
  /\ refresh = None
  /\ osvCache = [v \in Versions |-> None]
  /\ dates = None
  /\ pc = [c \in Clients |-> "idle"]
  /\ ver \in [Clients -> Versions]
  /\ started = [c \in Clients |-> 0]
  /\ asked = [c \in Clients |-> 0]
  /\ answer = [c \in Clients |-> FALSE]
  /\ shown = [c \in Clients |-> {}]
  /\ lost = [c \in Clients |-> {}]
  /\ dated = [v \in Versions |-> Never]
  /\ failedAt = Never
  /\ cutAt = [v \in Versions |-> Never]
  /\ failures = 0

(* -- the world ------------------------------------------------------------ *)

Tick ==
  /\ now < Horizon
  /\ \A c \in Clients :
       pc[c] \in {"answered", "dates"} => now - asked[c] < FetchTime
  /\ now' = now + 1
  /\ UNCHANGED <<config, world, mirrorVars, osvCache, dates, requests, history>>

(* The pages are in the order of the versions, so that one may move others.  *)
PublishVersion(v, pages) ==
  /\ published[v] = Never /\ config.indexes
  /\ published' = [published EXCEPT ![v] = now]
  /\ page' = pages
  /\ UNCHANGED <<config, now, listed, dump, mirrorVars, osvCache, dates, requests,
                 history>>

(* Nobody looks when every source is off.                                    *)
ListMalicious(v) ==
  /\ listed[v] = Never /\ Happened(published[v]) /\ config.source # "off"
  /\ listed' = [listed EXCEPT ![v] = now]
  /\ UNCHANGED <<config, now, published, page, dump, mirrorVars, osvCache, dates, requests,
                 history>>

(* The producer's cron job.                                                  *)
ProducerRuns ==
  /\ dump # Listed
  /\ dump' = Listed
  /\ UNCHANGED <<config, now, published, page, listed, mirrorVars, osvCache, dates,
                 requests, history>>

(* -- the OSV mirror ------------------------------------------------------- *)

MirrorOn == config.source \in {"mirror", "both"}

(* refresh_once, first half: a conditional GET, answered by 304 or a body.   *)
RefreshFetch ==
  /\ MirrorOn /\ refresh = None
  /\ mirror.etag # dump
  /\ refresh' = [entries |-> dump, valid |-> TRUE]
  /\ UNCHANGED <<config, now, world, mirror, osvCache, dates, requests, history>>

(* The body comes garbled.                                                   *)
RefreshGarbled ==
  /\ MirrorOn /\ refresh = None
  /\ mirror.etag # dump
  /\ failures < MaxFailures
  /\ failures' = failures + 1
  /\ refresh' = [entries |-> dump, valid |-> FALSE]
  /\ UNCHANGED <<config, now, world, mirror, osvCache, dates, requests, dated,
                 failedAt, cutAt>>

(* Second half: a body that parses replaces the snapshot and its ETag under  *)
(* the write lock, another is an error that is logged.                       *)
RefreshStore ==
  /\ refresh # None
  /\ mirror' = IF refresh.valid
               THEN [entries |-> refresh.entries, etag |-> refresh.entries]
               ELSE mirror
  /\ refresh' = None
  /\ UNCHANGED <<config, now, world, osvCache, dates, requests, history>>

(* -- Decider::decide ------------------------------------------------------ *)

FirstLookup ==
  IF MirrorOn THEN "mirror" ELSE IF config.source = "live" THEN "live" ELSE "age"

(* The artifact of a pinned version, or a line of the sparse index that      *)
(* carries no pubtime.                                                       *)
Decide(c, v) ==
  /\ Happened(published[v])
  /\ Begin(c, v, FirstLookup)
  /\ shown' = [shown EXCEPT ![c] = {}]
  /\ UNCHANGED <<config, now, world, mirrorVars, osvCache, dates, history>>

(* OsvMirrorOracle::lookup never fails, so LayeredKnownBad never turns to    *)
(* the live API.                                                             *)
MirrorLookup(c) ==
  /\ pc[c] = "mirror"
  /\ Become(c, IF ver[c] \in mirror.entries THEN "known bad" ELSE "age")
  /\ UNCHANGED <<config, now, world, mirrorVars, osvCache, dates, ver, started, asked,
                 answer, shown, lost, history>>

Fresh(v) ==
  /\ osvCache[v] # None
  /\ osvCache[v].bad \/ now - osvCache[v].at < NegativeTTL

LiveCached(c) ==
  /\ pc[c] = "live" /\ Fresh(ver[c])
  /\ Become(c, IF osvCache[ver[c]].bad THEN "known bad" ELSE "age")
  /\ UNCHANGED <<config, now, world, mirrorVars, osvCache, dates, ver, started, asked,
                 answer, shown, lost, history>>

LiveAsk(c) ==
  /\ pc[c] = "live" /\ ~Fresh(ver[c])
  /\ Become(c, "answered")
  /\ asked' = [asked EXCEPT ![c] = now]
  /\ answer' = [answer EXCEPT ![c] = ver[c] \in Listed]
  /\ UNCHANGED <<config, now, world, mirrorVars, osvCache, dates, ver, started, shown,
                 lost, history>>

Remember(c) ==
  /\ pc[c] = "answered"
  /\ osvCache' = [osvCache EXCEPT ![ver[c]] = [bad |-> answer[c], at |-> now]]
  /\ Become(c, IF answer[c] THEN "known bad" ELSE "age")
  /\ UNCHANGED <<config, now, world, mirrorVars, dates, ver, started, asked, answer,
                 shown, lost, history>>

(* A failed lookup is no match and is not remembered.                        *)
LiveFails(c) ==
  /\ pc[c] = "live" /\ ~Fresh(ver[c])
  /\ Fail(c, "osv")
  /\ Become(c, "age")
  /\ UNCHANGED <<config, now, world, mirrorVars, osvCache, dates, ver, started, asked,
                 answer, shown, dated, failedAt, cutAt>>

TooYoung(t, v) == t - published[v] < MinAge

AgeCheck(c) ==
  /\ pc[c] = "age"
  /\ Become(c, IF TooYoung(started[c], ver[c]) THEN "too young" ELSE "allowed")
  /\ UNCHANGED <<config, now, world, mirrorVars, osvCache, dates, ver, started, asked,
                 answer, shown, lost, history>>

(* The registry fails or does not know the date.                             *)
AgeUnknown(c) ==
  /\ pc[c] = "age"
  /\ Fail(c, "date")
  /\ Become(c, IF config.failOnMissing THEN "unknown age" ELSE "allowed")
  /\ UNCHANGED <<config, now, world, mirrorVars, osvCache, dates, ver, started, asked,
                 answer, shown, dated, failedAt, cutAt>>

(* -- index documents ------------------------------------------------------ *)

(* The rewriters' own copy of the age check.                                 *)
Drops(t, v) == t - published[v] < MinAge

(* What a rewriter at time t leaves of the document it got, knowing the      *)
(* dates of some versions; the others stay.                                  *)
Kept(t, dateKnown) ==
  {v \in Versions :
     Happened(published[v]) /\ published[v] <= t /\ (v \in dateKnown => ~Drops(t, v))}

Offer(c, t, dateKnown) ==
  /\ shown' = [shown EXCEPT ![c] = Kept(t, dateKnown)]
  /\ dated' = [v \in Versions |->
                 IF /\ v \in Kept(t, dateKnown) \cap dateKnown
                    /\ dated[v] = Never \/ t < dated[v]
                 THEN t ELSE dated[v]]

(* npm, crates.io, PyPI's JSON API and NuGet's registration carry the dates. *)
IndexWithDates(c) ==
  /\ config.indexes
  /\ \E v \in Versions : Begin(c, v, "offered")
  /\ Offer(c, now, Versions)
  /\ UNCHANGED <<config, now, world, mirrorVars, osvCache, dates, failedAt, cutAt, failures>>

(* PEP 503 HTML and the flat container do not.                               *)
IndexBare(c) ==
  /\ config.indexes
  /\ \E v \in Versions : Begin(c, v, "bare")
  /\ shown' = [shown EXCEPT ![c] = {}]
  /\ UNCHANGED <<config, now, world, mirrorVars, osvCache, dates, history>>

DatesFresh == dates # None /\ now - dates.at < CacheTTL

DatesCached(c) ==
  /\ pc[c] = "bare" /\ DatesFresh
  /\ Become(c, "offered")
  /\ Offer(c, started[c], dates.known)
  /\ UNCHANGED <<config, now, world, mirrorVars, osvCache, dates, ver, started, asked,
                 answer, lost, failedAt, cutAt, failures>>

(* refresh_now reads no more than so many of the pages the index refers to,  *)
(* and says nothing of the rest.                                             *)
Reached == {v \in Versions : Happened(published[v]) /\ page[v] <= MaxPages}

DatesAsk(c) ==
  /\ pc[c] = "bare" /\ ~DatesFresh
  /\ Become(c, "dates")
  /\ asked' = [asked EXCEPT ![c] = now]
  /\ shown' = [shown EXCEPT ![c] = Reached]
  /\ cutAt' = [v \in Versions |->
                 IF Happened(published[v]) /\ v \notin Reached THEN now ELSE cutAt[v]]
  /\ UNCHANGED <<config, now, world, mirrorVars, osvCache, dates, ver, started, answer,
                 lost, dated, failedAt, failures>>

(* A failure is an empty map, a NuGet page that fails is missing from it, and *)
(* either is cached like any other answer.                                   *)
DatesFail(c) ==
  /\ pc[c] = "bare" /\ ~DatesFresh
  /\ Fail(c, "date")
  /\ Become(c, "dates")
  /\ asked' = [asked EXCEPT ![c] = now]
  /\ \E part \in SUBSET Reached : shown' = [shown EXCEPT ![c] = part]
  /\ failedAt' = now
  /\ UNCHANGED <<config, now, world, mirrorVars, osvCache, dates, ver, started, answer,
                 dated, cutAt>>

DatesPut(c) ==
  /\ pc[c] = "dates"
  /\ dates' = [known |-> shown[c], at |-> now]
  /\ Become(c, "offered")
  /\ Offer(c, started[c], shown[c])
  /\ UNCHANGED <<config, now, world, mirrorVars, osvCache, ver, started, asked, answer,
                 lost, failedAt, cutAt, failures>>

World ==
  \/ Tick \/ ProducerRuns
  \/ \E v \in Versions : ListMalicious(v)
  \/ \E v \in Versions, pages \in [Versions -> 0..MaxPages + 1] : PublishVersion(v, pages)
Refresh == RefreshFetch \/ RefreshGarbled \/ RefreshStore
Request(c) ==
  \/ \E v \in Versions : Decide(c, v)
  \/ MirrorLookup(c) \/ LiveCached(c) \/ LiveAsk(c) \/ Remember(c) \/ LiveFails(c)
  \/ AgeCheck(c) \/ AgeUnknown(c)
  \/ IndexWithDates(c) \/ IndexBare(c) \/ DatesCached(c) \/ DatesAsk(c)
  \/ DatesFail(c) \/ DatesPut(c)

Next == World \/ Refresh \/ \E c \in Clients : Request(c)

(* The refresh task runs every ten minutes, and the producer is a cron job.  *)
Spec == Init /\ [][Next]_vars /\ WF_vars(Refresh) /\ WF_vars(ProducerRuns)

-----------------------------------------------------------------------------
Times == 0..Horizon

TypeOK ==
  /\ config \in Settings
  /\ now \in Times
  /\ published \in [Versions -> Times \cup {Never}]
  /\ page \in [Versions -> 0..MaxPages + 1]
  /\ listed \in [Versions -> Times \cup {Never}]
  /\ dump \in SUBSET Versions
  /\ mirror \in [entries : SUBSET Versions, etag : {None} \cup SUBSET Versions]
  /\ refresh \in Body \cup {None}
  /\ osvCache \in [Versions -> Entry \cup {None}]
  /\ dates \in Dates \cup {None}
  /\ pc \in [Clients ->
              Resting \cup {"mirror", "live", "answered", "age", "bare", "dates"}]
  /\ ver \in [Clients -> Versions]
  /\ started \in [Clients -> Times]
  /\ asked \in [Clients -> Times]
  /\ answer \in [Clients -> BOOLEAN]
  /\ shown \in [Clients -> SUBSET Versions]
  /\ lost \in [Clients -> SUBSET {"osv", "date"}]
  /\ dated \in [Versions -> Times \cup {Never}]
  /\ failedAt \in Times \cup {Never}
  /\ cutAt \in [Versions -> Times \cup {Never}]
  /\ failures \in 0..MaxFailures

(* A version an index showed because it is old enough is not refused for its *)
(* age afterwards: the age check of the artifact and its copies in the       *)
(* rewriters agree at every instant, so that the fallback of a resolver to   *)
(* an older version works (rewrite.rs, "auto-fallback").                     *)
ShownIsOldEnough ==
  \A c \in Clients :
    pc[c] = "too young" /\ Happened(dated[ver[c]]) => started[c] < dated[ver[c]]

(* A version that is too young is allowed only when its date was not found   *)
(* and --fail-on-missing is off, whatever the index showed                   *)
(* (rewrite_nuget.rs, "fail-open doesn't silently admit young versions").    *)
YoungIsDenied ==
  \A c \in Clients :
    pc[c] = "allowed" /\ started[c] - published[ver[c]] < MinAge
      => ~config.failOnMissing /\ "date" \in lost[c]

(* The two ends of the age check agree, with each other and with --min-age.  *)
(* rewrite.rs:150, decision.rs                                               *)
AgesAgree == ShownIsOldEnough /\ YoungIsDenied

(* A bare index shows a version that is too young only if within the life of *)
(* a cached map it was published, a lookup of the dates failed, or one ended *)
(* before the version's page (nuget_flatcontainer_client.rs,                 *)
(* MAX_PAGES_PER_LOOKUP): such a version is shown for as long as it is young. *)
StaleIndexBounded ==
  \A c \in Clients : pc[c] = "offered" =>
    \A v \in shown[c] :
      started[c] - published[v] < MinAge =>
        LET oldest == started[c] - CacheTTL - FetchTime
        IN \/ published[v] >= oldest
           \/ Happened(failedAt) /\ failedAt >= oldest
           \/ Happened(cutAt[v]) /\ cutAt[v] >= oldest

(* With the live API, a malicious version is allowed only to a request that  *)
(* comes within the life of a negative answer of the listing, or whose       *)
(* lookup failed, however the requests interleave (osv.rs, NEGATIVE_TTL,     *)
(* "bounds the exposure window").                                            *)
ExposureBounded ==
  \A c \in Clients :
    config.source = "live" /\ pc[c] = "allowed" /\ Happened(listed[ver[c]]) =>
      \/ started[c] <= listed[ver[c]] + NegativeTTL + FetchTime
      \/ "osv" \in lost[c]

(* Neither what is cached of the dates nor what is cached of the listing     *)
(* exposes for longer than it lives (osv.rs, nuget_flatcontainer_client.rs). *)
ExposuresBounded == StaleIndexBounded /\ ExposureBounded

(* What OSV lists reaches the snapshot, whatever garbled bodies come between *)
(* (osv_mirror.rs, refresh_once).                                            *)
ListedReachesMirror ==
  \A v \in Versions : MirrorOn /\ Happened(listed[v]) ~> v \in mirror.entries
=============================================================================
