---------------------------- MODULE StripPipeline ---------------------------
(* How an npm install passes through the proxy when a lifecycle gate is on:  *)
(* the packument rewriter, the speculative pre-strip, the tarball gate and   *)
(* the strip cache they share (crates/sakimori-proxy/src/proxy.rs,           *)
(* rewrite_npm.rs, lifecycle.rs), with clients that check what they get      *)
(* against the integrity they were told, a registry that may republish a     *)
(* version and a proxy that may be restarted, upgraded or reconfigured.      *)
(*                                                                           *)
(* A package stands for one name@version.  A tarball is [pkg, rev, by]: the  *)
(* bytes the registry serves (by = Registry) or what the rewriter of a build *)
(* makes of them.  Its integrity is the tarball itself (a hash without       *)
(* collisions), so "verifies" is equality.                                   *)
EXTENDS Naturals

CONSTANTS
  Clients,      \* npm processes; one request at a time each
  Packages,     \* name@version
  Tagged,       \* those a dist-tag points at
  Revs,         \* successive uploads of a version
  Configs,      \* how the proxy may be started
  Trait,        \* what the package.json of a package looks like
  Registry,     \* the maker of an unmodified tarball
  None,         \* no tarball, no entry
  NoStripNeeded,
  Failed,       \* the rewriter gave up
  Conditional,  \* clients revalidate what they hold with If-None-Match
  MaxRestarts,  \* bounds of one behaviour
  MaxRepublish,
  MaxMissed     \* where the count of failed attempts saturates

(* scripted: install scripts, which the rewriter removes; hollow: a script   *)
(* key whose value is empty, which only the rewriter notices; unstrippable:  *)
(* scripts in a tarball over the limits; opaque: not readable; plain: none.  *)
Traits == {"scripted", "hollow", "plain", "unstrippable", "opaque"}
Builds == {cf.build : cf \in Configs}

Body(p, r, by) == [pkg |-> p, rev |-> r, by |-> by]
Bodies == [pkg : Packages, rev : Revs, by : Builds \cup {Registry}]
StrippedBodies == [pkg : Packages, rev : Revs, by : Builds]
Entries == StrippedBodies \cup {None, NoStripNeeded}

ASSUME PackageAssumption ==
  Tagged \subseteq Packages /\ Trait \in [Packages -> Traits]
ASSUME ConfigAssumption ==
  \A cf \in Configs :
    /\ cf.allow \subseteq Packages
    /\ cf.policy \in {"audit", "block", "strip"}
    /\ cf.onFailure \in {"block", "passthrough"}
ASSUME ValueAssumption ==
  /\ Registry \notin Builds
  /\ None \notin Bodies /\ NoStripNeeded \notin Bodies /\ Failed \notin Bodies
  /\ None # NoStripNeeded /\ None # Failed /\ Failed # NoStripNeeded
ASSUME BoundAssumption ==
  /\ Conditional \in BOOLEAN
  /\ MaxRestarts \in Nat /\ MaxRepublish \in Nat /\ MaxMissed \in Nat

VARIABLES
  conf,         \* the running proxy: build, allow-list, policy, on-failure
  upstream,     \* the upload the registry serves
  mem, disk,    \* the strip cache, keyed by package and upstream upload
  late,         \* inserts of pre-strip tasks the budget no longer waits for
  pc,           \* where the request of a client is
  pkg,          \* the package it wants
  adv,          \* the integrity it was told, or is about to be
  got,          \* the bytes fetched last, for it or in its name
  pinned,       \* its integrity comes from its lockfile
  held,         \* the packuments it has kept (their ETag is their rev)
  lock,         \* what its lockfile pins
  missed,       \* failed integrity checks since its last success
  restarts, republished

cacheVars  == <<mem, disk, late>>
clientVars == <<pc, pkg, adv, got, pinned, held, lock, missed>>
worldVars  == <<conf, upstream, restarts, republished>>
vars == <<conf, upstream, mem, disk, late, pc, pkg, adv, got, pinned, held,
          lock, missed, restarts, republished>>

Stages == {"idle", "asked", "lookup", "fetching", "inserting", "apply", "told",
           "served", "mismatch", "installed", "denied"}

Upstream(p) == Body(p, upstream[p], Registry)

\* lifecycle_allow.contains
Allowed(p) == p \in conf.allow

(* StripCache::get: entries are keyed by the integrity of upstream bytes.    *)
CacheGet(b) == IF b.by = Registry THEN mem[b.pkg][b.rev] ELSE None

(* apply_strip_cache_to_packument replaces the integrity of a Stripped entry *)
(* and leaves everything else as it is.                                      *)
Applied(b) == IF CacheGet(b) \in StrippedBodies THEN CacheGet(b) ELSE b

(* inspect_npm_tarball: scripts that are not blank.                          *)
HasScripts(b) == Trait[b.pkg] \in {"scripted", "unstrippable"}

(* strip_npm_tarball: removes a script key whatever its value is.            *)
Strip(b) ==
  CASE Trait[b.pkg] \in {"scripted", "hollow"} -> Body(b.pkg, b.rev, conf.build)
    [] Trait[b.pkg] = "plain" -> NoStripNeeded
    [] OTHER -> Failed

(* StripCache::insert: memory always, the directory when it can be written.  *)
Insert(k, entry) ==
  /\ mem' = [mem EXCEPT ![k.pkg][k.rev] = entry]
  /\ \/ disk' = disk
     \/ disk' = [disk EXCEPT ![k.pkg][k.rev] = entry]

-----------------------------------------------------------------------------
(* Wrong variants of the definitions below.                                  *)

\* Skip the comparison of the fetched bytes with the advertised integrity.
PreStripFetchedUnchecked(c) ==
  /\ pc[c] = "fetching"
  /\ got' = [got EXCEPT ![c] = Upstream(pkg[c])]
  /\ pc' = [pc EXCEPT ![c] =
       IF Strip(Upstream(pkg[c])) # Failed THEN "inserting" ELSE "apply"]
  /\ UNCHANGED <<cacheVars, worldVars, pkg, adv, pinned, held, lock, missed>>

\* Strip and serve, but do not remember.
ServeStrippedForgetful(c) ==
  /\ got' = [got EXCEPT ![c] = Strip(Upstream(pkg[c]))]
  /\ pc' = [pc EXCEPT ![c] = "served"]
  /\ UNCHANGED <<mem, disk>>

\* A version whose verdict is cached needs no gate.
GatedUnlessCached(c) == ~Allowed(pkg[c]) /\ mem[pkg[c]][upstream[pkg[c]]] = None

-----------------------------------------------------------------------------
Init ==
  /\ conf \in Configs
  /\ upstream \in [Packages -> Revs]
  /\ mem = [p \in Packages |-> [r \in Revs |-> None]]
  /\ disk = mem
  /\ late = {}
  /\ pc = [c \in Clients |-> "idle"]
  /\ pkg \in [Clients -> Packages]
  /\ adv = [c \in Clients |-> None]
  /\ got = [c \in Clients |-> None]
  /\ pinned = [c \in Clients |-> FALSE]
  /\ held = [c \in Clients |-> [p \in Packages |-> None]]
  /\ lock = held
  /\ missed = [c \in Clients |-> 0]
  /\ restarts = 0
  /\ republished = 0

Done == {"installed", "denied"}
InProxy == {"asked", "lookup", "fetching", "inserting", "apply"}

(* A client asks for the packument: for the first time, or again after an    *)
(* EINTEGRITY.                                                               *)
RequestPackument(c, p) ==
  /\ \/ pc[c] \in Done \cup {"idle"} /\ missed' = [missed EXCEPT ![c] = 0]
     \/ pc[c] = "mismatch" /\ p = pkg[c] /\ UNCHANGED missed
  /\ pc' = [pc EXCEPT ![c] = "asked"]
  /\ pkg' = [pkg EXCEPT ![c] = p]
  /\ pinned' = [pinned EXCEPT ![c] = FALSE]
  /\ UNCHANGED <<cacheVars, worldVars, adv, got, held, lock>>

(* The client's If-None-Match goes upstream untouched, and the registry      *)
(* knows nothing of the rewriting; handle_response lets a 304 through.       *)
NotModified(c) ==
  /\ Conditional
  /\ held[c][pkg[c]] # None
  /\ held[c][pkg[c]].rev = upstream[pkg[c]]

PackumentNotModified(c) ==
  /\ pc[c] = "asked"
  /\ NotModified(c)
  /\ adv' = [adv EXCEPT ![c] = held[c][pkg[c]]]
  /\ pc' = [pc EXCEPT ![c] = "told"]
  /\ UNCHANGED <<cacheVars, worldVars, pkg, got, pinned, held, lock, missed>>

(* handle_response, NpmPackument: rewrite_npm_packument_with applies the     *)
(* cache; under the strip policy the pre-strip follows, unless the name is   *)
(* on the allow-list or no tag points at the version.                        *)
PackumentRewritten(c) ==
  /\ pc[c] = "asked"
  /\ ~NotModified(c)
  /\ LET a == Applied(Upstream(pkg[c])) IN
     /\ adv' = [adv EXCEPT ![c] = a]
     /\ IF conf.policy = "strip" /\ ~Allowed(pkg[c]) /\ pkg[c] \in Tagged
          THEN pc' = [pc EXCEPT ![c] = "lookup"] /\ UNCHANGED held
          ELSE /\ pc' = [pc EXCEPT ![c] = "told"]
               /\ held' = [held EXCEPT ![c][pkg[c]] = a]
  /\ UNCHANGED <<cacheVars, worldVars, pkg, got, pinned, lock, missed>>

(* pre_strip_one_version looks the integrity of the rewritten packument up.  *)
PreStripLookup(c) ==
  /\ pc[c] = "lookup"
  /\ pc' = [pc EXCEPT ![c] = IF CacheGet(adv[c]) # None THEN "apply" ELSE "fetching"]
  /\ UNCHANGED <<cacheVars, worldVars, pkg, adv, got, pinned, held, lock, missed>>

(* The tarball arrives; bytes of another integrity than the advertised one   *)
(* are not cached, nor is anything when the rewriter fails.                  *)
PreStripFetched(c) ==
  /\ pc[c] = "fetching"
  /\ got' = [got EXCEPT ![c] = Upstream(pkg[c])]
  /\ pc' = [pc EXCEPT ![c] =
       IF Upstream(pkg[c]) = adv[c] /\ Strip(adv[c]) # Failed
         THEN "inserting" ELSE "apply"]
  /\ UNCHANGED <<cacheVars, worldVars, pkg, adv, pinned, held, lock, missed>>

PreStripFetchFails(c) ==
  /\ pc[c] = "fetching"
  /\ pc' = [pc EXCEPT ![c] = "apply"]
  /\ UNCHANGED <<cacheVars, worldVars, pkg, adv, got, pinned, held, lock, missed>>

PreStripInsert(c) ==
  /\ pc[c] = "inserting"
  /\ Insert(adv[c], Strip(got[c]))
  /\ pc' = [pc EXCEPT ![c] = "apply"]
  /\ UNCHANGED <<late, worldVars, pkg, adv, got, pinned, held, lock, missed>>

(* PRE_STRIP_TOTAL_BUDGET: abort_all drops a task that waits for its fetch;  *)
(* one that is past it has no await left and inserts when it gets there.     *)
BudgetExhausted(c) ==
  /\ pc[c] \in {"fetching", "inserting"}
  /\ late' = IF pc[c] = "inserting" THEN late \cup {<<adv[c], Strip(got[c])>>}
                                    ELSE late
  /\ pc' = [pc EXCEPT ![c] = "apply"]
  /\ UNCHANGED <<mem, disk, worldVars, pkg, adv, got, pinned, held, lock, missed>>

LateInsert ==
  \E x \in late :
    /\ Insert(x[1], x[2])
    /\ late' = late \ {x}
    /\ UNCHANGED <<worldVars, clientVars>>

(* The cache is applied once more, and the client has its packument.         *)
ApplyAgain(c) ==
  /\ pc[c] = "apply"
  /\ adv' = [adv EXCEPT ![c] = Applied(adv[c])]
  /\ held' = [held EXCEPT ![c][pkg[c]] = adv'[c]]
  /\ pc' = [pc EXCEPT ![c] = "told"]
  /\ UNCHANGED <<cacheVars, worldVars, pkg, got, pinned, lock, missed>>

(* npm ci: no packument, the integrity comes from the lockfile.              *)
InstallFromLock(c, p) ==
  /\ pc[c] \in Done \cup {"idle"}
  /\ lock[c][p] # None
  /\ pc' = [pc EXCEPT ![c] = "told"]
  /\ pkg' = [pkg EXCEPT ![c] = p]
  /\ adv' = [adv EXCEPT ![c] = lock[c][p]]
  /\ pinned' = [pinned EXCEPT ![c] = TRUE]
  /\ missed' = [missed EXCEPT ![c] = 0]
  /\ UNCHANGED <<cacheVars, worldVars, got, held, lock>>

(* handle_request tags the tarball for the gate unless its name is allowed;  *)
(* lifecycle_inspect_npm_tarball gates the response.                         *)
Gated(c) == ~Allowed(pkg[c])

Serve(c, b) ==
  /\ got' = [got EXCEPT ![c] = b]
  /\ pc' = [pc EXCEPT ![c] = "served"]

Deny(c) ==
  /\ pc' = [pc EXCEPT ![c] = "denied"]
  /\ UNCHANGED got

ServeStripped(c) ==
  /\ Serve(c, Strip(Upstream(pkg[c])))
  /\ Insert(Upstream(pkg[c]), Strip(Upstream(pkg[c])))

TarballArrives(c) ==
  /\ pc[c] = "told"
  /\ LET b == Upstream(pkg[c])
         clean == ~Gated(c) \/ ~HasScripts(b) \/ conf.policy = "audit"
     IN \/ clean /\ Serve(c, b) /\ UNCHANGED <<mem, disk>>
        \/ /\ ~clean /\ conf.policy = "block"
           /\ Deny(c) /\ UNCHANGED <<mem, disk>>
        \/ /\ ~clean /\ conf.policy = "strip" /\ Strip(b) # Failed
           /\ ServeStripped(c)
        \/ /\ ~clean /\ conf.policy = "strip" /\ Strip(b) = Failed
           /\ IF conf.onFailure = "block" THEN Deny(c) ELSE Serve(c, b)
           /\ UNCHANGED <<mem, disk>>
  /\ UNCHANGED <<late, worldVars, pkg, adv, pinned, held, lock, missed>>

(* The client compares the hash of what it got with what it was told.        *)
Verify(c) ==
  /\ pc[c] = "served"
  /\ IF got[c] = adv[c]
       THEN /\ pc' = [pc EXCEPT ![c] = "installed"]
            /\ lock' = [lock EXCEPT ![c][pkg[c]] = adv[c]]
            /\ UNCHANGED missed
       ELSE /\ pc' = [pc EXCEPT ![c] = "mismatch"]
            /\ missed' = [missed EXCEPT ![c] = IF @ < MaxMissed THEN @ + 1 ELSE @]
            /\ UNCHANGED lock
  /\ UNCHANGED <<cacheVars, worldVars, pkg, adv, got, pinned, held>>

(* A registry that lets a version be uploaded again, or a mirror that serves *)
(* other bytes for it.                                                       *)
Republish(p) ==
  /\ republished < MaxRepublish
  /\ republished' = republished + 1
  /\ \E r \in Revs \ {upstream[p]} : upstream' = [upstream EXCEPT ![p] = r]
  /\ UNCHANGED <<conf, restarts, cacheVars, clientVars>>

(* The proxy dies, with every request in it, and is started again; the cache *)
(* is loaded when the strip policy gives it a directory.  A client whose     *)
(* connection breaks asks again.                                             *)
StartAs(cf) ==
  /\ restarts < MaxRestarts
  /\ restarts' = restarts + 1
  /\ conf' = cf
  /\ mem' = IF cf.policy = "strip" THEN disk
            ELSE [p \in Packages |-> [r \in Revs |-> None]]
  /\ late' = {}
  /\ pc' = [c \in Clients |-> IF pc[c] \in InProxy THEN "asked" ELSE pc[c]]
  /\ UNCHANGED <<disk, upstream, republished, pkg, adv, got, pinned, held, lock, missed>>

Restart == StartAs(conf)
Reconfigure == \E cf \in Configs \ {conf} : StartAs(cf)

PackumentStep(c) ==
  \/ PackumentNotModified(c) \/ PackumentRewritten(c) \/ PreStripLookup(c)
  \/ PreStripFetched(c) \/ PreStripFetchFails(c) \/ PreStripInsert(c)
  \/ BudgetExhausted(c) \/ ApplyAgain(c)
TarballStep(c) == TarballArrives(c) \/ Verify(c)
Retry(c) == pc[c] = "mismatch" /\ RequestPackument(c, pkg[c])

Next ==
  \/ \E c \in Clients :
       \/ PackumentStep(c) \/ TarballStep(c)
       \/ \E p \in Packages : RequestPackument(c, p) \/ InstallFromLock(c, p)
  \/ \E p \in Packages : Republish(p)
  \/ LateInsert
  \/ Restart

(* One proxy configuration for good, restarted at will.                      *)
Spec == Init /\ [][Next]_vars

(* The operator may upgrade the binary, or edit the policy or the allow-list.*)
EvolvingSpec == Init /\ [][Next \/ Reconfigure]_vars

(* The handlers run, responses arrive or fail, and a client told EINTEGRITY  *)
(* tries again.                                                              *)
FairSpec ==
  /\ EvolvingSpec
  /\ \A c \in Clients :
       WF_vars(PackumentStep(c)) /\ WF_vars(TarballStep(c)) /\ WF_vars(Retry(c))

-----------------------------------------------------------------------------
TypeOK ==
  /\ conf \in Configs
  /\ upstream \in [Packages -> Revs]
  /\ mem \in [Packages -> [Revs -> Entries]]
  /\ disk \in [Packages -> [Revs -> Entries]]
  /\ late \subseteq (Bodies \X Entries)
  /\ pc \in [Clients -> Stages]
  /\ pkg \in [Clients -> Packages]
  /\ adv \in [Clients -> Bodies \cup {None}]
  /\ got \in [Clients -> Bodies \cup {None}]
  /\ pinned \in [Clients -> BOOLEAN]
  /\ held \in [Clients -> [Packages -> Bodies \cup {None}]]
  /\ lock \in [Clients -> [Packages -> Bodies \cup {None}]]
  /\ missed \in [Clients -> 0 .. MaxMissed]
  /\ restarts \in 0 .. MaxRestarts
  /\ republished \in 0 .. MaxRepublish

(* An entry is what its own key's bytes were turned into, however long the   *)
(* pre-strip took and whatever the registry published in the meantime        *)
(* (StripKey includes orig_integrity, the pre-strip compares hashes).        *)
NoStaleEntry ==
  \A p \in Packages, r \in Revs :
    mem[p][r] \in StrippedBodies => mem[p][r].pkg = p /\ mem[p][r].rev = r

(* Once the metadata was rewritten, the tarball handler serves what the      *)
(* metadata says: a client that was told a rewritten integrity and fetches   *)
(* the same upload gets exactly those bytes, whichever of the lazy and the   *)
(* speculative path filled the cache, and across restarts.                   *)
AdvertisedHonoured ==
  \A c \in Clients :
    pc[c] = "served" /\ adv[c].by # Registry /\ got[c].rev = adv[c].rev
      => got[c] = adv[c]

(* A lockfile written by an install through the proxy stays installable      *)
(* through it as long as the registry serves the same upload.                *)
PinnedHonoured ==
  \A c \in Clients :
    pc[c] = "served" /\ pinned[c] /\ got[c].rev = adv[c].rev => got[c] = adv[c]

(* What the proxy once said of an upload, it serves.                         *)
WordKept == AdvertisedHonoured /\ PinnedHonoured

(* A failed pre-strip costs one EINTEGRITY: the tarball handler has stripped *)
(* and cached the version by then, so the next packument tells its integrity.*)
AtMostOneMismatch ==
  restarts = 0 /\ republished = 0 => \A c \in Clients : missed[c] <= 1

(* A request of a client that keeps retrying, and holds no packument to      *)
(* revalidate, ends with the package installed or refused by policy, across  *)
(* finitely many upgrades, policy changes and republications.  It does not   *)
(* when a stripped package is allow-listed, nor of a client that revalidates: *)
(* its 304 (proxy.rs:1562) repeats the integrity that the tarball failed.    *)
RetrySucceeds ==
  \A c \in Clients : (~Conditional /\ pc[c] = "asked") ~> (pc[c] \in Done)
=============================================================================
