---------------------------- MODULE MCSequential ----------------------------
(* What runs from start to end by itself: the handling of one connection's   *)
(* requests, and the commands that read files and write a verdict.  They     *)
(* share no state, so a behaviour is one of them.                            *)
EXTENDS MCProxyRequests, CacheVerification, PolicySuggestion, TyposquatMirror,
        ExoticSources, InstallGate, WorkflowAudit, IndexDocuments, TLC

CONSTANTS k1, k2, rA, rB

-----------------------------------------------------------------------------
(* deps verify-cache.                                                        *)
Tok(a, k) == [algo |-> a, digest |-> k]
Sha512(k) == <<Tok("sha1", k), Tok("sha512", k)>>
Dep(n, i) == [name |-> n, key |-> "module", integrity |-> i]
Lock(kind, packages) == [kind |-> kind, parses |-> TRUE, packages |-> packages]

NpmLock == Lock("npm", <<
  [Dep(None, None) EXCEPT !.key = "root"], [Dep("w", Sha512(k1)) EXCEPT !.key = "link"],
  Dep("a", Sha512(k1)), Dep("b", <<Tok("sha256", k2)>>), Dep("git", None),
  Dep("odd", <<Tok("sha512", Bad)>>)>>)
PnpmLock == Lock("pnpm", <<Dep("a", Sha512(k1)), Dep("b", Sha512(k2))>>)
CargoLock == Lock("cargo", <<Dep("a", <<Tok("sha256", k1)>>), Dep("b", <<Tok("sha256", k2)>>)>>)
MCLockfiles ==
  {NpmLock, PnpmLock, CargoLock, [NpmLock EXCEPT !.parses = FALSE], [NpmLock EXCEPT !.kind = "other"]}

\* Two packages share an executable file; one has the same bytes in a file
\* that is not executable too.
MCFiles == [k \in {k1, k2} |->
  IF k = k1 THEN << [content |-> k2, exec |-> FALSE], [content |-> k2, exec |-> TRUE] >>
  ELSE << [content |-> k2, exec |-> TRUE] >>]

-----------------------------------------------------------------------------
(* policy suggest: a name of two addresses, of which one answers another     *)
(* name's lookup too, and an address without a name.                         *)
MCPtr == [a \in {"x", "y", "z"} |-> CASE a = "x" -> "cdn" [] a = "y" -> "stray" [] OTHER -> NoName]
MCAnswers == [n \in {"cdn", "stray"} |-> IF n = "cdn" THEN {"x", "y"} ELSE {}]
MCOpened == {<<>>, <<"/", "e">>, <<"/", "e", "/", "f">>, <<"f">>}

-----------------------------------------------------------------------------
(* Typosquats.                                                               *)
MCBodies ==
  LET ab == <<"a", "b">>
  IN {[npm |-> {ab}, pypi |-> {}], [npm |-> {}, pypi |-> {}],
      [npm |-> {ab, <<"b", "b", "b">>}, pypi |-> {<<"a", "a">>}]}
MCBaseline == [npm |-> {<<"a", "a", "b">>, <<"b", "b", "b", "b">>}, pypi |-> {<<"a", "b">>}]
MCAsked == {<<>>, <<"a">>, <<"b", "a">>, <<"a", "b">>, <<"a", "a", "b">>, <<"b", "b", "b">>,
            <<"a", "b", "b">>, <<"b", "b", "b", "b">>}

-----------------------------------------------------------------------------
(* actions audit.                                                            *)
Uses(u, r) == [uses |-> u, ref |-> r, role |-> "other", input |-> "absent", text |-> {}]
Simple(u) == Uses(u, Nil)
Known(role, i) == [Simple("fixed") EXCEPT !.role = role, !.input = i]
Run(text) == [Simple("nothing") EXCEPT !.text = text]
Flow(steps) == [parses |-> TRUE, listed |-> TRUE, on |-> {"push", "pull_request"}, steps |-> steps]
From(event, steps) == [Flow(steps) EXCEPT !.on = {"push", event}]
Checked == Uses("action", "checkout")
Third == Uses("action", "third")
Pinned == Flow(<<Simple("fixed"), Simple("nothing")>>)
Tagged2 == Flow(<<Checked, Third, Third>>)
Mixed == Flow(<<Checked, Uses("image", "image"), Simple("local"), Simple("fixed")>>)
NotVisited == {Uses(u, "third") : u \in {"local", "fixed", "container"}}
Roles == {<<role, i>> : role \in {"cache", "setup", "go", "checkout"}, i \in {"absent", "falsy", "set", "head"}}
MCFileSets ==
  {<<>>, <<Tagged2, Mixed>>, <<Pinned, Mixed>>, <<Pinned, [Tagged2 EXCEPT !.listed = FALSE]>>,
   <<Flow(<<Run({"leading"})>>)>>, <<[Flow(<<Run({"leading"})>>) EXCEPT !.on = Nil], Flow(<<Run({"nested", "safe"})>>)>>,
   <<Flow(<<[Known("script", "set") EXCEPT !.text = {"leading"}]>>)>>,
   <<Pinned, [Pinned EXCEPT !.parses = FALSE]>>, <<Flow(<<Uses("bare", "third")>>)>>, <<Flow(SetToSeq(NotVisited))>>,
   <<Flow(<<Uses("image", "image")>>)>>, <<Flow(<<Checked>>)>>}
    \cup {<<Pinned, From(e, <<Known(x[1], x[2])>>)>> : e \in {"pull_request_target", "workflow_run", "pull_request"}, x \in Roles}

Owner(lead, segs, dir, owned) == [pattern |-> [lead |-> lead, segs |-> segs, dir |-> dir], owned |-> owned]
Everything == Owner(FALSE, <<Star>>, FALSE, FALSE)
GitHubDir == Owner(TRUE, <<<<".github">>>>, TRUE, TRUE)
WorkflowsDir == Owner(FALSE, <<<<".github">>, <<"workflows">>>>, TRUE, FALSE)
NoSlash == Owner(TRUE, <<<<".github">>, <<"workflows">>>>, FALSE, TRUE)
YmlFiles == Owner(FALSE, <<<<".github">>, <<"workflows">>, <<"*", ".yml">>>>, FALSE, TRUE)
Docs2 == Owner(FALSE, <<<<"docs">>>>, TRUE, TRUE)
Owners(a, b, c) == [k \in 1 .. 3 |-> CASE k = 1 -> a [] k = 2 -> b [] OTHER -> c]
MCRepositories ==
  [files : MCFileSets,
   owners : {Owners(Nil, Nil, Nil), Owners(Nil, <<Everything, GitHubDir>>, <<Docs2>>),
             Owners(<<GitHubDir, WorkflowsDir>>, Nil, Nil), Owners(<<>>, Nil, <<GitHubDir>>)}]
  \cup [files : {<<Pinned, Mixed>>},
        owners : {Owners(<<WorkflowsDir, NoSlash>>, Nil, Nil), Owners(<<YmlFiles, WorkflowsDir>>, Nil, Nil),
                  Owners(<<WorkflowsDir, YmlFiles>>, Nil, Nil)}]

\* Segments of one letter and of two, and one glob of them.
MCSegments == {<<"a">>, <<"b", "a">>}
MCSegmentGlobs == {<<"*", "a">>}

-----------------------------------------------------------------------------
(* Index documents: releases of two files, of the same day or of others; a   *)
(* tag on each version, dates of one of them or all; an index whose pages    *)
(* are more than a lookup reads.                                             *)
TwoVersions == {"v1", "v2"}
ThreeVersions == {"v1", "v2", "beta"}
MCRank == [v \in ThreeVersions |-> CASE v = "v1" -> 1 [] v = "v2" -> 2 [] OTHER -> 3]
MCUploads ==
  {f \in [version : TwoVersions, date : {0, 9, NoDate}, reads : TwoVersions \cup {NoVersion}] :
     f.reads \in {f.version, NoVersion}}
MCProjects ==
  {p \in [listed : {{"v1"}, TwoVersions}, files : {s \in SUBSET MCUploads : Cardinality(s) <= 2}] :
     \A f \in p.files : f.version \in p.listed}
MCPackuments ==
  {[versions |-> s, proven |-> s \cap q, time |-> t, tags |-> [n \in {"latest"} |-> g]] :
     s \in {TwoVersions, ThreeVersions}, q \in {ThreeVersions, {"v1"}}, g \in ThreeVersions,
     t \in [ThreeVersions -> {0, 9}] \cup [{"v1"} -> {0, NoDate}]}
Leaf(v, d) == [version |-> v, date |-> d]
IndexPage(i, l) == [inline |-> i, leaves |-> l]
MCIndexes ==
  {<<IndexPage(a, {Leaf("v1", d)}), IndexPage(b, {Leaf("v2", e)}), IndexPage(FALSE, {Leaf("beta", f)})>> :
     a \in BOOLEAN, b \in BOOLEAN, d \in {0, 9}, e \in {0, 9}, f \in {1, NoDate}}
MCExtensions ==
  {[x \in {"e1", "e2"} |-> IF x = "e1" THEN a ELSE {Leaf("v1", 1)}] :
     a \in SUBSET {Leaf("v1", 0), Leaf("v1", 9), Leaf("v2", NoDate)}}
CrateLine(v, p, d) == [version |-> v, pubtime |-> p, published |-> d]
MCCrateLines ==
  SUBSET {CrateLine("v1", 9, 0), CrateLine("v2", NoDate, 0), CrateLine("beta", NoDate, NoDate),
          CrateLine("v2", 1, 9)}

-----------------------------------------------------------------------------
VARIABLE part   \* what this behaviour is about

seqVars == <<part, requestVars, cacheVars, suggestVars, input, squatVars, exoticVars, gateVars, auditVars, indexVars>>

SequentialInit ==
  /\ part \in {"proxy", "cache", "suggest", "patterns", "squat", "exotic", "gate", "audit", "index"}
  /\ RequestsInit /\ (part # "proxy" => config = Base)
  /\ CacheInit /\ SuggestInit /\ PatternsInit /\ SquatInit /\ ExoticInit /\ GateInit /\ AuditInit
  /\ IndexInit

ProxyStep ==
  /\ part = "proxy" /\ RequestsNext
  /\ UNCHANGED <<part, cacheVars, suggestVars, input, squatVars, exoticVars, gateVars, auditVars, indexVars>>
CacheStep ==
  /\ part = "cache" /\ CacheNext
  /\ UNCHANGED <<part, requestVars, suggestVars, input, squatVars, exoticVars, gateVars, auditVars, indexVars>>
SuggestStep ==
  /\ part = "suggest" /\ SuggestNext
  /\ UNCHANGED <<part, requestVars, cacheVars, input, squatVars, exoticVars, gateVars, auditVars, indexVars>>
PatternsStep ==
  /\ part = "patterns" /\ PatternsNext
  /\ UNCHANGED <<part, requestVars, cacheVars, suggestVars, squatVars, exoticVars, gateVars, auditVars, indexVars>>
SquatStep ==
  /\ part = "squat" /\ SquatNext
  /\ UNCHANGED <<part, requestVars, cacheVars, suggestVars, input, exoticVars, gateVars, auditVars, indexVars>>
ExoticStep ==
  /\ part = "exotic" /\ ExoticNext
  /\ UNCHANGED <<part, requestVars, cacheVars, suggestVars, input, squatVars, gateVars, auditVars, indexVars>>
GateStep ==
  /\ part = "gate" /\ GateNext
  /\ UNCHANGED <<part, requestVars, cacheVars, suggestVars, input, squatVars, exoticVars, auditVars, indexVars>>
AuditStep ==
  /\ part = "audit" /\ AuditNext
  /\ UNCHANGED <<part, requestVars, cacheVars, suggestVars, input, squatVars, exoticVars, gateVars, indexVars>>
IndexStep ==
  /\ part = "index" /\ IndexNext
  /\ UNCHANGED <<part, requestVars, cacheVars, suggestVars, input, squatVars, exoticVars, gateVars, auditVars>>

\* A command ends; the proxy goes on for ever.
Exited == part # "proxy" /\ UNCHANGED seqVars

SequentialNext ==
  \/ ProxyStep \/ CacheStep \/ SuggestStep \/ PatternsStep
  \/ SquatStep \/ ExoticStep \/ GateStep \/ AuditStep \/ IndexStep
  \/ Exited

SequentialSpec == SequentialInit /\ [][SequentialNext]_seqVars
=============================================================================
