---------------------------- MODULE WorkflowAudit ----------------------------
(* `sakimori actions audit` and `actions audit-repo`: what the workflows of  *)
(* a repository use, whether it is pinned, and whether CODEOWNERS guards     *)
(* them (actions.rs, codeowners.rs, cli.rs).                                 *)
EXTENDS Patterns

CONSTANTS
  Refs,           \* tags and branches that workflows name: actions' and images'
  FirstParty,     \* those of actions/* and github/*
  Commits,        \* what a tag may point at
  Repositories,   \* what may be checked out: [files, owners], see Repository
  Nil,
  MaxMoves        \* bound: times a tag moves

Failed == "failed"   \* a lookup without an answer

ASSUME AuditAssumption ==
  /\ FirstParty \subseteq Refs /\ Commits # {} /\ MaxMoves \in Nat
  /\ Nil \notin Refs \cup Commits \cup {Failed, "files", "repo"} /\ Nil \notin {0, 1}

(* What a job runs.  The `uses:` of a step, or of the job, is local, fixed   *)
(* by a SHA or a digest, an action or an image by a tag, or an action with   *)
(* no `@` at all, of which its default branch is run; or there is a `run:`;  *)
(* or it is an image of `container:` or `services:`.  ref is the tag or the  *)
(* branch; a local action and one fixed by a SHA may have it in their        *)
(* action.yml, for what they use in turn.  role is what the action is known  *)
(* for: one that writes the cache, that does so when its input says so       *)
(* ("setup") or does not deny it ("go"), a checkout, a script.  text has the *)
(* expressions of the script: they begin with a value that others control,   *)
(* have one further inside, or have none.                                    *)
Step ==
  {s \in [uses : {"local", "fixed", "action", "image", "bare", "nothing", "container"}, ref : Refs \cup {Nil},
          role : {"cache", "setup", "go", "checkout", "script", "other"},
          input : {"absent", "falsy", "set", "head"},
          text : SUBSET {"leading", "nested", "safe"}] :
     /\ s.uses \in {"action", "image", "bare"} => s.ref # Nil
     /\ s.uses = "nothing" => s.ref = Nil
     /\ s.uses \in {"nothing", "container"} => s.role = "other"}
Trigger == {"push", "pull_request", "pull_request_target", "workflow_run"}
Workflow == [parses : BOOLEAN, listed : BOOLEAN, on : {Nil} \cup SUBSET Trigger, steps : Seq(Step)]
Rule == [pattern : [lead : BOOLEAN, segs : Seq(Seq(STRING)) \ {<<>>}, dir : BOOLEAN], owned : BOOLEAN]
Repository == [files : Seq(Workflow), owners : [1 .. 3 -> {Nil} \cup Seq(Rule)]]

ASSUME RepositoriesAssumption == Repositories \subseteq Repository /\ Nil \notin Repositories

VARIABLES
  repo,       \* the checkout, Nil before
  target,     \* what each tag and branch points at, where it comes from
  audit,      \* the command: its arguments, answers to lookups, exit code
  held,       \* history: what each tag has pointed at during the command
  ran,        \* history: what the steps ran when the command ended
  moves

auditVars == <<repo, target, audit, held, ran, moves>>

NoAudit == [cmd |-> Nil, strict |-> FALSE, resolve |-> FALSE, strictOwners |-> FALSE,
            answers |-> <<>>, exit |-> Nil]

-----------------------------------------------------------------------------
(* Verdicts on one file.                                                     *)

(* classify; audit_yaml visits no image of a job, and no action.yml.         *)
Severity(s) ==
  CASE s.uses \in {"local", "fixed", "nothing", "container"} -> "ok"
    [] s.uses = "action" /\ s.ref \notin FirstParty -> "error"
    [] OTHER -> "warn"

Blocks(s, strict) == Severity(s) = "error" \/ (strict /\ Severity(s) = "warn")

(* collect_triggers, DANGEROUS_TRIGGERS.                                     *)
Privileged(w) == {"pull_request_target", "workflow_run"} \cap w.on # {}

(* collect_cache_writers.                                                    *)
CacheWriter(s) ==
  /\ s.uses # "nothing"
  /\ \/ s.role = "cache"
     \/ s.role = "setup" /\ s.input \notin {"absent", "falsy"}
     \/ s.role = "go" /\ s.input # "falsy"

(* collect_untrusted_checkouts.                                              *)
UntrustedCheckout(s) == s.uses # "nothing" /\ s.role = "checkout" /\ s.input = "head"

(* collect_template_injections.                                              *)
TemplateInjection(s) == (s.uses = "nothing" \/ s.role = "script") /\ "leading" \in s.text

\* Wrong variant: no rule looks at a workflow that is not privileged.
GateFirst(w) ==
  {r \in {"injection", "cache", "checkout"} :
     w.on # Nil /\ Privileged(w) /\ \E i \in DOMAIN w.steps :
       \/ r = "injection" /\ TemplateInjection(w.steps[i])
       \/ r = "cache" /\ CacheWriter(w.steps[i])
       \/ r = "checkout" /\ UntrustedCheckout(w.steps[i])}

(* audit_workflow_yaml: expansion is looked for whatever the triggers are,   *)
(* but nothing in a workflow without any.                                    *)
WorkflowRules(w) ==
  {r \in {"injection", "cache", "checkout"} : w.on # Nil /\ \E i \in DOMAIN w.steps :
     \/ r = "injection" /\ TemplateInjection(w.steps[i])
     \/ r = "cache" /\ Privileged(w) /\ CacheWriter(w.steps[i])
     \/ r = "checkout" /\ Privileged(w) /\ UntrustedCheckout(w.steps[i])}

\* audit is given files, audit-repo takes those with the extension of a workflow.
Audited(cmd, r) == {f \in DOMAIN r.files : cmd = "repo" => r.files[f].listed}

FilesBlock(cmd, r, strict) ==
  \E f \in Audited(cmd, r) :
    \/ \E i \in DOMAIN r.files[f].steps : Blocks(r.files[f].steps[i], strict)
    \/ WorkflowRules(r.files[f]) # {}

-----------------------------------------------------------------------------
(* CODEOWNERS.                                                               *)

(* load: the first of .github/, the root and docs/ that has the file.        *)
OwnersFile(r) ==
  LET there == {k \in 1 .. 3 : r.owners[k] # Nil}
  IN IF there = {} THEN <<>> ELSE r.owners[Min(there)]

(* first_owning_rule: whether any rule with an owner matches.                *)
Owns(rules, path) ==
  \E i \in DOMAIN rules : rules[i].owned /\ PathMatches(rules[i].pattern, path)

Example == <<<<".github">>, <<"workflows">>, <<"example", ".yml">>>>

-----------------------------------------------------------------------------
(* The commands.                                                             *)

CheckOutRepo ==
  /\ repo = Nil /\ \E r \in Repositories : repo' = r
  /\ UNCHANGED <<target, audit, held, ran, moves>>

\* The findings that a lookup is made for, in the order of the report.
Unresolved ==
  LET of(f) == {<<f, i>> : i \in {j \in DOMAIN repo.files[f].steps : repo.files[f].steps[j].uses = "action"}}
  IN (UNION {of(f) : f \in Audited(audit.cmd, repo)}) \ DOMAIN audit.answers

RefAt(p) == repo.files[p[1]].steps[p[2]].ref

\* What every step runs that a tag or a branch stands for.
Runs(r) ==
  [f \in DOMAIN r.files |-> [i \in DOMAIN r.files[f].steps |->
     IF r.files[f].steps[i].ref # Nil THEN target[r.files[f].steps[i].ref] ELSE Nil]]

(* Every file is read before anything is judged: one that does not parse     *)
(* ends the command.                                                         *)
Begin(args) ==
  /\ repo # Nil /\ audit.cmd = Nil
  /\ audit' = [args EXCEPT !.exit = IF \E f \in Audited(args.cmd, repo) : ~repo.files[f].parses
                                   THEN 1 ELSE Nil]
  /\ held' = [r \in Refs |-> {target[r]}]
  /\ UNCHANGED <<repo, target, ran, moves>>

BeginAudit(strict, resolve) ==
  /\ repo # Nil /\ repo.files # <<>>
  /\ Begin([NoAudit EXCEPT !.cmd = "files", !.strict = strict, !.resolve = resolve])

BeginAuditRepo(strict, strictOwners) ==
  Begin([NoAudit EXCEPT !.cmd = "repo", !.strict = strict, !.strictOwners = strictOwners])

(* resolve_all: what has been asked for a file is not asked for it again.    *)
Cached(answers, p) ==
  LET same == {q \in DOMAIN answers : q[1] = p[1] /\ RefAt(q) = RefAt(p)}
  IN IF same = {} THEN Nil ELSE answers[CHOOSE q \in same : TRUE]

\* What is asked for next, and what the answer may be.
NextAsked ==
  CHOOSE x \in Unresolved : \A y \in Unresolved : x[1] < y[1] \/ (x[1] = y[1] /\ x[2] <= y[2])

AnswersTo(p) ==
  IF Cached(audit.answers, p) = Nil THEN {target[RefAt(p)], Failed} ELSE {Cached(audit.answers, p)}

Lookup ==
  /\ audit.cmd # Nil /\ audit.exit = Nil /\ audit.resolve /\ Unresolved # {}
  /\ \E a \in AnswersTo(NextAsked) :
       audit' = [audit EXCEPT !.answers =
                   [q \in {NextAsked} \cup DOMAIN @ |-> IF q = NextAsked THEN a ELSE @[q]]]
  /\ UNCHANGED <<repo, target, held, ran, moves>>

Finish(blocked) ==
  /\ audit.exit = Nil
  /\ audit' = [audit EXCEPT !.exit = IF blocked THEN 1 ELSE 0]
  /\ ran' = Runs(repo)
  /\ UNCHANGED <<repo, target, held, moves>>

FinishAudit ==
  /\ audit.cmd = "files" /\ (audit.resolve => Unresolved = {})
  /\ Finish(FilesBlock("files", repo, audit.strict))

FinishAuditRepo ==
  /\ audit.cmd = "repo"
  /\ Finish(\/ FilesBlock("repo", repo, audit.strict)
            \/ audit.strictOwners /\ ~Owns(OwnersFile(repo), Example))

MoveTag(r, c) ==
  /\ repo # Nil /\ moves < MaxMoves /\ c # target[r]
  /\ target' = [target EXCEPT ![r] = c]
  /\ held' = IF audit.exit = Nil THEN [held EXCEPT ![r] = @ \cup {c}] ELSE held
  /\ moves' = moves + 1
  /\ UNCHANGED <<repo, audit, ran>>

AuditInit ==
  /\ repo = Nil /\ target = [r \in Refs |-> CHOOSE c \in Commits : TRUE]
  /\ audit = NoAudit /\ held = [r \in Refs |-> {}] /\ ran = <<>> /\ moves = 0

AuditNext ==
  \/ CheckOutRepo
  \/ \E strict, resolve \in BOOLEAN : BeginAudit(strict, resolve)
  \/ \E strict, strictOwners \in BOOLEAN : BeginAuditRepo(strict, strictOwners)
  \/ Lookup \/ FinishAudit \/ FinishAuditRepo
  \/ \E r \in Refs, c \in Commits : MoveTag(r, c)

AuditSpec == AuditInit /\ [][AuditNext]_auditVars

-----------------------------------------------------------------------------
AuditTypeOK ==
  /\ repo \in Repositories \cup {Nil} /\ target \in [Refs -> Commits]
  /\ audit.exit \in {Nil, 0, 1} /\ moves \in 0 .. MaxMoves
  /\ \A p \in DOMAIN audit.answers : audit.answers[p] \in Commits \cup {Failed}

\* The steps that no longer run what they ran when the command ended.
Changed ==
  UNION {{<<f, i>> : i \in {j \in DOMAIN ran[f] : ran[f][j] # Runs(repo)[f][j]}} : f \in DOMAIN ran}

(* After an audit that passes with --strict no tag or branch that moves      *)
(* changes what a `uses:` of the audited workflows names; without it only a  *)
(* first-party one, an image, or the default branch of an action that is     *)
(* named without `@` does.  What the audit does not read may change with     *)
(* both: what a local or a fixed action uses in turn, the images of          *)
(* `container:` and `services:`, and workflows that are not listed.          *)
PassedIsPinned ==
  audit.exit = 0 =>
    \A p \in Changed :
      LET w == repo.files[p[1]]
          s == w.steps[p[2]]
      IN \/ audit.cmd = "repo" /\ ~w.listed
         \/ s.uses \in {"local", "fixed", "container"}
         \/ ~audit.strict /\ (s.uses \in {"image", "bare"} \/ s.ref \in FirstParty)

(* After an audit that passes, none of the events that start a workflow can  *)
(* make it expand a value of others at the start of an expression, nor, if a *)
(* fork can raise the event and the run has the rights of the base, write the*)
(* cache or check out the head.                                              *)
PassedIsClean ==
  audit.exit = 0 =>
    \A f \in Audited(audit.cmd, repo) :
      LET w == repo.files[f]
      IN w.on # Nil =>
           \A event \in w.on, i \in DOMAIN w.steps :
             LET s == w.steps[i]
             IN /\ s.uses = "nothing" \/ s.role = "script" => "leading" \notin s.text
                /\ event \in {"pull_request_target", "workflow_run"} =>
                     /\ s.role # "cache" /\ <<s.role, s.input>> # <<"checkout", "head">>
                     /\ s.role = "setup" => s.input \in {"absent", "falsy"}
                     /\ s.role = "go" => s.input = "falsy"

(* The commit that is suggested for a tag is one that the tag has had during *)
(* the audit, and within a file it is one commit, although the tag moves.    *)
SuggestedIsHeld ==
  \A p \in DOMAIN audit.answers :
    /\ audit.answers[p] # Failed => audit.answers[p] \in held[RefAt(p)]
    /\ \A q \in DOMAIN audit.answers :
         p[1] = q[1] /\ RefAt(p) = RefAt(q) => audit.answers[p] = audit.answers[q]

(* CODEOWNERS is reported to leave the workflows unguarded only where it     *)
(* does: no reviewer is required for a workflow, by the last rule that       *)
(* matches it; unless that rule gives a directory without a slash behind it, *)
(* or with a `**`, which the code may miss.                                  *)
UncoveredIsUnowned ==
  repo # Nil =>
    LET rules == OwnersFile(repo)
        matching == {i \in DOMAIN rules : PatternMeans(rules[i].pattern, Example)}
        last == rules[Max(matching)]
    IN ~Owns(rules, Example) /\ matching # {} => ~last.owned \/ MayMiss(last.pattern, Example)

(* What an audit lets pass or suggests is what it was meant to (actions.rs). *)
AuditHolds == PassedIsPinned /\ PassedIsClean /\ SuggestedIsHeld

(* What the patterns compute is what they mean: the env rules and their globs *)
(* (policy.rs), the patterns of CODEOWNERS and with them the audit's word on *)
(* it (codeowners.rs), and the distance of the typosquat detector.           *)
PatternsAsMeant ==
  GlobIsAnyRun /\ EnvIsScrubbed /\ OwnersAsMeant /\ UncoveredIsUnowned /\ DistanceCountsEdits
=============================================================================
