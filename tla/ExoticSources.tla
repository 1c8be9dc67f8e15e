---------------------------- MODULE ExoticSources ----------------------------
(* `sakimori deps exotic`: packages of a lockfile that do not come from a    *)
(* registry, and so pass by the proxy's checks (exotic.rs, deps/cli.rs).     *)
EXTENDS Integers, Sequences, FiniteSets

CONSTANTS
  Nodes,        \* entries of a lockfile
  Names,        \* of packages
  Root          \* the node of the project itself

Sources == {"registry", "git", "absent", "link"}   \* "absent": no `resolved`, no `source`

ASSUME ExoticAssumption == Root \in Nodes

(* A node, the nodes it requires, the key by which they require it and the   *)
(* name that the lockfile gives it.  For npm they differ under an alias, and *)
(* for the directory that an entry links to, whose name is its path.  A tool *)
(* that the command does not know, and a file that does not parse, are one   *)
(* case: the scan is an error.                                               *)
VARIABLES
  tree,       \* the lockfile: [tool, key, name, source, requires]
  answer      \* the command's: [direct, exit]

exoticVars == <<tree, answer>>
NotAsked == [direct |-> FALSE, exit |-> -1]

-----------------------------------------------------------------------------
(* Wrong variants of definitions below.                                      *)

\* What anybody declares is direct.
DeclaredByAny(t) == {t.key[m] : m \in UNION {t.requires[n] : n \in Nodes}}

-----------------------------------------------------------------------------
(* scan_npm, scan_cargo.                                                     *)

(* The project for npm; for cargo the entries without a source, and by their *)
(* names also the packages that are called the same.                         *)
Declaring(t) ==
  IF t.tool = "npm" THEN {Root}
  ELSE {n \in Nodes : \E m \in Nodes : t.source[m] = "absent" /\ t.name[m] = t.name[n]}

DirectNames(t) == {t.key[m] : m \in UNION {t.requires[n] : n \in Declaring(t)}}

(* What is fetched: npm resolves every entry but the project and the links,  *)
(* cargo every entry with a source.                                          *)
Scanned(t) ==
  IF t.tool = "npm" THEN {n \in Nodes \ {Root} : t.source[n] # "link"}
  ELSE {n \in Nodes : t.source[n] # "absent"}

Exotic(t) == {n \in Scanned(t) : t.source[n] # "registry"}

(* run_exotic.                                                               *)
ExoticExit(t, direct) ==
  LET named == DirectNames(t)
  IN IF t.tool = "unknown" \/ \E n \in Exotic(t) : direct \/ t.name[n] \notin named
     THEN 1 ELSE 0

ReadTree(t) == tree = NotAsked /\ tree' = t /\ UNCHANGED answer

RunExotic(direct) ==
  /\ tree # NotAsked
  /\ answer' = [direct |-> direct, exit |-> ExoticExit(tree, direct)]
  /\ tree' = tree

(* A link leads to a directory of the project, which has an entry of its own *)
(* that nothing else leads to.                                               *)
LinksAreSound(t) ==
  \A n \in Nodes : t.source[n] = "link" =>
    /\ t.tool = "npm"
    /\ \E d \in Nodes :
         /\ t.requires[n] = {d} /\ t.source[d] = "absent"
         /\ \A m \in Nodes : d \in t.requires[m] => t.source[m] = "link"

Trees ==
  {t \in [tool : {"npm", "cargo"}, key : [Nodes -> Names], name : [Nodes -> Names],
          source : {s \in [Nodes -> Sources] : s[Root] = "absent"},
          requires : {r \in [Nodes -> SUBSET (Nodes \ {Root})] : \A n \in Nodes : n \notin r[n]}] :
     /\ t.key[Root] = t.name[Root]
     /\ t.tool = "cargo" => t.key = t.name
     /\ LinksAreSound(t)}
UnknownTree ==
  [tool |-> "unknown", key |-> [n \in Nodes |-> "none"], name |-> [n \in Nodes |-> "none"], source |-> [n \in Nodes |-> "absent"],
   requires |-> [n \in Nodes |-> {}]]

ExoticInit == tree = NotAsked /\ answer = NotAsked
ExoticNext ==
  \/ tree = NotAsked /\ \E t \in Trees : ReadTree(t)
  \/ ReadTree(UnknownTree)
  \/ \E direct \in BOOLEAN : RunExotic(direct)

ExoticSpec == ExoticInit /\ [][ExoticNext]_exoticVars

-----------------------------------------------------------------------------
(* The members of the project, what they require, and the keys by which they *)
(* require node n, itself or by a link to it.                                *)
Members(t) == {n \in Nodes : n = Root \/ (t.tool = "cargo" /\ t.source[n] = "absent")}
Required(t) == UNION {t.requires[n] : n \in Members(t)}
Calls(t, n) ==
  {t.key[m] : m \in {k \in Required(t) : k = n \/ (t.source[k] = "link" /\ n \in t.requires[k])}}
Direct(t) == {n \in Nodes : Calls(t, n) # {}}

\* What does not come from a registry; a link stands for what it leads to.
Elsewhere(t) == {n \in Nodes \ Members(t) : t.source[n] \notin {"registry", "link"}}

(* The lint passes only if the project itself requires every exotic package: *)
(* no package from a registry brings one in, unless two packages of the tree *)
(* have one name, of which the project is or requires one: the exotic one's, *)
(* or that of a package which requires something of the exotic one's name.   *)
TransitiveIsFailed ==
  answer # NotAsked /\ tree.tool # "unknown" /\ answer.exit = 0 /\ ~answer.direct =>
    \A n \in Elsewhere(tree) \ Direct(tree) :
      \E a \in {n} \cup {m \in Nodes : \E k \in tree.requires[m] : tree.name[k] = tree.name[n]} :
        \E b \in Nodes \ {a} :
        tree.name[a] = tree.key[b] /\ b \in Direct(tree) \cup Members(tree)

(* It fails only for a package of elsewhere that the project does not        *)
(* require by the name the lockfile gives it, or, with --include-direct, for *)
(* any.  What the project requires under an alias, or by a link to its       *)
(* directory, is taken for somebody else's: the keys of the project's        *)
(* dependencies are compared with the names of the packages.                 *)
DirectIsTolerated ==
  answer.exit = 1 /\ tree.tool # "unknown" =>
    \E n \in Elsewhere(tree) : answer.direct \/ tree.name[n] \notin Calls(tree, n)

(* The lint fails for what came in from elsewhere, and for nothing else but  *)
(* what the project requires under another name.                             *)
ExoticIsExact == TransitiveIsFailed /\ DirectIsTolerated
=============================================================================
