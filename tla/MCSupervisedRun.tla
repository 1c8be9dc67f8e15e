--------------------------- MODULE MCSupervisedRun -------------------------
(* Instances of SupervisedRun for TLC, of the walk that attributes one of    *)
(* its events to a package manager, and of the run on Windows.  They share   *)
(* no state, so a behaviour is about one of them.                            *)
EXTENDS SupervisedRun, Attribution, WindowsRun

CONSTANTS cmd, helper, other, sakimori

Tree == {cmd, helper}
Machine == {other}

Secret == <<"/", "k">>
Plain == <<"/", "o">>
Opened == {Secret, Plain}
DenySecret == <<Secret>>
NoPaths == {}
Tools == {"make", "nc"}
Denied1 == {"nc"}

File(n, d) == [kind |-> "file", size |-> n, data |-> d]
Locked == [kind |-> "locked", size |-> 0, data |-> ""]

Tasks == <<"src", "tasks.json">>
Setup == <<"b", "setup.mjs">>
Work == {Tasks, <<"build", "tasks.json">>, Setup}
Ext == {<<"ext", "b", "hook.js">>}
Trees == {File(1, "good"), File(1, "bad"), File(9, "good"), File(9, "other"), Locked}
Start == [p \in Files |->
  CASE p = Tasks -> File(9, "good")
    [] p = Setup -> Locked
    [] OTHER -> File(1, "good")]

(* Much traffic without a snapshot, little without one, none with one.       *)
Way(w, x, e, n) == [workspace |-> w, extensions |-> x, events |-> e, writes |-> n]
Ways == {Way(FALSE, FALSE, 3, 0), Way(FALSE, FALSE, 1, 0), Way(TRUE, FALSE, 0, 1), Way(TRUE, TRUE, 0, 2)}
Built == {"build"}

(* Objects of other builds, each with a part missing; they meet little       *)
(* traffic.                                                                  *)
MCObjects ==
  {{}} \cup {{x} : x \in {"SETTINGS", "EVENTS", "FILE_DENY_PREFIX", "sakimori_openat", "sakimori_connect6"}}
Little == Way(FALSE, FALSE, 1, 0)

(* The catalog: by name, by path, by content, by content of one name.        *)
IocRule(kind, severity, pattern, only) ==
  [kind |-> kind, severity |-> severity, pattern |-> pattern, only |-> only]
Indicators ==
  {IocRule("suffix", "medium", <<"hook.js">>, AnyFile), IocRule("suffix", "high", Setup, AnyFile),
   IocRule("content", "high", "webhook", AnyFile), IocRule("content", "high", "autorun", "tasks.json")}
Needles == [d \in {"bad", "other"} |-> IF d = "bad" THEN {"webhook"} ELSE {"autorun"}]

-----------------------------------------------------------------------------
(* A name that is a secret's, and one that only begins like it.              *)
Sts == <<"sts", "com">>
MCHosts == {<<"eu", "sts", "com">>, <<"sts", "com", "evil">>}
MCSecrets == {<<"meta">>, Sts}

(* An address, a block with a port, and a name that has an address of it.    *)
Rule(kind, covers, ports) == [kind |-> kind, covers |-> covers, ports |-> ports]
MCDenyRules == {Rule("address", {"a"}, {}), Rule("block", {"b"}, {443}), Rule("name", {"b", "n"}, {})}

-----------------------------------------------------------------------------
VARIABLE about   \* what this behaviour is about

allVars == <<about, vars, attributionVars, windowsVars>>

AllInit ==
  /\ about \in {"run", "walk", "windows"}
  /\ Init /\ (lacks # {} <=> opts = Little)
  /\ about # "run" => mode = "audit" /\ opts = Way(FALSE, FALSE, 3, 0)
  /\ AttributionInit
  /\ WindowsInit /\ (about # "windows" => settings = [mode |-> "audit", exec |-> FALSE])

RunStep == about = "run" /\ Next /\ UNCHANGED <<about, attributionVars, windowsVars>>
WalkStep == about = "walk" /\ AttributionNext /\ UNCHANGED <<about, vars, windowsVars>>
WindowsStep == about = "windows" /\ WindowsNext /\ UNCHANGED <<about, vars, attributionVars>>

AllNext == RunStep \/ WalkStep \/ WindowsStep

AllSpec == AllInit /\ [][AllNext]_allVars
=============================================================================
