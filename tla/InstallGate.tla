----------------------------- MODULE InstallGate -----------------------------
(* `sakimori install-gate install` and `uninstall`: the block in a shell's   *)
(* rc file, beside what the user writes into it (install_gate.rs, cli.rs).   *)
EXTENDS Integers, Sequences, FiniteSets, SequencesExt, Positions

CONSTANTS
  UserLines,    \* lines of the user's own
  MaxLines, MaxEdits     \* bounds: lines the user adds up to, edits and failing writes

(* Mark, Eval and End are the lines of a block; Note is a line that quotes   *)
(* the opening one, as a block that is commented out does; Torn is what a    *)
(* write that failed has left of a line.                                     *)
Block == <<"Mark", "Eval", "End">>
Line == UserLines \cup ToSet(Block) \cup {"Note", "Blank", "Torn"}

ASSUME InstallGateAssumption ==
  /\ MaxLines \in Nat /\ MaxEdits \in Nat
  /\ UserLines \cap (ToSet(Block) \cup {"Note", "Blank", "Torn"}) = {}

VARIABLES
  rc,       \* the file: lines, whether the last ends in a newline, and whether it
            \* is "text", "absent" or "other", what does not decode
  edits,    \* history: changes by the user, and writes that failed
  step      \* history: who has changed rc last, from what, and whether the write failed

gateVars == <<rc, edits, step>>

NoRc == [lines |-> <<>>, newline |-> FALSE, there |-> "absent"]
Text(lines, newline) == [lines |-> lines, newline |-> newline, there |-> "text"]

-----------------------------------------------------------------------------
(* Wrong variants of definitions below.                                      *)

\* Everything from the first marker to the last end goes.
StripToLastEnd(c) ==
  LET first == Min({i \in DOMAIN c.lines : c.lines[i] = "Mark"} \cup {Len(c.lines) + 1})
      last == Max({i \in DOMAIN c.lines : c.lines[i] = "End"} \cup {0})
  IN Text(SubSeq(c.lines, 1, first - 1) \o SubSeq(c.lines, last + 1, Len(c.lines)), c.newline)

-----------------------------------------------------------------------------
(* has_block: the marker anywhere.                                           *)
HasBlock(c) == {"Mark", "Note"} \cap ToSet(c.lines) # {}

(* strip_block: from a line that is the marker through the next that is the  *)
(* end, or through the end of the file; and a stray end.                     *)
Kept(lines) ==
  {i \in DOMAIN lines :
     /\ lines[i] \notin {"Mark", "End"}
     /\ \A m \in 1 .. i - 1 : lines[m] = "Mark" => \E e \in m + 1 .. i - 1 : lines[e] = "End"}

(* A blank line at the end of a text without a newline is but a newline.     *)
StripBlock(c) ==
  LET lines == AtPositions(c.lines, Kept(c.lines))
  IN IF c.newline \/ lines = <<>> THEN Text(lines, c.newline /\ lines # <<>>)
     ELSE IF Last(lines) = "Blank" THEN Text(Front(lines), Len(lines) > 1)
     ELSE Text(lines, FALSE)

(* install_block: a blank line in front, unless there is one.                *)
AppendBlock(c) ==
  IF c.lines = <<>> \/ (c.newline /\ Len(c.lines) > 1 /\ Last(c.lines) = "Blank")
  THEN c.lines \o Block ELSE Append(c.lines, "Blank") \o Block

(* What is in the file of a text that was not written to its end: some of    *)
(* its lines, and a part of the next or all of it without the newline.       *)
Beginnings(c) ==
  LET Upto(k) == SubSeq(c.lines, 1, k)
  IN {Text(Upto(k), k > 0) : k \in 0 .. Len(c.lines) - 1}
     \cup {Text(Upto(k), FALSE) : k \in {k \in DOMAIN c.lines : c.lines[k] # "Blank"}}
     \cup {Text(Append(Upto(k - 1), "Torn"), FALSE) : k \in {k \in DOMAIN c.lines : c.lines[k] # "Blank"}}

Leave(by) == rc' = rc /\ step' = [by |-> by, from |-> rc, failed |-> FALSE] /\ UNCHANGED edits

(* std::fs::write: the file is emptied, or made, and then written; no space, *)
(* no permission or a crash ends it at any point, the file as it was if it   *)
(* was not opened.                                                           *)
WriteRc(by, c) ==
  \/ rc' = c /\ step' = [by |-> by, from |-> rc, failed |-> FALSE] /\ UNCHANGED edits
  \/ /\ edits < MaxEdits /\ edits' = edits + 1
     /\ rc' \in {rc} \cup Beginnings(c)
     /\ step' = [by |-> by, from |-> rc, failed |-> TRUE]

(* A file that cannot be read is taken for an empty one.                     *)
Install ==
  LET before == IF rc.there = "text" THEN rc ELSE NoRc
  IN IF HasBlock(before) THEN Leave("install")
     ELSE WriteRc("install", Text(AppendBlock(before), TRUE))

Uninstall ==
  IF rc.there = "text" /\ HasBlock(rc) THEN WriteRc("uninstall", StripBlock(rc))
  ELSE Leave("uninstall")

-----------------------------------------------------------------------------
(* The user's editor.                                                        *)
Edit(c) ==
  /\ edits < MaxEdits /\ edits' = edits + 1
  /\ rc' = c /\ step' = [by |-> "user", from |-> rc, failed |-> FALSE]

AddLine ==
  /\ Len(SelectSeq(rc.lines, LAMBDA l : l \notin ToSet(Block))) < MaxLines
  /\ \E l \in UserLines \cup {"Blank"}, newline \in BOOLEAN :
       /\ newline \/ l # "Blank"
       /\ Edit(Text(Append(rc.lines, l), newline))

InsertLine ==
  /\ rc.lines # <<>> /\ Len(rc.lines) < MaxLines + 3
  /\ \E l \in UserLines, i \in DOMAIN rc.lines : Edit([rc EXCEPT !.lines = InsertAt(@, i, l)])

DeleteLine ==
  \E i \in DOMAIN rc.lines :
    LET rest == RemoveAt(rc.lines, i)
        newline == rest # <<>> /\ (i = Len(rc.lines) \/ rc.newline)
    IN /\ IF rest = <<>> THEN TRUE ELSE newline \/ Last(rest) # "Blank"
       /\ Edit(Text(rest, newline))

CommentOut ==
  /\ "Mark" \in ToSet(rc.lines)
  /\ Edit([rc EXCEPT !.lines = [i \in DOMAIN @ |-> IF @[i] \in ToSet(Block) THEN "Note" ELSE @[i]]])

PasteBlock == "Mark" \in ToSet(rc.lines) /\ rc.newline /\ Edit(Text(rc.lines \o Block, TRUE))

Recode == rc.there = "text" /\ Edit([rc EXCEPT !.there = "other"])

GateInit == rc = NoRc /\ edits = 0 /\ step = [by |-> "nobody", from |-> NoRc, failed |-> FALSE]

GateNext == Install \/ Uninstall \/ AddLine \/ InsertLine \/ DeleteLine \/ CommentOut \/ PasteBlock \/ Recode

GateSpec == GateInit /\ [][GateNext]_gateVars

-----------------------------------------------------------------------------
GateTypeOK ==
  /\ rc.lines \in Seq(Line) /\ edits \in 0 .. MaxEdits
  /\ rc.newline \/ rc.lines = <<>> \/ Last(rc.lines) # "Blank"

OwnAt(lines) == {i \in DOMAIN lines : lines[i] \in UserLines \cup {"Note"}}
Own(c) == AtPositions(c.lines, OwnAt(c.lines))

\* Every block in the file is one that install has written, closed and on its own.
WholeBlocks(c) ==
  \A i \in DOMAIN c.lines :
    /\ c.lines[i] = "Mark" => i + 2 <= Len(c.lines) /\ SubSeq(c.lines, i, i + 2) = Block
    /\ c.lines[i] = "Eval" => i > 1 /\ c.lines[i - 1] = "Mark"
    /\ c.lines[i] = "End" => i > 2 /\ c.lines[i - 2] = "Mark"

(* Neither command loses, adds or moves a line of the user, as long as the   *)
(* file is text and the blocks in it are whole; but a write that fails or is *)
(* cut by a crash, in place and with no copy, loses the lines that come last.*)
OwnLinesKept ==
  step.by \in {"install", "uninstall"} /\ step.from.there # "other" /\ WholeBlocks(step.from) =>
    IF step.failed THEN IsPrefix(Own(rc), Own(step.from)) ELSE Own(rc) = Own(step.from)

(* Uninstall leaves nothing of blocks that are whole, also when somebody has *)
(* copied one, unless its write fails.                                       *)
NothingOfBlockLeft ==
  step.by = "uninstall" /\ ~step.failed /\ step.from.there # "other" /\ WholeBlocks(step.from) =>
    ToSet(Block) \cap ToSet(rc.lines) = {}

(* After install the block is there and is run, unless the user's own lines  *)
(* quote it, its write fails, or one that failed has left a marker without   *)
(* the rest (no whole block: install takes it for one), and install has not  *)
(* doubled it.                                                               *)
InstallIsActive ==
  step.by = "install" /\ ~step.failed /\ WholeBlocks(step.from) /\ "Note" \notin ToSet(step.from.lines) =>
    /\ WholeBlocks(rc) /\ "Eval" \in ToSet(rc.lines)
    /\ "Mark" \in ToSet(step.from.lines) => rc.there = "other" \/ Len(rc.lines) <= Len(step.from.lines)

(* Whatever is installed, edited and removed in turn, the block comes and    *)
(* goes whole and the user's lines stay, and a failing write takes of them   *)
(* the last ones only (install_gate.rs, cli.rs).                             *)
BlockComesAndGoes == OwnLinesKept /\ NothingOfBlockLeft /\ InstallIsActive
=============================================================================
