---------------------------- MODULE MCDepsWatch ----------------------------
(* Two lockfiles, one of them where the scan does not look. `old` and `new`  *)
(* are versions of one package, `new` too young at first. The locks also     *)
(* hold entries that are not checked (from git, or young but ignored), and   *)
(* one that was uploaded in two parts.                                       *)
EXTENDS DepsWatch

CONSTANTS app, venv, oldLock, newLock, garbled, gone, untracked

Pkg(name, version) == [eco |-> "pypi", name |-> name, version |-> version]
Entry(name, version, source) ==
  [name |-> name, version |-> version, source |-> source, local |-> FALSE]

MCRegistry ==
  (Pkg(<<"a">>, "1") :> <<1, 0>>) @@ (Pkg(<<"a">>, "2") :> <<1>>)
    @@ (Pkg(<<"t", "a">>, "9") :> <<1>>)
MCIgnore == {<<"t", "*">>, <<"*", "b">>}

OldLock ==
  [format |-> "uv.lock",
   entries |-> {Entry(<<"a">>, "1", "registry"), Entry(<<"t", "a">>, "9", "registry"),
                Entry(<<"g">>, "0", "git")}]
NewLock ==
  [format |-> "poetry.lock",
   entries |-> {Entry(<<"a">>, "2", "none")}
               \cup OldLock.entries]

MCLockfiles == {app, venv}
MCHidden == {venv}
MCLocks == {oldLock, newLock}
MCLockOf == (oldLock :> OldLock) @@ (newLock :> NewLock)
MCAtStart == (app :> newLock) @@ (venv :> oldLock)
MCInHead == (app :> oldLock) @@ (venv :> untracked)
=============================================================================
