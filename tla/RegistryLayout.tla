--------------------------- MODULE RegistryLayout ---------------------------
(* Where the registries keep what they serve: the paths under which package  *)
(* managers ask for a document, for which parser.rs, proxy.rs and            *)
(* git_fetch.rs are written.  A request carries the document it asks for     *)
(* (doc); the code has to find it out from the host and the path alone.      *)
EXTENDS ProxyParsing

Forms == {"crate", "tgz", "sdist", "wheel", "zip", "nupkg", "vsix", "git", "index", "other"}
Ecosystems == {"crates", "npm", "pypi", "nuget", "vscode", "git"}

Dashed == Seq(STRING) \ {<<>>}
NonBlank == Dashed \ {<<"">>}
Segment == [parts : Dashed, ext : STRING]
Host == Dashed
FileOf(path) == path[Len(path)]

CrateUrl(id, path) ==
  /\ id.eco = "crates" /\ id.name.scope = ""
  /\ path = <<Word("api"), Word("v1"), Word("crates"),
              Seg(id.name.parts, ""), Seg(id.version, ""), Word("download")>>

TarballUrl(id, path) ==
  LET name == Seg(id.name.parts, "")
      file == Seg(id.name.parts \o id.version, "tgz")
  IN /\ id.eco = "npm"
     /\ \/ id.name.scope = "" /\ path = <<name, Word("-"), file>>
        \/ id.name.scope \in ScopeTokens /\ path = <<Word(id.name.scope), name, Word("-"), file>>

(* A distribution for Python: its name, its version and, for a wheel, tags;  *)
(* no part of the name but the first begins with a digit.                    *)
PypiUrl(id, path, exts) ==
  LET n == Len(id.name.parts)
      parts == FileOf(path).parts
  IN /\ id.eco = "pypi" /\ id.name.scope = ""
     /\ path # <<>> /\ FileOf(path).ext \in exts
     /\ n < Len(parts) /\ SubSeq(parts, 1, n) = id.name.parts /\ id.version = <<parts[n + 1]>>
     /\ parts[n + 1] \in NumberTokens /\ \A i \in 2 .. n : parts[i] \notin NumberTokens

NupkgUrl(id, path) ==
  /\ id.eco = "nuget" /\ id.name.scope = ""
  /\ Len(path) = 4 /\ path[4].ext = "nupkg"
  /\ path[1] = Word("v3-flatcontainer") /\ path[2] = Seg(id.name.parts, "") /\ path[3] = Seg(id.version, "")

\* The Microsoft marketplace and OpenVSX.
VsixUrl(id, path) ==
  LET name == Seg(id.name.parts, "")
      version == Seg(id.version, "")
  IN /\ id.eco = "vscode" /\ id.name.scope # ""
     /\ \/ path = <<Word("_apis"), Word("public"), Word("gallery"), Word("publishers"),
                    Word(id.name.scope), Word("vsextensions"), name, version, Word("vspackage")>>
        \/ /\ Len(path) = 6 /\ path[1] = Word("api") /\ path[2] = Word(id.name.scope)
           /\ path[3] = name /\ path[4] = version /\ path[5] = Word("file") /\ path[6].ext = "vsix"

(* A repository's tarballs at a ref, and the first request of a clone.       *)
GitUrl(id, host, path) ==
  LET of(owner, repo) == id.name = Name(host[1], owner.parts \o repo.parts)
  IN /\ id.eco = "git"
     /\ \/ /\ host = <<"codeload", "github", "com">>
           /\ Len(path) = 4 /\ path[3] \in {Word("tar.gz"), Word("zip"), Word("legacy.tar.gz"), Word("legacy.zip")}
           /\ ~IsBlank(path[1]) /\ ~IsBlank(path[4])
           /\ path[2].ext = "" /\ ~IsBlank(path[2])
           /\ of(path[1], path[2]) /\ id.version = path[4].parts
        \/ /\ host = <<"api", "github", "com">>
           /\ Len(path) = 5 /\ path[1] = Word("repos") /\ path[4] \in {Word("tarball"), Word("zipball")}
           /\ ~IsBlank(path[2]) /\ ~IsBlank(path[3]) /\ path[3].ext = "" /\ ~IsBlank(path[5])
           /\ of(path[2], path[3]) /\ id.version = path[5].parts
        \/ /\ host = <<"github", "com">>
           /\ Len(path) = 4 /\ path[2].ext = "git" /\ path[3] = Word("info") /\ path[4] = Word("refs")
           /\ ~IsBlank(path[1])
           /\ of(path[1], path[2]) /\ id.version = HeadRef

(* What a registry says of a package: its versions, on one page or several.  *)
(* npm's name may also come as one segment with an escaped slash.            *)
IndexUrl(id, path, escaped) ==
  \/ id.eco = "crates" /\ Len(path) \in 1 .. 3
  \/ id.eco = "npm" /\ escaped /\ Len(path) = 1
  \/ /\ id.eco = "npm" /\ ~escaped /\ \A i \in DOMAIN path : ~IsBlank(path[i])
     /\ Len(path) = IF path[1].parts[1] \in ScopeTokens THEN 2 ELSE 1
  \/ /\ id.eco = "pypi" /\ Len(path) \in {2, 3} /\ ~IsBlank(path[2])
     /\ \/ path[1] = Word("simple") /\ (Len(path) = 3 => IsBlank(path[3]))
        \/ path[1] = Word("pypi") /\ Len(path) = 3 /\ path[3] = Word("json")
     /\ FileOf(path).ext = ""
  \/ /\ id.eco = "nuget" /\ FileOf(path).ext = "json"
     /\ \/ /\ Len(path) = 3 /\ path[1] = Word("v3-flatcontainer") /\ ~IsBlank(path[2])
           /\ path[3].parts = <<"index">>
        \/ /\ Len(path) >= 4 /\ path[1] = Word("v3") /\ path[2].parts[1] \in RegistryBases
           /\ \/ FileOf(path).parts = <<"index">>
              \/ \E i \in 4 .. Len(path) - 1 : path[i] = Word("page")
  \/ /\ id.eco = "vscode"
     /\ path \in {<<Word("_apis"), Word("public"), Word("gallery"), Word("extensionquery")>>,
                  <<Word("vscode"), Word("gallery"), Word("extensionquery")>>}

\* Pages: of one version at npm, of anything at a host that is no registry.
OtherUrl(id, path) ==
  id.eco = "npm" =>
    Len(path) = 2 /\ path[1].parts[1] \notin ScopeTokens /\ ~IsBlank(path[2])

Url(doc, host, path, escaped) ==
  CASE doc.form = "crate" -> CrateUrl(doc.id, path)
    [] doc.form = "tgz" -> TarballUrl(doc.id, path)
    [] doc.form = "sdist" -> PypiUrl(doc.id, path, {"tar.gz"})
    [] doc.form = "zip" -> PypiUrl(doc.id, path, {"zip"})
    [] doc.form = "wheel" -> PypiUrl(doc.id, path, {"whl"})
    [] doc.form = "nupkg" -> NupkgUrl(doc.id, path)
    [] doc.form = "vsix" -> VsixUrl(doc.id, path)
    [] doc.form = "git" -> GitUrl(doc.id, host, path)
    [] doc.form = "index" -> IndexUrl(doc.id, path, escaped)
    [] doc.form = "other" -> OtherUrl(doc.id, path)

(* The list of hosts that must have the registry for the proxy to know it;   *)
(* the hosts of a forge, and those that serve no packages, are in none.      *)
ListOf(doc) ==
  CASE doc.form = "crate" -> "crates"
    [] doc.form = "tgz" -> "npm"
    [] doc.form \in {"sdist", "zip", "wheel"} -> "pypi_files"
    [] doc.form = "nupkg" -> "nuget"
    [] doc.form = "vsix" -> "vscode_marketplace"
    [] doc.form = "index" ->
         (CASE doc.id.eco = "crates" -> "crates_sparse"
            [] doc.id.eco = "pypi" -> "pypi_index"
            [] doc.id.eco = "vscode" -> "vscode_marketplace"
            [] OTHER -> doc.id.eco)
    [] OTHER -> IF doc.id.eco = "npm" THEN "npm" ELSE "none"

Forges == {<<"codeload", "github", "com">>, <<"api", "github", "com">>, <<"github", "com">>}

(* r is a request that a package manager makes of registries which the proxy *)
(* has been told of, each in the list of its kind.                           *)
WellFormed(r, hosts) ==
  /\ r.host \in Host /\ r.path \in Seq(Segment)
  /\ Nothing \notin {r.host, r.path, r.doc.id}
  /\ \A c \in CommitTokens \cup {Nothing} : Nothing # [id |-> r.doc.id, commit |-> c]
  /\ {r.query, r.escaped} \subseteq BOOLEAN
  /\ r.doc.form \in Forms /\ r.doc.id.eco \in Ecosystems
  /\ r.doc.id = Id(r.doc.id.eco, Name(r.doc.id.name.scope, r.doc.id.name.parts), r.doc.id.version)
  /\ r.doc.id.name.parts \in NonBlank
  /\ r.doc.form \notin {"index", "other"} => r.doc.id.version \in NonBlank
  /\ Url(r.doc, r.host, r.path, r.escaped)
  /\ \A l \in Lists : HostIn(hosts, l, r.host) <=> l = ListOf(r.doc)
  /\ r.host \in Forges <=> r.doc.form = "git"
=============================================================================
