-------------------------- MODULE MCProxyRequests ---------------------------
(* One connection, which may be opened to any host again and again; requests *)
(* in every form the five registries and GitHub have.                        *)
EXTENDS ProxyRequests

NpmHost == <<"registry", "npmjs", "org">>
MirrorHost == <<"npm", "corp">>
FilesHost == <<"files", "pythonhosted", "org">>
PypiHost == <<"pypi", "org">>
CratesHost == <<"crates", "io">>
SparseHost == <<"index", "crates", "io">>
NugetHost == <<"api", "nuget", "org">>
GalleryHost == <<"marketplace", "visualstudio", "com">>
VsxHost == <<"open-vsx", "org">>
GitHost == <<"codeload", "github", "com">>
ApexHost == <<"corp">>

Plain(t) == Name("", <<t>>)
Npm(v) == Id("npm", Name("", <<"left", "pad">>), <<v>>)
Scoped(v) == Id("npm", Name("@types", <<"node">>), v)
Pypi(v) == Id("pypi", Name("", <<"my", "pkg">>), <<v>>)
Extension(v) == Id("vscode", Name("pub", <<"ext">>), <<v>>)
Crate(v) == Id("crates", Plain("serde"), <<v>>)
Nuget(v) == Id("nuget", Plain("json"), <<v>>)
Repo(host, ref) == Id("git", Name(host, <<"owner", "repo">>), <<ref>>)
Index(id) == [id EXCEPT !.version = <<>>]

NpmUA == [head |-> "npm/", words |-> {}]
UvxUA == [head |-> "uv/", words |-> {"uvx"}]
CodeUA == [head |-> "VSCode", words |-> {}]

Request(host, path, form, id) ==
  [host |-> host, path |-> path, query |-> FALSE, escaped |-> FALSE, ua |-> NpmUA,
   doc |-> [form |-> form, id |-> id]]
Words(ts) == [i \in DOMAIN ts |-> Word(ts[i])]
File(parts, ext) == <<Seg(parts, ext)>>

LeftPad == Word("left-pad")
LeftPadSeg == Seg(<<"left", "pad">>, "")

NpmRequests ==
  {Request(h, <<LeftPadSeg, Word("-")>> \o File(<<"left", "pad", v>>, "tgz"), "tgz", Npm(v)) :
     h \in {NpmHost, MirrorHost}, v \in {"1.0", "2.0"}}
  \cup {Request(NpmHost, Words(<<"@types", "node", "-">>) \o File(<<"node">> \o v, "tgz"),
                "tgz", Scoped(v)) : v \in {<<"1.0", "beta">>, <<"2.0">>}}
  \cup {Request(NpmHost, <<LeftPadSeg>>, "index", Index(Npm("1.0"))),
        Request(NpmHost, Words(<<"@types", "node">>), "index", Index(Scoped(<<>>))),
        [Request(NpmHost, Words(<<"@types%2fnode">>), "index", Index(Scoped(<<>>)))
           EXCEPT !.escaped = TRUE],
        Request(NpmHost, <<LeftPadSeg, Word("1.0")>>, "other", Npm("1.0"))}

PypiRequests ==
  {Request(FilesHost, Words(<<"packages", "ab">>) \o File(<<"my", "pkg", v>>, "tar.gz"),
           "sdist", Pypi(v)) : v \in {"1.0", "2.0"}}
  \cup {[Request(FilesHost, Words(<<"packages", "ab">>) \o File(<<"my", "pkg", v>>, "tar.gz"),
                 "sdist", Pypi(v)) EXCEPT !.query = TRUE, !.ua = UvxUA] : v \in {"1.0"}}
  \cup {Request(FilesHost, Words(<<"packages", "ab">>)
                  \o File(<<"my", "pkg", v, "py3", "none", "any">>, "whl"), "wheel", Pypi(v)) :
          v \in {"1.0", "2.0"}}
  \cup {Request(PypiHost, <<Word("simple"), LeftPadSeg, Blank>>, "index", Index(Pypi("1.0"))),
        Request(PypiHost, <<Word("pypi"), LeftPadSeg, Word("json")>>, "index", Index(Pypi("1.0")))}

OtherRequests ==
  {Request(CratesHost, Words(<<"api", "v1", "crates", "serde", v, "download">>), "crate",
           Crate(v)) : v \in {"1.0", "2.0"}}
  \cup {Request(NugetHost, Words(<<"v3-flatcontainer", "json", v>>) \o File(<<"json">>, "nupkg"),
                "nupkg", Nuget(v)) : v \in {"1.0", "2.0"}}
  \cup {[Request(GalleryHost, Words(<<"_apis", "public", "gallery", "publishers", "pub",
                   "vsextensions", "ext", "1.0", "vspackage">>), "vsix", Extension("1.0"))
           EXCEPT !.ua = CodeUA],
        [Request(VsxHost, Words(<<"api", "pub", "ext", "1.0", "file">>) \o File(<<"ext">>, "vsix"),
                 "vsix", Extension("1.0")) EXCEPT !.ua = CodeUA],
        Request(GalleryHost, Words(<<"_apis", "public", "gallery", "extensionquery">>), "index",
                Index(Extension("1.0"))),
        Request(VsxHost, Words(<<"vscode", "gallery", "extensionquery">>), "index",
                Index(Extension("1.0"))),
        Request(SparseHost, Words(<<"se", "rd", "serde">>), "index", Index(Crate("1.0"))),
        Request(NugetHost, Words(<<"v3-flatcontainer", "json">>) \o File(<<"index">>, "json"),
                "index", Index(Nuget("1.0"))),
        Request(NugetHost, Words(<<"v3", "registration5", "json">>) \o File(<<"index">>, "json"),
                "index", Index(Nuget("1.0"))),
        Request(GitHost, Words(<<"owner", "repo", "tar.gz", "sha">>), "git",
                Repo("codeload", "sha")),
        Request(<<"github", "com">>, <<Word("owner"), Seg(<<"repo">>, "git"), Word("info"),
                Word("refs")>>, "git", Repo("github", "HEAD")),
        Request(<<"api", "github", "com">>, Words(<<"repos", "owner", "repo", "tarball", "main">>),
                "git", Repo("api", "main")),
        Request(ApexHost, <<Word("page")>>, "other", Id("git", Plain("page"), <<>>))}

MCRequests == NpmRequests \cup PypiRequests \cup OtherRequests
MCRefused == {Npm("2.0"), Scoped(<<"2.0">>), Pypi("2.0"), Crate("2.0"), Nuget("2.0")}
MCMalicious == {<<<<"evil">>, <<"1.0">>>>}

Manifest1(says) == Entry("package.json", 2, says)
Bundled(name, version) ==
  [Entry("package.json", 4, {}) EXCEPT !.package = <<<<name>>, version>>]
Body(forms, b) == [forms |-> forms, body |-> b]
Docs == Forms \ {"tgz", "sdist", "vsix"}
MCArchives ==
  {Body(Docs, NoArchive),
   Body({"tgz"}, Archive("gzip", FALSE, <<Manifest1({"script"})>>)),
   Body({"tgz"}, Archive("gzip", TRUE, <<Manifest1({"script"})>>)),
   Body({"tgz"}, Archive("gzip", FALSE, <<Entry("package.json", 3, {}), Manifest1({"script", "hollow"}),
                                          Entry("main.js", 2, {})>>)),
   Body({"tgz"}, Archive("gzip", FALSE, <<Manifest1({"script"}),
                                          [Entry("main.js", 3, {}) EXCEPT !.escapes = TRUE]>>)),
   Body({"tgz"}, Archive("gzip", FALSE, <<Manifest1({"hollow"})>>)),
   Body({"tgz", "sdist"}, Archive("gzip", FALSE, <<[Manifest1({"script"}) EXCEPT !.readable = FALSE]>>)),
   Body({"sdist"}, Archive("gzip", FALSE, <<Entry("pyproject.toml", 2, {"backend"}),
                                            Entry("setup.py", 3, {})>>)),
   Body({"sdist"}, Archive("gzip", FALSE, <<Entry("pyproject.toml", 2, {"backend"}),
                                            Entry("setup.py", 2, {})>>)),
   Body({"vsix"}, Archive("zip", FALSE, <<Manifest1({"startup"})>>)),
   Body({"vsix"}, Archive("zip", FALSE, <<Manifest1({}), Bundled("evil", <<"1.0">>),
                                          Bundled("good", <<>>)>>)),
   Body({"vsix"}, Archive("zip", FALSE, <<Bundled("a", <<"1.0">>), Bundled("b", <<"1.0">>),
                                          Bundled("evil", <<"1.0">>)>>)),
   Body({"vsix"}, Archive("zip", FALSE, <<Manifest1({}), Entry("main.js", 2, {"high"})>>)),
   Body({"vsix"}, Archive("zip", TRUE, <<Manifest1({"startup"})>>))}

NoHosts == [l \in Lists |-> {}]
GoodUrl == [scheme |-> "https", host |-> TRUE, userinfo |-> FALSE, control |-> FALSE]
NoUrl == [GoodUrl EXCEPT !.scheme = "", !.host = FALSE]
Base == [policy |-> "off", onFailure |-> "block", allow |-> {}, clones |-> "connection",
         file |-> NoHosts, extra |-> [NoHosts EXCEPT !["npm"] = {MirrorHost}], egress |-> {},
         logging |-> TRUE, unwritable |-> FALSE, otlp |-> TRUE, knownBad |-> FALSE,
         url |-> GoodUrl, token |-> TRUE]

MCConfigs ==
  {Base,
   [Base EXCEPT !.policy = "audit", !.unwritable = TRUE],
   [Base EXCEPT !.policy = "block", !.knownBad = TRUE, !.url = NoUrl],
   [Base EXCEPT !.policy = "block", !.clones = "request", !.token = FALSE],
   [Base EXCEPT !.policy = "strip", !.allow = {Pypi("1.0").name, Extension("1.0").name}],
   [Base EXCEPT !.policy = "strip", !.onFailure = "passthrough", !.knownBad = TRUE,
                !.allow = {Npm("1.0").name}, !.logging = FALSE],
   [Base EXCEPT !.policy = "block", !.otlp = FALSE,
                !.egress = {[wild |-> TRUE, host |-> <<"corp">>],
                            [wild |-> FALSE, host |-> NpmHost]}]}
=============================================================================
