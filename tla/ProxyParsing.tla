---------------------------- MODULE ProxyParsing ----------------------------
(* What sakimori-proxy makes of a request before it acts on it: the registry *)
(* hosts it knows (registries.rs), the parser that takes the path apart      *)
(* (parser.rs), the documents it will rewrite (classify_response), pinned    *)
(* extensions (parse_vsix_download_path), git fetches (git_fetch.rs), the    *)
(* allow-list of hosts (host_allow.rs) and the kind of install               *)
(* (classify_execution_mode).                                                *)
(*                                                                           *)
(* A path is its segments; a segment is the parts its dashes separate and    *)
(* its extension, so a file name is taken apart the way the parsers do it.   *)
(* A query is a flag: the code only ever cuts it off.  Case is left out: the *)
(* comparisons below ignore it.                                              *)
EXTENDS Naturals, SequencesExt, Positions

CONSTANTS
  NumberTokens,  \* the parts that start with a digit
  ScopeTokens,   \* the segments that start with "@"
  RegistryBases, \* the segments that start with "registration"
  CommitTokens,  \* the segments that are 40 lower-case hex digits
  Nothing        \* the None of an Option

Lists == {"crates", "crates_sparse", "npm", "pypi_files", "pypi_index", "nuget",
          "vscode_marketplace"}

Seg(parts, ext) == [parts |-> parts, ext |-> ext]
Word(t) == Seg(<<t>>, "")
Blank == Word("")
IsBlank(s) == s = Blank

Name(scope, parts) == [scope |-> scope, parts |-> parts]
Id(eco, name, version) == [eco |-> eco, name |-> name, version |-> version]

Unscoped(s) == Name("", s.parts)
Version(s) == s.parts
After(prefix, parts) == SubSeq(parts, Len(prefix) + 1, Len(parts))

-----------------------------------------------------------------------------
(* Wrong variants of definitions below.                                      *)

\* Recognise only unscoped tarballs.
UnscopedOnly(path) ==
  LET plain == Len(path) = 3 /\ path[2] = Word("-") /\ ~IsBlank(path[1])
      file  == path[Len(path)]
  IN IF /\ plain /\ file.ext = "tgz"
        /\ IsStrictPrefix(path[1].parts, file.parts)
     THEN Id("npm", Unscoped(path[1]), After(path[1].parts, file.parts))
     ELSE Nothing

-----------------------------------------------------------------------------
(* Registry hosts.  Each step of the merge appends to what is there.         *)

DefaultHosts ==
  [crates |-> {<<"crates", "io">>}, crates_sparse |-> {<<"index", "crates", "io">>},
   npm |-> {<<"registry", "npmjs", "org">>},
   pypi_files |-> {<<"files", "pythonhosted", "org">>}, pypi_index |-> {<<"pypi", "org">>},
   nuget |-> {<<"api", "nuget", "org">>},
   vscode_marketplace |-> {<<"marketplace", "visualstudio", "com">>, <<"open-vsx", "org">>}]

Extend(hosts, more) == [l \in Lists |-> hosts[l] \cup more[l]]
Merge(file, extra) == Extend(Extend(DefaultHosts, file), extra)

HostIn(hosts, list, host) == host \in hosts[list]
ShouldIntercept(hosts, host) == \E l \in Lists : HostIn(hosts, l, host)

-----------------------------------------------------------------------------
(* The parsers of pinned artifacts: the identity they read, or Nothing where *)
(* the request is metadata or unknown, both of which are let through.        *)

ParseCrates(path) ==
  IF /\ Len(path) >= 6
     /\ SubSeq(path, 1, 3) = <<Word("api"), Word("v1"), Word("crates")>>
     /\ ~IsBlank(path[4]) /\ ~IsBlank(path[5]) /\ path[6] = Word("download")
  THEN Id("crates", Unscoped(path[4]), Version(path[5]))
  ELSE Nothing

ParseNpm(path) ==
  LET unscoped == Len(path) = 3 /\ path[2] = Word("-") /\ ~IsBlank(path[1])
      scoped   == /\ Len(path) = 4 /\ path[3] = Word("-") /\ ~IsBlank(path[2])
                  /\ path[1].parts[1] \in ScopeTokens
      base == IF unscoped THEN path[1].parts ELSE path[2].parts
      file == path[Len(path)]
  IN IF /\ unscoped \/ scoped
        /\ file.ext = "tgz" /\ IsStrictPrefix(base, file.parts)
     THEN Id("npm", Name(IF scoped THEN path[1].parts[1] ELSE "", base),
             After(base, file.parts))
     ELSE Nothing

ParsePypi(path) ==
  LET file == path[Len(path)]
      at   == {i \in 2..Len(file.parts) : file.parts[i] \in NumberTokens}
      i    == CHOOSE i \in at : \A j \in at : i <= j
  IN IF path # <<>> /\ file.ext \in {"whl", "tar.gz", "zip"} /\ at # {}
     THEN Id("pypi", Name("", SubSeq(file.parts, 1, i - 1)), <<file.parts[i]>>)
     ELSE Nothing

ParseNuget(path) ==
  IF /\ Len(path) = 4 /\ path[1] = Word("v3-flatcontainer")
     /\ ~IsBlank(path[2]) /\ ~IsBlank(path[3]) /\ path[4].ext = "nupkg"
  THEN Id("nuget", Unscoped(path[2]), Version(path[3]))
  ELSE Nothing

(* parsers_from_hosts fixes an order, and the first parser that has the host *)
(* answers for it, whatever the path.  Those that only know metadata pin     *)
(* nothing.                                                                  *)
Parsers == <<"crates", "crates_sparse", "npm", "pypi_files", "pypi_index", "nuget",
             "vscode_marketplace">>

ParseWith(list, path) ==
  CASE list = "crates" -> ParseCrates(path)
    [] list = "npm" -> ParseNpm(path)
    [] list = "pypi_files" -> ParsePypi(path)
    [] list = "nuget" -> ParseNuget(path)
    [] OTHER -> Nothing

ParseForHost(hosts, host, path) ==
  LET mine == {i \in DOMAIN Parsers : HostIn(hosts, Parsers[i], host)}
  IN IF mine = {} THEN Nothing
     ELSE ParseWith(Parsers[CHOOSE i \in mine : \A j \in mine : i <= j], path)

(* Only source distributions run code when they are installed.  The query is *)
(* not cut off here.                                                         *)
PathIsPypiSdist(path, query) ==
  /\ ~query /\ path # <<>>
  /\ path[Len(path)].ext \in {"tar.gz", "tgz", "zip"}

(* A pinned .vsix, in the form of the Microsoft marketplace or of OpenVSX;   *)
(* empty segments are dropped first.                                         *)
ParseVsixDownloadPath(path) ==
  LET segs == AtPositions(path, {i \in DOMAIN path : ~IsBlank(path[i])})
      full == Len(segs) = 9
      gallery == <<Word("_apis"), Word("public"), Word("gallery"), Word("publishers")>>
  IN CASE /\ full /\ SubSeq(segs, 1, 4) = gallery
          /\ segs[6] = Word("vsextensions") /\ segs[9] = Word("vspackage")
            -> Id("vscode", Name(segs[5].parts[1], segs[7].parts), Version(segs[8]))
       [] Len(segs) = 6 /\ segs[1] = Word("api") /\ segs[5] = Word("file")
          /\ segs[6].ext = "vsix"
            -> Id("vscode", Name(segs[2].parts[1], segs[3].parts), Version(segs[4]))
       [] OTHER -> Nothing

-----------------------------------------------------------------------------
(* Which documents are rewritten, and by which rewriter.                     *)

Trimmed(path) ==
  IF path # <<>> /\ IsBlank(path[Len(path)]) THEN Front(path) ELSE path

IsNpmPackumentPath(path) ==
  LET p == Trimmed(path)
  IN /\ p # <<>> /\ ~IsBlank(p[1])
     /\ IF p[1].parts[1] \in ScopeTokens THEN Len(p) = 2 /\ ~IsBlank(p[2]) ELSE Len(p) = 1

IsPypiJsonApiPath(path) ==
  LET p == Trimmed(path)
  IN Len(p) >= 2 /\ p[1] = Word("pypi") /\ p[Len(p)] = Word("json")

ParsePypiSimplePkg(path) ==
  LET p == Trimmed(path)
  IN Len(p) = 2 /\ p[1] = Word("simple") /\ ~IsBlank(p[2])

IsNugetRegistrationPath(path) ==
  /\ Len(path) >= 4 /\ path[1] = Word("v3") /\ path[2].parts[1] \in RegistryBases
  /\ \/ path[Len(path)] = Seg(<<"index">>, "json")
     \/ /\ \E i \in 4..Len(path) - 1 : path[i] = Word("page")
        /\ path[Len(path)].ext = "json"

ParseNugetFlatcontainerIndexPath(path) ==
  /\ Len(path) = 3 /\ path[1] = Word("v3-flatcontainer") /\ ~IsBlank(path[2])
  /\ path[3] = Seg(<<"index">>, "json")

IsExtensionqueryPath(path) ==
  Trimmed(path) \in {<<Word("_apis"), Word("public"), Word("gallery"), Word("extensionquery")>>,
                     <<Word("vscode"), Word("gallery"), Word("extensionquery")>>}

(* classify_response: the first list that has the host and knows the path.   *)
RewriteTarget(hosts, host, path) ==
  LET On(list) == HostIn(hosts, list, host)
  IN IF On("crates_sparse") THEN "CratesSparse"
     ELSE IF On("npm") /\ IsNpmPackumentPath(path) THEN "NpmPackument"
     ELSE IF On("pypi_index") /\ IsPypiJsonApiPath(path) THEN "PypiJsonApi"
     ELSE IF On("pypi_index") /\ ParsePypiSimplePkg(path) THEN "PypiSimpleIndex"
     ELSE IF On("nuget") /\ IsNugetRegistrationPath(path) THEN "NugetRegistration"
     ELSE IF On("nuget") /\ ParseNugetFlatcontainerIndexPath(path) THEN "NugetFlatContainerIndex"
     ELSE IF On("vscode_marketplace") /\ IsExtensionqueryPath(path) THEN "VscodeExtensionQuery"
     ELSE Nothing

-----------------------------------------------------------------------------
(* Git fetches.  Any tail of segments is the ref; one segment stands for it. *)

HeadRef == <<"HEAD">>
StripGitSuffix(s) == IF s.ext \in {"", "git"} THEN s.parts ELSE Append(s.parts, s.ext)

GitFetch(host, owner, repo, ref) ==
  [id |-> Id("git", Name(host[1], owner.parts \o StripGitSuffix(repo)), ref),
   commit |-> IF ref[1] \in CommitTokens THEN ref[1] ELSE Nothing]

ParseCodeload(host, path) ==
  IF /\ Len(path) >= 4 /\ ~IsBlank(path[1]) /\ ~IsBlank(path[2]) /\ ~IsBlank(path[4])
     /\ path[3] \in {Word("tar.gz"), Word("zip"), Word("legacy.tar.gz"), Word("legacy.zip")}
  THEN GitFetch(host, path[1], path[2], Version(path[4]))
  ELSE Nothing

ParseApiGithub(host, path) ==
  IF /\ Len(path) >= 4 /\ path[1] = Word("repos") /\ ~IsBlank(path[2]) /\ ~IsBlank(path[3])
     /\ path[4] \in {Word("tarball"), Word("zipball")}
  THEN GitFetch(host, path[2], path[3],
                IF Len(path) > 4 /\ ~IsBlank(path[5]) THEN Version(path[5]) ELSE HeadRef)
  ELSE Nothing

ParseGithubClone(host, path) ==
  IF /\ Len(path) = 4 /\ ~IsBlank(path[1]) /\ path[2].ext = "git"
     /\ path[3] = Word("info") /\ path[4] = Word("refs")
  THEN GitFetch(host, path[1], path[2], HeadRef)
  ELSE Nothing

ClassifyGit(host, path) ==
  CASE host = <<"codeload", "github", "com">> -> ParseCodeload(host, path)
    [] host = <<"api", "github", "com">> -> ParseApiGithub(host, path)
    [] host = <<"github", "com">> -> ParseGithubClone(host, path)
    [] OTHER -> Nothing

-----------------------------------------------------------------------------
(* The allow-list of hosts: `a.b` is that host, `*.a.b` any name below it.   *)

PatternMatches(pattern, host) ==
  IF pattern.wild THEN IsStrictSuffix(pattern.host, host) ELSE host = pattern.host

(* parse_pattern refuses any other asterisk, and the proxy does not start.   *)
BadPattern(pattern) == "*" \in ToSet(pattern.host) \/ pattern.host = <<>>

Allows(patterns, host) ==
  patterns = {} \/ \E p \in patterns : PatternMatches(p, host)

-----------------------------------------------------------------------------
(* The User-Agent: what it starts with and the words it contains.            *)

ExecutionMode(ua) ==
  IF ua.words \cap {"npx", "pnpm/dlx", "yarn dlx", "uvx", "pipx", "cargo-install"} # {}
  THEN "ephemeral"
  ELSE IF \/ ua.head \in {"npm/", "pnpm/", "yarn/", "cargo", "pip/", "poetry/", "uv/", "nuget"}
          \/ ua.words \cap {"nuget command line", "nuget xplat command line", "dotnet"} # {}
  THEN "persistent" ELSE "unknown"
=============================================================================
